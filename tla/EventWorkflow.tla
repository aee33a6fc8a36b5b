---- MODULE EventWorkflow ----
(***************************************************************************)
(* One execution of EventAnalysisWorkflow (internal/temporal/workflows.go):*)
(* triage an event; if it calls for it, collect the state around it,       *)
(* analyse it and alert.  Two sets of activity options are in force: two   *)
(* attempts for triage and alert, and, because deepCtx names no            *)
(* RetryPolicy, the service's default without a limit for the deep work.   *)
(* Workers, service and client act as in module AnalysisWorkflow.          *)
(***************************************************************************)
EXTENDS ClusterAnalysis, TemporalActivities

CONSTANTS
    Clusters,       \* the cluster states CollectClusterStateActivity may return
    Reasons,        \* the values of input.Event.Reason
    QuickAttempts   \* RetryPolicy.MaximumAttempts of activityOpts (2 in the code)

ASSUME QuickAttemptsAssumption == QuickAttempts \in Nat \ {0}
ASSUME EventNilAssumption ==
    /\ Nil \notin Clusters
    /\ \A p \in {"security", "performance"}, c \in Clusters : Report(p, c) # Nil
ASSUME PodsAssumption == \A c \in Clusters : IsFiniteSet(c.pods)

VARIABLES
    reason,         \* input.Event.Reason
    pc,             \* the activity whose future the workflow code waits for
    future,         \* the future of each activity
    triage,         \* the triage result, or Nil
    clusterState,   \* the workflow's clusterState, or Nil
    report,         \* result.Security and result.Performance, or Nil
    cancelled,      \* the workflow's context is cancelled
    outcome,        \* how the execution closed, as a client sees it
    late,           \* attempts of SendAlertsActivity given up but still running
    alerts          \* alerts emitted so far

vars == <<reason, pc, future, triage, clusterState, report, cancelled, outcome,
          late, alerts>>

DeepActivities == {"collect", "security", "performance"}
Activities == DeepActivities \cup {"triage", "alert"}

----
\* Mutants: the retry policy is inherited by deepCtx; it is nobody's; the triage
\* runs under deepCtx.
PolicyInherited(a) == QuickAttempts
PolicyForgotten(a) == 0
PolicyOfAlertOnly(a) == IF a = "alert" THEN QuickAttempts ELSE 0

MaximumAttempts(a) == IF a \in DeepActivities THEN 0 ELSE QuickAttempts

\* Mutant: the context passed to ExecuteActivity is not the cancellable one.
ScheduleDetached(acts) ==
    future' = [a \in Activities |-> IF a \in acts THEN Scheduled(FALSE) ELSE future[a]]

Schedule(acts) ==
    future' = [a \in Activities |-> IF a \in acts THEN Scheduled(cancelled) ELSE future[a]]

\* Mutant: every triaged event is analysed.
AlwaysDeep(t) == TRUE

NeedsDeepAnalysis(t) == t.deep /\ t.severity \in {"CRITICAL", "HIGH"}

----
Init ==
    /\ reason \in Reasons
    /\ pc = "start"
    /\ future = [a \in Activities |-> NoFuture]
    /\ triage = Nil
    /\ clusterState = Nil
    /\ report = [p \in {"security", "performance"} |-> Nil]
    /\ cancelled = FALSE
    /\ outcome = "open"
    /\ late = 0
    /\ alerts = 0

----
(* The workflow code. *)

Start ==
    /\ pc = "start"
    /\ pc' = "triage"
    /\ Schedule({"triage"})
    /\ UNCHANGED <<reason, triage, clusterState, report, cancelled, outcome, late, alerts>>

\* Triage succeeded: go deep, or return the completed result at once.
TriageSucceeded ==
    /\ pc = "triage"
    /\ future["triage"].state = "ok"
    /\ IF NeedsDeepAnalysis(triage)
       THEN pc' = "collect" /\ Schedule({"collect"}) /\ UNCHANGED outcome
       ELSE pc' = "closed" /\ outcome' = "completed" /\ UNCHANGED future
    /\ UNCHANGED <<reason, triage, clusterState, report, cancelled, late, alerts>>

TriageFailed ==
    /\ pc = "triage"
    /\ future["triage"].state \in {"failed", "canceled"}
    /\ pc' = "closed"
    /\ outcome' = future["triage"].state
    /\ UNCHANGED <<reason, future, triage, clusterState, report, cancelled, late, alerts>>

\* One after the other: collect, then the two analyses; without a cluster
\* state there is nothing to analyse and the alert is next.
CollectReturned ==
    /\ pc = "collect"
    /\ Resolved(future["collect"])
    /\ LET next == IF future["collect"].state = "ok" THEN "security" ELSE "alert"
       IN  pc' = next /\ Schedule({next})
    /\ UNCHANGED <<reason, triage, clusterState, report, cancelled, outcome, late, alerts>>

AnalysisReturned(p, next) ==
    /\ pc = p
    /\ Resolved(future[p])
    /\ report' = IF future[p].state = "ok"
                 THEN [report EXCEPT ![p] = Report(p, clusterState)] ELSE report
    /\ pc' = next
    /\ Schedule({next})
    /\ UNCHANGED <<reason, triage, clusterState, cancelled, outcome, late, alerts>>

\* A failed alert is logged; the workflow returns (result, nil) all the same.
AlertReturned ==
    /\ pc = "alert"
    /\ Resolved(future["alert"])
    /\ pc' = "closed"
    /\ outcome' = "completed"
    /\ UNCHANGED <<reason, future, triage, clusterState, report, cancelled, late, alerts>>

WorkflowStep ==
    \/ Start \/ TriageSucceeded \/ TriageFailed \/ CollectReturned
    \/ AnalysisReturned("security", "performance")
    \/ AnalysisReturned("performance", "alert")
    \/ AlertReturned

----
(* The client, the workers and the service. *)

\* Client.CancelWorkflow.
Cancel ==
    /\ outcome = "open"
    /\ ~cancelled
    /\ cancelled' = TRUE
    /\ future' = [a \in Activities |-> Cancelled(future[a])]
    /\ late' = IF future["alert"].state = "running" THEN late + 1 ELSE late
    /\ UNCHANGED <<reason, pc, triage, clusterState, report, outcome, alerts>>

StartAttempt(a) ==
    /\ future[a].state = "scheduled"
    /\ future' = [future EXCEPT ![a] = Started(@, MaximumAttempts(a))]
    /\ UNCHANGED <<reason, pc, triage, clusterState, report, cancelled, outcome, late,
                   alerts>>

\* What one execution of SendAlertsActivity adds to the emitted alerts.
Emitted == IF AlertCount(report["security"], report["performance"]) > 0 THEN 1 ELSE 0

\* Triage and collection bring their results with them; alerting emits.
CompleteAttempt(a) ==
    /\ future[a].state = "running"
    /\ future' = [future EXCEPT ![a] = Succeeded]
    /\ triage' = IF a = "triage" THEN Triage(reason) ELSE triage
    /\ IF a = "collect" THEN clusterState' \in Clusters ELSE UNCHANGED clusterState
    /\ alerts' = IF a = "alert" THEN alerts + Emitted ELSE alerts
    /\ UNCHANGED <<reason, pc, report, cancelled, outcome, late>>

\* The attempt ends in an error, or its worker dies, before or after the effect.
FailAttempt(a) ==
    /\ future[a].state = "running"
    /\ future' = [future EXCEPT ![a] = RetryOrFail(@, MaximumAttempts(a))]
    /\ \/ UNCHANGED alerts
       \/ a = "alert" /\ alerts' = alerts + Emitted
    /\ UNCHANGED <<reason, pc, triage, clusterState, report, cancelled, outcome, late>>

\* The alert has run for 2 minutes: the service gives the attempt up.
TimeOut ==
    /\ future["alert"].state = "running"
    /\ future' = [future EXCEPT !["alert"] = RetryOrFail(@, MaximumAttempts("alert"))]
    /\ late' = late + 1
    /\ UNCHANGED <<reason, pc, triage, clusterState, report, cancelled, outcome, alerts>>

LateAttempt ==
    /\ late > 0
    /\ late' = late - 1
    /\ alerts' \in {alerts, alerts + Emitted}
    /\ UNCHANGED <<reason, pc, future, triage, clusterState, report, cancelled, outcome>>

\* The execution is closed and nothing runs any more.
Closed ==
    /\ outcome # "open"
    /\ late = 0
    /\ UNCHANGED vars

Next ==
    \/ WorkflowStep
    \/ Cancel
    \/ \E a \in Activities : StartAttempt(a) \/ CompleteAttempt(a) \/ FailAttempt(a)
    \/ TimeOut \/ LateAttempt
    \/ Closed

\* As in AnalysisWorkflow: attempts end, nothing obliges them to succeed.
Fairness ==
    /\ WF_vars(WorkflowStep)
    /\ \A a \in Activities :
          /\ WF_vars(StartAttempt(a))
          /\ WF_vars(CompleteAttempt(a) \/ FailAttempt(a))

Spec == Init /\ [][Next]_vars
FairSpec == Spec /\ Fairness

----
(* Properties. *)

TypeOK ==
    /\ reason \in Reasons
    /\ pc \in Activities \cup {"start", "closed"}
    /\ future \in [Activities -> FutureType(QuickAttempts)]
    /\ triage \in {Nil, Triage(reason)}
    /\ clusterState \in Clusters \cup {Nil}
    /\ \A p \in {"security", "performance"} :
          report[p] \in {Nil} \cup {Report(p, c) : c \in Clusters}
    /\ cancelled \in BOOLEAN
    /\ outcome \in {"open", "completed", "failed", "canceled"}
    /\ late \in 0..QuickAttempts
    /\ alerts \in 0..QuickAttempts

\* What the cluster really holds, independently of the reports and their counts.
CriticalFor(p, c) ==
    \/ p = "security" /\ \E pod \in c.pods : pod.privileged
    \/ p = "performance" /\ \E pod \in c.pods : pod.status = "CrashLoopBackOff"

\* No false alarm: whatever is retried or given up, an alert is only ever sent
\* for an event whose reason calls for deep analysis and a collected state that
\* holds a privileged or crash-looping pod.
EventAlertsSound ==
    alerts > 0 =>
        /\ reason \in {"OOMKilled", "OOMKilling", "CrashLoopBackOff", "FailedScheduling"}
        /\ clusterState # Nil
        /\ \E p \in {"security", "performance"} : CriticalFor(p, clusterState)

\* Nothing critical is lost on the way to the alert: both analyses are retried
\* until they succeed, so a critical pod in the collected state has been alerted
\* on when the workflow closes, unless it was cancelled or the alert itself failed.
CollectedCriticalAlerted ==
    (/\ outcome = "completed" /\ ~cancelled /\ future["alert"].state # "failed"
     /\ clusterState # Nil
     /\ \E p \in {"security", "performance"} : CriticalFor(p, clusterState))
    => alerts > 0

\* The only way not to close is deep work that fails again and again: triage and
\* alert have a bounded number of attempts, the deep activities have not.
ClosesOrRetriesForever ==
    \/ <>(outcome # "open")
    \/ \E a \in DeepActivities : []<>(future[a].state = "running")

\* Client.CancelWorkflow ends even a workflow stuck in retries.
CancelEnds == cancelled ~> (outcome # "open")

\* "Send alert for critical events" (workflows.go): an event triaged CRITICAL
\* whose alert activity succeeded has raised an alert.
CriticalEventAlerted ==
    (/\ outcome = "completed" /\ future["alert"].state = "ok"
     /\ triage.severity = "CRITICAL")
    => alerts > 0
====
