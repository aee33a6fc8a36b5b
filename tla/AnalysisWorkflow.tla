---- MODULE AnalysisWorkflow ----
(***************************************************************************)
(* One execution of K8sAnalysisWorkflow (internal/temporal/workflows.go)   *)
(* with the eight activities it schedules.                                 *)
(*                                                                         *)
(* Four parties take steps: the workflow code (deterministic, one step per *)
(* Get that returns), the workers that run attempts of activities, the     *)
(* Temporal service that retries what failed or timed out, and a client    *)
(* that may cancel.  An attempt the service has given up (StartToClose or  *)
(* heartbeat timeout, cancellation) may still be running on its worker:    *)
(* its result is discarded, its effects are not.                           *)
(***************************************************************************)
EXTENDS ClusterAnalysis, TemporalActivities

CONSTANTS
    Clusters,       \* the cluster states CollectClusterStateActivity may return
    AnalysisTypes,  \* the values of AnalysisInput.AnalysisType
    MaxAttempts     \* RetryPolicy.MaximumAttempts (3 in the code)

ASSUME MaxAttemptsAssumption == MaxAttempts \in Nat \ {0}
ASSUME NilAssumption == Nil \notin Clusters
ASSUME ClustersAssumption == \A c \in Clusters : IsFiniteSet(c.nodes) /\ IsFiniteSet(c.pods)

VARIABLES
    analysisType,   \* input.AnalysisType
    pc,             \* where the workflow code waits
    future,         \* the future of each activity
    clusterState,   \* the workflow's clusterState, or Nil
    report,         \* securityReport, performanceReport, predictionReport, or Nil
    summary,        \* llmInsights.ExecutiveSummary, or Nil
    status,         \* result.Status
    findings,       \* result.Findings
    cancelled,      \* the workflow's context is cancelled
    outcome,        \* how the execution closed, as a client sees it
    late,           \* attempts of SendAlertsActivity given up but still running
    alerts          \* alerts emitted so far

vars == <<analysisType, pc, future, clusterState, report, summary, status,
          findings, cancelled, outcome, late, alerts>>

\* The workflow code's own variables, and what the client sees.
local == <<clusterState, report, summary, status, findings>>

Pipelines == {"security", "performance", "prediction"}
Activities == Pipelines \cup {"collect", "rag", "llm", "alert", "store"}

----
\* Mutants: one attempt too many; no RetryPolicy at all (0 is "unlimited").
OneAttemptMore == MaxAttempts + 1
NoRetryPolicy  == 0

\* The retry policy of activityOpts, which every activity of the workflow gets.
MaximumAttempts == MaxAttempts

\* Mutant: the context passed to ExecuteActivity is not the cancellable one.
ScheduleDetached(acts) ==
    future' = [a \in Activities |-> IF a \in acts THEN Scheduled(FALSE) ELSE future[a]]

Schedule(acts) ==
    future' = [a \in Activities |-> IF a \in acts THEN Scheduled(cancelled) ELSE future[a]]

\* The pipelines whose if admits the requested type; none for an unknown type.
PipelinesOf(type) == {p \in Pipelines : type \in {"full", p}}

\* Mutant: the performance report is forgotten.
CriticalSecurityOrPrediction ==
    CriticalIn(report["security"]) + CriticalIn(report["prediction"]) > 0

HasCriticalFindings == \E p \in Pipelines : CriticalIn(report[p]) > 0

AggregateFindings == UNION {FindingsIn(report[p]) : p \in Pipelines}

----
Init ==
    /\ analysisType \in AnalysisTypes
    /\ pc = "start"
    /\ future = [a \in Activities |-> NoFuture]
    /\ clusterState = Nil
    /\ report = [p \in Pipelines |-> Nil]
    /\ summary = Nil
    /\ status = "running"
    /\ findings = {}
    /\ cancelled = FALSE
    /\ outcome = "open"
    /\ late = 0
    /\ alerts = 0

----
(* The workflow code. *)

Start ==
    /\ pc = "start"
    /\ pc' = "collect"
    /\ Schedule({"collect"})
    /\ UNCHANGED <<analysisType, local, cancelled, outcome, late, alerts>>

\* Step 1 succeeded: step 2 schedules all the pipelines at once.
CollectSucceeded ==
    /\ pc = "collect"
    /\ future["collect"].state = "ok"
    /\ pc' = "security"
    /\ Schedule(PipelinesOf(analysisType))
    /\ UNCHANGED <<analysisType, local, cancelled, outcome, late, alerts>>

\* Step 1 failed: the workflow returns the error, and the client gets no result.
CollectFailed ==
    /\ pc = "collect"
    /\ future["collect"].state \in {"failed", "canceled"}
    /\ pc' = "closed"
    /\ status' = "failed"
    /\ outcome' = future["collect"].state
    /\ UNCHANGED <<analysisType, future, clusterState, report, summary, findings,
                   cancelled, late, alerts>>

\* The three Gets, in program order.  A pipeline that was not scheduled is
\* skipped, one that failed leaves its report nil.  After the last of them the
\* same workflow task schedules the RAG query, whose text is never empty.
AfterPipeline(p) ==
    CASE p = "security" -> "performance"
      [] p = "performance" -> "prediction"
      [] p = "prediction" -> "rag"

\* Mutant: the check for a nil future is forgotten; Get on it panics, and the
\* service retries the workflow task for ever.
MustResolve(p) == Resolved(future[p])

Obtained(p) == ~Pending(future[p])

GetReport(p) ==
    /\ pc = p
    /\ Obtained(p)
    /\ pc' = AfterPipeline(p)
    /\ report' = IF future[p].state = "ok"
                 THEN [report EXCEPT ![p] = Report(p, clusterState)] ELSE report
    /\ Schedule(IF p = "prediction" THEN {"rag"} ELSE {})
    /\ UNCHANGED <<analysisType, clusterState, summary, status, findings, cancelled,
                   outcome, late, alerts>>

\* Step 3 returned.  Its result is kept in ragContext and goes nowhere.
RAGReturned ==
    /\ pc = "rag"
    /\ Resolved(future["rag"])
    /\ pc' = "llm"
    /\ Schedule({"llm"})
    /\ UNCHANGED <<analysisType, local, cancelled, outcome, late, alerts>>

\* Step 4 returned: compile the result and go on to the alert, or to the store.
LLMReturned ==
    /\ pc = "llm"
    /\ Resolved(future["llm"])
    /\ summary' = IF future["llm"].state = "ok"
                  THEN ExecutiveSummary(report["security"], report["performance"]) ELSE Nil
    /\ status' = "completed"
    /\ findings' = AggregateFindings
    /\ pc' = IF HasCriticalFindings THEN "alert" ELSE "store"
    /\ Schedule({IF HasCriticalFindings THEN "alert" ELSE "store"})
    /\ UNCHANGED <<analysisType, clusterState, report, cancelled, outcome, late, alerts>>

AlertReturned ==
    /\ pc = "alert"
    /\ Resolved(future["alert"])
    /\ pc' = "store"
    /\ Schedule({"store"})
    /\ UNCHANGED <<analysisType, local, cancelled, outcome, late, alerts>>

\* Whatever became of the alert and of the store, the workflow returns (result, nil).
StoreReturned ==
    /\ pc = "store"
    /\ Resolved(future["store"])
    /\ pc' = "closed"
    /\ outcome' = "completed"
    /\ UNCHANGED <<analysisType, future, local, cancelled, late, alerts>>

WorkflowStep ==
    \/ Start \/ CollectSucceeded \/ CollectFailed \/ (\E p \in Pipelines : GetReport(p))
    \/ RAGReturned \/ LLMReturned \/ AlertReturned \/ StoreReturned

----
(* The client. *)

\* Client.CancelWorkflow: the context is cancelled and every pending future
\* resolves; the attempts that were running are left to themselves.
Cancel ==
    /\ outcome = "open"
    /\ ~cancelled
    /\ cancelled' = TRUE
    /\ future' = [a \in Activities |-> Cancelled(future[a])]
    /\ late' = IF future["alert"].state = "running" THEN late + 1 ELSE late
    /\ UNCHANGED <<analysisType, pc, local, outcome, alerts>>

----
(* The workers and the service. *)

StartAttempt(a) ==
    /\ future[a].state = "scheduled"
    /\ future' = [future EXCEPT ![a] = Started(@, MaximumAttempts)]
    /\ UNCHANGED <<analysisType, pc, local, cancelled, outcome, late, alerts>>

\* Mutant: every call of SendAlertsActivity emits.
EmitAlways == 1

\* What one execution of SendAlertsActivity adds to the emitted alerts.
Emitted == IF AlertCount(report["security"], report["performance"]) > 0 THEN 1 ELSE 0

\* The attempt returns nil.  Collecting yields some state of the cluster;
\* alerting emits; the other results are functions of what is known already.
CompleteAttempt(a) ==
    /\ future[a].state = "running"
    /\ future' = [future EXCEPT ![a] = Succeeded]
    /\ IF a = "collect" THEN clusterState' \in Clusters ELSE UNCHANGED clusterState
    /\ alerts' = IF a = "alert" THEN alerts + Emitted ELSE alerts
    /\ UNCHANGED <<analysisType, pc, report, summary, status, findings, cancelled,
                   outcome, late>>

\* The attempt ends in an error, or its worker dies, before or after the effect.
FailAttempt(a) ==
    /\ future[a].state = "running"
    /\ future' = [future EXCEPT ![a] = RetryOrFail(@, MaximumAttempts)]
    /\ \/ UNCHANGED alerts
       \/ a = "alert" /\ alerts' = alerts + Emitted
    /\ UNCHANGED <<analysisType, pc, local, cancelled, outcome, late>>

\* No heartbeat for 30 s, or 10 minutes since the start: the service gives the
\* attempt up while it is still running.
TimeOut(a) ==
    /\ a = "alert"
    /\ future[a].state = "running"
    /\ future' = [future EXCEPT ![a] = RetryOrFail(@, MaximumAttempts)]
    /\ late' = late + 1
    /\ UNCHANGED <<analysisType, pc, local, cancelled, outcome, alerts>>

\* An attempt given up emits after all, or dies with its worker.
LateAttempt ==
    /\ late > 0
    /\ late' = late - 1
    /\ alerts' \in {alerts, alerts + Emitted}
    /\ UNCHANGED <<analysisType, pc, future, local, cancelled, outcome>>

\* The execution is closed and nothing runs any more.
Closed ==
    /\ outcome # "open"
    /\ late = 0
    /\ UNCHANGED vars

Next ==
    \/ WorkflowStep
    \/ Cancel
    \/ \E a \in Activities :
          StartAttempt(a) \/ CompleteAttempt(a) \/ FailAttempt(a) \/ TimeOut(a)
    \/ LateAttempt
    \/ Closed

\* Workflow tasks run, some worker polls the task queue, and every attempt ends
\* (at the latest by its timeout).  Nothing obliges an attempt to succeed, a
\* late attempt to end, or a client to cancel.
Fairness ==
    /\ WF_vars(WorkflowStep)
    /\ \A a \in Activities :
          /\ WF_vars(StartAttempt(a))
          /\ WF_vars(CompleteAttempt(a) \/ FailAttempt(a) \/ TimeOut(a))

Spec == Init /\ [][Next]_vars
FairSpec == Spec /\ Fairness

----
(* Properties. *)

AnyFinding == UNION {Report(p, c).findings : p \in Pipelines, c \in Clusters}

\* The workflow's data are what the activities can produce from the clusters.
TypeOK ==
    /\ analysisType \in AnalysisTypes
    /\ pc \in Pipelines \cup {"start", "collect", "rag", "llm", "alert", "store", "closed"}
    /\ future \in [Activities -> FutureType(MaxAttempts)]
    /\ clusterState \in Clusters \cup {Nil}
    /\ \A p \in Pipelines : report[p] \in {Report(p, c) : c \in Clusters} \cup {Nil}
    /\ summary \in {"critical", "high priority", "good health", Nil}
    /\ status \in {"running", "failed", "completed"}
    /\ findings \subseteq AnyFinding
    /\ cancelled \in BOOLEAN
    /\ outcome \in {"open", "completed", "failed", "canceled"}
    /\ late \in 0..MaxAttempts
    /\ alerts \in Nat

\* What the cluster really holds, independently of the reports and their counts.
CriticalFor(p, c) ==
    \/ p = "security" /\ \E pod \in c.pods : pod.privileged
    \/ p = "performance" /\ \E pod \in c.pods : pod.status = "CrashLoopBackOff"

\* No false alarm: an alert was emitted only if the collected state holds a
\* privileged or crash-looping pod, and the pipeline that detects it was asked for.
AlertsSound ==
    alerts > 0 =>
        /\ clusterState # Nil
        /\ \E p \in PipelinesOf(analysisType) : CriticalFor(p, clusterState)

\* However attempts fail, time out, die before or after emitting, or outlive the
\* workflow: one analysis never emits more alerts than the retry policy has
\* attempts (activityOpts in workflows.go).
AlertsBounded == alerts <= MaxAttempts

\* A completed, never cancelled analysis whose returned findings list a CRITICAL
\* security or performance finding has emitted an alert, unless every attempt of
\* the alert failed: the list (aggregateFindings), the decision
\* (hasCriticalFindings) and the activity's own count agree.
CriticalNotMissed ==
    (/\ outcome = "completed" /\ ~cancelled /\ future["alert"].state # "failed"
     /\ \E f \in findings : f.severity = "CRITICAL" /\ f.rule # "pred-mem")
    => alerts > 0

\* An analysis that emits an alert never tells its reader the cluster is in good
\* health: LLMEnhanceAnalysisActivity and SendAlertsActivity count separately,
\* at different times.
AlertMatchesSummary == alerts > 0 => summary \in {"critical", Nil}

\* After CancelWorkflow no activity is scheduled any more and no attempt starts.
NothingStartsOnceCancelled ==
    [][cancelled => \A a \in Activities :
          Pending(future'[a]) => future'[a] = future[a]]_vars

\* The execution closes, whatever fails: every Get of the workflow returns
\* because every activity has a bounded number of attempts.
Terminates == <>(outcome # "open")

\* What is promised without the activities (module AnalysisContract).
Decision ==
    IF status # "completed" THEN "none"
    ELSE IF HasCriticalFindings THEN "critical" ELSE "quiet"

Contract == INSTANCE AnalysisContract
                WITH MaxAlerts <- MaxAttempts,
                     decision <- Decision, result <- outcome, sent <- alerts

\* The workflow implements the contract.
KeepsContract == Contract!Spec

\* "CancelWorkflow cancels a running workflow." (worker.go): an execution
\* cancelled before its result was stored does not close as completed.
CancelHonoured ==
    outcome = "completed" /\ cancelled => future["store"].state = "ok"
====
