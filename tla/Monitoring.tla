---- MODULE Monitoring ----
(***************************************************************************)
(* ContinuousMonitoringWorkflow (internal/temporal/workflows.go) and the   *)
(* client that starts, cancels and awaits workflows (worker.go), over the  *)
(* executions that the Temporal service keeps.  What an analysis does is   *)
(* the matter of AnalysisWorkflow; here it closes, well or not.            *)
(*                                                                         *)
(* A workflow ID ends in the second of the call.  Only the current second  *)
(* can be met again, so that a second is "now" or "past", and time goes on *)
(* without a bound.                                                        *)
(*                                                                         *)
(* external: the service.  Of the executions with one ID at most one is    *)
(* running: starting another returns it, to a parent as an error.  When a  *)
(* parent closes its children are terminated, a little later.  Workflow    *)
(* code runs only while a worker is up, and goes on where it was.          *)
(***************************************************************************)
EXTENDS Naturals, FiniteSets

CONSTANTS
    Clusters,       \* cluster IDs
    Callers,        \* users of the client
    Kinds,          \* what an analysis may be told: its type and the namespaces
    Requests,       \* what each starts: an ID prefix, a cluster or event, and a kind
    Configs,        \* monitorings: a cluster and the kind of its analyses
    Pool,           \* bound: slots for the executions that somebody may still look at
    None

\* Pool[prefix]: numbers, disjoint from those of any other prefix.
ASSUME PoolAssumption ==
    /\ {"k8s-monitoring", "analysis"} \subseteq DOMAIN Pool
    /\ \A x, y \in DOMAIN Pool : Pool[x] \subseteq Nat /\ (x = y \/ Pool[x] \cap Pool[y] = {})

Slots == UNION {Pool[x] : x \in DOMAIN Pool}

\* Clients start neither the monitoring's children nor, in this way, monitorings.
Prefixes == (DOMAIN Pool) \ {"k8s-monitoring", "analysis"}
Asked == UNION {Requests[p] : p \in Callers}
Targets == Clusters \cup {request[2] : request \in Asked}

ASSUME RequestsAssumption ==
    /\ Asked \subseteq Prefixes \X Targets \X Kinds
    /\ Configs \subseteq Clusters \X Kinds

WorkflowIds == (DOMAIN Pool) \X Targets \X {"", "now", "past"}
Statuses == {"running", "completed", "failed", "canceled", "timedout"}

Executions ==
    [id : WorkflowIds, input : Kinds, status : Statuses, cancel : BOOLEAN,
     parent : Slots \cup {None}, pc : {"check", "child", "sleep"}, child : Slots \cup {None}]

ASSUME NoneAssumption == None \notin Slots \cup Executions \cup Asked

VARIABLES
    exec,           \* the execution in each slot, or None
    caller,         \* what each caller waits for
    worker          \* "up" or "down"

vars == <<exec, caller, worker>>

Idle == [slot |-> None, request |-> None, second |-> "past"]

Init ==
    /\ exec = [s \in Slots |-> None]
    /\ caller = [p \in Callers |-> Idle]
    /\ worker = "down"

----
(* The service. *)

Used == {s \in Slots : exec[s] # None}
Running(s) == s \in Used /\ exec[s].status = "running"

\* Where an execution with this ID is or will be.
SlotOf(id) ==
    LET same == {s \in Used : exec[s].id = id}
        free == Pool[id[1]] \ Used
    IN  IF same # {} THEN same ELSE {s \in free : \A t \in free : s <= t}

Execution(id, input, parent) ==
    [id |-> id, input |-> input, status |-> "running", cancel |-> FALSE,
     parent |-> parent, pc |-> "check", child |-> None]

MonitorId(c) == <<"k8s-monitoring", c, "">>
Monitors == {s \in Used : exec[s].id[1] = "k8s-monitoring"}
Children == {s \in Used : exec[s].id[1] = "analysis"}
Of(c) == {s \in Used : exec[s].id[2] = c}

\* Parent None: the parent has closed.
Orphans == {s \in Children : exec[s].parent = None}

----
(* The client. *)

\* Mutant: the second is left out of the ID.
TimelessId(request) == <<request[1], request[2], "">>

\* k8s-analysis-<cluster>-<second>, k8s-event-<event>-<second>: the kind is no part
\* of the ID.
RequestId(request) == <<request[1], request[2], "now">>

\* StartAnalysis and StartEventAnalysis.  An execution that runs already is joined,
\* whatever it was told; one that has closed is followed by another, and whoever
\* still waits for the ID gets the result of that.
Start(p, request) ==
    /\ caller[p].slot = None
    /\ \E s \in SlotOf(RequestId(request)) :
          /\ exec' = IF Running(s) THEN exec
                     ELSE [exec EXCEPT ![s] = Execution(RequestId(request), request[3], None)]
          /\ caller' = [caller EXCEPT ![p] = [slot |-> s, request |-> request,
                                              second |-> "now"]]
    /\ UNCHANGED worker

\* GetWorkflowResult returns when the execution has closed.
GetWorkflowResult(p) ==
    /\ caller[p].slot # None /\ ~Running(caller[p].slot)
    /\ caller' = [caller EXCEPT ![p] = Idle]
    /\ exec' = IF \E q \in Callers \ {p} : caller[q].slot = caller[p].slot THEN exec
               ELSE [exec EXCEPT ![caller[p].slot] = None]
    /\ UNCHANGED worker

\* Mutant: monitors get IDs as analyses do.
TimedMonitorId(c) == <<"k8s-monitoring", c, "now">>

StartedMonitorId(c) == MonitorId(c)

\* A monitoring that runs already goes on as it is, with its own configuration.
StartContinuousMonitoring(config) ==
    /\ \E s \in SlotOf(StartedMonitorId(config[1])) :
          /\ ~Running(s)
          /\ exec' = [exec EXCEPT ![s] = Execution(StartedMonitorId(config[1]), config[2], None)]
    /\ UNCHANGED <<caller, worker>>

\* CancelWorkflow, with the ID of a monitoring.
CancelWorkflow(m) ==
    /\ m \in Monitors /\ Running(m) /\ ~exec[m].cancel
    /\ exec' = [exec EXCEPT ![m].cancel = TRUE]
    /\ UNCHANGED <<caller, worker>>

----
(* ContinuousMonitoringWorkflow. *)

At(m, pc) == worker = "up" /\ m \in Monitors /\ Running(m) /\ exec[m].pc = pc

\* Mutant: a context that nobody cancels.
Detached(m) == FALSE

CtxErr(m) == exec[m].cancel

\* The workflow of m returns; its child is left to the service.
Closed(m, status) ==
    [s \in Slots |->
        IF s = m THEN [exec[m] EXCEPT !.status = status, !.pc = "check", !.child = None]
        ELSE IF s \in Children /\ exec[s].parent = m THEN [exec[s] EXCEPT !.parent = None]
        ELSE exec[s]]

\* Mutant: nobody waits for the child.
FireAndForget == "sleep"

AwaitChild == "child"

\* A child that cannot be started is a failed child, and is only logged.
StartChild(m) ==
    /\ At(m, "check") /\ ~CtxErr(m)
    /\ LET id == <<"analysis", exec[m].id[2], "now">>
       IN  \E s \in SlotOf(id) :
             exec' = IF Running(s) THEN [exec EXCEPT ![m].pc = "sleep"]
                     ELSE [exec EXCEPT ![s] = Execution(id, exec[m].input, m),
                                       ![m].pc = AwaitChild, ![m].child = s]
    /\ UNCHANGED <<caller, worker>>

\* Mutant: the error is returned.
ReturnError(status) == IF status = "completed" THEN "sleep" ELSE "return"

\* Mutant: the child that failed is waited for again.
AwaitAgain(status) == IF status = "completed" THEN "sleep" ELSE "child"

\* The error is logged, and the loop goes on.
LogError(status) == "sleep"

ChildClosed(m) ==
    /\ At(m, "child") /\ ~Running(exec[m].child)
    /\ LET s == exec[m].child
           next == LogError(exec[s].status)
       IN  exec' = IF next = "return" THEN Closed(m, "failed")
                   ELSE [exec EXCEPT ![m].pc = next, ![m].child = None, ![s] = None]
    /\ UNCHANGED <<caller, worker>>

\* The check of the loop, the Get of the child's result and the Sleep all end at
\* once when the context is cancelled, and after the Get there is the Sleep.
Cancelled(m) ==
    /\ \E pc \in {"check", "child", "sleep"} : At(m, pc)
    /\ CtxErr(m)
    /\ exec' = Closed(m, "canceled")
    /\ UNCHANGED <<caller, worker>>

MonitorStep(m) == StartChild(m) \/ ChildClosed(m) \/ Cancelled(m)

----
(* What else happens. *)

\* The interval is over.
TimerFires(m) ==
    /\ m \in Monitors /\ Running(m) /\ exec[m].pc = "sleep"
    /\ exec' = [exec EXCEPT ![m].pc = "check"]
    /\ UNCHANGED <<caller, worker>>

Analyses == Used \ Monitors

\* An analysis closes (AnalysisWorkflow!Terminates, EventWorkflow!ClosesOrRetriesForever).
AnalysisCloses(s) ==
    /\ worker = "up" /\ s \in Analyses /\ Running(s)
    /\ exec' \in {[exec EXCEPT ![s].status = status] : status \in {"completed", "failed"}}
    /\ UNCHANGED <<caller, worker>>

\* Mutant: the option is forgotten.
NoTimeout == {}

\* WorkflowExecutionTimeout, 15 minutes, is on children only.
WithTimeout == Children

ChildTimesOut(s) ==
    /\ s \in WithTimeout /\ Running(s)
    /\ exec' = [exec EXCEPT ![s].status = "timedout"]
    /\ UNCHANGED <<caller, worker>>

\* PARENT_CLOSE_POLICY_TERMINATE; nobody looks at the execution any more.
TerminateOrphan(s) ==
    /\ s \in Orphans
    /\ exec' = [exec EXCEPT ![s] = None]
    /\ UNCHANGED <<caller, worker>>

Tick ==
    /\ exec' = [s \in Slots |->
                  IF s \in Used /\ exec[s].id[3] = "now" THEN [exec[s] EXCEPT !.id[3] = "past"]
                  ELSE exec[s]]
    /\ caller' = [p \in Callers |-> [caller[p] EXCEPT !.second = "past"]]
    /\ UNCHANGED worker

\* Worker.Start and Worker.Stop, or a crash and a restart of the process.
WorkerStarts == worker = "down" /\ worker' = "up" /\ UNCHANGED <<exec, caller>>
WorkerStops == worker = "up" /\ worker' = "down" /\ UNCHANGED <<exec, caller>>

Next ==
    \/ \E p \in Callers : GetWorkflowResult(p) \/ \E r \in Requests[p] : Start(p, r)
    \/ \E config \in Configs : StartContinuousMonitoring(config)
    \/ \E s \in Slots :
          CancelWorkflow(s) \/ MonitorStep(s) \/ TimerFires(s)
          \/ AnalysisCloses(s) \/ ChildTimesOut(s) \/ TerminateOrphan(s)
    \/ Tick \/ WorkerStarts \/ WorkerStops

\* The worker is started again whenever it is down, and gets to every task in the
\* end (the service hands it out again after a crash); the service's own timers
\* and tasks are never lost.  Nobody has to start, cancel or look at anything, and
\* neither has an analysis to close: children are under a timeout.
Fairness ==
    /\ WF_vars(WorkerStarts)
    /\ \A m \in Pool["k8s-monitoring"] : SF_vars(MonitorStep(m)) /\ WF_vars(TimerFires(m))
    /\ \A s \in Pool["analysis"] : WF_vars(ChildTimesOut(s) \/ TerminateOrphan(s))

Spec == Init /\ [][Next]_vars
FairSpec == Spec /\ Fairness

----
(* Properties. *)

TypeOK ==
    /\ exec \in [Slots -> Executions \cup {None}]
    /\ \A s \in Used :
          /\ exec[s].pc = "child" => exec[s].child \in Children /\ exec[exec[s].child].parent = s
          /\ exec[s].parent # None => s \in Children /\ Running(exec[s].parent)
    /\ \A p \in Callers : caller[p].slot = None \/ caller[p].slot \in Analyses
    /\ worker \in {"up", "down"}

\* However often and by whomever it is started, cancelled and started again: a
\* cluster is monitored once at a time.
MonitoredOnce == \A c \in Clusters : Cardinality({m \in Monitors \cap Of(c) : Running(m)}) <= 1

\* One analysis of a monitoring ends before the next one begins.  Only the last
\* one of a monitoring that has been closed may overlap with those of the next,
\* until the service has terminated it.
AnalysesDoNotOverlap ==
    \A c \in Clusters : Cardinality({s \in (Children \ Orphans) \cap Of(c) : Running(s)}) <= 1

\* Callers share an execution, and its result, only if they asked about the same
\* cluster or the same event within the same second.  (The kind of analysis may be
\* another's: AnswersItsRequest.)
SharedWithinSecond ==
    \A p, q \in Callers :
        caller[p].slot # None /\ caller[p].slot = caller[q].slot =>
            /\ caller[p].request[1] = caller[q].request[1]
            /\ caller[p].request[2] = caller[q].request[2]
            /\ caller[p].second = caller[q].second

\* "StartAnalysis starts a K8s analysis workflow" (worker.go:147): whoever starts an
\* analysis waits for one of the type and the namespaces it has given.  The code
\* does not keep to that: the ID says neither, and a second caller joins the first.
AnswersItsRequest ==
    \A p \in Callers :
        caller[p].slot # None => exec[caller[p].slot].input = caller[p].request[3]

\* No cluster is monitored twice, no two analyses of a monitoring overlap, and no
\* execution is shared by those who asked about different things.
OneAtATime == TypeOK /\ MonitoredOnce /\ AnalysesDoNotOverlap /\ SharedWithinSecond

\* Analyses fail, time out and cannot be started, workers come and go: a
\* monitoring ends only because it was cancelled.
EndsOnlyIfCancelled ==
    \A m \in Monitors : ~Running(m) => exec[m].status = "canceled" /\ exec[m].cancel

\* Monitoring goes on: it neither waits for one analysis nor sleeps for ever,
\* though workers crash and analyses may never close by themselves.
MonitoringGoesOn ==
    \A c \in Clusters :
        /\ []<>(\A m \in Monitors \cap Of(c) : Running(m) => exec[m].pc # "child")
        /\ []<>(\A m \in Monitors \cap Of(c) : Running(m) => exec[m].pc = "child")

\* A monitoring that is cancelled ends, and so does every analysis it started.
CancelEnds ==
    /\ \A c \in Clusters :
          []<>(\A m \in Monitors \cap Of(c) : Running(m) => ~exec[m].cancel)
    /\ \A s \in Pool["analysis"] : []<>(s \notin Orphans)
====
