---- MODULE AnalysisWorkflow_proofs ----
(***************************************************************************)
(* Theorems about K8sAnalysisWorkflow, for every set of cluster states,    *)
(* every set of analysis types and every retry limit.                      *)
(***************************************************************************)
EXTENDS AnalysisWorkflow, FiniteSetTheorems, TLAPS

----
(* The inductive invariant, in named parts. *)

Phases == Pipelines \cup {"start", "collect", "rag", "llm", "alert", "store", "closed"}

Shape ==
    /\ pc \in Phases
    /\ future \in [Activities -> FutureType(MaxAttempts)]
    /\ \A a \in Activities :
          future[a].state = "scheduled" => future[a].attempt < MaxAttempts
    /\ cancelled \in BOOLEAN
    /\ late \in Nat
    /\ alerts \in Nat

\* Where the workflow code waits determines the status and the outcome.
Control ==
    /\ outcome = "open" <=> pc # "closed"
    /\ status = "completed" <=> pc \in {"alert", "store"} \/ outcome = "completed"
    /\ outcome \in {"open", "completed", "failed", "canceled"}

\* Each attempt of the alert emits once at most: what was emitted and what may
\* still be emitted by attempts given up is covered by the attempts made.
AlertAccount ==
    LET f == future["alert"] IN
    /\ f.state = "idle" => alerts = 0 /\ late = 0
    /\ f.state = "scheduled" => alerts + late <= f.attempt /\ f.attempt < MaxAttempts
    /\ f.state = "running" => alerts + late < f.attempt /\ f.attempt <= MaxAttempts
    /\ alerts + late <= MaxAttempts

\* The alert is scheduled only once the findings are compiled and critical.
AlertDecided == future["alert"].state # "idle" => Decision = "critical"

IInv == Shape /\ Control /\ AlertAccount /\ AlertDecided

----
(* What the steps of an activity's life do to its future. *)

LEMMA ScheduledType ==
    ASSUME NEW c \in BOOLEAN
    PROVE  Scheduled(c) \in FutureType(MaxAttempts)
  BY MaxAttemptsAssumption DEF FutureType, Scheduled

LEMMA FutureLife ==
    ASSUME NEW f \in FutureType(MaxAttempts)
    PROVE  /\ Succeeded \in FutureType(MaxAttempts)
           /\ Cancelled(f) \in FutureType(MaxAttempts)
           /\ RetryOrFail(f, MaxAttempts) \in FutureType(MaxAttempts)
           /\ f.attempt < MaxAttempts => Started(f, MaxAttempts) \in FutureType(MaxAttempts)
  <1>1. Succeeded \in FutureType(MaxAttempts)
    BY MaxAttemptsAssumption DEF FutureType, Succeeded
  <1>2. Cancelled(f) \in FutureType(MaxAttempts)
    BY MaxAttemptsAssumption DEF FutureType, Cancelled, Pending
  <1>3. RetryOrFail(f, MaxAttempts) \in FutureType(MaxAttempts)
    BY MaxAttemptsAssumption DEF FutureType, RetryOrFail
  <1>4. f.attempt < MaxAttempts => Started(f, MaxAttempts) \in FutureType(MaxAttempts)
    BY MaxAttemptsAssumption DEF FutureType, Started
  <1>5. QED BY <1>1, <1>2, <1>3, <1>4

LEMMA EmittedOnce == Emitted \in {0, 1}
  BY DEF Emitted

\* Scheduling resolves an activity at once or leaves it with no attempt made.
LEMMA ScheduleShape ==
    ASSUME Shape, NEW acts \in SUBSET Activities, Schedule(acts)
    PROVE  /\ future' \in [Activities -> FutureType(MaxAttempts)]
           /\ \A a \in Activities :
                 future'[a].state = "scheduled" => future'[a].attempt < MaxAttempts
           /\ "alert" \notin acts => future'["alert"] = future["alert"]
  <1>1. Scheduled(cancelled) \in FutureType(MaxAttempts)
    BY ScheduledType DEF Shape
  <1>2. Scheduled(cancelled).attempt = 0
    BY DEF Scheduled
  <1>3. QED BY <1>1, <1>2, MaxAttemptsAssumption DEF Shape, Schedule, Activities, Pipelines

----
LEMMA InitIInv == Init => IInv
  <1> SUFFICES ASSUME Init PROVE IInv
    OBVIOUS
  <1>1. Shape
    <2>1. NoFuture \in FutureType(MaxAttempts) /\ NoFuture.state = "idle"
      BY MaxAttemptsAssumption DEF NoFuture, FutureType
    <2>2. QED BY <2>1 DEF Init, Shape, Phases
  <1>2. Control
    BY DEF Init, Control
  <1>3. AlertAccount /\ AlertDecided
    BY MaxAttemptsAssumption
       DEF Init, AlertAccount, AlertDecided, NoFuture, Activities, Pipelines
  <1>4. QED BY <1>1, <1>2, <1>3 DEF IInv

LEMMA NextIInv == IInv /\ [Next]_vars => IInv'
  <1> SUFFICES ASSUME IInv, [Next]_vars PROVE IInv'
    OBVIOUS
  <1> USE MaxAttemptsAssumption
  <1>a. "alert" \in Activities /\ "store" \in Activities /\ Pipelines \subseteq Activities
    BY DEF Activities, Pipelines
  <1>1. CASE Start
    <2>1. Schedule({"collect"}) /\ {"collect"} \in SUBSET Activities
      BY <1>1 DEF Start, Activities
    <2>2. Shape' /\ future'["alert"] = future["alert"]
      BY <1>1, <2>1, ScheduleShape DEF Start, IInv, Shape, Phases
    <2>3. Control' /\ AlertAccount' /\ AlertDecided'
      BY <1>1, <2>2 DEF Start, IInv, Control, AlertAccount, AlertDecided, Decision,
                        HasCriticalFindings, local
    <2>4. QED BY <2>2, <2>3 DEF IInv
  <1>2. CASE CollectSucceeded
    <2>1. /\ Schedule(PipelinesOf(analysisType)) /\ PipelinesOf(analysisType) \in SUBSET Activities
          /\ "alert" \notin PipelinesOf(analysisType)
      BY <1>2 DEF CollectSucceeded, Activities, PipelinesOf, Pipelines
    <2>2. Shape' /\ future'["alert"] = future["alert"]
      BY <1>2, <2>1, ScheduleShape DEF CollectSucceeded, IInv, Shape, Phases, Pipelines
    <2>3. Control' /\ AlertAccount' /\ AlertDecided'
      BY <1>2, <2>2 DEF CollectSucceeded, IInv, Control, AlertAccount, AlertDecided, Decision,
                        HasCriticalFindings, local
    <2>4. QED BY <2>2, <2>3 DEF IInv
  <1>3. CASE CollectFailed
    <2>1. Shape'
      BY <1>3 DEF CollectFailed, IInv, Shape, Phases
    <2>2. Control'
      BY <1>3 DEF CollectFailed, IInv, Control
    <2>3. future["alert"].state = "idle"
      BY <1>3 DEF CollectFailed, IInv, Control, AlertDecided, Decision
    <2>4. AlertAccount' /\ AlertDecided'
      BY <1>3, <2>3 DEF CollectFailed, IInv, AlertAccount, AlertDecided
    <2>5. QED BY <2>1, <2>2, <2>4 DEF IInv
  <1>4. ASSUME NEW p \in Pipelines, GetReport(p) PROVE IInv'
    <2>1. /\ Schedule(IF p = "prediction" THEN {"rag"} ELSE {})
          /\ (IF p = "prediction" THEN {"rag"} ELSE {}) \in SUBSET Activities
          /\ "alert" \notin (IF p = "prediction" THEN {"rag"} ELSE {})
      BY <1>4 DEF GetReport, Activities
    <2>2. pc' \in {"performance", "prediction", "rag"}
      BY <1>4 DEF GetReport, AfterPipeline, Pipelines
    <2>3. Shape' /\ future'["alert"] = future["alert"]
      BY <1>4, <2>1, <2>2, ScheduleShape DEF GetReport, IInv, Shape, Phases, Pipelines
    <2>4. Control'
      BY <1>4, <2>2 DEF GetReport, IInv, Control, Pipelines
    <2>5. future["alert"].state = "idle"
      BY <1>4 DEF GetReport, IInv, Control, AlertDecided, Decision, Pipelines
    <2>6. AlertAccount' /\ AlertDecided'
      BY <1>4, <2>3, <2>5 DEF GetReport, IInv, AlertAccount, AlertDecided
    <2>7. QED BY <2>3, <2>4, <2>6 DEF IInv
  <1>5. CASE RAGReturned
    <2>1. Schedule({"llm"}) /\ {"llm"} \in SUBSET Activities
      BY <1>5 DEF RAGReturned, Activities
    <2>2. Shape' /\ future'["alert"] = future["alert"]
      BY <1>5, <2>1, ScheduleShape DEF RAGReturned, IInv, Shape, Phases
    <2>3. Control' /\ AlertAccount' /\ AlertDecided'
      BY <1>5, <2>2 DEF RAGReturned, IInv, Control, AlertAccount, AlertDecided, Decision,
                        HasCriticalFindings, local
    <2>4. QED BY <2>2, <2>3 DEF IInv
  <1>6. CASE LLMReturned
    <2>1. /\ Schedule({IF HasCriticalFindings THEN "alert" ELSE "store"})
          /\ {IF HasCriticalFindings THEN "alert" ELSE "store"} \in SUBSET Activities
      BY <1>6 DEF LLMReturned, Activities
    <2>2. Shape'
      BY <1>6, <2>1, ScheduleShape DEF LLMReturned, IInv, Shape, Phases
    <2>3. Control'
      BY <1>6 DEF LLMReturned, IInv, Control
    <2>4. future["alert"].state = "idle" /\ alerts = 0 /\ late = 0
      BY <1>6 DEF LLMReturned, IInv, Control, AlertDecided, Decision, AlertAccount
    <2>5. CASE HasCriticalFindings
      <3>1. future'["alert"] = Scheduled(cancelled)
        BY <2>1, <2>5, <1>a DEF Schedule
      <3>2. AlertAccount'
        BY <1>6, <2>4, <3>1 DEF LLMReturned, AlertAccount, Scheduled
      <3>3. AlertDecided'
        BY <1>6, <2>5 DEF LLMReturned, AlertDecided, Decision, HasCriticalFindings
      <3>4. QED BY <2>2, <2>3, <3>2, <3>3 DEF IInv
    <2>6. CASE ~HasCriticalFindings
      <3>1. future'["alert"] = future["alert"]
        BY <2>1, <2>6, <1>a, ScheduleShape DEF IInv
      <3>2. AlertAccount' /\ AlertDecided'
        BY <1>6, <2>4, <3>1 DEF LLMReturned, AlertAccount, AlertDecided
      <3>3. QED BY <2>2, <2>3, <3>2 DEF IInv
    <2>7. QED BY <2>5, <2>6
  <1>7. CASE AlertReturned
    <2>1. Schedule({"store"}) /\ {"store"} \in SUBSET Activities
      BY <1>7 DEF AlertReturned, Activities
    <2>2. Shape' /\ future'["alert"] = future["alert"]
      BY <1>7, <2>1, ScheduleShape DEF AlertReturned, IInv, Shape, Phases
    <2>3. Control' /\ AlertAccount' /\ AlertDecided'
      BY <1>7, <2>2 DEF AlertReturned, IInv, Control, AlertAccount, AlertDecided, Decision,
                        HasCriticalFindings, local
    <2>4. QED BY <2>2, <2>3 DEF IInv
  <1>8. CASE StoreReturned
    <2>1. Shape'
      BY <1>8 DEF StoreReturned, IInv, Shape, Phases
    <2>2. Control' /\ AlertAccount' /\ AlertDecided'
      BY <1>8 DEF StoreReturned, IInv, Control, AlertAccount, AlertDecided, Decision,
                  HasCriticalFindings, local
    <2>3. QED BY <2>1, <2>2 DEF IInv
  <1>9. CASE Cancel
    <2>1. \A a \in Activities : future'[a] = Cancelled(future[a])
      BY <1>9 DEF Cancel
    <2>2. \A a \in Activities : Cancelled(future[a]) \in FutureType(MaxAttempts)
      BY FutureLife DEF IInv, Shape
    <2>3. Shape'
      BY <1>9, <2>1, <2>2 DEF Cancel, IInv, Shape, Cancelled, Pending
    <2>4. AlertAccount'
      BY <1>9, <2>1, <1>a DEF Cancel, IInv, Shape, FutureType, AlertAccount, Cancelled, Pending
    <2>5. Control' /\ AlertDecided'
      BY <1>9, <2>1, <1>a DEF Cancel, IInv, Control, AlertDecided, Decision,
                        HasCriticalFindings, Cancelled, Pending, local
    <2>6. QED BY <2>3, <2>4, <2>5 DEF IInv
  <1>10. ASSUME NEW a \in Activities, StartAttempt(a) PROVE IInv'
    <2>1. /\ future' = [future EXCEPT ![a] = Started(future[a], MaxAttempts)]
          /\ future[a].state = "scheduled" /\ future[a] \in FutureType(MaxAttempts)
          /\ future[a].attempt < MaxAttempts
      BY <1>10 DEF StartAttempt, MaximumAttempts, IInv, Shape
    <2>2. Shape'
      BY <1>10, <2>1, FutureLife DEF StartAttempt, IInv, Shape, Started, local
    <2>3. AlertAccount'
      BY <1>10, <2>1, <1>a DEF StartAttempt, IInv, Shape, FutureType, AlertAccount, Started
    <2>4. Control' /\ AlertDecided'
      BY <1>10, <2>1, <1>a DEF StartAttempt, IInv, Shape, Control, AlertDecided, Decision,
                        HasCriticalFindings, local
    <2>5. QED BY <2>2, <2>3, <2>4 DEF IInv
  <1>11. ASSUME NEW a \in Activities, CompleteAttempt(a) PROVE IInv'
    <2>1. /\ future' = [future EXCEPT ![a] = Succeeded]
          /\ future[a].state = "running" /\ future[a] \in FutureType(MaxAttempts)
          /\ Succeeded \in FutureType(MaxAttempts)
      BY <1>11, FutureLife DEF CompleteAttempt, IInv, Shape
    <2>2. alerts' \in Nat
      BY <1>11, EmittedOnce DEF CompleteAttempt, IInv, Shape
    <2>3. Shape'
      BY <1>11, <2>1, <2>2 DEF CompleteAttempt, IInv, Shape, Succeeded
    <2>4. AlertAccount'
      BY <1>11, <2>1, <1>a, EmittedOnce
         DEF CompleteAttempt, IInv, Shape, FutureType, AlertAccount, Succeeded
    <2>5. Control' /\ AlertDecided'
      BY <1>11, <2>1, <1>a DEF CompleteAttempt, IInv, Shape, Control, AlertDecided, Decision,
                        HasCriticalFindings
    <2>6. QED BY <2>3, <2>4, <2>5 DEF IInv
  <1>12. ASSUME NEW a \in Activities, FailAttempt(a) PROVE IInv'
    <2>1. /\ future' = [future EXCEPT ![a] = RetryOrFail(future[a], MaxAttempts)]
          /\ future[a].state = "running" /\ future[a] \in FutureType(MaxAttempts)
          /\ RetryOrFail(future[a], MaxAttempts) \in FutureType(MaxAttempts)
      BY <1>12, FutureLife DEF FailAttempt, MaximumAttempts, IInv, Shape
    <2>2. alerts' \in Nat
      BY <1>12, EmittedOnce DEF FailAttempt, IInv, Shape
    <2>3. Shape'
      BY <1>12, <2>1, <2>2 DEF FailAttempt, IInv, Shape, RetryOrFail, FutureType
    <2>4. AlertAccount'
      BY <1>12, <2>1, <1>a, EmittedOnce
         DEF FailAttempt, IInv, Shape, FutureType, AlertAccount, RetryOrFail
    <2>5. Control' /\ AlertDecided'
      BY <1>12, <2>1, <1>a DEF FailAttempt, IInv, Shape, Control, AlertDecided, Decision,
                        HasCriticalFindings, local
    <2>6. QED BY <2>3, <2>4, <2>5 DEF IInv
  <1>13. ASSUME NEW a \in Activities, TimeOut(a) PROVE IInv'
    <2>1. /\ future' = [future EXCEPT ![a] = RetryOrFail(future[a], MaxAttempts)]
          /\ future[a].state = "running" /\ future[a] \in FutureType(MaxAttempts)
          /\ RetryOrFail(future[a], MaxAttempts) \in FutureType(MaxAttempts)
      BY <1>13, FutureLife DEF TimeOut, MaximumAttempts, IInv, Shape
    <2>2. Shape'
      BY <1>13, <2>1 DEF TimeOut, IInv, Shape, RetryOrFail, FutureType
    <2>3. AlertAccount'
      BY <1>13, <2>1, <1>a
         DEF TimeOut, IInv, Shape, FutureType, AlertAccount, RetryOrFail
    <2>4. Control' /\ AlertDecided'
      BY <1>13, <2>1, <1>a DEF TimeOut, IInv, Shape, Control, AlertDecided, Decision,
                        HasCriticalFindings, local
    <2>5. QED BY <2>2, <2>3, <2>4 DEF IInv
  <1>14. CASE LateAttempt
    <2>1. Shape'
      BY <1>14, EmittedOnce DEF LateAttempt, IInv, Shape
    <2>2. AlertAccount'
      <3>1. future["alert"].attempt \in Nat /\ late \in Nat /\ alerts \in Nat
        BY <1>a DEF IInv, Shape, FutureType
      <3>2. late > 0 /\ late' = late - 1 /\ future' = future
        BY <1>14 DEF LateAttempt
      <3>3. alerts' = alerts \/ alerts' = alerts + 1
        BY <1>14, EmittedOnce, <3>1 DEF LateAttempt
      <3>4. CASE alerts' = alerts
        BY <3>1, <3>2, <3>4 DEF IInv, AlertAccount
      <3>5. CASE alerts' = alerts + 1
        BY <3>1, <3>2, <3>5 DEF IInv, AlertAccount
      <3>6. QED BY <3>3, <3>4, <3>5
    <2>3. Control' /\ AlertDecided'
      BY <1>14 DEF LateAttempt, IInv, Control, AlertDecided, Decision, HasCriticalFindings, local
    <2>4. QED BY <2>1, <2>2, <2>3 DEF IInv
  <1>15. CASE Closed \/ UNCHANGED vars
    BY <1>15 DEF Closed, vars, local, IInv, Shape, Control, AlertAccount, AlertDecided, Decision,
              HasCriticalFindings
  <1>16. QED
    BY <1>1, <1>2, <1>3, <1>4, <1>5, <1>6, <1>7, <1>8, <1>9, <1>10, <1>11, <1>12, <1>13,
       <1>14, <1>15 DEF Next, WorkflowStep

\* The invariant holds in every reachable state.
THEOREM Invariance == Spec => []IInv
  <1>1. Init => IInv
    BY InitIInv
  <1>2. IInv /\ [Next]_vars => IInv'
    BY NextIInv
  <1>3. QED BY <1>1, <1>2, PTL DEF Spec

\* For every retry limit: an analysis never emits more alerts than its alert
\* activity has attempts (activityOpts and SendAlertsActivity).
THEOREM AlertsAreBounded == Spec => []AlertsBounded
  <1>1. IInv => AlertsBounded
    BY MaxAttemptsAssumption DEF IInv, Shape, AlertAccount, AlertsBounded
  <1>2. QED BY <1>1, Invariance, PTL

----
(* The workflow implements the contract of module AnalysisContract. *)

\* Once the decision is taken nothing changes it: the steps that write a report
\* come before the one that compiles the result.
LEMMA DecisionStands ==
    ASSUME IInv, [Next]_vars
    PROVE  /\ Decision # "none" => Decision' = Decision
           /\ Decision' \in {"none", "quiet", "critical"}
           /\ Decision' # Decision => outcome = "open" /\ outcome' = "open" /\ alerts' = alerts
  <1> USE DEF Decision, HasCriticalFindings
  <1>1. CASE LLMReturned
    BY <1>1 DEF LLMReturned, IInv, Control
  <1>2. CASE CollectFailed
    BY <1>2 DEF CollectFailed, IInv, Control
  <1>3. ASSUME NEW p \in Pipelines, GetReport(p)
        PROVE  Decision = "none" /\ Decision' = "none"
    BY <1>3 DEF GetReport, IInv, Control, Pipelines
  <1>4. CASE \/ Start \/ CollectSucceeded \/ RAGReturned \/ AlertReturned \/ StoreReturned
             \/ Cancel \/ LateAttempt \/ Closed \/ UNCHANGED vars
    BY <1>4 DEF Start, CollectSucceeded, RAGReturned, AlertReturned, StoreReturned,
                Cancel, LateAttempt, Closed, local, vars
  <1>5. ASSUME NEW a \in Activities,
               StartAttempt(a) \/ CompleteAttempt(a) \/ FailAttempt(a) \/ TimeOut(a)
        PROVE  report' = report /\ status' = status
    BY <1>5 DEF StartAttempt, CompleteAttempt, FailAttempt, TimeOut, local
  <1>6. QED BY <1>1, <1>2, <1>3, <1>4, <1>5 DEF Next, WorkflowStep

\* An alert goes out only from the alert activity, one at a time.
LEMMA AlertStep ==
    ASSUME IInv, [Next]_vars, alerts' # alerts
    PROVE  alerts' = alerts + 1 /\ Decision = "critical" /\ outcome' = outcome
  <1>1. CASE WorkflowStep \/ Cancel \/ Closed \/ UNCHANGED vars
    BY <1>1 DEF WorkflowStep, Start, CollectSucceeded, CollectFailed, GetReport, RAGReturned,
                LLMReturned, AlertReturned, StoreReturned, Cancel, Closed, vars
  <1>2. ASSUME NEW a \in Activities,
               StartAttempt(a) \/ CompleteAttempt(a) \/ FailAttempt(a) \/ TimeOut(a)
        PROVE  alerts' = alerts + 1 /\ Decision = "critical" /\ outcome' = outcome
    <2>1. a = "alert" /\ future[a].state = "running" /\ alerts' = alerts + Emitted
          /\ outcome' = outcome
      BY <1>2 DEF StartAttempt, CompleteAttempt, FailAttempt, TimeOut, local
    <2>2. Decision = "critical"
      BY <2>1 DEF IInv, AlertDecided
    <2>3. QED BY <2>1, <2>2, EmittedOnce DEF IInv, Shape
  <1>3. CASE LateAttempt
    <2>1. alerts' = alerts + Emitted /\ outcome' = outcome /\ late > 0
      BY <1>3 DEF LateAttempt
    <2>2. Decision = "critical"
      BY <2>1 DEF IInv, AlertDecided, AlertAccount, Shape
    <2>3. QED BY <2>1, <2>2, EmittedOnce DEF IInv, Shape
  <1>4. QED BY <1>1, <1>2, <1>3 DEF Next

\* The execution closes once; it completes only when it has decided, and gives
\* up only before.
LEMMA CloseStep ==
    ASSUME IInv, [Next]_vars, outcome' # outcome
    PROVE  /\ outcome = "open" /\ Decision' = Decision /\ alerts' = alerts
           /\ \/ Decision # "none" /\ outcome' = "completed"
              \/ Decision = "none" /\ outcome' \in {"failed", "canceled"}
  <1>1. CASE CollectFailed
    BY <1>1 DEF CollectFailed, IInv, Control, Decision
  <1>2. CASE StoreReturned
    BY <1>2 DEF StoreReturned, IInv, Control, Decision, HasCriticalFindings, local
  <1>3. CASE \/ Start \/ CollectSucceeded \/ RAGReturned \/ LLMReturned \/ AlertReturned
             \/ Cancel \/ LateAttempt \/ Closed \/ UNCHANGED vars
             \/ \E p \in Pipelines : GetReport(p)
             \/ \E a \in Activities : StartAttempt(a) \/ CompleteAttempt(a)
                                      \/ FailAttempt(a) \/ TimeOut(a)
    BY <1>3 DEF Start, CollectSucceeded, RAGReturned, LLMReturned, AlertReturned, Cancel,
                LateAttempt, Closed, GetReport, StartAttempt, CompleteAttempt, FailAttempt,
                TimeOut, vars
  <1>4. QED BY <1>1, <1>2, <1>3 DEF Next, WorkflowStep

LEMMA RoomForOne ==
    ASSUME NEW max \in Nat, NEW x \in Nat, NEW y \in Nat, NEW rest \in Nat,
           y = x + 1, y + rest <= max
    PROVE  x < max
  OBVIOUS

\* K8sAnalysisWorkflow implements AnalysisContract: it decides once, closes once,
\* completes exactly when it has decided, and alerts only for a critical decision.
THEOREM WorkflowKeepsContract == Spec => KeepsContract
  <1>1. Init => Contract!Init
    BY DEF Init, Contract!Init, Decision
  <1>2. IInv /\ IInv' /\ [Next]_vars => [Contract!Next]_(Contract!contractVars)
    <2> SUFFICES ASSUME IInv, IInv', [Next]_vars
                 PROVE  [Contract!Next]_(Contract!contractVars)
      OBVIOUS
    <2>1. CASE Decision' # Decision
      <3>1. Decision = "none" /\ Decision' \in {"quiet", "critical"}
        BY <2>1, DecisionStands
      <3>2. outcome = "open" /\ outcome' = outcome /\ alerts' = alerts
        BY <2>1, DecisionStands
      <3>3. QED BY <3>1, <3>2 DEF Contract!Next, Contract!Decide
    <2>2. CASE Decision' = Decision /\ outcome' # outcome
      BY <2>2, CloseStep DEF Contract!Next, Contract!Complete, Contract!GiveUp
    <2>3. CASE Decision' = Decision /\ outcome' = outcome /\ alerts' # alerts
      <3>1. alerts' = alerts + 1 /\ Decision = "critical"
        BY <2>3, AlertStep
      <3>2. alerts < MaxAttempts
        <4>1. alerts' + late' <= MaxAttempts /\ late' \in Nat /\ alerts' \in Nat /\ alerts \in Nat
          BY DEF IInv, Shape, AlertAccount
        <4>2. QED BY <4>1, <3>1, RoomForOne, MaxAttemptsAssumption
      <3>3. QED BY <2>3, <3>1, <3>2 DEF Contract!Next, Contract!SendAlert
    <2>4. CASE Decision' = Decision /\ outcome' = outcome /\ alerts' = alerts
      BY <2>4 DEF Contract!contractVars
    <2>5. QED BY <2>1, <2>2, <2>3, <2>4
  <1>3. QED BY <1>1, <1>2, Invariance, PTL DEF Spec, KeepsContract, Contract!Spec

----
(* Cancellation. *)

NothingPending == cancelled => \A a \in Activities : ~Pending(future[a])

LEMMA NothingPendingStep ==
    ASSUME IInv, NothingPending, [Next]_vars
    PROVE  NothingPending'
  <1> USE DEF NothingPending, Pending
  <1>1. ASSUME NEW acts, Schedule(acts), cancelled' = cancelled
        PROVE  NothingPending'
    BY <1>1 DEF Schedule, Scheduled
  <1>2. CASE Start \/ CollectSucceeded \/ RAGReturned \/ LLMReturned \/ AlertReturned
             \/ \E p \in Pipelines : GetReport(p)
    BY <1>1, <1>2 DEF Start, CollectSucceeded, RAGReturned, LLMReturned, AlertReturned,
                      GetReport
  <1>3. CASE CollectFailed \/ StoreReturned \/ LateAttempt \/ Closed \/ UNCHANGED vars
    BY <1>3 DEF CollectFailed, StoreReturned, LateAttempt, Closed, vars
  <1>4. CASE Cancel
    BY <1>4 DEF Cancel, Cancelled
  <1>5. ASSUME NEW a \in Activities,
               StartAttempt(a) \/ CompleteAttempt(a) \/ FailAttempt(a) \/ TimeOut(a)
        PROVE  NothingPending'
    <2>1. Pending(future[a]) /\ cancelled' = cancelled
      BY <1>5 DEF StartAttempt, CompleteAttempt, FailAttempt, TimeOut
    <2>2. ~cancelled
      BY <2>1
    <2>3. QED BY <2>1, <2>2
  <1>6. QED BY <1>2, <1>3, <1>4, <1>5 DEF Next, WorkflowStep

\* A cancelled context stays cancelled.
LEMMA NextKeepsCancelled ==
    ASSUME [Next]_vars, cancelled
    PROVE  cancelled'
  BY DEF Next, WorkflowStep, Start, CollectSucceeded, CollectFailed, GetReport, RAGReturned,
         LLMReturned, AlertReturned, StoreReturned, Cancel, LateAttempt, Closed, StartAttempt,
         CompleteAttempt, FailAttempt, TimeOut, vars

\* After CancelWorkflow no activity is scheduled and no attempt starts.
THEOREM NothingStarts == Spec => NothingStartsOnceCancelled
  <1>1. Init => NothingPending
    BY DEF Init, NothingPending
  <1>2. IInv /\ NothingPending /\ [Next]_vars => NothingPending'
    BY NothingPendingStep
  <1>3. NothingPending /\ NothingPending' /\ [Next]_vars =>
            [cancelled => \A a \in Activities :
                Pending(future'[a]) => future'[a] = future[a]]_vars
    BY NextKeepsCancelled DEF NothingPending, Pending, vars
  <1>4. QED BY <1>1, <1>2, <1>3, Invariance, PTL DEF Spec, NothingStartsOnceCancelled

----
(* The data the workflow carries, and the type invariant. *)

AnyReport == {Report(p, c) : p \in Pipelines, c \in Clusters} \cup {Nil}

\* The cluster state is collected once, before any pipeline is scheduled.
Collected ==
    /\ clusterState \in Clusters \cup {Nil}
    /\ future["collect"].state = "ok" => clusterState \in Clusters
    /\ future["collect"].state = "idle" => pc = "start"
    /\ Pending(future["collect"]) => pc = "collect"
    /\ pc \in {"start", "collect"} =>
          \A p \in Pipelines : future[p].state = "idle" /\ report[p] = Nil

\* Every report is the one of its pipeline on the collected state, and only the
\* pipelines asked for are run.
Reported ==
    /\ report \in [Pipelines -> AnyReport]
    /\ \A p \in Pipelines :
          /\ future[p].state # "idle" =>
                clusterState \in Clusters /\ p \in PipelinesOf(analysisType)
          /\ report[p] # Nil =>
                /\ clusterState \in Clusters /\ p \in PipelinesOf(analysisType)
                /\ report[p] = Report(p, clusterState)

Compiled ==
    /\ analysisType \in AnalysisTypes
    /\ summary \in {"critical", "high priority", "good health", Nil}
    /\ status \in {"running", "failed", "completed"}
    /\ findings \subseteq AnyFinding
    /\ alerts > 0 => AlertCount(report["security"], report["performance"]) > 0

Data == Collected /\ Reported /\ Compiled

LEMMA InitData == Init => Data
  <1> SUFFICES ASSUME Init PROVE Data
    OBVIOUS
  <1>1. Collected
    BY DEF Init, Collected, NoFuture, Pending, Activities, Pipelines
  <1>2. Reported
    BY DEF Init, Reported, AnyReport, NoFuture, Activities
  <1>3. Compiled
    BY DEF Init, Compiled
  <1>4. QED BY <1>1, <1>2, <1>3 DEF Data

\* What a schedule leaves in the futures: scheduled or cancelled where asked, the
\* old ones elsewhere.
LEMMA ScheduleStates ==
    ASSUME NEW acts \in SUBSET Activities, Schedule(acts)
    PROVE  \A a \in Activities :
              /\ a \in acts => future'[a].state \in {"scheduled", "canceled"}
              /\ a \notin acts => future'[a] = future[a]
  BY DEF Schedule, Scheduled

\* A step that neither schedules a pipeline nor touches a report, the cluster
\* state or the compiled result keeps the data.
LEMMA ReportedKept ==
    ASSUME Reported, report' = report, clusterState' = clusterState,
           analysisType' = analysisType,
           \A p \in Pipelines : future'[p].state # "idle" =>
               clusterState \in Clusters /\ p \in PipelinesOf(analysisType)
    PROVE  Reported'
  BY DEF Reported, PipelinesOf

LEMMA ReportInRange ==
    ASSUME Reported, NEW p \in Pipelines
    PROVE  FindingsIn(report[p]) \subseteq AnyFinding
  <1>1. CASE report[p] = Nil
    BY <1>1 DEF FindingsIn
  <1>2. CASE report[p] # Nil
    <2>1. clusterState \in Clusters /\ report[p] = Report(p, clusterState)
      BY <1>2 DEF Reported
    <2>2. FindingsIn(report[p]) = Report(p, clusterState).findings
      BY <1>2, <2>1 DEF FindingsIn
    <2>3. QED BY <2>1, <2>2 DEF AnyFinding
  <1>3. QED BY <1>1, <1>2

LEMMA NextData ==
    ASSUME IInv, Data, [Next]_vars
    PROVE  Data'
  <1>a. Pipelines \subseteq Activities /\ "collect" \in Activities /\ "collect" \notin Pipelines
        /\ "alert" \in Activities
    BY DEF Activities, Pipelines
  <1>b. Collected /\ Reported /\ Compiled
    BY DEF Data
  <1>1. CASE Start
    <2>1. \A a \in Activities :
              /\ a = "collect" => future'[a].state \in {"scheduled", "canceled"}
              /\ a # "collect" => future'[a] = future[a]
      BY <1>1, <1>a, ScheduleStates DEF Start
    <2>2. Collected'
      BY <1>1, <2>1, <1>a, <1>b DEF Start, Collected, local, Pending
    <2>3. Reported'
      BY <1>1, <2>1, <1>a, <1>b, ReportedKept DEF Start, Reported, local
    <2>4. Compiled'
      BY <1>1, <1>b DEF Start, Compiled, local
    <2>5. QED BY <2>2, <2>3, <2>4 DEF Data
  <1>2. CASE CollectSucceeded
    <2>1. \A a \in Activities :
              a \notin PipelinesOf(analysisType) => future'[a] = future[a]
      BY <1>2, <1>a, ScheduleStates DEF CollectSucceeded, PipelinesOf
    <2>2. clusterState \in Clusters
      BY <1>2, <1>b DEF CollectSucceeded, Collected
    <2>3. Collected'
      BY <1>2, <2>1, <2>2, <1>a, <1>b
         DEF CollectSucceeded, Collected, local, Pending, PipelinesOf
    <2>4. Reported'
      BY <1>2, <2>1, <2>2, <1>a, <1>b, ReportedKept
         DEF CollectSucceeded, Reported, local
    <2>5. Compiled'
      BY <1>2, <1>b DEF CollectSucceeded, Compiled, local
    <2>6. QED BY <2>3, <2>4, <2>5 DEF Data
  <1>3. CASE CollectFailed
    <2>1. Collected' /\ Reported'
      BY <1>3, <1>b DEF CollectFailed, Collected, Reported, Pending
    <2>2. Compiled'
      BY <1>3, <1>b DEF CollectFailed, Compiled
    <2>3. QED BY <2>1, <2>2 DEF Data
  <1>4. ASSUME NEW p \in Pipelines, GetReport(p) PROVE Data'
    <2>1. \A a \in Activities : a # "rag" => future'[a] = future[a]
      BY <1>4, <1>a, ScheduleStates DEF GetReport, Activities
    <2>2. "rag" \notin Pipelines /\ "rag" # "collect"
      BY DEF Pipelines
    <2>3. pc = p /\ pc \notin {"start", "collect"} /\ pc' \notin {"start", "collect"}
      BY <1>4 DEF GetReport, AfterPipeline, Pipelines
    <2>4. Collected'
      BY <1>4, <2>1, <2>2, <2>3, <1>a, <1>b DEF GetReport, Collected, Pending
    <2>5. ASSUME future[p].state = "ok" PROVE Reported'
      <3>1. clusterState \in Clusters /\ p \in PipelinesOf(analysisType)
        BY <2>5, <1>b DEF Reported
      <3>2. report' = [report EXCEPT ![p] = Report(p, clusterState)]
        BY <1>4, <2>5 DEF GetReport
      <3>3. report' \in [Pipelines -> AnyReport]
        BY <3>1, <3>2, <1>b DEF Reported, AnyReport
      <3>4. \A q \in Pipelines : q # p => report'[q] = report[q]
        BY <3>2, <1>b DEF Reported
      <3>5. report'[p] = Report(p, clusterState)
        BY <3>2, <1>b DEF Reported
      <3>6. clusterState' = clusterState /\ analysisType' = analysisType
            /\ PipelinesOf(analysisType)' = PipelinesOf(analysisType)
            /\ \A q \in Pipelines : future'[q] = future[q]
        BY <1>4, <2>1, <2>2, <1>a DEF GetReport
      <3>7. ASSUME NEW q \in Pipelines
            PROVE  /\ future'[q].state # "idle" =>
                        clusterState' \in Clusters /\ q \in PipelinesOf(analysisType)'
                   /\ report'[q] # Nil =>
                        /\ clusterState' \in Clusters /\ q \in PipelinesOf(analysisType)'
                        /\ report'[q] = Report(q, clusterState')
        <4>1. CASE q = p
          BY <4>1, <3>1, <3>5, <3>6
        <4>2. CASE q # p
          BY <4>2, <3>4, <3>6, <1>b DEF Reported
        <4>3. QED BY <4>1, <4>2
      <3>8. QED BY <3>3, <3>7 DEF Reported
    <2>6. ASSUME future[p].state # "ok" PROVE Reported'
      <3>1. report' = report /\ clusterState' = clusterState /\ analysisType' = analysisType
            /\ \A q \in Pipelines : future'[q] = future[q]
        BY <1>4, <2>6, <2>1, <2>2, <1>a DEF GetReport
      <3>2. \A q \in Pipelines : future'[q].state # "idle" =>
               clusterState \in Clusters /\ q \in PipelinesOf(analysisType)
        BY <3>1, <1>b DEF Reported
      <3>3. QED BY <3>1, <3>2, <1>b, ReportedKept
    <2>7. alerts = 0
      BY <2>3, <1>4 DEF IInv, Control, AlertDecided, AlertAccount, Decision, Pipelines
    <2>8. Compiled'
      <3>1. UNCHANGED <<analysisType, summary, status, findings>> /\ ~(alerts' > 0)
        BY <1>4, <2>7 DEF GetReport
      <3>2. QED BY <3>1, <1>b DEF Compiled
    <2>9. QED BY <2>4, <2>5, <2>6, <2>8 DEF Data
  <1>5. CASE RAGReturned \/ AlertReturned
    <2>1. \A a \in Activities : a \notin {"llm", "store"} => future'[a] = future[a]
      BY <1>5, ScheduleStates DEF RAGReturned, AlertReturned, Activities
    <2>2. {"llm", "store"} \cap (Pipelines \cup {"collect"}) = {}
      BY DEF Pipelines
    <2>3. Collected'
      BY <1>5, <2>1, <2>2, <1>a, <1>b DEF RAGReturned, AlertReturned, Collected, local, Pending
    <2>4. Reported'
      BY <1>5, <2>1, <2>2, <1>a, <1>b, ReportedKept
         DEF RAGReturned, AlertReturned, Reported, local
    <2>5. Compiled'
      BY <1>5, <1>b DEF RAGReturned, AlertReturned, Compiled, local
    <2>6. QED BY <2>3, <2>4, <2>5 DEF Data
  <1>6. CASE LLMReturned
    <2>1. \A a \in Activities : a \notin {"alert", "store"} => future'[a] = future[a]
      BY <1>6, ScheduleStates DEF LLMReturned, Activities
    <2>2. {"alert", "store"} \cap (Pipelines \cup {"collect"}) = {}
      BY DEF Pipelines
    <2>3. Collected'
      BY <1>6, <2>1, <2>2, <1>a, <1>b DEF LLMReturned, Collected, Pending
    <2>4. Reported'
      BY <1>6, <2>1, <2>2, <1>a, <1>b, ReportedKept DEF LLMReturned, Reported
    <2>5. findings' \subseteq AnyFinding
      BY <1>6, <1>b, ReportInRange DEF LLMReturned, AggregateFindings
    <2>6. Compiled'
      <3>1. summary' \in {"critical", "high priority", "good health", Nil}
        BY <1>6 DEF LLMReturned, ExecutiveSummary
      <3>2. analysisType' = analysisType /\ status' = "completed" /\ alerts' = alerts
            /\ report' = report
        BY <1>6 DEF LLMReturned
      <3>3. QED BY <2>5, <3>1, <3>2, <1>b DEF Compiled
    <2>7. QED BY <2>3, <2>4, <2>6 DEF Data
  <1>7. CASE StoreReturned \/ Closed \/ UNCHANGED vars
    <2>1. /\ analysisType' = analysisType /\ future' = future
          /\ clusterState' = clusterState /\ report' = report /\ summary' = summary
          /\ status' = status /\ findings' = findings /\ alerts' = alerts
          /\ pc' = pc \/ (pc = "store" /\ pc' = "closed")
      <3>1. CASE StoreReturned
        BY <3>1 DEF StoreReturned, local
      <3>2. CASE Closed
        BY <3>2 DEF Closed, vars
      <3>3. CASE UNCHANGED vars
        BY <3>3 DEF vars
      <3>4. QED BY <1>7, <3>1, <3>2, <3>3
    <2>2. Collected'
      BY <2>1, <1>b DEF Collected, Pending
    <2>3. Reported' /\ Compiled'
      BY <2>1, <1>b DEF Reported, Compiled, PipelinesOf
    <2>4. QED BY <2>2, <2>3 DEF Data
  <1>8. CASE Cancel
    <2>1. \A a \in Activities : /\ future'[a].state = "idle" <=> future[a].state = "idle"
                                /\ future'[a].state = "ok" <=> future[a].state = "ok"
                                /\ ~Pending(future'[a])
      BY <1>8 DEF Cancel, Cancelled, Pending
    <2>2. Collected'
      BY <1>8, <2>1, <1>a, <1>b DEF Cancel, Collected, local
    <2>3. Reported'
      BY <1>8, <2>1, <1>a, <1>b, ReportedKept DEF Cancel, Reported, local
    <2>4. Compiled'
      BY <1>8, <1>b DEF Cancel, Compiled, local
    <2>5. QED BY <2>2, <2>3, <2>4 DEF Data
  <1>9. CASE LateAttempt
    <2>1. Collected' /\ Reported'
      BY <1>9, <1>b DEF LateAttempt, Collected, Reported, local, Pending, PipelinesOf
    <2>2. Compiled'
      <3>1. UNCHANGED <<analysisType, report, summary, status, findings>>
        BY <1>9 DEF LateAttempt, local
      <3>2. alerts' = alerts \/ AlertCount(report["security"], report["performance"]) > 0
        BY <1>9 DEF LateAttempt, Emitted, IInv, Shape
      <3>3. QED BY <3>1, <3>2, <1>b DEF Compiled
    <2>3. QED BY <2>1, <2>2 DEF Data
  <1>10. ASSUME NEW a \in Activities,
                StartAttempt(a) \/ CompleteAttempt(a) \/ FailAttempt(a) \/ TimeOut(a)
         PROVE  Data'
    <2>1. /\ Pending(future[a]) /\ future'[a].state # "idle"
          /\ \A b \in Activities : b # a => future'[b] = future[b]
      BY <1>10 DEF StartAttempt, CompleteAttempt, FailAttempt, TimeOut, Pending, Started,
                   Succeeded, RetryOrFail, IInv, Shape
    <2>2. future[a].state # "idle"
      BY <2>1 DEF Pending
    <2>3. CASE a = "collect" /\ CompleteAttempt(a)
      <3>1. pc = "collect" /\ pc' = pc
        BY <2>1, <2>3, <1>b DEF Collected, CompleteAttempt
      <3>2. \A p \in Pipelines : future'[p].state = "idle" /\ report'[p] = Nil
        BY <2>1, <2>3, <3>1, <1>a, <1>b DEF Collected, CompleteAttempt
      <3>3. clusterState' \in Clusters /\ report' = report /\ ~Pending(future'["collect"])
        BY <2>3, <1>a DEF CompleteAttempt, Succeeded, Pending, IInv, Shape
      <3>4. Collected'
        BY <2>1, <2>3, <3>1, <3>2, <3>3 DEF Collected
      <3>5. Reported'
        BY <3>2, <3>3, <1>b DEF Reported
      <3>6. Compiled'
        BY <2>3, <1>b DEF CompleteAttempt, Compiled
      <3>7. QED BY <3>4, <3>5, <3>6 DEF Data
    <2>4. CASE ~(a = "collect" /\ CompleteAttempt(a))
      <3>1. UNCHANGED <<analysisType, pc, clusterState, report, summary, status, findings>>
        BY <1>10, <2>4 DEF StartAttempt, CompleteAttempt, FailAttempt, TimeOut, local
      <3>2. a = "collect" => future'[a].state # "ok"
        BY <1>10, <2>4, <1>a DEF StartAttempt, FailAttempt, TimeOut, Started, RetryOrFail,
                             IInv, Shape
      <3>3. Collected'
        <4>1. CASE a = "collect"
          BY <2>1, <2>2, <3>1, <3>2, <4>1, <1>a, <1>b DEF Collected
        <4>2. CASE a # "collect"
          <5>1. pc \notin {"start", "collect"} \/ a \notin Pipelines
            BY <2>2, <1>b DEF Collected
          <5>2. QED BY <2>1, <3>1, <4>2, <5>1, <1>a, <1>b DEF Collected
        <4>3. QED BY <4>1, <4>2
      <3>4. Reported'
        BY <2>1, <2>2, <3>1, <1>a, <1>b, ReportedKept DEF Reported
      <3>5. alerts' = alerts \/ AlertCount(report["security"], report["performance"]) > 0
        BY <1>10 DEF StartAttempt, CompleteAttempt, FailAttempt, TimeOut, local, Emitted,
                     IInv, Shape
      <3>6. Compiled'
        BY <3>1, <3>5, <1>b DEF Compiled
      <3>7. QED BY <3>3, <3>4, <3>6 DEF Data
    <2>5. QED BY <2>3, <2>4
  <1>11. QED
    BY <1>1, <1>2, <1>3, <1>4, <1>5, <1>6, <1>7, <1>8, <1>9, <1>10
       DEF Next, WorkflowStep

\* In every reachable state the data is what the activities produced from the
\* one collected cluster state.
THEOREM DataInvariance == Spec => []Data
  <1>1. Init => Data
    BY InitData
  <1>2. IInv /\ Data /\ [Next]_vars => Data'
    BY NextData
  <1>3. QED BY <1>1, <1>2, Invariance, PTL DEF Spec

\* Type correctness of the workflow, of every future and of every report.
THEOREM TypeCorrect == Spec => []TypeOK
  <1>1. IInv /\ Data => TypeOK
    <2> SUFFICES ASSUME IInv, Data PROVE TypeOK
      OBVIOUS
    <2>1. late \in 0..MaxAttempts
      BY MaxAttemptsAssumption DEF IInv, Shape, AlertAccount
    <2>2. \A p \in Pipelines : report[p] \in {Report(p, c) : c \in Clusters} \cup {Nil}
      BY DEF Data, Reported
    <2>3. findings \subseteq AnyFinding
      BY DEF Data, Compiled
    <2>4. /\ analysisType \in AnalysisTypes /\ clusterState \in Clusters \cup {Nil}
          /\ summary \in {"critical", "high priority", "good health", Nil}
          /\ status \in {"running", "failed", "completed"}
      BY DEF Data, Collected, Compiled
    <2>5. /\ pc \in Phases /\ future \in [Activities -> FutureType(MaxAttempts)]
          /\ cancelled \in BOOLEAN /\ alerts \in Nat
          /\ outcome \in {"open", "completed", "failed", "canceled"}
      BY DEF IInv, Shape, Control
    <2>6. QED BY <2>1, <2>2, <2>3, <2>4, <2>5 DEF TypeOK, Phases
  <1>2. QED BY <1>1, Invariance, DataInvariance, PTL

----
(* No false alarm. *)

LEMMA NothingCounted ==
    ASSUME NEW F, NEW sev, \A f \in F : f.severity # sev
    PROVE  BySeverity(F, sev) = 0
  <1>1. {f \in F : f.severity = sev} = {}
    OBVIOUS
  <1>2. QED BY <1>1, FS_EmptySet DEF BySeverity

\* A report counts something critical only if the cluster holds it.
LEMMA CriticalIsReal ==
    ASSUME NEW p \in {"security", "performance"}, NEW c,
           ~CriticalFor(p, c)
    PROVE  Report(p, c).critical = 0
  <1>1. CASE p = "security"
    <2>1. Report(p, c).critical = BySeverity(SecurityFindings(c), "CRITICAL")
      BY <1>1 DEF Report, Summarised
    <2>2. \A f \in SecurityFindings(c) : f.severity # "CRITICAL"
      BY <1>1 DEF CriticalFor, SecurityFindings, Raise
    <2>3. QED BY <2>1, <2>2, NothingCounted
  <1>2. CASE p = "performance"
    <2>1. Report(p, c).critical = BySeverity(PerformanceFindings(c), "CRITICAL")
      BY <1>2 DEF Report, Summarised
    <2>2. \A f \in PerformanceFindings(c) : f.severity # "CRITICAL"
      BY <1>2 DEF CriticalFor, PerformanceFindings, Raise
    <2>3. QED BY <2>1, <2>2, NothingCounted
  <1>3. QED BY <1>1, <1>2

\* An analysis that emits an alert has a privileged or a crash-looping pod in the
\* state it collected, found by a pipeline that was asked for.
THEOREM AlertsAreSound == Spec => []AlertsSound
  <1>1. IInv /\ Data => AlertsSound
    <2> SUFFICES ASSUME Data, alerts > 0
                 PROVE  /\ clusterState # Nil
                        /\ \E p \in PipelinesOf(analysisType) : CriticalFor(p, clusterState)
      BY DEF AlertsSound
    <2>1. CriticalIn(report["security"]) + CriticalIn(report["performance"]) > 0
      BY DEF Data, Compiled, AlertCount
    <2>2. \E p \in {"security", "performance"} : CriticalIn(report[p]) # 0
      BY <2>1
    <2>3. PICK p \in {"security", "performance"} : CriticalIn(report[p]) # 0
      BY <2>2
    <2>4. report[p] # Nil /\ report[p].critical # 0 /\ p \in Pipelines
      BY <2>3 DEF CriticalIn, Pipelines
    <2>5. /\ clusterState \in Clusters /\ p \in PipelinesOf(analysisType)
          /\ report[p] = Report(p, clusterState)
      BY <2>4 DEF Data, Reported
    <2>6. CriticalFor(p, clusterState)
      BY <2>4, <2>5, CriticalIsReal
    <2>7. QED BY <2>5, <2>6, NilAssumption
  <1>2. QED BY <1>1, Invariance, DataInvariance, PTL

----
(* Nothing critical is missed, and nobody is told of good health meanwhile. *)

\* The compiled result is the one of the final reports.
Result ==
    status = "completed" =>
        /\ findings = AggregateFindings
        /\ summary \in {ExecutiveSummary(report["security"], report["performance"]), Nil}

\* The store is reached past the alert, which was run if something is critical;
\* one that succeeded has emitted what there was to emit.
Alerted ==
    /\ pc = "store" \/ outcome = "completed" =>
          /\ ~Pending(future["alert"])
          /\ HasCriticalFindings => future["alert"].state # "idle"
    /\ future["alert"].state = "ok" /\ Emitted > 0 => alerts > 0
    /\ future["alert"].state = "canceled" => cancelled

Reached == pc = "store" \/ outcome = "completed"

\* A step that comes no nearer to the end and leaves the alert alone.
LEMMA AlertedFrame ==
    ASSUME Result, Alerted, alerts \in Nat, alerts' \in Nat, alerts' >= alerts,
           UNCHANGED <<report, summary, findings>>,
           future'["alert"] = future["alert"], cancelled' = cancelled,
           status' = "completed" => status = "completed", Reached' => Reached
    PROVE  Result' /\ Alerted'
  BY DEF Result, Alerted, Reached, AggregateFindings, HasCriticalFindings, Emitted

LEMMA CompiledResult ==
    ASSUME LLMReturned
    PROVE  Result'
  <1>1. /\ report' = report /\ findings' = AggregateFindings
        /\ summary' \in {ExecutiveSummary(report["security"], report["performance"]), Nil}
    BY DEF LLMReturned
  <1>2. AggregateFindings' = AggregateFindings
    BY <1>1 DEF AggregateFindings
  <1> QED BY <1>1, <1>2 DEF Result

LEMMA NextAlerted ==
    ASSUME IInv, Result, Alerted, [Next]_vars
    PROVE  Result' /\ Alerted'
  <1>a. "alert" \in Activities /\ "alert" \notin Pipelines /\ alerts \in Nat
        /\ future \in [Activities -> FutureType(MaxAttempts)] /\ cancelled \in BOOLEAN
    BY DEF Activities, Pipelines, IInv, Shape
  <1>b. alerts >= alerts
    BY <1>a
  <1>1. CASE Start \/ CollectSucceeded \/ RAGReturned
    <2>1. PICK acts \in SUBSET Activities : Schedule(acts) /\ "alert" \notin acts
      BY <1>1 DEF Start, CollectSucceeded, RAGReturned, Activities, Pipelines, PipelinesOf
    <2>2. future'["alert"] = future["alert"]
      BY <2>1, <1>a, ScheduleStates
    <2>3. /\ UNCHANGED <<report, summary, findings, cancelled, alerts, status, outcome>>
          /\ pc' # "store"
      BY <1>1 DEF Start, CollectSucceeded, RAGReturned, local
    <2> QED BY <1>a, <1>b, <2>2, <2>3, AlertedFrame DEF Reached
  <1>2. CASE CollectFailed
    BY <1>2, <1>a, <1>b, AlertedFrame DEF CollectFailed, Reached
  <1>3. ASSUME NEW p \in Pipelines, GetReport(p) PROVE Result' /\ Alerted'
    <2>1. pc = p /\ status # "completed" /\ outcome = "open"
      BY <1>3 DEF GetReport, IInv, Control, Pipelines
    <2>2. future["alert"].state = "idle"
      BY <2>1 DEF IInv, AlertDecided, Decision
    <2>3. PICK acts \in SUBSET Activities : Schedule(acts) /\ "alert" \notin acts
      BY <1>3 DEF GetReport, Activities
    <2>4. future'["alert"] = future["alert"]
      BY <2>3, <1>a, ScheduleStates
    <2>5. /\ pc' # "store" /\ UNCHANGED <<status, outcome>>
      BY <1>3 DEF GetReport, AfterPipeline, Pipelines
    <2> QED BY <2>1, <2>2, <2>4, <2>5 DEF Result, Alerted
  <1>4. CASE LLMReturned
    <2>1. /\ pc = "llm" /\ outcome = "open" /\ status # "completed" /\ outcome' = outcome
          /\ UNCHANGED <<report, cancelled, alerts>>
      BY <1>4 DEF LLMReturned, IInv, Control
    <2>2. future["alert"].state = "idle"
      BY <2>1 DEF IInv, AlertDecided, Decision
    <2>3. HasCriticalFindings' = HasCriticalFindings
      BY <2>1 DEF HasCriticalFindings
    <2>4. CASE HasCriticalFindings
      <3>1. pc' = "alert" /\ Schedule({"alert"}) /\ {"alert"} \in SUBSET Activities
        BY <1>4, <2>4, <1>a DEF LLMReturned
      <3>2. future'["alert"] = Scheduled(cancelled)
        BY <3>1, <1>a DEF Schedule
      <3>3. future'["alert"].state \in {"scheduled", "canceled"}
            /\ (future'["alert"].state = "canceled" => cancelled)
        BY <3>2 DEF Scheduled
      <3> QED BY <2>1, <3>1, <3>3, <1>4, CompiledResult DEF Alerted
    <2>5. CASE ~HasCriticalFindings
      <3>1. pc' = "store" /\ Schedule({"store"}) /\ {"store"} \in SUBSET Activities
        BY <1>4, <2>5 DEF LLMReturned, Activities
      <3>2. future'["alert"] = future["alert"]
        BY <3>1, <1>a, ScheduleStates
      <3> QED BY <2>1, <2>2, <2>3, <2>5, <3>2, <1>4, CompiledResult DEF Alerted, Pending
    <2> QED BY <2>4, <2>5
  <1>5. CASE AlertReturned
    <2>1. /\ pc = "alert" /\ Resolved(future["alert"]) /\ Schedule({"store"})
          /\ UNCHANGED <<report, summary, findings, status, cancelled, alerts, outcome>>
      BY <1>5 DEF AlertReturned, local
    <2>2. future'["alert"] = future["alert"]
      BY <2>1, <1>a, ScheduleStates DEF Activities
    <2>3. future["alert"].state # "idle" /\ ~Pending(future["alert"])
      BY <2>1 DEF Resolved, Pending
    <2>4. Emitted' = Emitted /\ AggregateFindings' = AggregateFindings
      BY <2>1 DEF Emitted, AggregateFindings
    <2> QED BY <2>1, <2>2, <2>3, <2>4 DEF Result, Alerted
  <1>6. CASE StoreReturned \/ Closed \/ UNCHANGED vars
    <2>1. /\ UNCHANGED <<report, summary, findings, status, cancelled, alerts, future>>
          /\ Reached' => Reached
      BY <1>6 DEF StoreReturned, Closed, vars, local, Reached
    <2> QED BY <1>a, <1>b, <2>1, AlertedFrame
  <1>7. CASE Cancel
    <2>1. /\ UNCHANGED <<report, summary, findings, status, alerts, pc, outcome>> /\ cancelled'
          /\ future'["alert"] = Cancelled(future["alert"])
      BY <1>7, <1>a DEF Cancel, local
    <2>2. /\ ~Pending(future'["alert"])
          /\ future'["alert"].state = "idle" => future["alert"].state = "idle"
          /\ future'["alert"].state = "ok" => future["alert"].state = "ok"
      BY <2>1 DEF Cancelled, Pending
    <2>3. Emitted' = Emitted /\ AggregateFindings' = AggregateFindings
          /\ HasCriticalFindings' = HasCriticalFindings
      BY <2>1 DEF Emitted, AggregateFindings, HasCriticalFindings
    <2> QED BY <2>1, <2>2, <2>3 DEF Result, Alerted
  <1>8. CASE LateAttempt
    <2>1. /\ UNCHANGED <<report, summary, findings, status, cancelled, future, pc, outcome>>
          /\ alerts' \in {alerts, alerts + Emitted}
      BY <1>8 DEF LateAttempt, local
    <2>2. alerts' \in Nat /\ alerts' >= alerts
      BY <2>1, <1>a, EmittedOnce
    <2> QED BY <1>a, <2>1, <2>2, AlertedFrame DEF Reached
  <1>9. ASSUME NEW a \in Activities,
               StartAttempt(a) \/ CompleteAttempt(a) \/ FailAttempt(a) \/ TimeOut(a)
        PROVE  Result' /\ Alerted'
    <2>1. /\ UNCHANGED <<report, summary, findings, status, cancelled, pc, outcome>>
          /\ Pending(future[a])
          /\ alerts' \in {alerts, alerts + Emitted}
      BY <1>9 DEF StartAttempt, CompleteAttempt, FailAttempt, TimeOut, local, Pending
    <2>2. alerts' \in Nat /\ alerts' >= alerts
      BY <2>1, <1>a, EmittedOnce
    <2>3. CASE a # "alert"
      <3>1. future'["alert"] = future["alert"]
        BY <1>9, <2>3, <1>a DEF StartAttempt, CompleteAttempt, FailAttempt, TimeOut
      <3> QED BY <1>a, <2>1, <2>2, <3>1, AlertedFrame DEF Reached
    <2>4. CASE a = "alert"
      <3>1. ~Reached
        BY <2>1, <2>4 DEF Alerted, Reached
      <3>2. /\ future'["alert"].state # "canceled"
            /\ future'["alert"].state = "ok" => alerts' = alerts + Emitted
        BY <1>9, <2>4, <1>a DEF StartAttempt, CompleteAttempt, FailAttempt, TimeOut, Started,
                               RetryOrFail, Succeeded
      <3>3. Emitted' = Emitted /\ AggregateFindings' = AggregateFindings
        BY <2>1 DEF Emitted, AggregateFindings
      <3>4. future'["alert"].state = "ok" /\ Emitted > 0 => alerts' > 0
        BY <3>2, <1>a, EmittedOnce
      <3>5. Result'
        BY <2>1, <3>3 DEF Result
      <3> QED BY <2>1, <3>1, <3>2, <3>3, <3>4, <3>5 DEF Alerted, Reached
    <2> QED BY <2>3, <2>4
  <1> QED
    BY <1>1, <1>2, <1>3, <1>4, <1>5, <1>6, <1>7, <1>8, <1>9 DEF Next, WorkflowStep

THEOREM AlertedInvariance == Spec => [](Result /\ Alerted)
  <1>1. Init => Result /\ Alerted
    BY DEF Init, Result, Alerted, NoFuture, Activities, Pending
  <1>2. IInv /\ Result /\ Alerted /\ [Next]_vars => (Result /\ Alerted)'
    BY NextAlerted
  <1> QED BY <1>1, <1>2, Invariance, PTL DEF Spec

\* Whoever gets an alert does not read of good health in the same result:
\* SendAlertsActivity and LLMEnhanceAnalysisActivity count the same.
THEOREM AlertAndSummaryAgree == Spec => []AlertMatchesSummary
  <1>1. IInv /\ Data /\ Result => AlertMatchesSummary
    <2> SUFFICES ASSUME IInv, Data, Result, alerts > 0 PROVE summary \in {"critical", Nil}
      BY DEF AlertMatchesSummary
    <2>1. future["alert"].state # "idle"
      BY DEF IInv, AlertAccount
    <2>2. status = "completed"
      BY <2>1 DEF IInv, AlertDecided, Decision
    <2>3. CriticalIn(report["security"]) + CriticalIn(report["performance"]) > 0
      BY DEF Data, Compiled, AlertCount
    <2> QED BY <2>2, <2>3 DEF Result, ExecutiveSummary
  <1> QED BY <1>1, Invariance, DataInvariance, AlertedInvariance, PTL

LEMMA RaisedFinite ==
    ASSUME NEW rule, NEW severity, NEW objects, IsFiniteSet(objects)
    PROVE  IsFiniteSet(Raise(rule, severity, objects))
  <1> DEFINE raise == [o \in objects |-> [rule |-> rule, severity |-> severity, on |-> o]]
  <1>1. raise \in Surjection(objects, Raise(rule, severity, objects))
    BY DEF Surjection, Raise
  <1> QED BY <1>1, FS_Surjection

\* The finite sets of the cluster make finite reports.
LEMMA CriticalFinite ==
    ASSUME NEW c, IsFiniteSet(c.pods), NEW p \in {"security", "performance"}
    PROVE  /\ IsFiniteSet({f \in Report(p, c).findings : f.severity = "CRITICAL"})
           /\ Report(p, c).critical = Cardinality({f \in Report(p, c).findings : f.severity = "CRITICAL"})
  <1> DEFINE F == Report(p, c).findings
             privileged == {pod \in c.pods : pod.privileged}
             crashing == {pod \in c.pods : pod.status = "CrashLoopBackOff"}
             raised == Raise("privileged", "CRITICAL", privileged) \cup Raise("crash", "CRITICAL", crashing)
  <1>1. IsFiniteSet(raised)
    <2>1. IsFiniteSet(privileged) /\ IsFiniteSet(crashing)
      BY FS_Subset
    <2> HIDE DEF privileged, crashing
    <2> QED BY <2>1, RaisedFinite, FS_Union
  <1>2. {f \in F : f.severity = "CRITICAL"} \subseteq raised
    <2>1. CASE p = "security"
      BY <2>1 DEF Report, Summarised, SecurityFindings, Raise
    <2>2. CASE p = "performance"
      BY <2>2 DEF Report, Summarised, PerformanceFindings, Raise
    <2> QED BY <2>1, <2>2
  <1>3. Report(p, c).critical = Cardinality({f \in F : f.severity = "CRITICAL"})
    BY DEF Report, Summarised, BySeverity
  <1> HIDE DEF raised
  <1> QED BY <1>1, <1>2, <1>3, FS_Subset

LEMMA CountedIfFound ==
    ASSUME NEW c, IsFiniteSet(c.pods), NEW p \in {"security", "performance"}
    PROVE  /\ Report(p, c).critical \in Nat
           /\ (\E f \in Report(p, c).findings : f.severity = "CRITICAL") => Report(p, c).critical > 0
  <1> DEFINE S == {f \in Report(p, c).findings : f.severity = "CRITICAL"}
  <1>1. IsFiniteSet(S) /\ Report(p, c).critical = Cardinality(S)
    BY CriticalFinite
  <1>2. Cardinality(S) \in Nat /\ (Cardinality(S) = 0 => S = {})
    BY <1>1, FS_CardinalityType, FS_EmptySet
  <1> QED BY <1>1, <1>2

\* Of the predictions, only those about memory are CRITICAL.
LEMMA PredictedCritical ==
    ASSUME NEW c, NEW f \in Report("prediction", c).findings, f.severity = "CRITICAL"
    PROVE  f.rule = "pred-mem"
  BY DEF Report, Summarised, Predictions, Raise

\* A completed analysis that lists a critical finding of the pods has alerted,
\* unless it was cancelled or the alert failed for good.
THEOREM NothingCriticalMissed == Spec => []CriticalNotMissed
  <1>1. IInv /\ Data /\ Result /\ Alerted => CriticalNotMissed
    <2> SUFFICES ASSUME IInv, Data, Result, Alerted,
                        outcome = "completed", ~cancelled, future["alert"].state # "failed",
                        NEW f \in findings, f.severity = "CRITICAL", f.rule # "pred-mem"
                 PROVE  alerts > 0
      BY DEF CriticalNotMissed
    <2>1. findings = AggregateFindings
      BY DEF IInv, Control, Result
    <2>2. PICK p \in Pipelines : f \in FindingsIn(report[p])
      BY <2>1 DEF AggregateFindings
    <2>3. /\ report[p] # Nil /\ clusterState \in Clusters /\ report[p] = Report(p, clusterState)
          /\ f \in report[p].findings
      BY <2>2 DEF FindingsIn, Data, Reported
    <2>4. p \in {"security", "performance"}
      BY <2>3, PredictedCritical DEF Pipelines
    <2>5. IsFiniteSet(clusterState.pods)
      BY <2>3, ClustersAssumption
    <2>6. \A r \in {"security", "performance"} : CriticalIn(report[r]) \in Nat
      <3> SUFFICES ASSUME NEW r \in {"security", "performance"}, report[r] # Nil
                   PROVE  CriticalIn(report[r]) \in Nat
        BY DEF CriticalIn
      <3>1. report[r] = Report(r, clusterState)
        BY DEF Data, Reported, Pipelines
      <3> QED BY <2>5, <3>1, CountedIfFound DEF CriticalIn
    <2>7. CriticalIn(report[p]) > 0
      BY <2>3, <2>4, <2>5, CountedIfFound DEF CriticalIn
    <2>8. HasCriticalFindings /\ Emitted > 0
      BY <2>2, <2>4, <2>6, <2>7 DEF HasCriticalFindings, Emitted, AlertCount
    <2>9. future["alert"].state \in {"idle", "scheduled", "running", "ok", "failed", "canceled"}
      BY DEF IInv, Shape, FutureType, Activities
    <2> QED BY <2>8, <2>9 DEF Alerted, Pending
  <1> QED BY <1>1, Invariance, DataInvariance, AlertedInvariance, PTL

----
(* The scores and the risk level of the two analyses, for clusters of any size. *)

LEMMA CountsAreNatural ==
    ASSUME NEW F, IsFiniteSet(F), NEW sev
    PROVE  BySeverity(F, sev) \in Nat
  <1>1. IsFiniteSet({f \in F : f.severity = sev})
    BY FS_Subset
  <1> QED BY <1>1, FS_CardinalityType DEF BySeverity

LEMMA CountOfSome ==
    ASSUME NEW F, IsFiniteSet(F), NEW g \in F
    PROVE  BySeverity(F, g.severity) >= 1
  <1> DEFINE S == {f \in F : f.severity = g.severity}
  <1>1. IsFiniteSet(S) /\ g \in S
    BY FS_Subset
  <1>2. Cardinality(S) # 0 /\ Cardinality(S) \in Nat
    BY <1>1, FS_EmptySet, FS_CardinalityType
  <1> QED BY <1>2 DEF BySeverity

\* Both scores stay between 0 and 100, however many findings there are
\* (SecurityAnalysisActivity, PerformanceAnalysisActivity).
THEOREM ScoresInRange ==
    ASSUME NEW F, IsFiniteSet(F)
    PROVE  PostureScore(F) \in 0..100 /\ HealthScore(F) \in 0..100
  <1>1. \A n \in Int : n <= 100 => NotNegative(n) \in 0..100
    BY DEF NotNegative
  <1>2. \A sev : BySeverity(F, sev) \in Nat
    BY CountsAreNatural
  <1> DEFINE P == 100 - 20 * BySeverity(F, "CRITICAL") - 10 * BySeverity(F, "HIGH")
                      - 5 * BySeverity(F, "MEDIUM") - 2 * BySeverity(F, "LOW")
             H == 100 - 25 * BySeverity(F, "CRITICAL") - 15 * BySeverity(F, "HIGH")
                      - 5 * BySeverity(F, "MEDIUM")
  <1>3. P \in Int /\ P <= 100
    BY <1>2
  <1>4. H \in Int /\ H <= 100
    BY <1>2
  <1> HIDE DEF P, H
  <1>5. NotNegative(P) \in 0..100 /\ NotNegative(H) \in 0..100
    BY <1>1, <1>3, <1>4
  <1> QED BY <1>5 DEF PostureScore, HealthScore, P, H

\* A finding that counts is seen in the score: a report with a HIGH or CRITICAL
\* finding is never at 100.
THEOREM ScoresTell ==
    ASSUME NEW F, IsFiniteSet(F), NEW g \in F, g.severity \in {"CRITICAL", "HIGH"}
    PROVE  PostureScore(F) <= 90 /\ HealthScore(F) <= 85
  <1>1. BySeverity(F, "CRITICAL") + BySeverity(F, "HIGH") >= 1
    BY CountOfSome, CountsAreNatural
  <1> QED BY <1>1, CountsAreNatural DEF PostureScore, HealthScore, NotNegative

\* What the risk level can hide: a report rated LOW holds one CRITICAL finding
\* at most, and holds one only if it holds nothing else above INFO.
THEOREM LowRisk ==
    ASSUME NEW F, IsFiniteSet(F), RiskLevel(PostureScore(F)) = "LOW"
    PROVE  /\ BySeverity(F, "CRITICAL") <= 1
           /\ BySeverity(F, "CRITICAL") = 1 =>
                 \A sev \in {"HIGH", "MEDIUM", "LOW"} : BySeverity(F, sev) = 0
  <1>1. PostureScore(F) >= 80
    BY ScoresInRange DEF RiskLevel
  <1>2. 20 * BySeverity(F, "CRITICAL") + 10 * BySeverity(F, "HIGH")
            + 5 * BySeverity(F, "MEDIUM") + 2 * BySeverity(F, "LOW") <= 20
    BY <1>1, CountsAreNatural DEF PostureScore, NotNegative
  <1> QED BY <1>2, CountsAreNatural
====
