---- MODULE EventWorkflow_proofs ----
(***************************************************************************)
(* Theorems about EventAnalysisWorkflow, for every set of reasons and of   *)
(* cluster states and every retry limit.                                   *)
(***************************************************************************)
EXTENDS EventWorkflow, FiniteSetTheorems, TLAPS

----
(* The inductive invariant, in named parts. *)

Analyses == {"security", "performance"}

Shape ==
    /\ reason \in Reasons
    /\ pc \in Activities \cup {"start", "closed"}
    /\ future \in [Activities -> FutureType(QuickAttempts)]
    /\ \A a \in Activities :
          /\ future[a].state = "canceled" => cancelled
          /\ IF a \in DeepActivities THEN future[a].attempt = 0 /\ future[a].state # "failed"
             ELSE future[a].state = "scheduled" => future[a].attempt < QuickAttempts
    /\ cancelled \in BOOLEAN
    /\ outcome \in {"open", "completed", "failed", "canceled"}
    /\ outcome = "open" <=> pc # "closed"

\* Where the workflow code is before it schedules a.
Before(a) ==
    CASE a = "triage"      -> {"start"}
      [] a = "collect"     -> {"start", "triage"}
      [] a = "security"    -> {"start", "triage", "collect"}
      [] a = "performance" -> {"start", "triage", "collect", "security"}
      [] a = "alert"       -> {"start", "triage", "collect", "security", "performance"}

\* One activity is scheduled at a time, in program order, and none of the deep
\* work for an event that does not call for it.
Flow ==
    /\ \A a \in Activities : /\ Pending(future[a]) => pc = a
                             /\ pc \in Before(a) => future[a].state = "idle"
    /\ triage \in {Nil, Triage(reason)}
    /\ future["triage"].state = "ok" => triage = Triage(reason)
    /\ \A a \in Activities \ {"triage"} :
          pc = a \/ future[a].state # "idle" =>
              triage = Triage(reason) /\ NeedsDeepAnalysis(Triage(reason))

\* Where the workflow code is once it has the result of p.
After(p) == IF p = "security" THEN {"performance", "alert", "closed"} ELSE {"alert", "closed"}

\* The reports are those of the collected state; both analyses of it are made.
Reported ==
    /\ clusterState \in Clusters \cup {Nil}
    /\ clusterState # Nil <=> future["collect"].state = "ok"
    /\ report \in [Analyses -> {Nil} \cup {Report(p, c) : p \in Analyses, c \in Clusters}]
    /\ \A p \in Analyses :
          /\ report[p] # Nil => clusterState # Nil /\ report[p] = Report(p, clusterState)
          /\ future[p].state # "idle" => clusterState # Nil
          /\ clusterState # Nil /\ pc \in After(p) =>
                /\ Resolved(future[p])
                /\ future[p].state = "ok" => report[p] = Report(p, clusterState)

\* Each attempt of the alert emits once at most, and one that succeeds has
\* emitted what there was to emit.
Account ==
    LET f == future["alert"] IN
    /\ late \in Nat /\ alerts \in Nat
    /\ f.state = "idle" => alerts = 0 /\ late = 0
    /\ f.state = "scheduled" => alerts + late <= f.attempt
    /\ f.state = "running" => alerts + late < f.attempt
    /\ alerts + late <= QuickAttempts
    /\ alerts > 0 => Emitted > 0
    /\ f.state = "ok" /\ Emitted > 0 => alerts > 0
    /\ pc = "closed" /\ clusterState # Nil => Resolved(f)

IInv == Shape /\ Flow /\ Reported /\ Account

----
LEMMA ActivityNames ==
    /\ "triage" \in Activities /\ "collect" \in Activities /\ "alert" \in Activities
    /\ Analyses \subseteq DeepActivities /\ DeepActivities \subseteq Activities
    /\ "triage" \notin DeepActivities /\ "alert" \notin DeepActivities
    /\ "collect" \in DeepActivities /\ "collect" \notin Analyses
    /\ Activities = {"triage", "collect", "security", "performance", "alert"}
  BY DEF Activities, DeepActivities, Analyses

LEMMA EmittedOnce == Emitted \in {0, 1}
  BY DEF Emitted

\* One activity is scheduled, the others are left.
LEMMA ScheduleOne ==
    ASSUME Shape, NEW a \in Activities, Schedule({a})
    PROVE  /\ future' \in [Activities -> FutureType(QuickAttempts)]
           /\ future'[a].state \in {"scheduled", "canceled"} /\ future'[a].attempt = 0
           /\ future'[a].state = "canceled" => cancelled
           /\ \A b \in Activities \ {a} : future'[b] = future[b]
  <1>1. /\ Scheduled(cancelled) \in FutureType(QuickAttempts)
        /\ Scheduled(cancelled).state \in {"scheduled", "canceled"}
        /\ Scheduled(cancelled).attempt = 0
        /\ Scheduled(cancelled).state = "canceled" => cancelled
    BY QuickAttemptsAssumption DEF FutureType, Scheduled, Shape
  <1> QED BY <1>1 DEF Schedule, Shape

\* The workflow code moves on to a, which it schedules.
LEMMA MovedOn ==
    ASSUME Shape, NEW a \in Activities, Schedule({a}), pc' = a, pc # "closed",
           UNCHANGED <<reason, cancelled, outcome>>
    PROVE  Shape'
  <1>1. /\ future' \in [Activities -> FutureType(QuickAttempts)]
        /\ future'[a].state \in {"scheduled", "canceled"} /\ future'[a].attempt = 0
        /\ future'[a].state = "canceled" => cancelled
        /\ \A b \in Activities \ {a} : future'[b] = future[b]
    BY ScheduleOne
  <1>2. a # "closed" /\ 0 < QuickAttempts
    BY QuickAttemptsAssumption, ActivityNames
  <1>3. ASSUME NEW b \in Activities
        PROVE  /\ future'[b].state = "canceled" => cancelled'
               /\ IF b \in DeepActivities THEN future'[b].attempt = 0 /\ future'[b].state # "failed"
                  ELSE future'[b].state = "scheduled" => future'[b].attempt < QuickAttempts
    <2>1. CASE b = a
      BY <1>1, <1>2, <2>1
    <2>2. CASE b # a
      BY <1>1, <2>2 DEF Shape
    <2> QED BY <2>1, <2>2
  <1> QED BY <1>1, <1>2, <1>3 DEF Shape

LEMMA InitInvariant == Init => IInv
  <1> SUFFICES ASSUME Init PROVE IInv
    OBVIOUS
  <1> USE ActivityNames
  <1>1. NoFuture \in FutureType(QuickAttempts) /\ NoFuture.state = "idle" /\ NoFuture.attempt = 0
    BY QuickAttemptsAssumption DEF FutureType, NoFuture
  <1>2. Shape
    BY <1>1 DEF Init, Shape
  <1>3. Flow
    BY <1>1 DEF Init, Flow, Pending
  <1>4. Reported
    BY <1>1 DEF Init, Reported, After, Analyses
  <1>5. Account
    BY <1>1, QuickAttemptsAssumption DEF Init, Account
  <1> QED BY <1>2, <1>3, <1>4, <1>5 DEF IInv

----
(* The workflow code. *)

LEMMA StartKeeps == ASSUME IInv, Start PROVE IInv'
  <1> USE DEF IInv
  <1> USE ActivityNames
  <1>1. /\ pc = "start" /\ pc' = "triage" /\ Schedule({"triage"})
        /\ UNCHANGED <<reason, triage, clusterState, report, cancelled, outcome, late, alerts>>
    BY DEF Start
  <1>2. /\ future'["triage"].state \in {"scheduled", "canceled"}
        /\ \A b \in Activities \ {"triage"} : future'[b] = future[b]
    BY <1>1, ScheduleOne
  <1>3. Shape'
    BY <1>1, MovedOn
  <1>4. \A b \in Activities \ {"triage"} : future[b].state = "idle"
    BY <1>1 DEF Flow, Before
  <1>5. Flow'
    BY <1>1, <1>2, <1>4 DEF Flow, Before, Pending
  <1>6. Reported'
    BY <1>1, <1>2, <1>4 DEF Reported, After
  <1>7. Account'
    BY <1>1, <1>2, <1>4 DEF Account, Emitted
  <1> QED BY <1>3, <1>5, <1>6, <1>7

LEMMA TriagedKeeps == ASSUME IInv, TriageSucceeded PROVE IInv'
  <1> USE DEF IInv
  <1> USE ActivityNames
  <1>1. /\ pc = "triage" /\ triage = Triage(reason)
        /\ UNCHANGED <<reason, triage, clusterState, report, cancelled, late, alerts>>
    BY DEF TriageSucceeded, Flow
  <1>2. \A b \in Activities \ {"triage"} : future[b].state = "idle"
    BY <1>1 DEF Flow, Before
  <1>3. ~Pending(future["triage"])
    BY DEF TriageSucceeded, Pending
  <1>4. CASE NeedsDeepAnalysis(triage)
    <2>1. pc' = "collect" /\ Schedule({"collect"}) /\ outcome' = outcome
      BY <1>4 DEF TriageSucceeded
    <2>2. /\ future'["collect"].state \in {"scheduled", "canceled"}
          /\ \A b \in Activities \ {"collect"} : future'[b] = future[b]
      BY <2>1, ScheduleOne
    <2>3. Shape'
      BY <1>1, <2>1, MovedOn
    <2>4. Flow'
      BY <1>1, <1>2, <1>3, <1>4, <2>1, <2>2 DEF Flow, Before, Pending
    <2>5. Reported'
      BY <1>1, <1>2, <2>1, <2>2 DEF Reported, After
    <2>6. Account'
      BY <1>1, <1>2, <2>1, <2>2 DEF Account, Emitted
    <2> QED BY <2>3, <2>4, <2>5, <2>6
  <1>5. CASE ~NeedsDeepAnalysis(triage)
    <2>1. pc' = "closed" /\ outcome' = "completed" /\ future' = future
      BY <1>5 DEF TriageSucceeded
    <2>2. Shape'
      BY <1>1, <2>1 DEF Shape
    <2>3. Flow'
      BY <1>1, <1>2, <1>3, <2>1 DEF Flow, Before, Pending
    <2>4. Reported' /\ Account'
      BY <1>1, <1>2, <2>1 DEF Reported, Account, Emitted
    <2> QED BY <2>2, <2>3, <2>4
  <1> QED BY <1>4, <1>5

LEMMA TriageFailedKeeps == ASSUME IInv, TriageFailed PROVE IInv'
  <1> USE DEF IInv
  <1> USE ActivityNames
  <1>1. /\ pc = "triage" /\ pc' = "closed" /\ outcome' \in {"failed", "canceled"}
        /\ UNCHANGED <<reason, future, triage, clusterState, report, cancelled, late, alerts>>
        /\ ~Pending(future["triage"])
    BY DEF TriageFailed, Pending
  <1>2. \A b \in Activities \ {"triage"} : future[b].state = "idle"
    BY <1>1 DEF Flow, Before
  <1>3. Shape'
    BY <1>1 DEF Shape
  <1>4. Flow'
    BY <1>1, <1>2 DEF Flow, Before, Pending
  <1>5. Reported' /\ Account'
    BY <1>1, <1>2 DEF Reported, Account, Emitted
  <1> QED BY <1>3, <1>4, <1>5

LEMMA CollectedKeeps == ASSUME IInv, CollectReturned PROVE IInv'
  <1> USE DEF IInv
  <1> USE ActivityNames
  <1> DEFINE next == IF future["collect"].state = "ok" THEN "security" ELSE "alert"
  <1>1. /\ pc = "collect" /\ pc' = next /\ Schedule({next}) /\ next \in Activities
        /\ UNCHANGED <<reason, triage, clusterState, report, cancelled, outcome, late, alerts>>
        /\ ~Pending(future["collect"])
    BY DEF CollectReturned, Pending, Resolved
  <1>2. \A b \in Activities \ {"triage", "collect"} : future[b].state = "idle"
    BY <1>1 DEF Flow, Before
  <1>3. /\ \/ next = "security" /\ clusterState # Nil
           \/ next = "alert" /\ clusterState = Nil
        /\ ~Pending(future["triage"])
        /\ triage = Triage(reason) /\ NeedsDeepAnalysis(Triage(reason))
    <2>1. clusterState # Nil <=> future["collect"].state = "ok"
      BY DEF Reported
    <2>2. /\ ~Pending(future["triage"])
          /\ triage = Triage(reason) /\ NeedsDeepAnalysis(Triage(reason))
      BY <1>1 DEF Flow
    <2> QED BY <2>1, <2>2
  <1> HIDE DEF next
  <1>4. /\ future'[next].state \in {"scheduled", "canceled"} /\ future'[next].attempt = 0
        /\ \A b \in Activities \ {next} : future'[b] = future[b]
    BY <1>1, ScheduleOne
  <1>5. Shape'
    BY <1>1, MovedOn
  <1>6. Flow'
    BY <1>1, <1>2, <1>3, <1>4 DEF Flow, Before, Pending
  <1>7. Reported'
    BY <1>1, <1>2, <1>3, <1>4 DEF Reported, After, Analyses
  <1>8. Account'
    BY <1>1, <1>2, <1>3, <1>4 DEF Account, Emitted
  <1> QED BY <1>5, <1>6, <1>7, <1>8

LEMMA AnalysedKeeps ==
    ASSUME IInv, NEW p \in Analyses, NEW next \in Activities,
           next = (IF p = "security" THEN "performance" ELSE "alert"),
           AnalysisReturned(p, next)
    PROVE  IInv'
  <1> USE DEF IInv
  <1> USE ActivityNames
  <1>1. /\ pc = p /\ pc' = next /\ Schedule({next}) /\ Resolved(future[p])
        /\ report' = IF future[p].state = "ok"
                     THEN [report EXCEPT ![p] = Report(p, clusterState)] ELSE report
        /\ UNCHANGED <<reason, triage, clusterState, cancelled, outcome, late, alerts>>
    BY DEF AnalysisReturned
  <1>2. /\ clusterState # Nil /\ clusterState \in Clusters
        /\ triage = Triage(reason) /\ NeedsDeepAnalysis(Triage(reason))
    BY <1>1 DEF Reported, Resolved, Flow
  <1>3. future["alert"].state = "idle" /\ (p = "security" => future["performance"].state = "idle")
    BY <1>1 DEF Flow, Before, Analyses
  <1>4. /\ future'[next].state \in {"scheduled", "canceled"} /\ future'[next].attempt = 0
        /\ \A b \in Activities \ {next} : future'[b] = future[b]
    BY <1>1, ScheduleOne
  <1>5. Shape'
    BY <1>1, MovedOn DEF Analyses
  <1>6. Flow'
    <2>1. \A b \in Activities : Pending(future'[b]) => pc' = b
      BY <1>1, <1>4 DEF Flow, Pending, Resolved
    <2>2. \A b \in Activities : pc' \in Before(b) => future'[b].state = "idle"
      BY <1>1, <1>3, <1>4 DEF Before, Analyses
    <2> QED BY <1>1, <1>2, <1>4, <2>1, <2>2 DEF Flow
  <1>7. /\ report' \in [Analyses -> {Nil} \cup {Report(q, c) : q \in Analyses, c \in Clusters}]
        /\ future[p].state = "ok" => report'[p] = Report(p, clusterState)
        /\ \A q \in Analyses : report'[q] # Nil => report'[q] = Report(q, clusterState)
        /\ \A q \in Analyses \ {p} : report'[q] = report[q]
    BY <1>1, <1>2 DEF Reported
  <1>8. Reported'
    <2>1. CASE p = "security"
      BY <1>1, <1>2, <1>4, <1>7, <2>1 DEF Reported, After, Analyses
    <2>2. CASE p = "performance"
      BY <1>1, <1>2, <1>4, <1>7, <2>2 DEF Reported, After, Analyses
    <2> QED BY <2>1, <2>2 DEF Analyses
  <1>9. Account'
    BY <1>1, <1>3, <1>4 DEF Account, Analyses
  <1> QED BY <1>5, <1>6, <1>8, <1>9

LEMMA AlertReturnedKeeps == ASSUME IInv, AlertReturned PROVE IInv'
  <1> USE DEF IInv
  <1> USE ActivityNames
  <1>1. /\ pc = "alert" /\ pc' = "closed" /\ outcome' = "completed" /\ Resolved(future["alert"])
        /\ UNCHANGED <<reason, future, triage, clusterState, report, cancelled, late, alerts>>
    BY DEF AlertReturned
  <1>2. Shape'
    BY <1>1 DEF Shape
  <1>3. Flow'
    BY <1>1 DEF Flow, Before, Pending, Resolved
  <1>4. Reported'
    BY <1>1 DEF Reported, After
  <1>5. Account'
    BY <1>1 DEF Account, Emitted
  <1> QED BY <1>2, <1>3, <1>4, <1>5

----
(* Client, workers and service. *)

LEMMA CancelKeeps == ASSUME IInv, Cancel PROVE IInv'
  <1> USE DEF IInv
  <1> USE ActivityNames
  <1>1. /\ cancelled' = TRUE /\ future' = [a \in Activities |-> Cancelled(future[a])]
        /\ late' = (IF future["alert"].state = "running" THEN late + 1 ELSE late)
        /\ UNCHANGED <<reason, pc, triage, clusterState, report, outcome, alerts>>
    BY DEF Cancel
  <1>2. \A a \in Activities :
          /\ future'[a] \in FutureType(QuickAttempts) /\ ~Pending(future'[a])
          /\ future'[a].state = "idle" <=> future[a].state = "idle"
          /\ future'[a].state = "ok" <=> future[a].state = "ok"
          /\ future'[a].state = "failed" <=> future[a].state = "failed"
          /\ Resolved(future[a]) => future'[a] = future[a]
          /\ future[a].attempt = 0 => future'[a].attempt = 0
    BY <1>1, QuickAttemptsAssumption DEF Cancelled, Pending, Resolved, Shape, FutureType
  <1>3. Shape'
    BY <1>1, <1>2 DEF Shape, Pending
  <1>4. Flow'
    BY <1>1, <1>2 DEF Flow
  <1>5. Reported'
    BY <1>1, <1>2 DEF Reported
  <1>6. Account'
    <2>1. Emitted' = Emitted
      BY <1>1 DEF Emitted
    <2>2. alerts + late' <= QuickAttempts /\ late' \in Nat
      BY <1>1, QuickAttemptsAssumption DEF Account, Shape, FutureType
    <2> QED BY <1>1, <1>2, <2>1, <2>2 DEF Account, Pending
  <1> QED BY <1>3, <1>4, <1>5, <1>6

\* What a worker or the service makes of a pending future.
LEMMA AttemptSteps ==
    ASSUME IInv, NEW a \in Activities,
           \/ StartAttempt(a) \/ CompleteAttempt(a) \/ FailAttempt(a)
           \/ TimeOut /\ a = "alert"
    PROVE  /\ Pending(future[a]) /\ pc = a /\ pc' = pc
           /\ future'[a] \in FutureType(QuickAttempts)
           /\ future'[a].state \in {"scheduled", "running", "ok", "failed"}
           /\ future'[a].state = "ok" <=> CompleteAttempt(a)
           /\ \A b \in Activities \ {a} : future'[b] = future[b]
           /\ DOMAIN future' = Activities
           /\ IF a \in DeepActivities THEN future'[a].attempt = 0 /\ future'[a].state # "failed"
              ELSE future'[a].state = "scheduled" => future'[a].attempt < QuickAttempts
           /\ UNCHANGED <<reason, report, cancelled, outcome>>
  <1>1. /\ future[a] \in FutureType(QuickAttempts) /\ future \in [Activities -> FutureType(QuickAttempts)]
        /\ a \in DeepActivities => future[a].attempt = 0
        /\ a \notin DeepActivities /\ future[a].state = "scheduled" => future[a].attempt < QuickAttempts
    BY DEF IInv, Shape
  <1>2. /\ future[a].attempt \in 0..QuickAttempts /\ QuickAttempts \in Nat \ {0}
        /\ MaximumAttempts(a) = IF a \in DeepActivities THEN 0 ELSE QuickAttempts
    BY <1>1, QuickAttemptsAssumption DEF FutureType, MaximumAttempts
  <1>3. CASE StartAttempt(a)
    <2>1. /\ future[a].state = "scheduled" /\ future' = [future EXCEPT ![a] = Started(@, MaximumAttempts(a))]
          /\ UNCHANGED <<reason, pc, report, cancelled, outcome>>
      BY <1>3 DEF StartAttempt
    <2>2. future'[a] = Started(future[a], MaximumAttempts(a))
      BY <1>1, <2>1
    <2> QED BY <1>1, <1>2, <2>1, <2>2 DEF Started, FutureType, Pending, IInv, Flow, CompleteAttempt
  <1>4. CASE CompleteAttempt(a)
    <2>1. /\ future[a].state = "running" /\ future' = [future EXCEPT ![a] = Succeeded]
          /\ UNCHANGED <<reason, pc, report, cancelled, outcome>>
      BY <1>4 DEF CompleteAttempt
    <2>2. future'[a] = Succeeded
      BY <1>1, <2>1
    <2> QED BY <1>1, <1>2, <1>4, <2>1, <2>2 DEF Succeeded, FutureType, Pending, IInv, Flow
  <1>5. CASE FailAttempt(a) \/ (TimeOut /\ a = "alert")
    <2>1. /\ future[a].state = "running"
          /\ future' = [future EXCEPT ![a] = RetryOrFail(@, MaximumAttempts(a))]
          /\ UNCHANGED <<reason, pc, report, cancelled, outcome>>
      BY <1>5 DEF FailAttempt, TimeOut
    <2>2. future'[a] = RetryOrFail(future[a], MaximumAttempts(a))
      BY <1>1, <2>1
    <2>3. future'[a].state \in {"scheduled", "failed"}
      BY <2>2 DEF RetryOrFail
    <2>4. ~CompleteAttempt(a)
      BY <1>1, <2>1, <2>3 DEF CompleteAttempt, Succeeded
    <2>5. /\ future'[a] \in FutureType(QuickAttempts)
          /\ IF a \in DeepActivities THEN future'[a].attempt = 0 /\ future'[a].state # "failed"
             ELSE future'[a].state = "scheduled" => future'[a].attempt < QuickAttempts
      <3>1. CASE a \in DeepActivities
        BY <1>1, <1>2, <2>2, <3>1 DEF RetryOrFail, FutureType
      <3>2. CASE a \notin DeepActivities
        BY <1>1, <1>2, <2>2, <3>2 DEF RetryOrFail, FutureType
      <3> QED BY <3>1, <3>2
    <2>6. Pending(future[a]) /\ pc = a
      BY <2>1 DEF Pending, IInv, Flow
    <2>7. DOMAIN future' = Activities /\ \A b \in Activities \ {a} : future'[b] = future[b]
      BY <1>1, <2>1
    <2> QED BY <2>1, <2>3, <2>4, <2>5, <2>6, <2>7
  <1> QED BY <1>3, <1>4, <1>5

LEMMA AttemptKeeps ==
    ASSUME IInv, NEW a \in Activities,
           \/ StartAttempt(a) \/ CompleteAttempt(a) \/ FailAttempt(a)
           \/ TimeOut /\ a = "alert"
    PROVE  IInv'
  <1> USE ActivityNames
  <1>1. /\ Pending(future[a]) /\ pc = a /\ pc' = pc
        /\ future'[a] \in FutureType(QuickAttempts)
        /\ future'[a].state \in {"scheduled", "running", "ok", "failed"}
        /\ future'[a].state = "ok" <=> CompleteAttempt(a)
        /\ \A b \in Activities \ {a} : future'[b] = future[b]
        /\ DOMAIN future' = Activities
        /\ IF a \in DeepActivities THEN future'[a].attempt = 0 /\ future'[a].state # "failed"
           ELSE future'[a].state = "scheduled" => future'[a].attempt < QuickAttempts
        /\ UNCHANGED <<reason, report, cancelled, outcome>>
    BY AttemptSteps
  <1>2. /\ triage' = (IF a = "triage" /\ CompleteAttempt(a) THEN Triage(reason) ELSE triage)
        /\ IF a = "collect" /\ CompleteAttempt(a) THEN clusterState' \in Clusters
           ELSE clusterState' = clusterState
    BY DEF StartAttempt, CompleteAttempt, FailAttempt, TimeOut
  <1>3. Shape'
    <2>1. future' \in [Activities -> FutureType(QuickAttempts)]
      <3>1. \A b \in Activities : future'[b] \in FutureType(QuickAttempts)
        BY <1>1 DEF IInv, Shape
      <3>2. future' = [b \in Activities |-> future'[b]]
        BY DEF StartAttempt, CompleteAttempt, FailAttempt, TimeOut, IInv, Shape
      <3> QED BY <3>1, <3>2
    <2> QED BY <1>1, <2>1 DEF IInv, Shape
  <1>4. Flow'
    <2>1. \A b \in Activities : /\ Pending(future'[b]) => pc' = b
                                /\ pc' \in Before(b) => future'[b].state = "idle"
      BY <1>1 DEF IInv, Flow, Before
    <2>2. triage' \in {Nil, Triage(reason)} /\ (future'["triage"].state = "ok" => triage' = Triage(reason))
      BY <1>1, <1>2 DEF IInv, Flow
    <2>3. ASSUME NEW b \in Activities \ {"triage"}, pc' = b \/ future'[b].state # "idle"
          PROVE  triage' = Triage(reason) /\ NeedsDeepAnalysis(Triage(reason))
      BY <1>1, <1>2, <2>3 DEF IInv, Flow
    <2> QED BY <1>1, <2>1, <2>2, <2>3 DEF Flow
  <1>5. Reported'
    <2>1. CASE a = "collect"
      <3>1. clusterState = Nil
        BY <1>1, <2>1 DEF IInv, Reported, Pending
      <3>2. \A p \in Analyses : future[p].state = "idle" /\ report[p] = Nil
        BY <1>1, <2>1, <3>1 DEF IInv, Reported
      <3>3. clusterState' \in Clusters \cup {Nil} /\ (clusterState' # Nil <=> future'["collect"].state = "ok")
        BY <1>1, <1>2, <2>1, <3>1, EventNilAssumption
      <3> QED BY <1>1, <2>1, <3>2, <3>3 DEF IInv, Reported, After
    <2>2. CASE a # "collect"
      <3>1. clusterState' = clusterState
        BY <1>2, <2>2
      <3>2. future[a].state # "idle"
        BY <1>1 DEF Pending
      <3>3. ASSUME NEW p \in Analyses
            PROVE  /\ report'[p] # Nil => clusterState' # Nil /\ report'[p] = Report(p, clusterState')
                   /\ future'[p].state # "idle" => clusterState' # Nil
                   /\ clusterState' # Nil /\ pc' \in After(p) =>
                         /\ Resolved(future'[p])
                         /\ future'[p].state = "ok" => report'[p] = Report(p, clusterState')
        <4>1. CASE p = a
          BY <1>1, <3>1, <3>2, <4>1 DEF IInv, Reported, After
        <4>2. CASE p # a
          BY <1>1, <3>1, <4>2 DEF IInv, Reported
        <4> QED BY <4>1, <4>2
      <3> QED BY <1>1, <2>2, <3>1, <3>3 DEF IInv, Reported
    <2> QED BY <2>1, <2>2
  <1>6. Account'
    <2>1. Emitted' = Emitted /\ Emitted \in {0, 1}
      BY <1>1, EmittedOnce DEF Emitted
    <2>2. CASE a # "alert"
      <3>1. UNCHANGED <<late, alerts>>
        BY <2>2 DEF StartAttempt, CompleteAttempt, FailAttempt, TimeOut
      <3>2. pc' # "closed"
        BY <1>1
      <3> QED BY <1>1, <2>1, <2>2, <3>1, <3>2 DEF IInv, Account
    <2>3. CASE a = "alert"
      <3>1. /\ late \in Nat /\ alerts \in Nat /\ alerts + late <= QuickAttempts
            /\ future["alert"].attempt \in 0..QuickAttempts /\ QuickAttempts \in Nat \ {0}
            /\ MaximumAttempts("alert") = QuickAttempts
            /\ future["alert"].state = "scheduled" => alerts + late <= future["alert"].attempt
            /\ future["alert"].state = "running" => alerts + late < future["alert"].attempt
            /\ alerts > 0 => Emitted > 0
        BY QuickAttemptsAssumption DEF IInv, Account, Shape, FutureType, MaximumAttempts
      <3>2. CASE StartAttempt("alert")
        <4>1. /\ UNCHANGED <<late, alerts>> /\ future["alert"].state = "scheduled"
              /\ future'["alert"].state = "running" /\ future'["alert"].attempt = future["alert"].attempt + 1
          BY <3>1, <3>2 DEF StartAttempt, Started, IInv, Shape
        <4> QED BY <1>1, <2>1, <2>3, <3>1, <4>1 DEF Account
      <3>3. CASE CompleteAttempt("alert")
        <4>1. /\ late' = late /\ alerts' = alerts + Emitted /\ future["alert"].state = "running"
              /\ future'["alert"].state = "ok"
          BY <3>3 DEF CompleteAttempt, Succeeded, IInv, Shape
        <4> QED BY <1>1, <2>1, <2>3, <3>1, <4>1 DEF Account
      <3>4. CASE FailAttempt("alert") \/ TimeOut
        <4>1. /\ late' + alerts' <= late + alerts + 1 /\ late' \in Nat /\ alerts' \in Nat
              /\ alerts' > 0 => Emitted > 0
              /\ future["alert"].state = "running"
              /\ future'["alert"] = RetryOrFail(future["alert"], QuickAttempts)
          BY <2>1, <3>1, <3>4 DEF FailAttempt, TimeOut, IInv, Shape
        <4>2. \/ future'["alert"].state = "scheduled" /\ future'["alert"].attempt = future["alert"].attempt
              \/ future'["alert"].state = "failed"
          BY <4>1 DEF RetryOrFail
        <4>3. /\ alerts + late < future["alert"].attempt
              /\ alerts' + late' <= future["alert"].attempt
              /\ alerts' + late' <= QuickAttempts
          BY <3>1, <4>1
        <4>4. pc' # "closed"
          BY <1>1, <2>3
        <4> QED BY <2>1, <4>1, <4>2, <4>3, <4>4 DEF Account
      <3> QED BY <2>3, <3>2, <3>3, <3>4
    <2> QED BY <2>2, <2>3
  <1> QED BY <1>3, <1>4, <1>5, <1>6 DEF IInv

LEMMA LateKeeps == ASSUME IInv, LateAttempt PROVE IInv'
  <1> USE DEF IInv
  <1>1. /\ late > 0 /\ late' = late - 1 /\ alerts' \in {alerts, alerts + Emitted}
        /\ UNCHANGED <<reason, pc, future, triage, clusterState, report, cancelled, outcome>>
    BY DEF LateAttempt
  <1>2. Shape' /\ Flow' /\ Reported'
    BY <1>1 DEF Shape, Flow, Reported
  <1>3. Emitted' = Emitted /\ Emitted \in {0, 1}
    BY <1>1, EmittedOnce DEF Emitted
  <1>4. /\ late' \in Nat /\ alerts' \in Nat /\ alerts' + late' <= alerts + late
        /\ alerts' >= alerts /\ (alerts' > 0 => Emitted > 0)
    <2>1. late \in Nat /\ alerts \in Nat /\ (alerts > 0 => Emitted > 0)
      BY DEF Account
    <2>2. CASE alerts' = alerts
      BY <1>1, <2>1, <2>2
    <2>3. CASE alerts' = alerts + Emitted
      BY <1>1, <1>3, <2>1, <2>3
    <2> QED BY <1>1, <2>2, <2>3
  <1>5. Account'
    <2>1. future["alert"].attempt \in Nat /\ QuickAttempts \in Nat
      BY ActivityNames, QuickAttemptsAssumption DEF Shape, FutureType
    <2>2. future["alert"].state = "idle" => ~(late > 0)
      BY DEF Account
    <2>3. late \in Nat /\ alerts \in Nat /\ alerts + late <= QuickAttempts
      BY DEF Account
    <2>4. alerts' + late' <= QuickAttempts
      BY <1>4, <2>1, <2>3
    <2> DEFINE f == future["alert"]
    <2>5. /\ f.state = "scheduled" => alerts' + late' <= f.attempt
          /\ f.state = "running" => alerts' + late' < f.attempt
      <3>1. /\ f.state = "scheduled" => alerts + late <= f.attempt
            /\ f.state = "running" => alerts + late < f.attempt
        BY DEF Account
      <3>2. ASSUME NEW n \in Nat
            PROVE  /\ alerts + late <= n => alerts' + late' <= n
                   /\ alerts + late < n => alerts' + late' < n
        <4>1. \A x, y, u, v \in Nat : x + y <= u + v =>
                  (u + v <= n => x + y <= n) /\ (u + v < n => x + y < n)
          OBVIOUS
        <4> QED BY <1>4, <2>3, <4>1, Zenon
      <3> QED BY <2>1, <3>1, <3>2
    <2>6. /\ f.state = "ok" /\ Emitted > 0 => alerts' > 0
          /\ pc = "closed" /\ clusterState # Nil => Resolved(f)
      BY <1>4, <2>3 DEF Account
    <2> QED BY <1>1, <1>3, <1>4, <2>2, <2>4, <2>5, <2>6 DEF Account
  <1> QED BY <1>2, <1>5

LEMMA StepInvariant == IInv /\ [Next]_vars => IInv'
  <1> SUFFICES ASSUME IInv, [Next]_vars PROVE IInv'
    OBVIOUS
  <1>1. CASE WorkflowStep
    BY <1>1, ActivityNames, StartKeeps, TriagedKeeps, TriageFailedKeeps, CollectedKeeps,
       AnalysedKeeps, AlertReturnedKeeps DEF WorkflowStep, Analyses
  <1>2. CASE UNCHANGED vars
    BY <1>2 DEF vars, IInv, Shape, Flow, Reported, Account, Emitted
  <1>3. CASE TimeOut
    BY <1>3, ActivityNames, AttemptKeeps
  <1>4. CASE \E a \in Activities : StartAttempt(a) \/ CompleteAttempt(a) \/ FailAttempt(a)
    BY <1>4, AttemptKeeps
  <1>5. CASE Closed
    BY <1>2, <1>5 DEF Closed
  <1> QED BY <1>1, <1>2, <1>3, <1>4, <1>5, CancelKeeps, LateKeeps DEF Next

THEOREM Invariance == Spec => []IInv
  BY InitInvariant, StepInvariant, PTL DEF Spec

----
(* The theorems. *)

\* Type correctness; in it, that one event never alerts more often than the
\* alert has attempts.
THEOREM TypeCorrect == Spec => []TypeOK
  <1>1. IInv => TypeOK
    <2> SUFFICES ASSUME IInv PROVE TypeOK
      OBVIOUS
    <2>1. late \in 0..QuickAttempts /\ alerts \in 0..QuickAttempts
      BY QuickAttemptsAssumption DEF IInv, Account
    <2>2. \A p \in {"security", "performance"} :
             report[p] \in {Nil} \cup {Report(p, c) : c \in Clusters}
      BY DEF IInv, Reported, Analyses
    <2> QED BY <2>1, <2>2 DEF IInv, Shape, Flow, Reported, TypeOK
  <1> QED BY <1>1, Invariance, PTL

\* The critical findings of a report, and the pods they are about.
LEMMA CriticalCount ==
    ASSUME NEW c, IsFiniteSet(c.pods), NEW p \in Analyses
    PROVE  /\ Report(p, c).critical \in Nat
           /\ Report(p, c).critical > 0 <=> CriticalFor(p, c)
  <1> DEFINE pods == IF p = "security" THEN {pod \in c.pods : pod.privileged}
                     ELSE {pod \in c.pods : pod.status = "CrashLoopBackOff"}
             rule == IF p = "security" THEN "privileged" ELSE "crash"
             S == {f \in Report(p, c).findings : f.severity = "CRITICAL"}
             raise == [o \in pods |-> [rule |-> rule, severity |-> "CRITICAL", on |-> o]]
  <1>1. Report(p, c).critical = Cardinality(S)
    BY DEF Report, Summarised, BySeverity
  <1>2. S = {[rule |-> rule, severity |-> "CRITICAL", on |-> o] : o \in pods}
    <2>1. CASE p = "security"
      BY <2>1 DEF Report, Summarised, SecurityFindings, Raise
    <2>2. CASE p = "performance"
      BY <2>2 DEF Report, Summarised, PerformanceFindings, Raise
    <2> QED BY <2>1, <2>2 DEF Analyses
  <1>3. IsFiniteSet(pods)
    BY FS_Subset
  <1>4. pods # {} <=> CriticalFor(p, c)
    BY DEF CriticalFor, Analyses
  <1> HIDE DEF S, pods, rule
  <1>5. raise \in Surjection(pods, S)
    BY <1>2 DEF Surjection
  <1>6. IsFiniteSet(S)
    BY <1>3, <1>5, FS_Surjection
  <1>7. S # {} <=> pods # {}
    BY <1>2
  <1> QED BY <1>1, <1>4, <1>6, <1>7, FS_EmptySet, FS_CardinalityType

\* The alert counts what the collected state holds.
LEMMA CountsTell ==
    ASSUME IInv
    PROVE  /\ \A p \in Analyses : CriticalIn(report[p]) \in Nat
           /\ \A p \in Analyses : CriticalIn(report[p]) > 0 =>
                  clusterState # Nil /\ CriticalFor(p, clusterState)
  <1> SUFFICES ASSUME NEW p \in Analyses
               PROVE  /\ CriticalIn(report[p]) \in Nat
                      /\ CriticalIn(report[p]) > 0 =>
                            clusterState # Nil /\ CriticalFor(p, clusterState)
    OBVIOUS
  <1>1. CASE report[p] = Nil
    BY <1>1 DEF CriticalIn
  <1>2. CASE report[p] # Nil
    <2>1. report[p] = Report(p, clusterState) /\ clusterState \in Clusters /\ clusterState # Nil
      BY <1>2 DEF IInv, Reported
    <2> QED BY <1>2, <2>1, PodsAssumption, CriticalCount DEF CriticalIn
  <1> QED BY <1>1, <1>2

\* No false alarm, for whatever event and state of the cluster.
THEOREM EventAlertsAreSound == Spec => []EventAlertsSound
  <1>1. IInv => EventAlertsSound
    <2> SUFFICES ASSUME IInv, alerts > 0
                 PROVE  /\ reason \in {"OOMKilled", "OOMKilling", "CrashLoopBackOff", "FailedScheduling"}
                        /\ clusterState # Nil
                        /\ \E p \in {"security", "performance"} : CriticalFor(p, clusterState)
      BY DEF EventAlertsSound
    <2>1. future["alert"].state # "idle" /\ AlertCount(report["security"], report["performance"]) > 0
      BY DEF IInv, Account, Emitted
    <2>2. NeedsDeepAnalysis(Triage(reason))
      BY <2>1, ActivityNames DEF IInv, Flow
    <2>3. reason \in {"OOMKilled", "OOMKilling", "CrashLoopBackOff", "FailedScheduling"}
      BY <2>2 DEF NeedsDeepAnalysis, Triage
    <2>4. \E p \in Analyses : CriticalIn(report[p]) > 0
      BY <2>1, CountsTell DEF AlertCount, Analyses
    <2> QED BY <2>3, <2>4, CountsTell DEF Analyses
  <1> QED BY <1>1, Invariance, PTL

\* Nothing critical that was collected is lost on the way to the alert: the deep
\* work has no limit of attempts, so both analyses of the state are in it.
THEOREM CollectedIsAlerted == Spec => []CollectedCriticalAlerted
  <1>1. IInv => CollectedCriticalAlerted
    <2> SUFFICES ASSUME IInv, outcome = "completed", ~cancelled, future["alert"].state # "failed",
                        clusterState # Nil, NEW p \in Analyses, CriticalFor(p, clusterState)
                 PROVE  alerts > 0
      BY DEF CollectedCriticalAlerted, Analyses
    <2>1. pc = "closed" /\ clusterState \in Clusters
      BY DEF IInv, Shape, Reported
    <2>2. future[p].state = "ok" /\ report[p] = Report(p, clusterState)
      BY <2>1, ActivityNames DEF IInv, Shape, Reported, After, Resolved
    <2>3. Report(p, clusterState).critical > 0
      BY <2>1, PodsAssumption, CriticalCount
    <2>4. CriticalIn(report[p]) > 0
      BY <2>1, <2>2, <2>3, EventNilAssumption DEF CriticalIn, Analyses
    <2>5. Emitted > 0
      BY <2>4, CountsTell DEF Emitted, AlertCount, Analyses
    <2>6. future["alert"].state = "ok"
      BY <2>1, ActivityNames DEF IInv, Shape, Account, Resolved
    <2> QED BY <2>5, <2>6 DEF IInv, Account
  <1> QED BY <1>1, Invariance, PTL
====
