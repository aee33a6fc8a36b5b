---- MODULE Monitoring_proofs ----
(***************************************************************************)
(* Theorems about monitoring and the executions of the Temporal service,   *)
(* for every set of clusters, callers, requests and slots.                 *)
(***************************************************************************)
EXTENDS Monitoring, FiniteSetTheorems, TLAPS

Types ==
    /\ exec \in [Slots -> Executions \cup {None}]
    /\ caller \in [Callers -> [slot : Slots \cup {None}, request : Asked \cup {None},
                               second : {"now", "past"}]]
    /\ worker \in {"up", "down"}

\* Every execution is where its ID belongs.  Only monitorings have an ID without
\* a second.
Placed ==
    \A s \in Used :
        /\ s \in Pool[exec[s].id[1]]
        /\ s \in Monitors <=> exec[s].id[3] = ""

\* An ID that can be met again has one execution.
OneOfAnId ==
    \A s, t \in Used : exec[s].id = exec[t].id /\ exec[s].id[3] # "past" => s = t

\* A child that is not an orphan is the one that its parent waits for.
Family ==
    /\ \A s \in Used : exec[s].parent # None =>
          /\ s \in Children
          /\ exec[s].parent \in Monitors /\ Running(exec[s].parent)
          /\ exec[exec[s].parent].id[2] = exec[s].id[2]
          /\ exec[exec[s].parent].pc = "child" /\ exec[exec[s].parent].child = s
    /\ \A m \in Used : exec[m].pc = "child" =>
          /\ m \in Monitors
          /\ exec[m].child \in Children /\ exec[exec[m].child].parent = m

\* A caller waits for an execution of what it has asked for.
Awaited ==
    \A p \in Callers : caller[p].slot # None =>
        /\ caller[p].slot \in Used /\ caller[p].request \in Asked
        /\ exec[caller[p].slot].id = <<caller[p].request[1], caller[p].request[2], caller[p].second>>

IInv == Types /\ Placed /\ OneOfAnId /\ Family /\ Awaited /\ EndsOnlyIfCancelled

----
(* IDs and slots. *)

LEMMA SlotTypes == Slots \subseteq Nat /\ None \notin Slots /\ None \notin Executions
  BY PoolAssumption, NoneAssumption DEF Slots

\* The execution of an ID that can be met again, or else an empty slot.
LEMMA SlotFacts ==
    ASSUME Placed, OneOfAnId, NEW id \in WorkflowIds, id[3] # "past", NEW s \in SlotOf(id)
    PROVE  /\ s \in Slots
           /\ s \in Pool[id[1]]
           /\ \A t \in Used : exec[t].id = id => t = s
           /\ s \notin Used \/ exec[s].id = id
  <1> DEFINE same == {t \in Used : exec[t].id = id}
  <1>1. Pool[id[1]] \subseteq Slots
    BY DEF WorkflowIds, Slots
  <1>2. CASE same # {}
    <2>1. s \in Used /\ exec[s].id = id
      BY <1>2 DEF SlotOf
    <2> QED BY <2>1 DEF Placed, OneOfAnId, Used
  <1>3. CASE same = {}
    <2>1. s \in Pool[id[1]] \ Used
      BY <1>3 DEF SlotOf
    <2> QED BY <1>1, <1>3, <2>1
  <1> QED BY <1>2, <1>3

LEMMA Triple ==
    ASSUME NEW A, NEW B, NEW C, NEW id \in A \X B \X C
    PROVE  id = <<id[1], id[2], id[3]>>
  <1>1. \E a \in A, b \in B, c \in C : id = <<a, b, c>>
    OBVIOUS
  <1> QED BY <1>1

LEMMA TripleExcept ==
    ASSUME NEW A, NEW B, NEW C, NEW id \in A \X B \X C, NEW x
    PROVE  [id EXCEPT ![3] = x] = <<id[1], id[2], x>>
  OBVIOUS

LEMMA IdTypes ==
    /\ \A id \in WorkflowIds : id = <<id[1], id[2], id[3]>>
    /\ \A c \in Clusters : MonitorId(c) \in WorkflowIds
    /\ \A c \in Targets : <<"analysis", c, "now">> \in WorkflowIds
    /\ \A r \in Asked : /\ RequestId(r) \in WorkflowIds /\ r[3] \in Kinds
                        /\ r[1] \notin {"k8s-monitoring", "analysis"}
    /\ \A config \in Configs : config[1] \in Clusters /\ config[2] \in Kinds
  <1>1. \A id \in WorkflowIds : id = <<id[1], id[2], id[3]>>
    BY Triple, Zenon DEF WorkflowIds
  <1>2. \A c \in Clusters : MonitorId(c) \in WorkflowIds
    BY PoolAssumption DEF WorkflowIds, MonitorId, Targets
  <1>3. \A c \in Targets : <<"analysis", c, "now">> \in WorkflowIds
    BY PoolAssumption DEF WorkflowIds
  <1>4. ASSUME NEW r \in Asked
        PROVE  /\ RequestId(r) \in WorkflowIds /\ r[3] \in Kinds
               /\ r[1] \notin {"k8s-monitoring", "analysis"}
    <2>1. r \in Prefixes \X Targets \X Kinds
      BY RequestsAssumption
    <2>2. r[1] \in Prefixes /\ r[2] \in Targets /\ r[3] \in Kinds
      BY <2>1
    <2> QED BY <2>2 DEF Prefixes, RequestId, WorkflowIds
  <1>5. ASSUME NEW config \in Configs
        PROVE  config[1] \in Clusters /\ config[2] \in Kinds
    <2>1. config \in Clusters \X Kinds
      BY RequestsAssumption
    <2> QED BY <2>1
  <1> QED BY <1>1, <1>2, <1>3, <1>4, <1>5

\* A new execution is one.
LEMMA ExecutionTypes ==
    ASSUME NEW id \in WorkflowIds, NEW input \in Kinds, NEW m \in Slots \cup {None}
    PROVE  Execution(id, input, m) \in Executions
  BY DEF Execution, Executions, Statuses

LEMMA InitInvariant == Init => IInv
  BY SlotTypes DEF Init, IInv, Types, Placed, OneOfAnId, Family, Awaited, EndsOnlyIfCancelled,
                   Used, Monitors, Idle

----
(* What becomes of the IDs. *)

\* Executions keep their IDs, and some are forgotten.
LEMMA IdsKept ==
    ASSUME Placed, OneOfAnId, Used' \subseteq Used,
           \A t \in Used' : exec'[t].id = exec[t].id
    PROVE  /\ Placed' /\ OneOfAnId'
           /\ Monitors' = Monitors \cap Used' /\ Children' = Children \cap Used'
  <1>1. Monitors' = Monitors \cap Used' /\ Children' = Children \cap Used'
    BY DEF Monitors, Children, Used
  <1>2. Placed'
    BY <1>1 DEF Placed
  <1>3. OneOfAnId'
    BY DEF OneOfAnId
  <1> QED BY <1>1, <1>2, <1>3

\* The slot of an ID gets an execution with this ID.
LEMMA IdAdded ==
    ASSUME Placed, OneOfAnId, NEW id \in WorkflowIds, id[3] # "past",
           id[1] = "k8s-monitoring" <=> id[3] = "",
           NEW s \in SlotOf(id),
           Used' = Used \cup {s},
           exec'[s].id = id,
           \A t \in Used \ {s} : exec'[t].id = exec[t].id
    PROVE  /\ Placed' /\ OneOfAnId'
           /\ Monitors' \ {s} = Monitors \ {s} /\ Children' \ {s} = Children \ {s}
           /\ s \in Monitors' <=> id[1] = "k8s-monitoring"
           /\ s \in Children' <=> id[1] = "analysis"
  <1>1. /\ s \in Pool[id[1]]
        /\ \A t \in Used : exec[t].id = id => t = s
    BY SlotFacts
  <1>2. /\ Monitors' \ {s} = Monitors \ {s} /\ Children' \ {s} = Children \ {s}
        /\ s \in Monitors' <=> id[1] = "k8s-monitoring"
        /\ s \in Children' <=> id[1] = "analysis"
    BY DEF Monitors, Children
  <1>3. ASSUME NEW t \in Used'
        PROVE  t \in Pool[exec'[t].id[1]] /\ (t \in Monitors' <=> exec'[t].id[3] = "")
    <2>1. CASE t = s
      BY <1>1, <1>2, <2>1
    <2>2. CASE t # s
      BY <1>2, <1>3, <2>2 DEF Placed
    <2> QED BY <2>1, <2>2
  <1>4. ASSUME NEW t \in Used', NEW u \in Used', exec'[t].id = exec'[u].id, exec'[t].id[3] # "past"
        PROVE  t = u
    BY <1>1, <1>4 DEF OneOfAnId
  <1> QED BY <1>2, <1>3, <1>4 DEF Placed, OneOfAnId

----
(* The client. *)

LEMMA StartKeeps ==
    ASSUME IInv, NEW p \in Callers, NEW r \in Requests[p], Start(p, r)
    PROVE  IInv'
  <1> USE DEF IInv
  <1> DEFINE id == RequestId(r)
             e == Execution(id, r[3], None)
  <1>1. /\ id \in WorkflowIds /\ id[1] \notin {"k8s-monitoring", "analysis"} /\ id[3] = "now"
        /\ id = <<r[1], r[2], "now">>
        /\ r \in Asked /\ r[3] \in Kinds
    <2>1. r \in Asked
      BY DEF Asked
    <2> QED BY <2>1, IdTypes DEF RequestId
  <1>2. PICK s \in SlotOf(id) :
          /\ exec' = IF Running(s) THEN exec ELSE [exec EXCEPT ![s] = e]
          /\ caller' = [caller EXCEPT ![p] = [slot |-> s, request |-> r, second |-> "now"]]
    BY DEF Start
  <1>3. /\ s \in Slots
        /\ \A t \in Used : exec[t].id = id => t = s
        /\ s \notin Used \/ exec[s].id = id
    BY <1>1, SlotFacts
  <1>4. worker' = worker
    BY DEF Start
  <1>5. CASE Running(s)
    <2>1. exec[s].id = id /\ s \in Used /\ exec' = exec
      BY <1>2, <1>3, <1>5 DEF Running
    <2>2. Types' /\ Awaited'
      BY <1>1, <1>2, <1>4, <2>1 DEF Types, Awaited, Used
    <2>3. (Placed /\ OneOfAnId)' /\ Monitors' = Monitors /\ Children' = Children /\ Used' = Used
      BY <2>1 DEF Placed, OneOfAnId, Used, Monitors, Children
    <2>4. Family' /\ EndsOnlyIfCancelled'
      BY <2>1, <2>3 DEF Family, EndsOnlyIfCancelled, Running
    <2> QED BY <2>2, <2>3, <2>4
  <1>6. CASE ~Running(s)
    <2>1. e.id = id /\ e.status = "running" /\ e.parent = None /\ e.pc = "check"
      BY DEF Execution
    <2>2. /\ exec' = [exec EXCEPT ![s] = e]
          /\ e \in Executions /\ e # None
      BY <1>1, <1>2, <1>6, ExecutionTypes, SlotTypes
    <2> HIDE DEF e, id
    <2>3. exec'[s] = e /\ \A t \in Slots \ {s} : exec'[t] = exec[t]
      BY <1>3, <2>2 DEF Types
    <2>4. Used' = Used \cup {s}
      BY <1>3, <2>2, <2>3 DEF Used
    <2>5. /\ Placed' /\ OneOfAnId'
          /\ Monitors' = Monitors /\ Children' = Children
          /\ s \notin Monitors \cup Children
      <3>1. s \notin Monitors \cup Children
        BY <1>1, <1>3 DEF Monitors, Children
      <3>2. Used \subseteq Slots
        BY DEF Used
      <3>3. /\ Placed' /\ OneOfAnId'
            /\ Monitors' \ {s} = Monitors \ {s} /\ Children' \ {s} = Children \ {s}
            /\ s \notin Monitors' /\ s \notin Children'
        BY <1>1, <2>1, <2>3, <2>4, <3>2, IdAdded
      <3> QED BY <3>1, <3>3
    <2>6. Types'
      BY <1>1, <1>2, <1>3, <1>4, <2>2 DEF Types
    <2>7. Family'
      <3>1. \A t \in Used : exec[t].pc = "child" => t # s /\ exec[t].child # s
        BY <2>5 DEF Family
      <3>2. \A t \in Used : exec[t].parent # None => t # s /\ exec[t].parent # s
        BY <2>5 DEF Family
      <3> QED BY <2>1, <2>3, <2>4, <2>5, <3>1, <3>2 DEF Family, Used, Running, Children, Monitors
    <2>8. Awaited'
      BY <1>1, <1>2, <1>3, <2>1, <2>3, <2>4 DEF Awaited, Used, Types
    <2>9. EndsOnlyIfCancelled'
      BY <2>3, <2>4, <2>5 DEF EndsOnlyIfCancelled, Used, Monitors, Running
    <2> QED BY <2>5, <2>6, <2>7, <2>8, <2>9
  <1> QED BY <1>5, <1>6

LEMMA ResultKeeps ==
    ASSUME IInv, NEW p \in Callers, GetWorkflowResult(p)
    PROVE  IInv'
  <1> USE DEF IInv
  <1> DEFINE s == caller[p].slot
  <1>1. /\ s \in Slots /\ s \in Used /\ s \notin Monitors /\ s \notin Children
        /\ \A r \in Asked : r[1] \notin {"k8s-monitoring", "analysis"}
    <2>1. \A r \in Asked : r[1] \notin {"k8s-monitoring", "analysis"}
      BY IdTypes
    <2>2. s \in Used /\ exec[s].id[1] = caller[p].request[1] /\ caller[p].request \in Asked
      BY DEF GetWorkflowResult, Awaited
    <2> QED BY <2>1, <2>2 DEF Used, Monitors, Children
  <1>2. /\ caller' = [caller EXCEPT ![p] = Idle] /\ worker' = worker
        /\ \A t \in Slots \ {s} : exec'[t] = exec[t]
        /\ exec'[s] = exec[s] \/ exec'[s] = None
        /\ exec' \in [Slots -> Executions \cup {None}]
    BY <1>1 DEF GetWorkflowResult, Types
  <1>3. Types'
    BY <1>2 DEF Types, Idle
  <1>4. /\ Used' \subseteq Used /\ \A t \in Used' : exec'[t] = exec[t]
        /\ Used \ {s} \subseteq Used'
    BY <1>2 DEF Used
  <1>5. (Placed /\ OneOfAnId)' /\ Monitors' = Monitors /\ Children' = Children
    <2>1. Monitors \subseteq Used /\ Children \subseteq Used
      BY DEF Monitors, Children
    <2> QED BY <1>1, <1>4, <2>1, IdsKept
  <1>6. Family'
    <2>1. \A t \in Used : exec[t].parent # None => exec[t].parent \in Used' /\ t \in Used'
      BY <1>1, <1>4 DEF Family, Monitors, Children
    <2>2. \A t \in Used : exec[t].pc = "child" => exec[t].child \in Used'
      BY <1>1, <1>4 DEF Family, Children
    <2> QED BY <1>4, <1>5, <2>1, <2>2 DEF Family, Running
  <1>8. EndsOnlyIfCancelled'
    <2>1. \A t \in Monitors : t \in Used' /\ exec'[t] = exec[t]
      BY <1>1, <1>4 DEF Monitors
    <2> QED BY <1>5, <2>1 DEF EndsOnlyIfCancelled, Running, Monitors
  <1>7. Awaited'
    <2> SUFFICES ASSUME NEW q \in Callers, caller'[q].slot # None
                 PROVE  /\ caller'[q].slot \in Used' /\ caller'[q].request \in Asked
                        /\ exec'[caller'[q].slot].id
                             = <<caller'[q].request[1], caller'[q].request[2], caller'[q].second>>
      BY DEF Awaited
    <2>1. q # p /\ caller'[q] = caller[q]
      BY <1>2 DEF Types, Idle
    <2>2. caller[q].slot = s => exec' = exec
      BY <2>1 DEF GetWorkflowResult
    <2>3. caller[q].slot \in Used'
      BY <1>4, <2>1, <2>2 DEF Awaited, Used
    <2> QED BY <1>4, <2>1, <2>3 DEF Awaited
  <1> QED BY <1>3, <1>5, <1>6, <1>7, <1>8

LEMMA StartMonitoringKeeps ==
    ASSUME IInv, NEW config \in Configs, StartContinuousMonitoring(config)
    PROVE  IInv'
  <1> USE DEF IInv
  <1> DEFINE id == MonitorId(config[1])
             e == Execution(id, config[2], None)
  <1>1. config[2] \in Kinds /\ id \in WorkflowIds /\ id[1] = "k8s-monitoring" /\ id[3] = ""
    BY IdTypes DEF MonitorId
  <1>2. PICK s \in SlotOf(id) : ~Running(s) /\ exec' = [exec EXCEPT ![s] = e]
    BY DEF StartContinuousMonitoring, StartedMonitorId
  <1>3. /\ s \in Slots
        /\ s \notin Used \/ exec[s].id = id
    BY <1>1, SlotFacts
  <1>4. caller' = caller /\ worker' = worker
    BY DEF StartContinuousMonitoring
  <1>5. e.id = id /\ e.status = "running" /\ e.parent = None /\ e.pc = "check"
    BY DEF Execution
  <1>6. e \in Executions /\ e # None
    BY <1>1, ExecutionTypes, SlotTypes
  <1> HIDE DEF e, id
  <1>7. exec'[s] = e /\ \A t \in Slots \ {s} : exec'[t] = exec[t]
    BY <1>2, <1>3 DEF Types
  <1>8. Used' = Used \cup {s} /\ Used \subseteq Slots
    BY <1>3, <1>6, <1>7 DEF Used
  <1>9. /\ Placed' /\ OneOfAnId'
        /\ Monitors' \ {s} = Monitors \ {s} /\ Children' \ {s} = Children \ {s}
        /\ s \in Monitors' /\ s \notin Children'
    BY <1>1, <1>5, <1>7, <1>8, IdAdded
  <1>10. s \notin Children /\ (s \in Used => s \in Monitors)
    BY <1>1, <1>3 DEF Monitors, Children
  <1>11. Types'
    BY <1>2, <1>3, <1>4, <1>6 DEF Types
  <1>12. Family'
    <2>1. \A t \in Used : exec[t].pc = "child" => exec[t].child # s /\ exec[t].child \in Used
      BY <1>10 DEF Family, Children
    <2>2. \A t \in Used : exec[t].parent # None => t # s /\ exec[t].parent # s
      BY <1>2, <1>10 DEF Family
    <2>3. Monitors \subseteq Monitors' /\ Children' = Children
      BY <1>9, <1>10
    <2> QED BY <1>5, <1>7, <1>8, <2>1, <2>2, <2>3 DEF Family, Running
  <1>13. Awaited'
    <2>1. ASSUME NEW p \in Callers, caller[p].slot # None PROVE caller[p].slot # s
      <3>1. /\ caller[p].request[1] \notin {"k8s-monitoring", "analysis"}
            /\ exec[caller[p].slot].id[1] = caller[p].request[1] /\ caller[p].slot \in Used
        BY <2>1, IdTypes DEF Awaited
      <3> QED BY <1>10, <3>1 DEF Monitors
    <2> QED BY <1>4, <1>7, <1>8, <2>1 DEF Awaited
  <1>14. EndsOnlyIfCancelled'
    <2>1. \A t \in Monitors' \ {s} : t \in Monitors /\ t \in Used /\ exec'[t] = exec[t]
      BY <1>7, <1>8, <1>9 DEF Monitors
    <2>2. exec'[s].status = "running" /\ s \in Used'
      BY <1>5, <1>7, <1>8
    <2> QED BY <1>8, <2>1, <2>2 DEF EndsOnlyIfCancelled, Running
  <1> QED BY <1>9, <1>11, <1>12, <1>13, <1>14


----
(* Steps that change some fields of executions. *)

\* IDs, parents, children and the status of monitorings stay as they are.
LEMMA FamiliesKept ==
    ASSUME Placed, OneOfAnId, Family, Awaited, Used' = Used, caller' = caller,
           \A t \in Used :
               /\ exec'[t].id = exec[t].id /\ exec'[t].parent = exec[t].parent
               /\ exec'[t].child = exec[t].child
               /\ exec'[t].pc = "child" <=> exec[t].pc = "child",
           \A t \in Monitors : exec'[t].status = exec[t].status
    PROVE  /\ Placed' /\ OneOfAnId' /\ Family' /\ Awaited'
           /\ Monitors' = Monitors
  <1>1. (Placed /\ OneOfAnId)' /\ Monitors' = Monitors /\ Children' = Children
    <2>1. Monitors \subseteq Used /\ Children \subseteq Used
      BY DEF Monitors, Children
    <2> QED BY <2>1, IdsKept
  <1>2. Awaited'
    BY DEF Awaited
  <1>3. \A t \in Monitors : t \in Used /\ (Running(t)' <=> Running(t))
    BY DEF Running, Monitors
  <1>4. \A t \in Children : t \in Used
    BY DEF Children
  <1>5. Family'
    <2>1. ASSUME NEW t \in Used, exec'[t].parent # None
          PROVE  /\ t \in Children'
                 /\ exec'[t].parent \in Monitors' /\ Running(exec[t].parent)'
                 /\ exec'[exec'[t].parent].id[2] = exec'[t].id[2]
                 /\ exec'[exec'[t].parent].pc = "child" /\ exec'[exec'[t].parent].child = t
      BY <1>1, <1>3, <2>1 DEF Family
    <2>2. ASSUME NEW t \in Used, exec'[t].pc = "child"
          PROVE  /\ t \in Monitors'
                 /\ exec'[t].child \in Children' /\ exec'[exec'[t].child].parent = t
      BY <1>1, <1>4, <2>2 DEF Family
    <2> QED BY <2>1, <2>2 DEF Family, Running
  <1> QED BY <1>1, <1>2, <1>5

LEMMA CancelKeeps ==
    ASSUME IInv, NEW m \in Slots, CancelWorkflow(m)
    PROVE  IInv'
  <1> USE DEF IInv
  <1>1. /\ m \in Monitors /\ Running(m) /\ m \in Used /\ exec[m] \in Executions
        /\ exec' = [exec EXCEPT ![m] = [@ EXCEPT !.cancel = TRUE]]
        /\ caller' = caller /\ worker' = worker
    BY DEF CancelWorkflow, Monitors, Used, Types
  <1>2. /\ \A t \in Slots \ {m} : exec'[t] = exec[t]
        /\ exec'[m] = [exec[m] EXCEPT !.cancel = TRUE]
        /\ exec'[m] \in Executions /\ exec'[m] # None
    BY <1>1, SlotTypes, ZenonT(60) DEF Types, Executions
  <1>3. /\ exec'[m].id = exec[m].id /\ exec'[m].status = exec[m].status
        /\ exec'[m].pc = exec[m].pc /\ exec'[m].child = exec[m].child
        /\ exec'[m].parent = exec[m].parent
        /\ exec[m].status = "running"
    BY <1>1, <1>2 DEF Executions, Running
  <1>4. Used' = Used /\ \A t \in Used : t \in Slots
    BY <1>1, <1>2 DEF Used
  <1>5. Types'
    BY <1>1, <1>2 DEF Types
  <1>6. /\ Placed' /\ OneOfAnId' /\ Family' /\ Awaited'
        /\ Monitors' = Monitors
    <2>1. \A t \in Used :
               /\ exec'[t].id = exec[t].id /\ exec'[t].parent = exec[t].parent
               /\ exec'[t].child = exec[t].child
               /\ exec'[t].pc = "child" <=> exec[t].pc = "child"
               /\ exec'[t].status = exec[t].status
      BY <1>2, <1>3, <1>4
    <2>2. \A t \in Monitors : t \in Used
      BY DEF Monitors
    <2> QED BY <1>1, <1>4, <2>1, <2>2, FamiliesKept
  <1>7. EndsOnlyIfCancelled'
    <2>1. \A t \in Monitors \ {m} : t \in Used /\ exec'[t] = exec[t]
      BY <1>2, <1>4 DEF Monitors
    <2> QED BY <1>1, <1>3, <1>4, <1>6, <2>1 DEF EndsOnlyIfCancelled, Running
  <1> QED BY <1>5, <1>6, <1>7

LEMMA TimerKeeps ==
    ASSUME IInv, NEW m \in Slots, TimerFires(m)
    PROVE  IInv'
  <1> USE DEF IInv
  <1>1. /\ m \in Monitors /\ m \in Used /\ exec[m] \in Executions /\ exec[m].pc = "sleep"
        /\ exec' = [exec EXCEPT ![m] = [@ EXCEPT !.pc = "check"]]
        /\ caller' = caller /\ worker' = worker
    BY DEF TimerFires, Monitors, Used, Types
  <1>2. /\ \A t \in Slots \ {m} : exec'[t] = exec[t]
        /\ exec'[m] = [exec[m] EXCEPT !.pc = "check"]
        /\ exec'[m] \in Executions /\ exec'[m] # None
    BY <1>1, SlotTypes DEF Types, Executions
  <1>3. /\ exec'[m].id = exec[m].id /\ exec'[m].status = exec[m].status
        /\ exec'[m].pc = "check" /\ exec'[m].child = exec[m].child
        /\ exec'[m].parent = exec[m].parent /\ exec'[m].cancel = exec[m].cancel
    BY <1>1, <1>2 DEF Executions
  <1>4. Used' = Used /\ \A t \in Used : t \in Slots
    BY <1>1, <1>2 DEF Used
  <1>5. Types'
    BY <1>1, <1>2 DEF Types
  <1>6. \A t \in Used :
               /\ exec'[t].id = exec[t].id /\ exec'[t].parent = exec[t].parent
               /\ exec'[t].child = exec[t].child
               /\ exec'[t].pc = "child" <=> exec[t].pc = "child"
               /\ exec'[t].status = exec[t].status /\ exec'[t].cancel = exec[t].cancel
    BY <1>1, <1>2, <1>3, <1>4
  <1>7. \A t \in Monitors : t \in Used
    BY DEF Monitors
  <1>8. /\ Placed' /\ OneOfAnId' /\ Family' /\ Awaited'
        /\ Monitors' = Monitors
    BY <1>1, <1>4, <1>6, <1>7, FamiliesKept
  <1>9. EndsOnlyIfCancelled'
    BY <1>4, <1>6, <1>7, <1>8 DEF EndsOnlyIfCancelled, Running
  <1> QED BY <1>5, <1>8, <1>9

\* An analysis closes, or is closed by its timeout.
LEMMA CloseKeeps ==
    ASSUME IInv, NEW s \in Slots, AnalysisCloses(s) \/ ChildTimesOut(s)
    PROVE  IInv'
  <1> USE DEF IInv
  <1>1. /\ s \in Used /\ s \notin Monitors /\ exec[s] \in Executions
        /\ caller' = caller /\ worker' = worker
    BY DEF AnalysisCloses, ChildTimesOut, WithTimeout, Analyses, Monitors, Children, Used, Types
  <1>2. PICK status \in Statuses : exec' = [exec EXCEPT ![s] = [@ EXCEPT !.status = status]]
    BY <1>1 DEF AnalysisCloses, ChildTimesOut, Statuses
  <1>3. /\ \A t \in Slots \ {s} : exec'[t] = exec[t]
        /\ exec'[s] = [exec[s] EXCEPT !.status = status]
        /\ exec'[s] \in Executions /\ exec'[s] # None
    BY <1>1, <1>2, SlotTypes DEF Types, Executions
  <1>4. /\ exec'[s].id = exec[s].id
        /\ exec'[s].pc = exec[s].pc /\ exec'[s].child = exec[s].child
        /\ exec'[s].parent = exec[s].parent
    BY <1>1, <1>3 DEF Executions
  <1>5. Used' = Used /\ \A t \in Used : t \in Slots
    BY <1>1, <1>3 DEF Used
  <1>6. Types'
    BY <1>1, <1>2, <1>3 DEF Types
  <1>7. \A t \in Used :
               /\ exec'[t].id = exec[t].id /\ exec'[t].parent = exec[t].parent
               /\ exec'[t].child = exec[t].child
               /\ exec'[t].pc = "child" <=> exec[t].pc = "child"
    BY <1>3, <1>4, <1>5
  <1>8. \A t \in Monitors : t \in Used /\ exec'[t] = exec[t]
    BY <1>1, <1>3, <1>5 DEF Monitors
  <1>9. /\ Placed' /\ OneOfAnId' /\ Family' /\ Awaited'
        /\ Monitors' = Monitors
    BY <1>1, <1>5, <1>7, <1>8, FamiliesKept
  <1>10. EndsOnlyIfCancelled'
    BY <1>5, <1>8, <1>9 DEF EndsOnlyIfCancelled, Running
  <1> QED BY <1>6, <1>9, <1>10

----
(* Monitorings and their children. *)

\* The monitorings of a cluster are one.
LEMMA OneMonitor ==
    ASSUME Types, Placed, OneOfAnId, NEW m \in Monitors, NEW n \in Monitors,
           exec[m].id[2] = exec[n].id[2]
    PROVE  m = n
  <1>1. m \in Used /\ n \in Used /\ exec[m].id \in WorkflowIds /\ exec[n].id \in WorkflowIds
    BY DEF Monitors, Used, Types, Executions
  <1>2. /\ exec[m].id[1] = exec[n].id[1]
        /\ exec[m].id[3] = "" /\ exec[n].id[3] = ""
    BY DEF Monitors, Placed
  <1>3. exec[m].id = exec[n].id
    BY <1>1, <1>2, IdTypes
  <1> QED BY <1>1, <1>2, <1>3 DEF OneOfAnId

LEMMA StartChildKeeps ==
    ASSUME IInv, NEW m \in Slots, StartChild(m)
    PROVE  IInv'
  <1> USE DEF IInv
  <1> DEFINE id == <<"analysis", exec[m].id[2], "now">>
             e == Execution(id, exec[m].input, m)
  <1>1. /\ m \in Monitors /\ m \in Used /\ Running(m) /\ exec[m].pc = "check"
        /\ exec[m] \in Executions /\ exec[m].input \in Kinds
        /\ caller' = caller /\ worker' = worker
    BY DEF StartChild, At, Monitors, Used, Types, Executions
  <1>2. id \in WorkflowIds /\ id[1] = "analysis" /\ id[3] = "now"
    <2>1. exec[m].id[2] \in Targets
      BY <1>1 DEF Executions, WorkflowIds
    <2> QED BY <2>1, IdTypes
  <1>3. PICK s \in SlotOf(id) :
          exec' = IF Running(s) THEN [exec EXCEPT ![m].pc = "sleep"]
                  ELSE [exec EXCEPT ![s] = e, ![m].pc = "child", ![m].child = s]
    BY DEF StartChild, AwaitChild
  <1>4. /\ s \in Slots
        /\ s \notin Used \/ exec[s].id = id
    BY <1>2, SlotFacts
  <1>5. s # m /\ s \notin Monitors
    BY <1>1, <1>2, <1>4 DEF Monitors
  <1>6. \A t \in Monitors : t \in Used
    BY DEF Monitors
  <1>7. CASE Running(s)
    <2>1. exec' = [exec EXCEPT ![m] = [@ EXCEPT !.pc = "sleep"]]
      BY <1>3, <1>7
    <2>2. /\ \A t \in Slots \ {m} : exec'[t] = exec[t]
          /\ exec'[m] = [exec[m] EXCEPT !.pc = "sleep"]
          /\ exec'[m] \in Executions /\ exec'[m] # None
      BY <1>1, <2>1, SlotTypes DEF Types, Executions
    <2>3. /\ exec'[m].id = exec[m].id /\ exec'[m].status = exec[m].status
          /\ exec'[m].pc = "sleep" /\ exec'[m].child = exec[m].child
          /\ exec'[m].parent = exec[m].parent /\ exec'[m].cancel = exec[m].cancel
      BY <1>1, <2>2 DEF Executions
    <2>4. Used' = Used /\ \A t \in Used : t \in Slots
      BY <1>1, <2>2 DEF Used
    <2>5. Types'
      BY <1>1, <2>1, <2>2 DEF Types
    <2>6. \A t \in Used :
               /\ exec'[t].id = exec[t].id /\ exec'[t].parent = exec[t].parent
               /\ exec'[t].child = exec[t].child
               /\ exec'[t].pc = "child" <=> exec[t].pc = "child"
               /\ exec'[t].status = exec[t].status /\ exec'[t].cancel = exec[t].cancel
      BY <1>1, <2>2, <2>3, <2>4
    <2>7. /\ Placed' /\ OneOfAnId' /\ Family' /\ Awaited'
          /\ Monitors' = Monitors
      BY <1>1, <1>6, <2>4, <2>6, FamiliesKept
    <2>8. EndsOnlyIfCancelled'
      BY <1>6, <2>4, <2>6, <2>7 DEF EndsOnlyIfCancelled, Running
    <2> QED BY <2>5, <2>7, <2>8
  <1>8. CASE ~Running(s)
    <2>1. e.id = id /\ e.status = "running" /\ e.parent = m /\ e.pc = "check"
      BY DEF Execution
    <2>2. e \in Executions /\ e # None
      BY <1>1, <1>2, ExecutionTypes, SlotTypes
    <2> DEFINE f == [exec[m] EXCEPT !.pc = "child", !.child = s]
    <2>3. /\ f \in Executions /\ f # None
          /\ f.id = exec[m].id /\ f.status = exec[m].status
          /\ f.pc = "child" /\ f.child = s
          /\ f.parent = exec[m].parent /\ f.cancel = exec[m].cancel
      BY <1>1, <1>4, SlotTypes, ZenonT(60) DEF Executions
    <2>4. exec' = [[exec EXCEPT ![s] = e] EXCEPT ![m] = f]
      BY <1>1, <1>3, <1>4, <1>5, <1>8 DEF Types
    <2>5. id[2] = exec[m].id[2]
      OBVIOUS
    <2> HIDE DEF e, id, f
    <2>6. /\ exec'[s] = e /\ exec'[m] = f
          /\ \A t \in Slots \ {s, m} : exec'[t] = exec[t]
          /\ exec' \in [Slots -> Executions \cup {None}]
      BY <1>4, <1>5, <2>2, <2>3, <2>4 DEF Types
    <2>7. Used' = Used \cup {s} /\ Used \subseteq Slots
      BY <1>1, <1>4, <2>2, <2>3, <2>6 DEF Used
    <2>8. /\ Placed' /\ OneOfAnId'
          /\ Monitors' = Monitors
          /\ Children' = Children \cup {s}
      <3>1. \A t \in Used \ {s} : exec'[t].id = exec[t].id
        BY <2>3, <2>6, <2>7
      <3>2. /\ Placed' /\ OneOfAnId'
            /\ Monitors' \ {s} = Monitors \ {s} /\ Children' \ {s} = Children \ {s}
            /\ s \notin Monitors' /\ s \in Children'
        BY <1>2, <2>1, <2>6, <2>7, <3>1, IdAdded
      <3> QED BY <1>5, <3>2
    \* What was in the slot was nobody's child.
    <2>9. ASSUME NEW t \in Used, exec[t].pc = "child" PROVE exec[t].child # s
      <3>1. SUFFICES ASSUME exec[t].child = s PROVE FALSE
        OBVIOUS
      <3>2. t \in Monitors /\ s \in Children /\ exec[s].parent = t /\ t # None
        BY <2>9, <3>1, SlotTypes DEF Family, Used
      <3>3. s \in Used /\ exec[s].id = id
        BY <1>4, <3>2 DEF Children
      <3>4. exec[t].id[2] = exec[m].id[2]
        BY <2>5, <3>2, <3>3 DEF Family
      <3>5. t = m
        BY <1>1, <3>2, <3>4, OneMonitor
      <3> QED BY <1>1, <2>9, <3>5
    <2>10. ASSUME NEW t \in Used, exec[t].parent # None
           PROVE  /\ t \in Children /\ t # s /\ t # m
                  /\ exec[t].parent \in Monitors /\ exec[t].parent # s /\ exec[t].parent # m
      <3>1. /\ t \in Children /\ exec[t].parent \in Monitors
            /\ exec[exec[t].parent].pc = "child" /\ exec[exec[t].parent].child = t
        BY <2>10 DEF Family
      <3>2. t # m
        BY <1>1, <3>1 DEF Monitors, Children
      <3> QED BY <1>1, <1>5, <1>6, <2>9, <3>1, <3>2
    <2>11. Types'
      BY <1>1, <2>6 DEF Types
    <2>12. Family'
      <3>1. \A t \in Monitors : Running(t) => Running(t)'
        BY <1>5, <1>6, <2>3, <2>6, <2>7 DEF Running
      <3>2. \A t \in Children : t \in Used
        BY DEF Children
      <3>3. ASSUME NEW t \in Used', exec'[t].parent # None
            PROVE  /\ t \in Children'
                   /\ exec'[t].parent \in Monitors' /\ Running(exec[t].parent)'
                   /\ exec'[exec'[t].parent].id[2] = exec'[t].id[2]
                   /\ exec'[exec'[t].parent].pc = "child" /\ exec'[exec'[t].parent].child = t
        <4>1. CASE t = s
          BY <1>1, <2>1, <2>3, <2>5, <2>6, <2>8, <3>1, <4>1
        <4>2. CASE t # s
          <5>1. t \in Used /\ exec'[t].parent = exec[t].parent /\ exec'[t].id = exec[t].id
            BY <2>3, <2>6, <2>7, <4>2
          <5>2. /\ t \in Children /\ t # s /\ t # m
                /\ exec[t].parent \in Monitors /\ exec[t].parent # s /\ exec[t].parent # m
            BY <2>10, <3>3, <5>1
          <5>3. exec'[exec[t].parent] = exec[exec[t].parent]
            BY <1>6, <2>6, <2>7, <5>2
          <5> QED BY <2>8, <3>1, <3>3, <5>1, <5>2, <5>3 DEF Family
        <4> QED BY <4>1, <4>2
      <3>4. ASSUME NEW t \in Used', exec'[t].pc = "child"
            PROVE  /\ t \in Monitors'
                   /\ exec'[t].child \in Children' /\ exec'[exec'[t].child].parent = t
        <4>1. CASE t = m
          BY <1>1, <2>1, <2>3, <2>6, <2>8, <4>1
        <4>2. CASE t # m
          <5>1. t # s /\ t \in Used /\ exec'[t] = exec[t]
            BY <2>1, <2>6, <2>7, <3>4, <4>2
          <5>2. /\ t \in Monitors /\ exec[t].child \in Children /\ exec[exec[t].child].parent = t
            BY <3>4, <5>1 DEF Family
          <5>3. exec[t].child # s /\ exec[t].child # m
            BY <1>1, <2>9, <3>4, <5>1, <5>2 DEF Monitors, Children
          <5> QED BY <2>6, <2>7, <2>8, <3>2, <5>1, <5>2, <5>3
        <4> QED BY <4>1, <4>2
      <3> QED BY <3>3, <3>4 DEF Family
    <2>13. Awaited'
      <3>1. ASSUME NEW p \in Callers, caller[p].slot # None
            PROVE  caller[p].slot # s /\ caller[p].slot # m
        <4>1. /\ caller[p].request[1] \notin {"k8s-monitoring", "analysis"}
              /\ exec[caller[p].slot].id[1] = caller[p].request[1] /\ caller[p].slot \in Used
          BY <3>1, IdTypes DEF Awaited
        <4> QED BY <1>1, <1>2, <1>4, <4>1 DEF Monitors
      <3> QED BY <1>1, <2>6, <2>7, <3>1 DEF Awaited
    <2>14. EndsOnlyIfCancelled'
      <3>1. \A t \in Monitors : /\ t \in Used'
                                /\ exec'[t].status = exec[t].status /\ exec'[t].cancel = exec[t].cancel
        BY <1>5, <1>6, <2>3, <2>6, <2>7
      <3> QED BY <1>6, <2>7, <2>8, <3>1 DEF EndsOnlyIfCancelled, Running
    <2> QED BY <2>8, <2>11, <2>12, <2>13, <2>14
  <1> QED BY <1>7, <1>8

LEMMA ChildClosedKeeps ==
    ASSUME IInv, NEW m \in Slots, ChildClosed(m)
    PROVE  IInv'
  <1> USE DEF IInv
  <1> DEFINE s == exec[m].child
             f == [exec[m] EXCEPT !.pc = "sleep", !.child = None]
  <1>1. /\ m \in Monitors /\ m \in Used /\ Running(m) /\ exec[m].pc = "child"
        /\ exec[m] \in Executions
        /\ caller' = caller /\ worker' = worker
    BY DEF ChildClosed, At, Monitors, Used, Types
  <1>2. /\ s \in Children /\ s \in Used /\ s \in Slots /\ exec[s].parent = m
        /\ s # m /\ s \notin Monitors
    BY <1>1 DEF Family, Monitors, Children, Used
  <1>3. exec' = [exec EXCEPT ![m].pc = "sleep", ![m].child = None, ![s] = None]
    BY DEF ChildClosed, LogError
  <1>4. exec' = [[exec EXCEPT ![m] = f] EXCEPT ![s] = None]
    BY <1>1, <1>2, <1>3 DEF Types
  <1>5. /\ f \in Executions /\ f # None
        /\ f.id = exec[m].id /\ f.status = exec[m].status /\ f.pc = "sleep"
        /\ f.parent = exec[m].parent /\ f.cancel = exec[m].cancel
    BY <1>1, SlotTypes, ZenonT(60) DEF Executions
  <1> HIDE DEF f
  <1>6. /\ exec'[s] = None /\ exec'[m] = f
        /\ \A t \in Slots \ {s, m} : exec'[t] = exec[t]
        /\ exec' \in [Slots -> Executions \cup {None}]
    BY <1>2, <1>4, <1>5 DEF Types
  <1>7. Used' = Used \ {s} /\ Used \subseteq Slots
    BY <1>1, <1>2, <1>5, <1>6 DEF Used
  <1>8. \A t \in Used' : exec'[t].id = exec[t].id
    BY <1>5, <1>6, <1>7
  <1>9. /\ Placed' /\ OneOfAnId'
        /\ Monitors' = Monitors /\ Children' = Children \ {s}
    <2>1. Monitors \subseteq Used /\ Children \subseteq Used
      BY DEF Monitors, Children
    <2>2. /\ Placed' /\ OneOfAnId'
          /\ Monitors' = Monitors \cap Used' /\ Children' = Children \cap Used'
      BY <1>7, <1>8, IdsKept
    <2> QED BY <1>2, <1>7, <2>1, <2>2
  <1>10. Types'
    BY <1>1, <1>6 DEF Types
  <1>11. Family'
    <2>1. ASSUME NEW t \in Used', exec'[t].parent # None
          PROVE  /\ t \in Children'
                 /\ exec'[t].parent \in Monitors' /\ Running(exec[t].parent)'
                 /\ exec'[exec'[t].parent].id[2] = exec'[t].id[2]
                 /\ exec'[exec'[t].parent].pc = "child" /\ exec'[exec'[t].parent].child = t
      <3>1. t \in Used /\ t # s /\ exec'[t].parent = exec[t].parent
        BY <1>5, <1>6, <1>7
      <3>2. /\ t \in Children /\ exec[t].parent \in Monitors /\ Running(exec[t].parent)
            /\ exec[exec[t].parent].id[2] = exec[t].id[2]
            /\ exec[exec[t].parent].pc = "child" /\ exec[exec[t].parent].child = t
        BY <2>1, <3>1 DEF Family
      <3>3. exec[t].parent # m /\ exec[t].parent # s
        BY <1>2, <3>1, <3>2
      <3>4. exec[t].parent \in Used' /\ exec'[exec[t].parent] = exec[exec[t].parent]
        BY <1>6, <1>7, <3>2, <3>3 DEF Running
      <3> QED BY <1>8, <1>9, <3>1, <3>2, <3>4 DEF Running
    <2>2. ASSUME NEW t \in Used', exec'[t].pc = "child"
          PROVE  /\ t \in Monitors'
                 /\ exec'[t].child \in Children' /\ exec'[exec'[t].child].parent = t
      <3>1. t # m /\ t # s /\ t \in Used /\ exec'[t] = exec[t]
        BY <1>5, <1>6, <1>7, <2>2
      <3>2. t \in Monitors /\ exec[t].child \in Children /\ exec[exec[t].child].parent = t
        BY <2>2, <3>1 DEF Family
      <3>3. exec[t].child # s /\ exec[t].child # m /\ exec[t].child \in Used
        BY <1>1, <1>2, <3>1, <3>2 DEF Monitors, Children
      <3> QED BY <1>6, <1>7, <1>9, <3>1, <3>2, <3>3
    <2> QED BY <2>1, <2>2 DEF Family
  <1>12. Awaited'
    <2>1. ASSUME NEW p \in Callers, caller[p].slot # None
          PROVE  caller[p].slot # s /\ caller[p].slot # m
      <3>1. /\ caller[p].request[1] \notin {"k8s-monitoring", "analysis"}
            /\ exec[caller[p].slot].id[1] = caller[p].request[1] /\ caller[p].slot \in Used
        BY <2>1, IdTypes DEF Awaited
      <3> QED BY <1>1, <1>2, <3>1 DEF Monitors, Children
    <2> QED BY <1>1, <1>6, <1>7, <2>1, SMTT(30) DEF Awaited
  <1>13. EndsOnlyIfCancelled'
    <2>1. \A t \in Monitors : /\ t \in Used /\ t \in Used'
                              /\ exec'[t].status = exec[t].status /\ exec'[t].cancel = exec[t].cancel
      BY <1>2, <1>5, <1>6, <1>7 DEF Monitors
    <2> QED BY <1>9, <2>1 DEF EndsOnlyIfCancelled, Running
  <1> QED BY <1>9, <1>10, <1>11, <1>12, <1>13

LEMMA CancelledKeeps ==
    ASSUME IInv, NEW m \in Slots, Cancelled(m)
    PROVE  IInv'
  <1> USE DEF IInv
  <1> DEFINE f == [exec[m] EXCEPT !.status = "canceled", !.pc = "check", !.child = None]
             mine == {t \in Children : exec[t].parent = m}
  <1>1. /\ m \in Monitors /\ m \in Used /\ Running(m) /\ exec[m].cancel
        /\ exec[m] \in Executions
        /\ caller' = caller /\ worker' = worker
        /\ exec' = Closed(m, "canceled")
    BY DEF Cancelled, CtxErr, At, Monitors, Used, Types
  <1>2. m \notin Children /\ m # None
    BY <1>1, SlotTypes DEF Monitors, Children
  <1>3. /\ f \in Executions /\ f # None
        /\ f.id = exec[m].id /\ f.status = "canceled" /\ f.pc = "check"
        /\ f.parent = exec[m].parent /\ f.cancel = exec[m].cancel
    BY <1>1, SlotTypes, ZenonT(60) DEF Executions, Statuses
  <1>4. ASSUME NEW t \in mine
        PROVE  LET g == [exec[t] EXCEPT !.parent = None]
               IN  /\ g \in Executions /\ g # None
                   /\ g.id = exec[t].id /\ g.status = exec[t].status /\ g.pc = exec[t].pc
                   /\ g.parent = None /\ g.child = exec[t].child
    <2>1. exec[t] \in Executions
      BY DEF Children, Used, Types
    <2> QED BY <2>1, SlotTypes DEF Executions
  <1> HIDE DEF f
  <1>5. /\ exec'[m] = f
        /\ \A t \in mine : exec'[t] = [exec[t] EXCEPT !.parent = None]
        /\ \A t \in Slots \ (mine \cup {m}) : exec'[t] = exec[t]
        /\ exec' \in [Slots -> Executions \cup {None}]
    <2>1. exec' = [t \in Slots |->
                     IF t = m THEN f ELSE IF t \in mine THEN [exec[t] EXCEPT !.parent = None]
                     ELSE exec[t]]
      BY <1>1 DEF Closed, f
    <2>2. mine \subseteq Slots /\ m \notin mine
      BY <1>2 DEF Children, Used
    <2> HIDE DEF mine
    <2>3. exec'[m] = f /\ \A t \in mine : exec'[t] = [exec[t] EXCEPT !.parent = None]
      BY <2>1, <2>2
    <2>4. \A t \in Slots \ (mine \cup {m}) : exec'[t] = exec[t]
      BY <2>1
    <2>5. ASSUME NEW t \in Slots PROVE exec'[t] \in Executions \cup {None}
      <3>1. CASE t = m
        BY <1>3, <2>3, <3>1
      <3>2. CASE t \in mine
        BY <1>4, <2>3, <3>2
      <3>3. CASE t \notin mine \cup {m}
        BY <2>4, <3>3 DEF Types
      <3> QED BY <3>1, <3>2, <3>3
    <2> QED BY <2>1, <2>3, <2>4, <2>5
  <1>6. Used' = Used /\ Used \subseteq Slots /\ mine \subseteq Used
    <2>1. \A t \in mine : exec'[t] # None /\ t \in Used
      BY <1>4, <1>5, ZenonT(60) DEF Children
    <2> QED BY <1>1, <1>3, <1>5, <2>1 DEF Used
  <1>7. /\ \A t \in Used \ {m} : /\ exec'[t].id = exec[t].id /\ exec'[t].pc = exec[t].pc
                                 /\ exec'[t].child = exec[t].child
                                 /\ exec'[t].status = exec[t].status
                                 /\ exec'[t].parent # None =>
                                      exec'[t].parent = exec[t].parent /\ exec[t].parent # m
        /\ exec'[m].id = exec[m].id
    <2>1. ASSUME NEW t \in Used \ {m}
          PROVE  /\ exec'[t].id = exec[t].id /\ exec'[t].pc = exec[t].pc
                 /\ exec'[t].child = exec[t].child
                 /\ exec'[t].status = exec[t].status
                 /\ exec'[t].parent # None => exec'[t].parent = exec[t].parent /\ exec[t].parent # m
      <3>1. CASE t \in mine
        BY <1>4, <1>5, <3>1
      <3>2. CASE t \notin mine
        <4>1. exec'[t] = exec[t] /\ (exec[t].parent # None => t \in Children)
          BY <1>5, <1>6, <3>2 DEF Family
        <4> QED BY <1>2, <3>2, <4>1
      <3> QED BY <3>1, <3>2
    <2> QED BY <1>3, <1>5, <2>1
  <1>8. /\ Placed' /\ OneOfAnId'
        /\ Monitors' = Monitors /\ Children' = Children
    <2>1. Monitors \subseteq Used /\ Children \subseteq Used
      BY DEF Monitors, Children
    <2> QED BY <1>6, <1>7, <2>1, IdsKept
  <1>9. Types'
    BY <1>1, <1>5 DEF Types
  <1>10. Family'
    <2>1. ASSUME NEW t \in Used', exec'[t].parent # None
          PROVE  /\ t \in Children'
                 /\ exec'[t].parent \in Monitors' /\ Running(exec[t].parent)'
                 /\ exec'[exec'[t].parent].id[2] = exec'[t].id[2]
                 /\ exec'[exec'[t].parent].pc = "child" /\ exec'[exec'[t].parent].child = t
      <3>1. t # m
        BY <1>1, <1>2, <1>3, <1>5, <2>1 DEF Family
      <3>2. t \in Used /\ exec'[t].parent = exec[t].parent /\ exec[t].parent # m
            /\ exec'[t].id = exec[t].id
        BY <1>6, <1>7, <2>1, <3>1
      <3>3. /\ t \in Children /\ exec[t].parent \in Monitors /\ Running(exec[t].parent)
            /\ exec[exec[t].parent].id[2] = exec[t].id[2]
            /\ exec[exec[t].parent].pc = "child" /\ exec[exec[t].parent].child = t
        BY <2>1, <3>2 DEF Family
      <3>4. exec[t].parent \in Used
        BY <3>3 DEF Running
      <3> QED BY <1>6, <1>7, <1>8, <3>2, <3>3, <3>4 DEF Running
    <2>2. ASSUME NEW t \in Used', exec'[t].pc = "child"
          PROVE  /\ t \in Monitors'
                 /\ exec'[t].child \in Children' /\ exec'[exec'[t].child].parent = t
      <3>1. t # m /\ t \in Used /\ exec[t].pc = "child" /\ exec'[t].child = exec[t].child
        BY <1>3, <1>5, <1>6, <1>7, <2>2
      <3>2. t \in Monitors /\ exec[t].child \in Children /\ exec[exec[t].child].parent = t
        BY <3>1 DEF Family
      <3>3. exec[t].child \notin mine /\ exec[t].child # m /\ exec[t].child \in Slots
        BY <1>2, <3>1, <3>2 DEF Children, Used
      <3> QED BY <1>5, <1>8, <3>1, <3>2, <3>3
    <2> QED BY <2>1, <2>2 DEF Family
  <1>11. Awaited'
    BY <1>1, <1>6, <1>7 DEF Awaited
  <1>12. EndsOnlyIfCancelled'
    <2>1. \A t \in Monitors \ {m} : t \in Used /\ t \notin mine /\ exec'[t] = exec[t]
      BY <1>5, <1>6 DEF Monitors, Children
    <2>2. exec'[m].status = "canceled" /\ exec'[m].cancel
      BY <1>1, <1>3, <1>5
    <2> QED BY <1>6, <1>8, <2>1, <2>2 DEF EndsOnlyIfCancelled, Running
  <1> QED BY <1>8, <1>9, <1>10, <1>11, <1>12

LEMMA TerminateKeeps ==
    ASSUME IInv, NEW s \in Slots, TerminateOrphan(s)
    PROVE  IInv'
  <1> USE DEF IInv
  <1>1. /\ s \in Children /\ s \in Used /\ exec[s].parent = None /\ s \notin Monitors
        /\ exec' = [exec EXCEPT ![s] = None]
        /\ caller' = caller /\ worker' = worker
    BY DEF TerminateOrphan, Orphans, Children, Monitors
  <1>2. /\ exec'[s] = None /\ \A t \in Slots \ {s} : exec'[t] = exec[t]
        /\ exec' \in [Slots -> Executions \cup {None}]
    BY <1>1 DEF Types
  <1>3. Used' = Used \ {s} /\ Used \subseteq Slots
        /\ \A t \in Used' : exec'[t] = exec[t]
    BY <1>2 DEF Used
  <1>4. /\ Placed' /\ OneOfAnId'
        /\ Monitors' = Monitors /\ Children' = Children \ {s}
    <2>1. Monitors \subseteq Used /\ Children \subseteq Used
      BY DEF Monitors, Children
    <2>2. /\ Placed' /\ OneOfAnId'
          /\ Monitors' = Monitors \cap Used' /\ Children' = Children \cap Used'
      BY <1>3, IdsKept
    <2> QED BY <1>1, <1>3, <2>1, <2>2
  <1>5. Types'
    BY <1>1, <1>2 DEF Types
  <1>6. Family'
    <2>1. \A t \in Used : exec[t].pc = "child" => exec[t].child # s /\ exec[t].child \in Used
      BY <1>1, SlotTypes DEF Family, Children, Used
    <2>2. \A t \in Used : exec[t].parent # None => t # s /\ exec[t].parent # s
      BY <1>1 DEF Family
    <2>3. \A t \in Monitors : t \in Used
      BY DEF Monitors
    <2> QED BY <1>3, <1>4, <2>1, <2>2, <2>3 DEF Family, Running
  <1>7. Awaited'
    <2>1. ASSUME NEW p \in Callers, caller[p].slot # None
          PROVE  caller[p].slot # s
      <3>1. /\ caller[p].request[1] \notin {"k8s-monitoring", "analysis"}
            /\ exec[caller[p].slot].id[1] = caller[p].request[1] /\ caller[p].slot \in Used
        BY <2>1, IdTypes DEF Awaited
      <3> QED BY <1>1, <3>1 DEF Children
    <2> QED BY <1>1, <1>3, <2>1 DEF Awaited
  <1>8. EndsOnlyIfCancelled'
    <2>1. \A t \in Monitors : t \in Used' /\ exec'[t] = exec[t] /\ t \in Used
      BY <1>1, <1>3 DEF Monitors
    <2> QED BY <1>4, <2>1 DEF EndsOnlyIfCancelled, Running
  <1> QED BY <1>4, <1>5, <1>6, <1>7, <1>8

----
(* Time. *)

\* What a second does to an execution.
LEMMA Aged ==
    ASSUME NEW e \in Executions
    PROVE  LET a == [e EXCEPT !.id[3] = "past"]
           IN  /\ a \in Executions /\ a # None
               /\ a.id = <<e.id[1], e.id[2], "past">>
               /\ a.status = e.status /\ a.cancel = e.cancel
               /\ a.parent = e.parent /\ a.pc = e.pc /\ a.child = e.child
  <1> DEFINE i == [e.id EXCEPT ![3] = "past"]
  <1>1. e.id \in WorkflowIds
    BY DEF Executions
  <1>2. i = <<e.id[1], e.id[2], "past">> /\ i \in WorkflowIds
    <2> DEFINE D == DOMAIN Pool
               S == {"", "now", "past"}
    <2>1. e.id \in D \X Targets \X S /\ WorkflowIds = D \X Targets \X S /\ "past" \in S
      BY <1>1 DEF WorkflowIds
    <2> HIDE DEF D, S
    <2>2. i = <<e.id[1], e.id[2], "past">>
      BY <2>1, TripleExcept
    <2>3. e.id[1] \in D /\ e.id[2] \in Targets
      BY <2>1
    <2> QED BY <2>1, <2>2, <2>3
  <1>3. [e EXCEPT !.id[3] = "past"] = [e EXCEPT !.id = i]
    OBVIOUS
  <1> HIDE DEF i
  <1> QED BY <1>2, <1>3, SlotTypes DEF Executions

LEMMA TickKeeps ==
    ASSUME IInv, Tick
    PROVE  IInv'
  <1> USE DEF IInv
  <1> DEFINE now == {t \in Used : exec[t].id[3] = "now"}
  <1>1. /\ exec' = [t \in Slots |-> IF t \in now THEN [exec[t] EXCEPT !.id[3] = "past"] ELSE exec[t]]
        /\ caller' = [p \in Callers |-> [caller[p] EXCEPT !.second = "past"]]
        /\ worker' = worker
    BY DEF Tick
  <1>2. now \subseteq Used /\ Used \subseteq Slots
    BY DEF Used
  <1>3. \A t \in Used : exec[t] \in Executions /\ exec[t].id \in WorkflowIds
    BY DEF Used, Types, Executions
  <1>4. ASSUME NEW t \in Used
        PROVE  /\ exec'[t] \in Executions /\ exec'[t] # None
               /\ exec'[t].id = IF t \in now THEN <<exec[t].id[1], exec[t].id[2], "past">>
                                ELSE exec[t].id
               /\ exec'[t].parent = exec[t].parent /\ exec'[t].child = exec[t].child
               /\ exec'[t].pc = exec[t].pc
               /\ exec'[t].status = exec[t].status /\ exec'[t].cancel = exec[t].cancel
    <2>1. CASE t \in now
      <3>1. exec'[t] = [exec[t] EXCEPT !.id[3] = "past"]
        BY <1>1, <1>2, <2>1
      <3> QED BY <1>3, <2>1, <3>1, Aged
    <2>2. CASE t \notin now
      BY <1>1, <1>2, <1>3, <2>2, SlotTypes
    <2> QED BY <2>1, <2>2
  <1>5. \A t \in Slots \ Used : exec'[t] = None
    BY <1>1 DEF Used
  <1>6. Used' = Used
    BY <1>2, <1>4, <1>5, ZenonT(60) DEF Used
  <1>7. Types'
    <2>1. exec' \in [Slots -> Executions \cup {None}]
      BY <1>1, <1>4, <1>5
    <2>2. caller' \in [Callers -> [slot : Slots \cup {None}, request : Asked \cup {None},
                                   second : {"now", "past"}]]
      BY <1>1 DEF Types
    <2> QED BY <1>1, <2>1, <2>2 DEF Types
  <1>8. \A t \in Used : /\ exec'[t].id[1] = exec[t].id[1] /\ exec'[t].id[2] = exec[t].id[2]
                        /\ exec'[t].id[3] = "" <=> exec[t].id[3] = ""
                        /\ exec'[t].id[3] # "past" => exec[t].id[3] # "past" /\ t \notin now
                        /\ exec[t].id[3] \in {"now", "past"} => exec'[t].id[3] = "past"
    <2> SUFFICES ASSUME NEW t \in Used
                 PROVE  /\ exec'[t].id[1] = exec[t].id[1] /\ exec'[t].id[2] = exec[t].id[2]
                        /\ exec'[t].id[3] = "" <=> exec[t].id[3] = ""
                        /\ exec'[t].id[3] # "past" => exec[t].id[3] # "past" /\ t \notin now
                        /\ exec[t].id[3] \in {"now", "past"} => exec'[t].id[3] = "past"
      OBVIOUS
    <2>1. CASE t \in now
      <3>1. exec'[t].id = <<exec[t].id[1], exec[t].id[2], "past">> /\ exec[t].id[3] = "now"
        BY <1>4, <2>1
      <3> QED BY <3>1
    <2>2. CASE t \notin now
      BY <1>4, <2>2
    <2> QED BY <2>1, <2>2
  <1> HIDE DEF now
  <1>9. Monitors' = Monitors /\ Children' = Children
    BY <1>6, <1>8 DEF Monitors, Children
  <1>10. Placed'
    BY <1>6, <1>8, <1>9 DEF Placed
  <1>11. OneOfAnId'
    <2> SUFFICES ASSUME NEW t \in Used, NEW u \in Used, exec'[t].id = exec'[u].id,
                        exec'[t].id[3] # "past"
                 PROVE  t = u
      BY <1>6 DEF OneOfAnId
    <2>1. t \notin now /\ u \notin now /\ exec[t].id[3] # "past"
      BY <1>8
    <2>2. exec[t].id = exec[u].id
      BY <1>4, <2>1
    <2> QED BY <2>1, <2>2 DEF OneOfAnId
  <1>12. \A t \in Monitors \cup Children : t \in Used
    BY DEF Monitors, Children
  <1>13. Family'
    <2>1. ASSUME NEW t \in Used', exec'[t].parent # None
          PROVE  /\ t \in Children'
                 /\ exec'[t].parent \in Monitors' /\ Running(exec[t].parent)'
                 /\ exec'[exec'[t].parent].id[2] = exec'[t].id[2]
                 /\ exec'[exec'[t].parent].pc = "child" /\ exec'[exec'[t].parent].child = t
      <3>1. t \in Used /\ exec'[t].parent = exec[t].parent
        BY <1>4, <1>6
      <3>2. /\ t \in Children /\ exec[t].parent \in Monitors /\ Running(exec[t].parent)
            /\ exec[exec[t].parent].id[2] = exec[t].id[2]
            /\ exec[exec[t].parent].pc = "child" /\ exec[exec[t].parent].child = t
        BY <2>1, <3>1 DEF Family
      <3> QED BY <1>4, <1>6, <1>8, <1>9, <1>12, <3>1, <3>2, ZenonT(60) DEF Running
    <2>2. ASSUME NEW t \in Used', exec'[t].pc = "child"
          PROVE  /\ t \in Monitors'
                 /\ exec'[t].child \in Children' /\ exec'[exec'[t].child].parent = t
      <3>1. t \in Used /\ exec[t].pc = "child" /\ exec'[t].child = exec[t].child
        BY <1>4, <1>6, <2>2
      <3>2. t \in Monitors /\ exec[t].child \in Children /\ exec[exec[t].child].parent = t
        BY <3>1 DEF Family
      <3> QED BY <1>4, <1>9, <1>12, <3>1, <3>2, ZenonT(60)
    <2> QED BY <2>1, <2>2 DEF Family
  <1>14. Awaited'
    <2> SUFFICES ASSUME NEW p \in Callers, caller'[p].slot # None
                 PROVE  /\ caller'[p].slot \in Used /\ caller'[p].request \in Asked
                        /\ exec'[caller'[p].slot].id
                             = <<caller'[p].request[1], caller'[p].request[2], caller'[p].second>>
      BY <1>6 DEF Awaited
    <2>1. /\ caller'[p].slot = caller[p].slot /\ caller'[p].request = caller[p].request
          /\ caller'[p].second = "past" /\ caller[p].second \in {"now", "past"}
      BY <1>1 DEF Types
    <2>2. /\ caller[p].slot \in Used /\ caller[p].request \in Asked
          /\ exec[caller[p].slot].id
                = <<caller[p].request[1], caller[p].request[2], caller[p].second>>
      BY <2>1 DEF Awaited
    <2>3. caller[p].second = "now" <=> caller[p].slot \in now
      BY <2>1, <2>2 DEF now
    <2>4. exec'[caller[p].slot].id = <<caller[p].request[1], caller[p].request[2], "past">>
      <3>1. CASE caller[p].slot \in now
        <4>1. exec[caller[p].slot].id[1] = caller[p].request[1]
              /\ exec[caller[p].slot].id[2] = caller[p].request[2]
          BY <2>2
        <4>2. exec'[caller[p].slot].id
                = <<exec[caller[p].slot].id[1], exec[caller[p].slot].id[2], "past">>
          BY <1>4, <2>2, <3>1
        <4> QED BY <4>1, <4>2
      <3>2. CASE caller[p].slot \notin now
        BY <1>4, <2>1, <2>2, <2>3, <3>2
      <3> QED BY <3>1, <3>2
    <2> QED BY <2>1, <2>2, <2>4
  <1>15. EndsOnlyIfCancelled'
    BY <1>4, <1>6, <1>9, <1>12 DEF EndsOnlyIfCancelled, Running
  <1> QED BY <1>7, <1>10, <1>11, <1>13, <1>14, <1>15

----
LEMMA Unchanged ==
    ASSUME IInv, exec' = exec, caller' = caller, worker' \in {"up", "down"}
    PROVE  IInv'
  <1>1. Used' = Used /\ Monitors' = Monitors /\ Children' = Children
    BY DEF Used, Monitors, Children
  <1>2. Types' /\ Placed' /\ OneOfAnId'
    BY <1>1, ZenonT(60) DEF IInv, Types, Placed, OneOfAnId
  <1>3. Family' /\ Awaited' /\ EndsOnlyIfCancelled'
    BY <1>1 DEF IInv, Family, Awaited, EndsOnlyIfCancelled, Running
  <1> QED BY <1>2, <1>3 DEF IInv

LEMMA Invariance == Spec => []IInv
  <1>1. IInv /\ [Next]_vars => IInv'
    <2> SUFFICES ASSUME IInv, [Next]_vars PROVE IInv'
      OBVIOUS
    <2>1. ASSUME NEW p \in Callers, GetWorkflowResult(p) PROVE IInv'
      BY <2>1, ResultKeeps
    <2>2. ASSUME NEW p \in Callers, NEW r \in Requests[p], Start(p, r) PROVE IInv'
      BY <2>2, StartKeeps
    <2>3. ASSUME NEW config \in Configs, StartContinuousMonitoring(config) PROVE IInv'
      BY <2>3, StartMonitoringKeeps
    <2>4. ASSUME NEW s \in Slots, CancelWorkflow(s) PROVE IInv'
      BY <2>4, CancelKeeps
    <2>5. ASSUME NEW s \in Slots, MonitorStep(s) PROVE IInv'
      BY <2>5, StartChildKeeps, ChildClosedKeeps, CancelledKeeps DEF MonitorStep
    <2>6. ASSUME NEW s \in Slots, TimerFires(s) PROVE IInv'
      BY <2>6, TimerKeeps
    <2>7. ASSUME NEW s \in Slots, AnalysisCloses(s) \/ ChildTimesOut(s) PROVE IInv'
      BY <2>7, CloseKeeps
    <2>8. ASSUME NEW s \in Slots, TerminateOrphan(s) PROVE IInv'
      BY <2>8, TerminateKeeps
    <2>9. CASE Tick
      BY <2>9, TickKeeps
    <2>10. CASE WorkerStarts \/ WorkerStops \/ UNCHANGED vars
      BY <2>10, Unchanged DEF WorkerStarts, WorkerStops, vars, IInv, Types
    <2> QED BY <2>1, <2>2, <2>3, <2>4, <2>5, <2>6, <2>7, <2>8, <2>9, <2>10 DEF Next
  <1> QED BY <1>1, InitInvariant, PTL DEF Spec

\* Whatever fails and whoever stops: a monitoring is closed only after somebody
\* has cancelled it.
THEOREM OnlyCancelledMonitoringsEnd == Spec => []EndsOnlyIfCancelled
  <1>1. IInv => EndsOnlyIfCancelled
    BY DEF IInv
  <1> QED BY <1>1, Invariance, PTL

LEMMA AtMostOne ==
    ASSUME NEW S, \A x, y \in S : x = y
    PROVE  Cardinality(S) <= 1
  <1>1. CASE S = {}
    BY <1>1, FS_EmptySet
  <1>2. CASE S # {}
    <2>1. PICK x : S = {x}
      BY <1>2
    <2> QED BY <2>1, FS_Singleton
  <1> QED BY <1>1, <1>2

\* Of a cluster one monitoring runs at a time, and of its analyses one; callers
\* share an execution only if they asked about the same cluster or event within
\* the same second.  Nothing is said of the kind of analysis, which is not in the ID.
THEOREM OnlyOneAtATime == Spec => []OneAtATime
  <1>1. IInv => OneAtATime
    <2> SUFFICES ASSUME IInv PROVE OneAtATime
      OBVIOUS
    <2> USE DEF IInv
    <2>1. TypeOK
      <3>1. \A s \in Used : exec[s].parent # None => s \in Children /\ Running(exec[s].parent)
        BY DEF Family
      <3>2. \A s \in Used : exec[s].pc = "child" => exec[s].child \in Children /\ exec[exec[s].child].parent = s
        BY DEF Family
      <3>3. ASSUME NEW p \in Callers, caller[p].slot # None PROVE caller[p].slot \in Analyses
        <4>1. /\ caller[p].request[1] \notin {"k8s-monitoring", "analysis"}
              /\ exec[caller[p].slot].id[1] = caller[p].request[1] /\ caller[p].slot \in Used
          BY <3>3, IdTypes DEF Awaited
        <4> QED BY <4>1 DEF Analyses, Monitors
      <3> QED BY <3>1, <3>2, <3>3 DEF TypeOK, Types
    <2>2. MonitoredOnce
      <3> SUFFICES ASSUME NEW c \in Clusters
                   PROVE  Cardinality({m \in Monitors \cap Of(c) : Running(m)}) <= 1
        BY DEF MonitoredOnce
      <3>1. \A m, n \in {m \in Monitors \cap Of(c) : Running(m)} : m = n
        BY OneMonitor DEF Of
      <3> QED BY <3>1, AtMostOne
    <2>3. AnalysesDoNotOverlap
      <3> SUFFICES ASSUME NEW c \in Clusters
                   PROVE  Cardinality({s \in (Children \ Orphans) \cap Of(c) : Running(s)}) <= 1
        BY DEF AnalysesDoNotOverlap
      <3>1. ASSUME NEW s \in (Children \ Orphans) \cap Of(c), NEW t \in (Children \ Orphans) \cap Of(c)
            PROVE  s = t
        <4>1. /\ s \in Used /\ t \in Used /\ exec[s].parent # None /\ exec[t].parent # None
              /\ exec[s].id[2] = c /\ exec[t].id[2] = c
          BY <3>1 DEF Children, Orphans, Of
        <4>2. /\ exec[s].parent \in Monitors /\ exec[t].parent \in Monitors
              /\ exec[exec[s].parent].id[2] = c /\ exec[exec[t].parent].id[2] = c
              /\ exec[exec[s].parent].child = s /\ exec[exec[t].parent].child = t
          BY <4>1 DEF Family
        <4>3. exec[s].parent = exec[t].parent
          BY <4>2, OneMonitor
        <4> QED BY <4>2, <4>3
      <3> QED BY <3>1, AtMostOne
    <2>4. SharedWithinSecond
      <3> SUFFICES ASSUME NEW p \in Callers, NEW q \in Callers,
                          caller[p].slot # None, caller[p].slot = caller[q].slot
                   PROVE  /\ caller[p].request[1] = caller[q].request[1]
                          /\ caller[p].request[2] = caller[q].request[2]
                          /\ caller[p].second = caller[q].second
        BY DEF SharedWithinSecond
      <3>1. <<caller[p].request[1], caller[p].request[2], caller[p].second>>
              = <<caller[q].request[1], caller[q].request[2], caller[q].second>>
        BY DEF Awaited
      <3> QED BY <3>1
    <2> QED BY <2>1, <2>2, <2>3, <2>4 DEF OneAtATime
  <1> QED BY <1>1, Invariance, PTL
====
