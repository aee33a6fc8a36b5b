---- MODULE Server_proofs ----
(***************************************************************************)
(* Theorems about the server's life cycle, for every set of goroutines and *)
(* of hooks and every number of requests.                                  *)
(***************************************************************************)
EXTENDS Server, FiniteSetTheorems, TLAPS

Locations == Starting \cup ShuttingDown \cup {"idle", "wait", "close", "returned"}

\* Shutdowns that have taken the running flag and not run the hooks yet.
BeforeHooks == {p \in Procs : pc[p] \in {"unready", "launch"}}

Types ==
    /\ pc \in [Procs -> Locations]
    /\ running \in BOOLEAN
    /\ starts \in Nat
    /\ hookRuns \in [Hooks -> Nat]
    /\ result \in [Procs -> {"none", "already running", "started", "skipped", "nil",
                             "error", "stopped"}]
    /\ inflight \in Nat

\* Every start is accounted for once: it is running, it is on its way to the
\* hooks, or it has run them.
Accounted ==
    \A h \in Hooks :
        /\ running  => starts = hookRuns[h] + Cardinality(BeforeHooks) + 1
        /\ ~running => starts = hookRuns[h] + Cardinality(BeforeHooks)

\* The http server is down before it is waited for, and does not listen again.
Down ==
    /\ httpDown => ~listening
    /\ \A p \in Procs : pc[p] = "http" \/ result[p] = "nil" => httpDown
    /\ \A p \in Procs : result[p] # "none" => pc[p] \in {"close", "returned"}

\* Unless they overlapped, nobody starts while somebody shuts down, and the
\* readiness flag is down from the launch of the hooks on.
Unready ==
    ~overlapped =>
        /\ \A p, q \in Procs : ~(pc[p] \in Starting /\ pc[q] \in ShuttingDown)
        /\ \A p \in Procs : pc[p] \in {"launch", "hooks", "http"} => ~ready

----
LEMMA ProcsFinite == IsFiniteSet(Procs)
  BY CallersAssumption, FS_AddElement DEF Procs

LEMMA BeforeHooksFinite == IsFiniteSet(BeforeHooks) /\ Cardinality(BeforeHooks) \in Nat
  BY ProcsFinite, FS_Subset, FS_CardinalityType DEF BeforeHooks

LEMMA InitInvariant == Init => Types /\ Accounted /\ Down /\ Unready
  <1> SUFFICES ASSUME Init PROVE Types /\ Accounted /\ Down /\ Unready
    OBVIOUS
  <1>1. BeforeHooks = {}
    BY DEF Init, BeforeHooks
  <1>2. Cardinality(BeforeHooks) = 0
    BY <1>1, FS_EmptySet
  <1>3. Accounted
    BY <1>2 DEF Init, Accounted
  <1> QED BY <1>3 DEF Init, Types, Down, Unready, Locations, Starting, ShuttingDown

----
(* What a step does to the program counters. *)

\* A goroutine that is neither at the beginning nor at the end of the way to
\* the hooks leaves their number alone.
LEMMA SameBeforeHooks ==
    ASSUME NEW p \in Procs, NEW l, pc \in [Procs -> Locations], Goto(p, l),
           pc[p] \in {"unready", "launch"} <=> l \in {"unready", "launch"}
    PROVE  BeforeHooks' = BeforeHooks
  BY DEF Goto, BeforeHooks

LEMMA OneMoreBeforeHooks ==
    ASSUME NEW p \in Procs, pc \in [Procs -> Locations], Goto(p, "unready"),
           pc[p] \notin {"unready", "launch"}
    PROVE  Cardinality(BeforeHooks') = Cardinality(BeforeHooks) + 1
  <1>1. BeforeHooks' = BeforeHooks \cup {p} /\ p \notin BeforeHooks
    BY DEF Goto, BeforeHooks
  <1> QED BY <1>1, BeforeHooksFinite, FS_AddElement

LEMMA OneLessBeforeHooks ==
    ASSUME NEW p \in Procs, pc \in [Procs -> Locations], Goto(p, "hooks"),
           pc[p] = "launch"
    PROVE  Cardinality(BeforeHooks') = Cardinality(BeforeHooks) - 1
  <1>1. BeforeHooks' = BeforeHooks \ {p} /\ p \in BeforeHooks
    BY DEF Goto, BeforeHooks
  <1> QED BY <1>1, BeforeHooksFinite, FS_RemoveElement

----
IInv == Types /\ Accounted /\ Down /\ Unready

\* Where a goroutine stands in an action that moves it.
LEMMA StartInvariant ==
    ASSUME IInv, NEW p \in Procs, Start(p)
    PROVE  IInv'
  <1> USE DEF IInv
  <1>1. Types'
    <2>1. pc' \in [Procs -> Locations]
      BY DEF Start, Goto, Return, Types, Locations, Starting
    <2>2. running' \in BOOLEAN /\ starts' \in Nat
      <3>1. starts \in Nat
        BY DEF Types
      <3>2. starts' = starts \/ starts' = starts + 1
        BY DEF Start, lifecycle
      <3>3. starts' \in Nat
        BY <3>1, <3>2
      <3>4. running' \in BOOLEAN
        BY DEF Start, lifecycle, Types
      <3> QED BY <3>3, <3>4
    <2>3. UNCHANGED <<hookRuns, inflight>>
      BY DEF Start, http, shutdown
    <2> QED BY <2>1, <2>2, <2>3 DEF Start, Return, Types
  <1>2. Down' /\ Unready'
    BY ZenonT(60) DEF Start, Goto, Return, lifecycle, http, Types, Down, Unready, Starting,
           ShuttingDown
  <1>3. BeforeHooks' = BeforeHooks
    BY SameBeforeHooks DEF Start, Return, Types
  <1>4. \A h \in Hooks : hookRuns'[h] = hookRuns[h] /\ hookRuns[h] \in Nat
    BY DEF Start, shutdown, Types
  <1>5. Accounted'
    BY <1>3, <1>4, BeforeHooksFinite DEF Start, lifecycle, Accounted, Types
  <1> QED BY <1>1, <1>2, <1>5

LEMMA BeginShutdownInvariant ==
    ASSUME IInv, NEW p \in Procs, pc[p] \in {"idle", "wait"}, BeginShutdown(p),
           UNCHANGED <<ready, checking, http, shutdown, stopped, done>>
    PROVE  IInv'
  <1> USE DEF IInv
  <1>1. Types' /\ Down' /\ Unready'
    <2>1. Types'
      BY DEF BeginShutdown, Goto, lifecycle, http, shutdown, Types, Locations, ShuttingDown
    <2>2. Down'
      BY DEF BeginShutdown, Goto, http, Types, Down
    <2>3. Unready'
      BY ZenonT(60) DEF BeginShutdown, Goto, lifecycle, Types, Unready, Starting, ShuttingDown
    <2> QED BY <2>1, <2>2, <2>3
  <1>2. CASE running
    <2>1. Cardinality(BeforeHooks') = Cardinality(BeforeHooks) + 1
      BY <1>2, OneMoreBeforeHooks DEF BeginShutdown, Types
    <2>2. \A h \in Hooks : hookRuns'[h] = hookRuns[h] /\ hookRuns[h] \in Nat
      BY DEF shutdown, Types
    <2>3. ~running' /\ UNCHANGED starts /\ Cardinality(BeforeHooks) \in Nat
      BY <1>2, BeforeHooksFinite DEF BeginShutdown
    <2>4. \A h \in Hooks : starts = hookRuns[h] + Cardinality(BeforeHooks) + 1
      BY <1>2 DEF Accounted
    <2>5. Accounted'
      BY <2>1, <2>2, <2>3, <2>4 DEF Accounted
    <2> QED BY <1>1, <2>5
  <1>3. CASE ~running
    <2>1. BeforeHooks' = BeforeHooks
      BY <1>3, SameBeforeHooks DEF BeginShutdown, Types
    <2>2. Accounted'
      BY <1>3, <2>1, BeforeHooksFinite DEF BeginShutdown, lifecycle, shutdown, Accounted, Types
    <2> QED BY <1>1, <2>2
  <1> QED BY <1>2, <1>3

LEMMA LaunchHooksInvariant ==
    ASSUME IInv, NEW p \in Procs, LaunchHooks(p)
    PROVE  IInv'
  <1> USE DEF IInv
  <1>1. Types' /\ Down' /\ Unready'
    <2>1. Types'
      <3>1. pc' \in [Procs -> Locations]
        BY DEF LaunchHooks, Goto, Types, Locations, ShuttingDown
      <3>2. hookRuns' \in [Hooks -> Nat]
        <4>1. hookRuns \in [Hooks -> Nat]
          BY DEF Types
        <4>2. hookRuns' = [h \in Hooks |-> hookRuns[h] + 1]
          BY DEF LaunchHooks
        <4> QED BY <4>1, <4>2
      <3> QED BY <3>1, <3>2 DEF LaunchHooks, lifecycle, http, Types
    <2>2. Down'
      BY DEF LaunchHooks, Goto, http, Types, Down
    <2>3. Unready'
      BY DEF LaunchHooks, Goto, lifecycle, Types, Unready, Starting, ShuttingDown
    <2> QED BY <2>1, <2>2, <2>3
  <1>2. Cardinality(BeforeHooks') = Cardinality(BeforeHooks) - 1
    BY OneLessBeforeHooks DEF LaunchHooks, Types
  <1>3. \A h \in Hooks : hookRuns'[h] = hookRuns[h] + 1 /\ hookRuns[h] \in Nat
    BY DEF LaunchHooks, Types
  <1>4. Accounted'
    <2> SUFFICES ASSUME NEW h \in Hooks
                 PROVE  /\ running'  => starts' = hookRuns'[h] + Cardinality(BeforeHooks') + 1
                        /\ ~running' => starts' = hookRuns'[h] + Cardinality(BeforeHooks')
      BY DEF Accounted
    <2>1. UNCHANGED <<running, starts>> /\ starts \in Nat
      BY DEF LaunchHooks, lifecycle, Types
    <2>2. /\ running  => starts = hookRuns[h] + Cardinality(BeforeHooks) + 1
          /\ ~running => starts = hookRuns[h] + Cardinality(BeforeHooks)
      BY DEF Accounted
    <2>3. /\ hookRuns'[h] = hookRuns[h] + 1 /\ hookRuns[h] \in Nat
          /\ Cardinality(BeforeHooks) \in Nat
      BY <1>3, BeforeHooksFinite
    <2> QED BY <1>2, <2>1, <2>2, <2>3
  <1> QED BY <1>1, <1>4

\* The steps that do not touch what Accounted speaks of.
LEMMA AccountedKept ==
    ASSUME Accounted, UNCHANGED <<running, starts, hookRuns>>, BeforeHooks' = BeforeHooks
    PROVE  Accounted'
  BY DEF Accounted

LEMMA StepInvariant ==
    ASSUME IInv, NEW p \in Procs, Step(p)
    PROVE  IInv'
  <1> USE DEF IInv
  <1>1. CASE SetReady(p)
    <2>1. Types' /\ Down' /\ Unready'
      BY <1>1, ZenonT(60) DEF SetReady, Goto, lifecycle, http, shutdown, Types, Down, Unready,
                  Locations, Starting, ShuttingDown
    <2>2. BeforeHooks' = BeforeHooks
      BY <1>1, SameBeforeHooks DEF SetReady, Types
    <2> QED BY <1>1, <2>1, <2>2, AccountedKept DEF SetReady, lifecycle, shutdown
  <1>2. CASE Listen(p)
    <2>1. Types' /\ Down' /\ Unready'
      BY <1>2, ZenonT(60) DEF Listen, Goto, Return, lifecycle, http, shutdown, Types, Down, Unready,
                  Locations, Starting, ShuttingDown
    <2>2. BeforeHooks' = BeforeHooks
      BY <1>2, SameBeforeHooks DEF Listen, Return, Types
    <2> QED BY <1>2, <2>1, <2>2, AccountedKept DEF Listen, lifecycle, shutdown
  <1>3. CASE SetUnready(p)
    <2>1. Types' /\ Down' /\ Unready'
      BY <1>3 DEF SetUnready, Goto, lifecycle, http, shutdown, Types, Down, Unready,
                  Locations, Starting, ShuttingDown
    <2>2. BeforeHooks' = BeforeHooks
      BY <1>3, SameBeforeHooks DEF SetUnready, Types
    <2> QED BY <1>3, <2>1, <2>2, AccountedKept DEF SetUnready, lifecycle, shutdown
  <1>4. CASE LaunchHooks(p)
    BY <1>4, LaunchHooksInvariant
  <1>5. CASE Timeout(p)
    <2>1. Types' /\ Down' /\ Unready'
      BY <1>5 DEF Timeout, lifecycle, http, Types, Down, Unready
    <2>2. BeforeHooks' = BeforeHooks
      BY <1>5 DEF Timeout, BeforeHooks
    <2> QED BY <1>5, <2>1, <2>2, AccountedKept DEF Timeout, lifecycle
  <1>6. CASE HooksOver(p)
    <2>1. Types' /\ Down' /\ Unready'
      BY <1>6 DEF HooksOver, Goto, lifecycle, shutdown, Types, Down, Unready,
                  Locations, Starting, ShuttingDown
    <2>2. BeforeHooks' = BeforeHooks
      BY <1>6, SameBeforeHooks DEF HooksOver, Types
    <2> QED BY <1>6, <2>1, <2>2, AccountedKept DEF HooksOver, lifecycle, shutdown
  <1>7. CASE HttpOver(p)
    <2>1. Types' /\ Down' /\ Unready'
      BY <1>7, ZenonT(60) DEF HttpOver, HttpResult, Goto, lifecycle, http, shutdown, Types, Down,
                  Unready, Locations, Starting, ShuttingDown
    <2>2. BeforeHooks' = BeforeHooks
      BY <1>7, SameBeforeHooks DEF HttpOver, Types
    <2> QED BY <1>7, <2>1, <2>2, AccountedKept DEF HttpOver, lifecycle, shutdown
  <1> QED BY <1>1, <1>2, <1>3, <1>4, <1>5, <1>6, <1>7 DEF Step

\* A listener that starts late does not listen.
LEMMA ListenInvariant ==
    ASSUME IInv, ListenAndServe
    PROVE  IInv'
  <1>1. BeforeHooks' = BeforeHooks
    BY DEF ListenAndServe, BeforeHooks
  <1>2. Types' /\ Unready'
    BY DEF ListenAndServe, lifecycle, shutdown, IInv, Types, Unready
  <1>3. Down'
    BY DEF ListenAndServe, IInv, Down
  <1> QED BY <1>1, <1>2, <1>3, AccountedKept DEF ListenAndServe, lifecycle, shutdown, IInv

\* Stop, CloseDone, the hooks, the health checks and the requests.
LEMMA OtherInvariant ==
    ASSUME IInv,
           \/ \E p \in Procs : Stop(p) \/ \E h \in Hooks : HookReturns(p, h)
           \/ CloseDone \/ CheckStarts \/ CheckEnds \/ RequestArrives \/ RequestEnds
           \/ UNCHANGED vars
    PROVE  IInv'
  <1> USE DEF IInv
  <1>1. ASSUME NEW p \in Procs, Stop(p) PROVE IInv'
    <2>1. Types' /\ Down' /\ Unready'
      BY <1>1 DEF Stop, Goto, Return, lifecycle, http, shutdown, Types, Down, Unready,
                  Locations, Starting, ShuttingDown
    <2>2. BeforeHooks' = BeforeHooks
      BY <1>1, SameBeforeHooks DEF Stop, Return, Types
    <2> QED BY <1>1, <2>1, <2>2, AccountedKept DEF Stop, lifecycle, shutdown
  <1>2. CASE CloseDone
    <2>1. Runner \in Procs
      BY DEF Procs
    <2>2. Types' /\ Down' /\ Unready'
      BY <1>2, <2>1 DEF CloseDone, Goto, lifecycle, http, shutdown, Types, Down, Unready,
                  Locations, Starting, ShuttingDown
    <2>3. BeforeHooks' = BeforeHooks
      BY <1>2, <2>1, SameBeforeHooks DEF CloseDone, Types
    <2> QED BY <1>2, <2>2, <2>3, AccountedKept DEF CloseDone, lifecycle, shutdown
  <1>3. ASSUME \/ \E p \in Procs : \E h \in Hooks : HookReturns(p, h)
               \/ CheckStarts \/ CheckEnds \/ RequestArrives \/ RequestEnds
               \/ UNCHANGED vars
        PROVE  IInv'
    <2>1. UNCHANGED <<pc, running, starts, overlapped, ready, hookRuns, result, listening,
                      httpDown>>
      BY <1>3 DEF HookReturns, CheckStarts, CheckEnds, RequestArrives, RequestEnds, vars,
                  lifecycle, http, shutdown
    <2>2. inflight \in Nat
      BY DEF Types
    <2>3. inflight' \in Nat
      BY <1>3, <2>2 DEF HookReturns, CheckStarts, CheckEnds, RequestArrives, RequestEnds,
                        vars, http
    <2>4. BeforeHooks' = BeforeHooks
      BY <2>1 DEF BeforeHooks
    <2> QED BY <2>1, <2>3, <2>4, AccountedKept DEF Types, Down, Unready
  <1> QED BY <1>1, <1>2, <1>3

THEOREM Invariance == Spec => []IInv
  <1>1. Init => IInv
    BY InitInvariant DEF IInv
  <1>2. IInv /\ [Next]_vars => IInv'
    <2> SUFFICES ASSUME IInv, [Next]_vars PROVE IInv'
      OBVIOUS
    <2>1. Runner \in Procs /\ Callers \subseteq Procs
      BY DEF Procs
    <2>2. ASSUME NEW p \in Procs, Shutdown(p) PROVE IInv'
      BY <2>2, BeginShutdownInvariant DEF Shutdown
    <2>3. CASE Wakes
      BY <2>1, <2>3, BeginShutdownInvariant DEF Wakes
    <2> QED BY <2>1, <2>2, <2>3, StartInvariant, StepInvariant, ListenInvariant,
              OtherInvariant DEF Next
  <1> QED BY <1>1, <1>2, PTL DEF Spec

\* Shutdown, whoever calls it and however often, runs the hooks at most once
\* for each time the server was started.
THEOREM HooksRunOnce == Spec => []HooksRunOncePerStart
  <1>1. IInv => HooksRunOncePerStart
    <2> SUFFICES ASSUME IInv, NEW h \in Hooks PROVE hookRuns[h] <= starts
      BY DEF HooksRunOncePerStart
    <2>1. hookRuns[h] \in Nat /\ starts \in Nat
      BY DEF IInv, Types
    <2> QED BY <2>1, BeforeHooksFinite DEF IInv, Accounted
  <1> QED BY <1>1, Invariance, PTL

\* While hooks run and requests finish, the readiness flag is down, unless a
\* Start and a Shutdown were under way together.
THEOREM DrainsUnready == Spec => []UnreadyWhileDraining
  <1>1. IInv => UnreadyWhileDraining
    BY DEF IInv, Unready, UnreadyWhileDraining
  <1> QED BY <1>1, Invariance, PTL

\* No request is in flight once Shutdown has done its work and returned nil.
\* That the last one has ended when nil is returned is what httpServer.Shutdown
\* promises; that none comes later is the server's doing.
Drained == \A p \in Procs : result[p] = "nil" => inflight = 0

THEOREM NilDrains == Spec => []NilMeansDrained
  <1>1. Init => Drained
    BY DEF Init, Drained
  <1>2. IInv /\ Drained /\ [Next]_vars => Drained'
    <2> SUFFICES ASSUME IInv, Drained, [Next]_vars PROVE Drained'
      OBVIOUS
    <2>1. CASE RequestArrives
      BY <2>1 DEF RequestArrives, IInv, Down, Drained
    <2>2. CASE RequestEnds
      <3>1. inflight \in Nat /\ inflight > 0 /\ UNCHANGED result
        BY <2>2 DEF RequestEnds, IInv, Types
      <3> QED BY <3>1 DEF Drained
    <2>3. CASE UNCHANGED inflight
      <3>1. ASSUME NEW p \in Procs, result'[p] = "nil", result[p] # "nil"
            PROVE  inflight = 0
        <4>1. PICK q \in Procs : HttpOver(q)
          BY <3>1, CallersAssumption DEF Next, vars, Start, Shutdown, BeginShutdown, Wakes,
             Stop, Step, ListenAndServe, SetReady, Listen, SetUnready, LaunchHooks, Timeout, HooksOver,
             HookReturns, CloseDone, CheckStarts, CheckEnds, RequestArrives, RequestEnds,
             Return, IInv, Types, Procs
        <4>2. q = p
          BY <3>1, <4>1 DEF HttpOver, IInv, Types
        <4> QED BY <3>1, <4>1, <4>2 DEF HttpOver, HttpResult, IInv, Types
      <3> QED BY <2>3, <3>1 DEF Drained
    <2>4. RequestArrives \/ RequestEnds \/ UNCHANGED inflight
      BY DEF Next, vars, Start, Shutdown, Wakes, Stop, Step, ListenAndServe, SetReady, Listen, SetUnready,
             LaunchHooks, Timeout, HooksOver, HttpOver, HookReturns, CloseDone, CheckStarts,
             CheckEnds, http
    <2> QED BY <2>1, <2>2, <2>3, <2>4
  <1>3. IInv /\ Drained => NilMeansDrained
    BY DEF IInv, Down, Drained, NilMeansDrained
  <1> QED BY <1>1, <1>2, <1>3, Invariance, PTL DEF Spec

\* What is not in Types.
OtherTypes ==
    /\ ready \in BOOLEAN /\ checking \in BOOLEAN
    /\ spawned \in Nat /\ listening \in BOOLEAN /\ httpDown \in BOOLEAN /\ inflight \in 0..MaxRequests
    /\ outstanding \in [Procs -> SUBSET Hooks] /\ expired \in [Procs -> BOOLEAN]
    /\ stopped \in BOOLEAN /\ done \in BOOLEAN /\ overlapped \in BOOLEAN

\* The variables keep their types.
THEOREM TypeCorrect == Spec => []TypeOK
  <1>1. Init => OtherTypes
    <2> SUFFICES ASSUME Init PROVE OtherTypes
      OBVIOUS
    <2>1. 0 \in 0..MaxRequests
      BY MaxRequestsAssumption
    <2>2. outstanding \in [Procs -> SUBSET Hooks] /\ expired \in [Procs -> BOOLEAN]
      BY DEF Init
    <2> QED BY <2>1, <2>2 DEF Init, OtherTypes
  <1>2. IInv /\ OtherTypes /\ [Next]_vars => OtherTypes'
    <2> SUFFICES ASSUME IInv, OtherTypes, [Next]_vars PROVE OtherTypes'
      OBVIOUS
    <2>1. ASSUME NEW p \in Procs, Start(p) \/ Shutdown(p) \/ Stop(p) PROVE OtherTypes'
      BY <2>1 DEF Start, Shutdown, BeginShutdown, Stop, lifecycle, http, shutdown, OtherTypes
    <2>2. CASE Wakes
      BY <2>2 DEF Wakes, BeginShutdown, lifecycle, http, shutdown, OtherTypes
    <2>3. spawned \in Nat
      BY DEF OtherTypes
    <2>4. ASSUME NEW p \in Procs, Listen(p) PROVE OtherTypes'
      <3>1. spawned' \in Nat
        BY <2>3, <2>4 DEF Listen
      <3> QED BY <2>4, <3>1 DEF Listen, lifecycle, shutdown, OtherTypes
    <2>5. CASE ListenAndServe
      <3>1. spawned' \in Nat
        BY <2>3, <2>5 DEF ListenAndServe
      <3> QED BY <2>5, <3>1 DEF ListenAndServe, lifecycle, shutdown, OtherTypes
    <2>6. ASSUME NEW p \in Procs, SetReady(p) \/ SetUnready(p) \/ HooksOver(p)
          PROVE  OtherTypes'
      BY <2>6 DEF SetReady, SetUnready, HooksOver, lifecycle, http, shutdown, OtherTypes
    <2>7. ASSUME NEW p \in Procs, LaunchHooks(p) \/ Timeout(p) \/ HttpOver(p)
          PROVE  OtherTypes'
      BY <2>7, ZenonT(60) DEF LaunchHooks, Timeout, HttpOver, lifecycle, http, shutdown, OtherTypes
    <2>8. ASSUME NEW p \in Procs, NEW h \in Hooks, HookReturns(p, h) PROVE OtherTypes'
      BY <2>8 DEF HookReturns, lifecycle, http, OtherTypes
    <2>9. CASE CloseDone \/ CheckStarts \/ CheckEnds \/ UNCHANGED vars
      BY <2>9 DEF CloseDone, CheckStarts, CheckEnds, vars, lifecycle, http, shutdown, OtherTypes
    <2>10. CASE RequestArrives \/ RequestEnds
      <3>1. inflight' \in 0..MaxRequests
        BY <2>10, MaxRequestsAssumption DEF RequestArrives, RequestEnds, OtherTypes
      <3> QED BY <2>10, <3>1 DEF RequestArrives, RequestEnds, lifecycle, shutdown, OtherTypes
    <2> QED BY <2>1, <2>2, <2>6, <2>7, <2>8, <2>9, <2>10,
              <2>4, <2>5 DEF Next, Step, Procs
  <1>3. IInv /\ OtherTypes => TypeOK
    BY DEF IInv, Types, OtherTypes, TypeOK, Locations
  <1> QED BY <1>1, <1>2, <1>3, Invariance, PTL DEF Spec
====
