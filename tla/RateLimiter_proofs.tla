---- MODULE RateLimiter_proofs ----
(***************************************************************************)
(* Theorems about the rate limiter, for every set of clients and of keys,  *)
(* every burst, rate and resolution of time.                               *)
(***************************************************************************)
EXTENDS RateLimiter, TLAPS

----
(* The token bucket as a value. *)

\* A bucket is within its capacity, its clock is not ahead, and what it has
\* given out and still holds does not exceed its burst and what it has earned.
BucketSound(b, t) ==
    /\ b \in BucketType
    /\ b.born <= b.last /\ b.last <= t
    /\ b.tokens + Token * b.taken <= Capacity + Rate * (b.last - b.born)

LEMMA Product ==
    ASSUME NEW r \in Nat, NEW x \in Nat, NEW y \in Nat
    PROVE  r * x \in Nat /\ r * (x + y) = r * x + r * y
  OBVIOUS

LEMMA CapacityType == Capacity \in Nat /\ Token <= Capacity
  <1>1. Burst \in Nat /\ Token \in Nat /\ Burst - 1 \in Nat
    BY ConfigAssumption
  <1>2. Token * (1 + (Burst - 1)) = Token * 1 + Token * (Burst - 1)
        /\ Token * (Burst - 1) \in Nat
    BY <1>1, Product
  <1>3. Capacity = Token + Token * (Burst - 1)
    BY <1>1, <1>2 DEF Capacity
  <1> QED BY <1>1, <1>2, <1>3

LEMMA NewSound ==
    ASSUME NEW t \in Nat
    PROVE  BucketSound(NewTokenBucket(t), t)
  BY CapacityType, ConfigAssumption DEF BucketSound, NewTokenBucket, BucketType

LEMMA RefillSound ==
    ASSUME NEW b, now \in Nat, BucketSound(b, now)
    PROVE  /\ BucketSound(Refill(b), now)
           /\ Refill(b).taken = b.taken /\ Refill(b).last = now
           /\ Refill(b).tokens = Capped(b.tokens + (now - b.last) * Rate)
  <1> DEFINE earned == (now - b.last) * Rate
             full   == b.tokens + earned
  <1>1. b \in BucketType /\ now - b.last \in Nat /\ b.last - b.born \in Nat
    BY DEF BucketSound, BucketType
  <1>2. earned \in Nat /\ earned = Rate * (now - b.last)
    BY <1>1, Product, ConfigAssumption
  <1>3. Refill(b) = [tokens |-> Capped(full), last |-> now, born |-> b.born,
                     taken |-> b.taken]
    BY DEF Refill
  <1>4. Capped(full) \in 0..Capacity /\ Capped(full) <= full
    BY <1>1, <1>2, CapacityType DEF Capped, BucketType
  <1>5. Refill(b) \in BucketType
    BY <1>1, <1>3, <1>4 DEF BucketType
  <1>6. Rate * (now - b.born) = Rate * (b.last - b.born) + earned
    <2>1. now - b.born = (b.last - b.born) + (now - b.last)
      BY <1>1 DEF BucketType
    <2> QED BY <2>1, <1>1, <1>2, Product, ConfigAssumption
  <1>7. Capped(full) + Token * b.taken <= Capacity + Rate * (now - b.born)
    <2>1. Token * b.taken \in Nat /\ Rate * (b.last - b.born) \in Nat
      BY <1>1, Product, ConfigAssumption DEF BucketType
    <2>2. b.tokens + Token * b.taken <= Capacity + Rate * (b.last - b.born)
      BY DEF BucketSound
    <2> QED BY <2>1, <2>2, <1>1, <1>2, <1>4, <1>6, CapacityType DEF BucketType
  <1>8. b.born <= now
    BY <1>1 DEF BucketType
  <1> QED BY <1>3, <1>5, <1>7, <1>8 DEF BucketSound

LEMMA AllowSound ==
    ASSUME NEW b, now \in Nat, BucketSound(b, now)
    PROVE  BucketSound(AfterAllow(b), now)
  <1> DEFINE r == Refill(b)
  <1>1. BucketSound(r, now)
    BY RefillSound
  <1>2. CASE ~CanTake(b)
    BY <1>1, <1>2 DEF AfterAllow
  <1>3. CASE CanTake(b)
    <2>1. r \in BucketType /\ r.tokens >= Token
      BY <1>1, <1>3 DEF BucketSound, CanTake
    <2>2. AfterAllow(b) = [tokens |-> r.tokens - Token, last |-> r.last,
                           born |-> r.born, taken |-> r.taken + 1]
      BY <1>3, <2>1 DEF AfterAllow, BucketType
    <2>3. AfterAllow(b) \in BucketType
      BY <2>1, <2>2, CapacityType, ConfigAssumption DEF BucketType
    <2>4. Token * (r.taken + 1) = Token * r.taken + Token /\ Token * r.taken \in Nat
      BY <2>1, Product, ConfigAssumption DEF BucketType
    <2>5. Rate * (r.last - r.born) \in Nat
      BY <1>1, <2>1, Product, ConfigAssumption DEF BucketSound, BucketType
    <2>6. r.tokens + Token * r.taken <= Capacity + Rate * (r.last - r.born)
      BY <1>1 DEF BucketSound
    <2>7. (r.tokens - Token) + Token * (r.taken + 1) <= Capacity + Rate * (r.last - r.born)
      BY <2>1, <2>4, <2>5, <2>6, CapacityType, ConfigAssumption DEF BucketType
    <2> HIDE DEF r
    <2> QED BY <1>1, <2>2, <2>3, <2>7 DEF BucketSound
  <1> QED BY <1>2, <1>3
----
(* The limiter. *)

\* getBucket is only called with a key.
KeyedLookup ==
    \A c \in Clients : client[c].pc \in {"lookup", "create"} => client[c].key \in Keys

BucketsSound == \A b \in BucketIds : BucketSound(bucket[b], now)

IInv == TypeOK /\ KeyedLookup /\ BucketsSound

LEMMA WaitTimeType == WaitTime \in Nat
  BY ConfigAssumption DEF WaitTime

LEMMA IdleType == Idle \in ClientType
  BY ConfigAssumption DEF Idle, ClientType, BucketIds

\* What one step may do to the buckets.
BucketMove ==
    /\ bucket' = [b \in BucketIds |-> bucket'[b]]
    /\ \A b \in BucketIds : bucket'[b] \in {bucket[b], Refill(bucket[b]),
                                         AfterAllow(bucket[b]), NewTokenBucket(now)}
    /\ now' = now

LEMMA Moves ==
    ASSUME TypeOK, KeyedLookup, Next
    PROVE  BucketMove \/ (now' = now + 1 /\ bucket' = bucket)
  <1> USE DEF TypeOK
  <1>1. ASSUME UNCHANGED <<now, bucket>> PROVE BucketMove
    BY <1>1 DEF BucketMove
  <1>2. ASSUME NEW b \in BucketIds, now' = now,
               \/ bucket' = [bucket EXCEPT ![b] = Refill(@)]
               \/ bucket' = [bucket EXCEPT ![b] = AfterAllow(@)]
               \/ bucket' = [bucket EXCEPT ![b] = NewTokenBucket(now)]
        PROVE  BucketMove
    BY <1>2 DEF BucketMove
  <1>3. ASSUME NEW c \in Clients PROVE client[c].bucket \in BucketIds
    BY <1>3 DEF ClientType
  <1>4. ASSUME NEW c \in Clients, Create(c) PROVE BucketMove
    <2>1. CASE bucket' = bucket
      BY <1>1, <1>4, <2>1 DEF Create
    <2>2. CASE bucket' # bucket
      <3> DEFINE b == CHOOSE b \in Unused : TRUE
      <3>1. Unused # {} /\ Insert(c, b) /\ now' = now
        BY <1>4, <2>2 DEF Create
      <3>2. b \in BucketIds
        BY <3>1 DEF Unused
      <3> QED BY <1>2, <3>1, <3>2 DEF Insert
    <2> QED BY <2>1, <2>2
  <1>5. ASSUME NEW c \in Clients, ClientStep(c) PROVE BucketMove
    <2>1. CASE Lookup(c) \/ Refused(c)
      BY <1>1, <2>1 DEF Lookup, Refused
    <2>2. CASE Create(c)
      BY <1>4, <2>2
    <2>3. CASE Take(c) \/ Wake(c)
      BY <1>2, <1>3, <2>3 DEF Take, Wake, AllowHeld
    <2>4. CASE Measure(c)
      BY <1>2, <1>3, <2>4 DEF Measure
    <2> QED BY <1>5, <2>1, <2>2, <2>3, <2>4 DEF ClientStep
  <1>6. ASSUME NEW c \in Clients, NEW k \in Callable, NEW w \in BOOLEAN, Call(c, k, w)
        PROVE  BucketMove
    BY <1>1, <1>6 DEF Call
  <1>7. ASSUME NEW c \in Clients, CtxDone(c) PROVE BucketMove
    BY <1>1, <1>7 DEF CtxDone
  <1>8. ASSUME StartCleanup \/ CleanupStep \/ Close PROVE BucketMove
    <2>1. ASSUME NEW k \in Keys, Visit(k) PROVE BucketMove
      BY <1>2, <2>1 DEF Visit
    <2>2. ASSUME NEW k \in Keys, Delete(k) PROVE BucketMove
      BY <1>1, <2>2 DEF Delete
    <2>3. CASE StartCleanup \/ EndCleanup \/ Close
      BY <1>1, <2>3 DEF StartCleanup, EndCleanup, Close
    <2> QED BY <1>8, <2>1, <2>2, <2>3 DEF CleanupStep
  <1>9. ASSUME Tick PROVE now' = now + 1 /\ bucket' = bucket
    BY <1>9 DEF Tick
  <1>10. ASSUME Over PROVE BucketMove
    BY <1>1, <1>10 DEF Over, vars
  <1> QED BY <1>5, <1>6, <1>7, <1>8, <1>9, <1>10 DEF Next

LEMMA BucketsStaySound ==
    ASSUME IInv, Next
    PROVE  (\A b \in BucketIds : BucketSound(bucket'[b], now'))
           /\ bucket' \in [BucketIds -> BucketType] /\ now' \in Nat
  <1>1. now \in Nat /\ \A b \in BucketIds : BucketSound(bucket[b], now)
    BY DEF IInv, TypeOK, BucketsSound
  <1>2. CASE BucketMove
    <2>1. ASSUME NEW b \in BucketIds PROVE BucketSound(bucket'[b], now)
      <3>1. /\ BucketSound(bucket[b], now) /\ BucketSound(Refill(bucket[b]), now)
            /\ BucketSound(AfterAllow(bucket[b]), now)
            /\ BucketSound(NewTokenBucket(now), now)
        BY <1>1, RefillSound, AllowSound, NewSound
      <3> QED BY <1>2, <3>1 DEF BucketMove
    <2>2. bucket' \in [BucketIds -> BucketType]
      BY <1>2, <2>1 DEF BucketMove, BucketSound
    <2> QED BY <1>1, <1>2, <2>1, <2>2 DEF BucketMove
  <1>3. CASE now' = now + 1 /\ bucket' = bucket
    <2>1. ASSUME NEW b \in BucketIds PROVE BucketSound(bucket[b], now + 1)
      BY <1>1 DEF BucketSound, BucketType
    <2> QED BY <1>1, <1>3, <2>1 DEF IInv, TypeOK
  <1> QED BY <1>2, <1>3, Moves DEF IInv

\* What one step may do to a client: nothing, or one of its own moves.
ClientMove(c) ==
    \/ client'[c] = client[c]
    \/ client'[c] = Idle
    \/ \E k \in Callable, w \in BOOLEAN :
          client'[c] = [Idle EXCEPT !.pc = IF k = NoKey THEN "take" ELSE "lookup",
                                    !.key = k, !.wait = w]
    \/ client[c].pc = "lookup" /\ client'[c] = [client[c] EXCEPT !.pc = "create"]
    \/ \E b \in BucketIds : client'[c] = [client[c] EXCEPT !.pc = "take", !.bucket = b]
    \/ client'[c] = [client[c] EXCEPT !.pc = "waiting", !.wake = now + WaitTime,
                                     !.seen = Held(c).taken]
    \/ client'[c] = [client[c] EXCEPT !.pc = "measure"]
    \/ client'[c] = [client[c] EXCEPT !.pc = "refused"]

LEMMA ClientMoves ==
    ASSUME TypeOK, KeyedLookup, Next
    PROVE  client' \in [Clients -> {client'[c] : c \in Clients}]
           /\ \A c \in Clients : ClientMove(c)
  <1> DEFINE Goal == /\ client' \in [Clients -> {client'[c] : c \in Clients}]
                     /\ \A c \in Clients : ClientMove(c)
  <1> USE DEF TypeOK
  <1>1. ASSUME UNCHANGED client PROVE Goal
    BY <1>1, SMTT(30) DEF ClientMove
  <1>2. ASSUME NEW c \in Clients, NEW r, client' = [client EXCEPT ![c] = r],
               r = client'[c] => ClientMove(c)
        PROVE  Goal
    BY <1>2, ZenonT(60) DEF ClientMove
  <1>3. ASSUME NEW c \in Clients, Return(c) PROVE Goal
    BY <1>2, <1>3 DEF Return, ClientMove
  <1>4. ASSUME NEW c \in Clients, NEW b \in BucketIds, Hold(c, b) PROVE Goal
    BY <1>2, <1>4 DEF Hold, ClientMove
  <1>5. ASSUME NEW c \in Clients, NEW k \in Callable, NEW w \in BOOLEAN, Call(c, k, w)
        PROVE  Goal
    BY <1>2, <1>3, <1>5, ZenonT(60) DEF Call, ClientMove
  <1>6. ASSUME NEW c \in Clients, Lookup(c) PROVE Goal
    <2>1. client[c].key \in Keys /\ buckets[client[c].key] \in BucketIds
      BY <1>6 DEF Lookup, KeyedLookup
    <2> QED BY <1>2, <1>4, <1>6, <2>1 DEF Lookup, ClientMove
  <1>7. ASSUME NEW c \in Clients, Create(c) PROVE Goal
    <2>1. client[c].key \in Keys /\ buckets[client[c].key] \in BucketIds
      BY <1>7 DEF Create, KeyedLookup
    <2>2. ASSUME Unused # {} PROVE (CHOOSE b \in Unused : TRUE) \in BucketIds
      BY <2>2 DEF Unused
    <2> QED BY <1>4, <1>7, <2>1, <2>2 DEF Create, Insert
  <1>8. ASSUME NEW c \in Clients, Take(c) PROVE Goal
    <2>1. CASE client' = [client EXCEPT ![c].pc = "waiting", ![c].wake = now + WaitTime,
                                        ![c].seen = Held(c).taken]
      <3> DEFINE r == [client[c] EXCEPT !.pc = "waiting", !.wake = now + WaitTime,
                                        !.seen = Held(c).taken]
      <3>1. client' = [client EXCEPT ![c] = r]
        BY <2>1
      <3> QED BY <1>2, <3>1 DEF ClientMove
    <2>2. CASE client' = [client EXCEPT ![c].pc = "measure"]
      BY <1>2, <2>2 DEF ClientMove
    <2>3. CASE Return(c)
      BY <1>3, <2>3
    <2> QED BY <1>8, <2>1, <2>2, <2>3 DEF Take
  <1>9. ASSUME NEW c \in Clients, Wake(c) PROVE Goal
    BY <1>2, <1>3, <1>9 DEF Wake, ClientMove
  <1>10. ASSUME NEW c \in Clients, Measure(c) \/ Refused(c) \/ CtxDone(c) PROVE Goal
    BY <1>3, <1>10 DEF Measure, Refused, CtxDone
  <1>11. ASSUME StartCleanup \/ CleanupStep \/ Close \/ Tick \/ Over PROVE Goal
    BY <1>1, <1>11 DEF StartCleanup, CleanupStep, Visit, Delete, EndCleanup, Close, Tick,
                       Over, vars
  <1> HIDE DEF Goal
  <1>12. Goal
    BY <1>5, <1>6, <1>7, <1>8, <1>9, <1>10, <1>11 DEF Next, ClientStep
  <1> QED BY <1>12 DEF Goal

LEMMA ClientsStayTyped ==
    ASSUME TypeOK, KeyedLookup, Next
    PROVE  client' \in [Clients -> ClientType] /\ KeyedLookup'
  <1>1. ASSUME NEW c \in Clients, ClientMove(c)
        PROVE  /\ client'[c] \in ClientType
               /\ client'[c].pc \in {"lookup", "create"} => client'[c].key \in Keys
    <2>1. client[c] \in ClientType /\ Held(c) \in BucketType /\ now \in Nat
      BY DEF TypeOK, Held, ClientType
    <2>2. now + WaitTime \in Nat /\ Held(c).taken \in Nat
      BY <2>1, WaitTimeType DEF BucketType
    <2>3. CASE client'[c] = client[c]
      BY <2>1, <2>3 DEF KeyedLookup
    <2>9. CASE client'[c] = Idle
      BY <2>9, IdleType DEF Idle
    <2>4. CASE client[c].pc = "lookup" /\ client'[c] = [client[c] EXCEPT !.pc = "create"]
      BY <2>1, <2>4 DEF KeyedLookup, ClientType
    <2>5. ASSUME NEW k \in Callable, NEW w \in BOOLEAN,
                 client'[c] = [Idle EXCEPT !.pc = IF k = NoKey THEN "take" ELSE "lookup",
                                           !.key = k, !.wait = w]
          PROVE  /\ client'[c] \in ClientType
                 /\ client'[c].pc \in {"lookup", "create"} => client'[c].key \in Keys
      <3> DEFINE p == IF k = NoKey THEN "take" ELSE "lookup"
      <3>1. client'[c] = [pc |-> p, key |-> k, wait |-> w, bucket |-> 0, wake |-> 0,
                          seen |-> 0]
        BY <2>5 DEF Idle
      <3>2. 0 \in BucketIds /\ k \in Keys \cup {NoKey}
        BY ConfigAssumption, KeyAssumption DEF BucketIds
      <3> QED BY <3>1, <3>2 DEF ClientType
    <2>6. ASSUME NEW b \in BucketIds,
                 client'[c] = [client[c] EXCEPT !.pc = "take", !.bucket = b]
          PROVE  client'[c] \in ClientType /\ client'[c].pc = "take"
      BY <2>1, <2>6 DEF ClientType
    <2>7. CASE client'[c] = [client[c] EXCEPT !.pc = "waiting", !.wake = now + WaitTime,
                                              !.seen = Held(c).taken]
      BY <2>1, <2>2, <2>7 DEF ClientType
    <2>8. CASE \/ client'[c] = [client[c] EXCEPT !.pc = "measure"]
               \/ client'[c] = [client[c] EXCEPT !.pc = "refused"]
      BY <2>1, <2>8 DEF ClientType
    <2> QED BY <1>1, <2>3, <2>4, <2>5, <2>6, <2>7, <2>8, <2>9 DEF ClientMove
  <1> QED BY <1>1, ClientMoves, SMTT(30) DEF KeyedLookup

LEMMA LoopStaysTyped ==
    ASSUME TypeOK, KeyedLookup, Next
    PROVE  /\ buckets' \in [Keys -> BucketIds]
           /\ loop' \in {"idle", "sweeping", "stopped"}
           /\ unvisited' \subseteq Keys /\ doomed' \subseteq Keys /\ dropped' \subseteq Keys
  <1> USE DEF TypeOK
  <1>1. ASSUME NEW c \in Clients, Create(c) PROVE buckets' \in [Keys -> BucketIds]
    <2>1. ASSUME Unused # {} PROVE (CHOOSE b \in Unused : TRUE) \in BucketIds
      BY <2>1 DEF Unused
    <2> QED BY <1>1, <2>1, ZenonT(60) DEF Create, Insert
  <1>2. ASSUME NEW k \in Keys, Delete(k) PROVE buckets' \in [Keys -> BucketIds]
    BY <1>2, ConfigAssumption, SMTT(30) DEF Delete, BucketIds
  <1>3. buckets' \in [Keys -> BucketIds]
    BY <1>1, <1>2, ZenonT(60) DEF Next, ClientStep, CleanupStep, Call, Lookup, Take, Measure, Wake,
                      Refused, CtxDone, StartCleanup, Visit, EndCleanup, Close, Tick, Over, vars
  <1>4. /\ loop' \in {"idle", "sweeping", "stopped"}
        /\ unvisited' \subseteq Keys /\ doomed' \subseteq Keys /\ dropped' \subseteq Keys
    BY ZenonT(60) DEF Next, ClientStep, CleanupStep, Call, Lookup, Create, Take, Measure, Wake, Refused,
           CtxDone, StartCleanup, Visit, Delete, EndCleanup, Close, Tick, Over, vars
  <1> QED BY <1>3, <1>4

LEMMA InitInvariant == Init => IInv
  <1> SUFFICES ASSUME Init PROVE IInv
    OBVIOUS
  <1>1. 0 \in BucketIds
    BY ConfigAssumption DEF BucketIds
  <1>2. TypeOK
    BY <1>1, NewSound, IdleType DEF Init, TypeOK, BucketSound
  <1>3. KeyedLookup /\ BucketsSound
    BY NewSound DEF Init, KeyedLookup, BucketsSound, Idle
  <1> QED BY <1>2, <1>3 DEF IInv

LEMMA StepInvariant == IInv /\ [Next]_vars => IInv'
  <1> SUFFICES ASSUME IInv, [Next]_vars PROVE IInv'
    OBVIOUS
  <1>1. CASE Next
    BY <1>1, BucketsStaySound, ClientsStayTyped, LoopStaysTyped
       DEF IInv, TypeOK, BucketsSound
  <1>2. CASE UNCHANGED vars
    BY <1>2 DEF IInv, TypeOK, KeyedLookup, BucketsSound, vars
  <1> QED BY <1>1, <1>2

\* The inductive invariant holds in every reachable state.
THEOREM Invariance == Spec => []IInv
  BY InitInvariant, StepInvariant, PTL DEF Spec

\* Types, and with them the range of every bucket: never overdrawn, never
\* above its capacity (TokenBucket.Allow, refill).
THEOREM TypeCorrect == Spec => []TypeOK
  <1>1. IInv => TypeOK
    BY DEF IInv
  <1> QED BY <1>1, Invariance, PTL

\* The rate limit: a bucket gives out at most its burst and what the rate has
\* earned since the bucket was made, whatever its users and cleanup do.
THEOREM BucketsBounded == Spec => []BucketBound
  <1>1. ASSUME IInv PROVE BucketBound
    <2> SUFFICES ASSUME NEW b \in BucketIds
                 PROVE  Token * bucket[b].taken <= Capacity + Rate * (now - bucket[b].born)
      BY DEF BucketBound
    <2> DEFINE t == bucket[b]
    <2>1. BucketSound(t, now) /\ now \in Nat /\ t \in BucketType
      BY <1>1 DEF IInv, TypeOK, BucketsSound
    <2>2. t.last - t.born \in Nat /\ now - t.last \in Nat /\ t.tokens \in Nat
      BY <2>1, CapacityType DEF BucketSound, BucketType
    <2>3. now - t.born = (t.last - t.born) + (now - t.last)
      BY <2>1 DEF BucketType
    <2>4. /\ Rate * (t.last - t.born) \in Nat /\ Rate * (now - t.last) \in Nat
          /\ Rate * (now - t.born) = Rate * (t.last - t.born) + Rate * (now - t.last)
      BY <2>2, <2>3, Product, ConfigAssumption
    <2>5. Token * t.taken \in Nat
      BY <2>1, Product, ConfigAssumption DEF BucketType
    <2>6. t.tokens + Token * t.taken <= Capacity + Rate * (t.last - t.born)
      BY <2>1 DEF BucketSound
    <2> HIDE DEF t
    <2>7. Token * t.taken <= Capacity + Rate * (now - t.born)
      BY <2>2, <2>4, <2>5, <2>6, CapacityType
    <2> QED BY <2>7 DEF t
  <1> QED BY <1>1, Invariance, PTL

----
(* Requests for a key share its bucket until cleanup drops it. *)

LEMMA SharedStays ==
    ASSUME IInv, SharedUntilDropped, Next
    PROVE  SharedUntilDropped'
  <1> SUFFICES ASSUME NEW d \in Clients, client'[d].key \in Keys \ dropped',
                      client'[d].bucket # 0
               PROVE  buckets'[client'[d].key] = client'[d].bucket
    BY DEF SharedUntilDropped
  <1> DEFINE k == client'[d].key
  <1> USE DEF IInv, TypeOK, KeyedLookup
  <1>1. CASE UNCHANGED <<buckets, client>> /\ dropped \subseteq dropped'
    BY <1>1 DEF SharedUntilDropped
  <1>2. ASSUME NEW c \in Clients, UNCHANGED <<buckets, dropped>>,
               c # d => client'[d] = client[d],
               c = d => \/ client'[d].bucket = 0
                        \/ k = client[d].key /\ client'[d].bucket = client[d].bucket
                        \/ client'[d].bucket = buckets[k]
        PROVE  buckets'[k] = client'[d].bucket
    BY <1>2 DEF SharedUntilDropped
  <1>3. ASSUME NEW c \in Clients, Return(c), UNCHANGED <<buckets, dropped>>
        PROVE  buckets'[k] = client'[d].bucket
    BY <1>2, <1>3 DEF Return, Idle
  <1>4. ASSUME NEW c \in Clients, NEW b \in BucketIds, Hold(c, b), client[c].key \in Keys,
               b = buckets[client[c].key], UNCHANGED <<buckets, dropped>>
        PROVE  buckets'[k] = client'[d].bucket
    BY <1>2, <1>4 DEF Hold, ClientType
  <1>5. ASSUME NEW c \in Clients, NEW x \in Callable, NEW w \in BOOLEAN, Call(c, x, w)
        PROVE  buckets'[k] = client'[d].bucket
    <2>1. CASE Return(c)
      BY <1>3, <1>5, <2>1 DEF Call
    <2>2. CASE ~Return(c)
      <3> DEFINE r == [Idle EXCEPT !.pc = IF x = NoKey THEN "take" ELSE "lookup",
                                   !.key = x, !.wait = w]
      <3>1. client' = [client EXCEPT ![c] = r] /\ UNCHANGED <<buckets, dropped>>
        BY <1>5, <2>2 DEF Call
      <3>2. r.bucket = 0
        BY DEF Idle
      <3> HIDE DEF r
      <3> QED BY <1>2, <3>1, <3>2
    <2> QED BY <2>1, <2>2
  <1>6. ASSUME NEW c \in Clients, Lookup(c) PROVE buckets'[k] = client'[d].bucket
    BY <1>2, <1>4, <1>6 DEF Lookup, ClientType
  <1>7. ASSUME NEW c \in Clients, Create(c) PROVE buckets'[k] = client'[d].bucket
    <2>1. client[c].key \in Keys /\ dropped' = dropped
      BY <1>7 DEF Create
    <2>2. CASE buckets[client[c].key] # 0
      BY <1>4, <1>7, <2>1, <2>2 DEF Create
    <2>3. CASE buckets[client[c].key] = 0
      <3> DEFINE b == CHOOSE b \in Unused : TRUE
      <3>1. Insert(c, b)
        BY <1>7, <2>3 DEF Create
      <3>2. /\ buckets' = [buckets EXCEPT ![client[c].key] = b]
            /\ client' = [client EXCEPT ![c].pc = "take", ![c].bucket = b]
        BY <3>1 DEF Insert, Hold
      <3>3. CASE d = c
        BY <2>1, <3>2, <3>3 DEF ClientType
      <3>4. CASE d # c
        <4>1. client'[d] = client[d] /\ buckets[k] = client[d].bucket /\ k \in Keys
          BY <2>1, <3>2, <3>4 DEF SharedUntilDropped
        <4>2. k # client[c].key
          BY <2>3, <4>1
        <4> QED BY <3>2, <4>1, <4>2
      <3> QED BY <3>3, <3>4
    <2> QED BY <2>2, <2>3
  <1>8. ASSUME NEW c \in Clients, Take(c) PROVE buckets'[k] = client'[d].bucket
    <2>1. CASE Return(c)
      BY <1>3, <1>8, <2>1 DEF Take
    <2>2. CASE ~Return(c)
      BY <1>2, <1>8, <2>2 DEF Take, ClientType
    <2> QED BY <2>1, <2>2
  <1>9. ASSUME NEW c \in Clients, Wake(c) PROVE buckets'[k] = client'[d].bucket
    <2>1. CASE Return(c)
      BY <1>3, <1>9, <2>1 DEF Wake
    <2>2. CASE ~Return(c)
      BY <1>2, <1>9, <2>2 DEF Wake, ClientType
    <2> QED BY <2>1, <2>2
  <1>10. ASSUME NEW c \in Clients, Measure(c) \/ Refused(c) \/ CtxDone(c)
         PROVE  buckets'[k] = client'[d].bucket
    BY <1>3, <1>10 DEF Measure, Refused, CtxDone
  <1>11. ASSUME NEW x \in Keys, Delete(x) PROVE buckets'[k] = client'[d].bucket
    BY <1>11 DEF Delete, SharedUntilDropped
  <1>12. CASE StartCleanup \/ (\E x \in Keys : Visit(x)) \/ EndCleanup \/ Close \/ Tick \/ Over
    BY <1>1, <1>12 DEF StartCleanup, Visit, EndCleanup, Close, Tick, Over, vars
  <1> QED BY <1>5, <1>6, <1>7, <1>8, <1>9, <1>10, <1>11, <1>12
          DEF Next, ClientStep, CleanupStep

\* Two first requests for a key that race through getBucket get the same bucket;
\* only cleanup can part the requests for a key.
THEOREM RequestsShare == Spec => []SharedUntilDropped
  <1>1. Init => SharedUntilDropped
    BY DEF Init, SharedUntilDropped, Idle
  <1>2. IInv /\ SharedUntilDropped /\ [Next]_vars => SharedUntilDropped'
    <2> SUFFICES ASSUME IInv, SharedUntilDropped, [Next]_vars PROVE SharedUntilDropped'
      OBVIOUS
    <2>1. CASE Next
      BY <2>1, SharedStays
    <2>2. CASE UNCHANGED vars
      BY <2>2 DEF SharedUntilDropped, vars
    <2> QED BY <2>1, <2>2
  <1> QED BY <1>1, <1>2, Invariance, PTL DEF Spec

----
(* A waiter is refused only if somebody took a token from its bucket. *)

\* b earned since time t all that the rate yields, up to its capacity.
EarnedSince(b, t) == b.tokens >= Capacity \/ b.tokens >= Rate * (b.last - t)

\* For a waiter that started at wake - WaitTime and a bucket b.
WaiterSound(w, b) ==
    /\ w.wake - WaitTime \in Nat /\ w.wake - WaitTime <= b.last
    /\ b.taken > w.seen \/ (b.taken = w.seen /\ EarnedSince(b, w.wake - WaitTime))

WaitersSound ==
    \A c \in Clients : client[c].pc = "waiting" => WaiterSound(client[c], Held(c))

LEMMA RefillEarns ==
    ASSUME NEW b, NEW t \in Nat, now \in Nat, BucketSound(b, now), t <= b.last,
           EarnedSince(b, t)
    PROVE  EarnedSince(Refill(b), t)
  <1> DEFINE since == (now - b.last) * Rate
  <1>1. b \in BucketType /\ now - b.last \in Nat /\ b.last - t \in Nat /\ b.tokens \in Nat
    BY CapacityType DEF BucketSound, BucketType
  <1>2. since \in Nat /\ since = Rate * (now - b.last)
    BY <1>1, Product, ConfigAssumption
  <1>3. now - t = (b.last - t) + (now - b.last)
    BY <1>1 DEF BucketType
  <1>5. Refill(b).tokens = Capped(b.tokens + since) /\ Refill(b).last = now
    BY RefillSound
  <1> HIDE DEF since
  <1>4. Rate * (now - t) = Rate * (b.last - t) + since /\ Rate * (b.last - t) \in Nat
    <2>1. Rate * ((b.last - t) + (now - b.last)) = Rate * (b.last - t) + Rate * (now - b.last)
          /\ Rate * (b.last - t) \in Nat
      BY <1>1, Product, ConfigAssumption
    <2> QED BY <1>2, <1>3, <2>1
  <1>6. Capped(b.tokens + since) >= Capacity \/ Capped(b.tokens + since) >= Rate * (now - t)
    BY <1>1, <1>2, <1>4, CapacityType DEF Capped, EarnedSince
  <1> QED BY <1>5, <1>6 DEF EarnedSince

\* The bucket a client holds is never made anew.
LEMMA HeldMoves ==
    ASSUME TypeOK, KeyedLookup, Next, NEW d \in Clients
    PROVE  bucket'[client[d].bucket] \in
               {Held(d), Refill(Held(d)), AfterAllow(Held(d))}
  <1> DEFINE h == client[d].bucket
             Goal == bucket'[h] \in {bucket[h], Refill(bucket[h]), AfterAllow(bucket[h])}
  <1> USE DEF TypeOK
  <1>1. h \in BucketIds
    BY DEF ClientType
  <1>2. ASSUME bucket' = bucket PROVE Goal
    BY <1>2
  <1>3. ASSUME NEW b \in BucketIds,
               \/ bucket' = [bucket EXCEPT ![b] = Refill(@)]
               \/ bucket' = [bucket EXCEPT ![b] = AfterAllow(@)]
        PROVE  Goal
    BY <1>1, <1>3
  <1>4. ASSUME NEW c \in Clients, Create(c) PROVE Goal
    <2>1. CASE bucket' = bucket
      BY <1>2, <2>1
    <2>2. CASE bucket' # bucket
      <3> DEFINE b == CHOOSE b \in Unused : TRUE
      <3>1. Unused # {} /\ Insert(c, b)
        BY <1>4, <2>2 DEF Create
      <3>2. b \in Unused
        BY <3>1
      <3>3. b \in BucketIds /\ b # h
        BY <3>2 DEF Unused
      <3>4. bucket' = [bucket EXCEPT ![b] = NewTokenBucket(now)]
        BY <3>1 DEF Insert
      <3> HIDE DEF b
      <3> QED BY <1>1, <3>3, <3>4
    <2> QED BY <2>1, <2>2
  <1>5. ASSUME NEW c \in Clients PROVE client[c].bucket \in BucketIds
    BY <1>5 DEF ClientType
  <1> HIDE DEF Goal
  <1>6. ASSUME NEW c \in Clients, ClientStep(c) PROVE Goal
    <2>1. CASE Lookup(c) \/ Refused(c)
      BY <1>2, <2>1 DEF Lookup, Refused
    <2>2. CASE Take(c) \/ Wake(c)
      BY <1>3, <1>5, <2>2 DEF Take, Wake, AllowHeld
    <2>3. CASE Measure(c)
      BY <1>3, <1>5, <2>3 DEF Measure
    <2> QED BY <1>4, <1>6, <2>1, <2>2, <2>3 DEF ClientStep
  <1>7. ASSUME NEW k \in Keys, Visit(k) PROVE Goal
    BY <1>3, <1>7 DEF Visit
  <1>8. Goal
    BY <1>2, <1>6, <1>7
       DEF Next, Call, CtxDone, CleanupStep, StartCleanup, Delete, EndCleanup, Close, Tick,
           Over, vars
  <1> QED BY <1>8 DEF Goal, Held

\* What each of these moves leaves of a waiter's claim.
LEMMA WaiterKept ==
    ASSUME now \in Nat, NEW w \in ClientType, NEW b, BucketSound(b, now), WaiterSound(w, b)
    PROVE  WaiterSound(w, Refill(b)) /\ WaiterSound(w, AfterAllow(b))
  <1> DEFINE t == w.wake - WaitTime
  <1>1. t \in Nat /\ t <= b.last /\ b.last <= now /\ b \in BucketType
    BY DEF WaiterSound, BucketSound
  <1>2. Refill(b).taken = b.taken /\ Refill(b).last = now /\ Refill(b) \in BucketType
    BY RefillSound DEF BucketSound
  <1>3. WaiterSound(w, Refill(b))
    BY <1>1, <1>2, RefillEarns DEF WaiterSound, BucketType
  <1>4. CASE CanTake(b)
    <2>1. AfterAllow(b).taken = b.taken + 1 /\ AfterAllow(b).last = now
      BY <1>2, <1>4 DEF AfterAllow, BucketType
    <2>2. b.taken + 1 > w.seen
      BY <1>1 DEF WaiterSound, BucketType, ClientType
    <2> QED BY <1>1, <1>3, <2>1, <2>2 DEF WaiterSound, BucketType
  <1>5. CASE ~CanTake(b)
    BY <1>3, <1>5 DEF AfterAllow
  <1> QED BY <1>3, <1>4, <1>5

\* A refused second Allow.
LEMMA RefusalExplained ==
    ASSUME Rate * WaitTime >= Token, now \in Nat, NEW w \in ClientType, NEW b,
           BucketSound(b, now), WaiterSound(w, b), now >= w.wake, ~CanTake(b)
    PROVE  b.taken > w.seen
  <1> SUFFICES ASSUME EarnedSince(b, w.wake - WaitTime) PROVE FALSE
    BY DEF WaiterSound
  <1> DEFINE t == w.wake - WaitTime
  <1>1. t \in Nat /\ t <= b.last /\ w.wake \in Nat /\ b \in BucketType
    BY DEF WaiterSound, ClientType, BucketSound
  <1>2. EarnedSince(Refill(b), t) /\ Refill(b).last = now /\ Refill(b).tokens \in Nat
    BY <1>1, RefillEarns, RefillSound, CapacityType DEF BucketSound, BucketType
  <1>3. now - t = WaitTime + (now - w.wake) /\ now - w.wake \in Nat
    BY <1>1, WaitTimeType
  <1>4. Rate * (WaitTime + (now - w.wake)) = Rate * WaitTime + Rate * (now - w.wake)
        /\ Rate * (now - w.wake) \in Nat /\ Rate * WaitTime \in Nat
    BY <1>3, WaitTimeType, Product, ConfigAssumption
  <1>5. Rate * (now - t) >= Token
    BY <1>3, <1>4, ConfigAssumption
  <1>6. Rate * (now - t) \in Nat
    BY <1>3, <1>4
  <1>7. Refill(b).tokens >= Token
    BY <1>2, <1>5, <1>6, CapacityType, ConfigAssumption DEF EarnedSince
  <1> QED BY <1>7 DEF CanTake

\* What a step may do to a client that waits or is refused afterwards.
LEMMA WaiterMoves ==
    ASSUME IInv, Next, NEW d \in Clients, client'[d].pc \in {"waiting", "refused"}
    PROVE  \/ client'[d] = client[d]
           \/ Take(d) /\ client'[d].pc = "waiting"
           \/ Wake(d) /\ client'[d].pc = "refused"
  <1> DEFINE Goal == \/ client'[d] = client[d]
                     \/ Take(d) /\ client'[d].pc = "waiting"
                     \/ Wake(d) /\ client'[d].pc = "refused"
  <1> USE DEF IInv, TypeOK
  <1>1. ASSUME NEW c \in Clients, c # d, NEW r, client' = [client EXCEPT ![c] = r]
        PROVE  Goal
    BY <1>1
  <1>2. ASSUME NEW c \in Clients, Return(c) PROVE Goal
    BY <1>2 DEF Return, Idle
  <1>3. ASSUME NEW c \in Clients, NEW b \in BucketIds, Hold(c, b) PROVE Goal
    BY <1>3 DEF Hold, ClientType
  <1>4. ASSUME NEW c \in Clients, NEW x \in Callable, NEW w \in BOOLEAN, Call(c, x, w)
        PROVE  Goal
    <2>1. CASE ~Return(c)
      <3> DEFINE r == [Idle EXCEPT !.pc = IF x = NoKey THEN "take" ELSE "lookup",
                                   !.key = x, !.wait = w]
      <3>1. client' = [client EXCEPT ![c] = r] /\ r.pc \in {"take", "lookup"}
        BY <1>4, <2>1 DEF Call, Idle
      <3> HIDE DEF r
      <3> QED BY <3>1
    <2> QED BY <1>2, <2>1
  <1>5. ASSUME NEW c \in Clients, Lookup(c) PROVE Goal
    BY <1>5 DEF Lookup, Hold, ClientType
  <1>6. ASSUME NEW c \in Clients, Create(c) PROVE Goal
    BY <1>6 DEF Create, Insert, Hold, ClientType
  <1>7. ASSUME NEW c \in Clients, Take(c) PROVE Goal
    <2>1. CASE c = d
      BY <1>7, <2>1 DEF Take, Return, Idle, ClientType
    <2>2. CASE c # d
      BY <1>7, <2>2 DEF Take, Return
    <2> QED BY <2>1, <2>2
  <1>8. ASSUME NEW c \in Clients, Wake(c) PROVE Goal
    <2>1. CASE c = d
      BY <1>8, <2>1 DEF Wake, Return, Idle, ClientType
    <2>2. CASE c # d
      BY <1>8, <2>2 DEF Wake, Return
    <2> QED BY <2>1, <2>2
  <1>9. ASSUME NEW c \in Clients, Measure(c) \/ Refused(c) \/ CtxDone(c) PROVE Goal
    BY <1>2, <1>9 DEF Measure, Refused, CtxDone
  <1>10. ASSUME client' = client PROVE Goal
    BY <1>10
  <1> HIDE DEF Goal
  <1>11. Goal
    BY <1>4, <1>5, <1>6, <1>7, <1>8, <1>9, <1>10
       DEF Next, ClientStep, CleanupStep, StartCleanup, Visit, Delete, EndCleanup, Close,
           Tick, Over, vars
  <1> QED BY <1>11 DEF Goal

LEMMA WaitersStay ==
    ASSUME Rate * WaitTime >= Token, IInv, WaitersSound, RefusedByAnother, Next
    PROVE  WaitersSound' /\ RefusedByAnother'
  <1> SUFFICES ASSUME NEW d \in Clients
               PROVE  /\ client'[d].pc = "waiting" => WaiterSound(client'[d], Held(d)')
                      /\ client'[d].pc = "refused" => Held(d)'.taken > client'[d].seen
    BY DEF WaitersSound, RefusedByAnother, WaiterSound, EarnedSince
  <1> SUFFICES ASSUME client'[d].pc \in {"waiting", "refused"}
               PROVE  /\ client'[d].pc = "waiting" => WaiterSound(client'[d], Held(d)')
                      /\ client'[d].pc = "refused" => Held(d)'.taken > client'[d].seen
    OBVIOUS
  <1> DEFINE b == Held(d)
             w == client[d]
  <1>1. /\ now \in Nat /\ w \in ClientType /\ w.bucket \in BucketIds
        /\ BucketSound(b, now) /\ b \in BucketType
    BY DEF IInv, TypeOK, BucketsSound, BucketSound, ClientType, Held
  <1>2. CASE client'[d] = w
    <2>1. Held(d)' \in {b, Refill(b), AfterAllow(b)}
      BY <1>2, HeldMoves DEF IInv, Held
    <2>2. CASE w.pc = "waiting"
      BY <1>1, <1>2, <2>1, <2>2, WaiterKept DEF WaitersSound
    <2>3. CASE w.pc = "refused"
      <3>1. b.taken > w.seen /\ b.taken \in Nat /\ w.seen \in Nat
        BY <1>1, <2>3 DEF RefusedByAnother, BucketType, ClientType
      <3>2. Refill(b).taken = b.taken /\ Refill(b) \in BucketType
        BY <1>1, RefillSound DEF BucketSound
      <3>3. AfterAllow(b).taken \in {b.taken, b.taken + 1}
        BY <3>2 DEF AfterAllow, BucketType
      <3> QED BY <1>2, <2>1, <2>3, <3>1, <3>2, <3>3
    <2> QED BY <1>2, <2>2, <2>3
  <1>3. CASE Take(d) /\ client'[d].pc = "waiting"
    <2>1. /\ ~CanTake(b)
          /\ client' = [client EXCEPT ![d].pc = "waiting", ![d].wake = now + WaitTime,
                                      ![d].seen = b.taken]
      BY <1>1, <1>3 DEF Take, Return, Idle, IInv, TypeOK, ClientType
    <2>2. /\ client'[d].wake = now + WaitTime /\ client'[d].seen = b.taken
          /\ client'[d].bucket = w.bucket
      BY <1>1, <2>1 DEF IInv, TypeOK, ClientType
    <2>3. Held(d)' = Refill(b)
      BY <1>1, <1>3, <2>1, <2>2 DEF Take, AllowHeld, AfterAllow, Held, IInv, TypeOK
    <2>4. Refill(b).last = now /\ Refill(b).taken = b.taken /\ Refill(b).tokens \in Nat
      BY <1>1, RefillSound, CapacityType DEF BucketSound, BucketType
    <2>5. (now + WaitTime) - WaitTime = now /\ Rate * (now - now) = 0
      BY <1>1, WaitTimeType, ConfigAssumption
    <2> QED BY <1>1, <1>3, <2>2, <2>3, <2>4, <2>5 DEF WaiterSound, EarnedSince
  <1>4. CASE Wake(d) /\ client'[d].pc = "refused"
    <2>1. /\ ~CanTake(b) /\ now >= w.wake /\ w.pc = "waiting"
          /\ client' = [client EXCEPT ![d].pc = "refused"]
      BY <1>1, <1>4 DEF Wake, Return, Idle, IInv, TypeOK, ClientType
    <2>2. b.taken > w.seen
      BY <1>1, <2>1, RefusalExplained DEF WaitersSound
    <2>3. client'[d].seen = w.seen /\ client'[d].bucket = w.bucket
      BY <1>1, <2>1 DEF IInv, TypeOK, ClientType
    <2>4. Held(d)' = Refill(b)
      BY <1>1, <1>4, <2>1, <2>3 DEF Wake, AllowHeld, AfterAllow, Held, IInv, TypeOK
    <2>5. Refill(b).taken = b.taken
      BY <1>1, RefillSound
    <2> QED BY <1>4, <2>2, <2>3, <2>4, <2>5
  <1> QED BY <1>2, <1>3, <1>4, WaiterMoves

\* When the wait is long enough for a token, no rounding in the way, Wait and
\* WaitKey fail only for a token that another request took meanwhile.
THEOREM LoneWaiterServed ==
    ASSUME Rate * WaitTime >= Token
    PROVE  Spec => []RefusedByAnother
  <1>1. Init => WaitersSound /\ RefusedByAnother
    BY DEF Init, WaitersSound, RefusedByAnother, Idle
  <1>2. IInv /\ WaitersSound /\ RefusedByAnother /\ [Next]_vars
        => WaitersSound' /\ RefusedByAnother'
    <2> SUFFICES ASSUME IInv, WaitersSound, RefusedByAnother, [Next]_vars
                 PROVE  WaitersSound' /\ RefusedByAnother'
      OBVIOUS
    <2>1. CASE Next
      BY <2>1, WaitersStay
    <2>2. CASE UNCHANGED vars
      BY <2>2 DEF WaitersSound, WaiterSound, EarnedSince, RefusedByAnother, Held, vars
    <2> QED BY <2>1, <2>2
  <1> QED BY <1>1, <1>2, Invariance, PTL DEF Spec
====
