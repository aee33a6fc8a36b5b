---- MODULE RateLimiter ----
(***************************************************************************)
(* internal/observability/ratelimit.go: the token buckets, the map of      *)
(* buckets by key with its cleanup loop, and the calls made by concurrent  *)
(* goroutines, the clients.  A client works on the bucket that getBucket   *)
(* gave it without holding the limiter's lock, so that the cleanup loop    *)
(* can drop the bucket from the map in the meantime.                       *)
(*                                                                         *)
(* Time passes in ticks; a token is divided into Token units, so that the  *)
(* fractions of a float64 count, exactly, in integers.                     *)
(***************************************************************************)
EXTENDS Integers

CONSTANTS
    Clients,        \* goroutines calling the limiter
    Keys,           \* the keys of AllowKey and WaitKey
    NoKey,          \* what Allow and Wait are called for: the default bucket
    Callable,       \* what clients call for: keys, NoKey or both
    Enabled,        \* config.Enabled
    MetricsOn,      \* globalMetrics # nil
    Burst,          \* config.BurstSize, in tokens
    Rate,           \* config.RequestsPerSec, in units per tick
    Token,          \* units in a token
    Slack,          \* the 0.1 tokens of cleanup, in units
    NumBuckets,     \* bound: buckets 1..NumBuckets are allocated in turn
    MaxTime         \* bound: the last tick at which a call is made

ASSUME ConfigAssumption ==
    /\ Enabled \in BOOLEAN /\ MetricsOn \in BOOLEAN
    /\ Burst \in Nat \ {0} /\ Rate \in Nat \ {0} /\ Token \in Nat \ {0}
    /\ Slack \in 0..(Token - 1)
    /\ NumBuckets \in Nat /\ MaxTime \in Nat
ASSUME KeyAssumption == NoKey \notin Keys /\ Callable \subseteq Keys \cup {NoKey}

VARIABLES
    now,            \* time.Now(), in ticks
    bucket,         \* the TokenBucket objects; bucket 0 is the default one
    buckets,        \* rl.buckets: the bucket of each key, 0 for none
    client,         \* what each goroutine is doing
    loop,           \* the cleanup loop: "idle", "sweeping" (it holds rl.mu) or "stopped"
    unvisited,      \* keys the running cleanup has yet to visit
    doomed,         \* keys found full by the running cleanup, not deleted yet
    dropped         \* auxiliary: keys that cleanup has ever deleted

vars == <<now, bucket, buckets, client, loop, unvisited, doomed, dropped>>

BucketIds == 0..NumBuckets

----
(* TokenBucket.  born and taken are auxiliary: when the bucket was made and *)
(* how many tokens it has given out.                                        *)

Capacity == Burst * Token

NewTokenBucket(t) == [tokens |-> Capacity, last |-> t, born |-> t, taken |-> 0]

Capped(units) == IF units > Capacity THEN Capacity ELSE units

\* Mutants: the cap is forgotten; lastRefill is set at the first call only.
RefillUncapped(b) == [b EXCEPT !.tokens = @ + (now - b.last) * Rate, !.last = now]
RefillFromBirth(b) == [b EXCEPT !.tokens = Capped(@ + (now - b.last) * Rate)]

Refill(b) == [tokens |-> Capped(b.tokens + (now - b.last) * Rate), last |-> now,
              born |-> b.born, taken |-> b.taken]

CanTake(b) == Refill(b).tokens >= Token

\* Allow on bucket b: refill, and take a token if there is one.
AfterAllow(b) ==
    IF CanTake(b)
    THEN [Refill(b) EXCEPT !.tokens = @ - Token, !.taken = @ + 1] ELSE Refill(b)

\* Mutant: waiting for half the time a token takes.
HalfWaitTime == Token \div (2 * Rate)

\* Rounded down, as the conversion of a float64 to a time.Duration.
WaitTime == Token \div Rate

----
(* Clients. *)

Idle == [pc |-> "idle", key |-> NoKey, wait |-> FALSE, bucket |-> 0, wake |-> 0,
         seen |-> 0]

\* The call returns.  What it returns is known from the step it returns by.
Return(c) == client' = [client EXCEPT ![c] = Idle]

\* Nobody can reach bucket b any more: its memory may be used again.
Unused == {b \in BucketIds \ {0} :
              /\ \A k \in Keys : buckets[k] # b
              /\ \A c \in Clients : client[c].bucket # b}

Init ==
    /\ now = 0
    /\ bucket = [b \in BucketIds |-> NewTokenBucket(0)]
    /\ buckets = [k \in Keys |-> 0]
    /\ client = [c \in Clients |-> Idle]
    /\ loop = "idle"
    /\ unvisited = {} /\ doomed = {}
    /\ dropped = {}

\* Allow, Wait, AllowKey(k) or WaitKey(k) is called; a disabled limiter returns.
Call(c, k, wait) ==
    /\ client[c].pc = "idle"
    /\ now <= MaxTime               \* bound
    /\ IF ~Enabled THEN Return(c)
       ELSE client' = [client EXCEPT ![c] =
                [Idle EXCEPT !.pc = IF k = NoKey THEN "take" ELSE "lookup",
                                     !.key = k, !.wait = wait]]
    /\ UNCHANGED <<now, bucket, buckets, loop, unvisited, doomed, dropped>>

Hold(c, b) == client' = [client EXCEPT ![c].pc = "take", ![c].bucket = b]

\* getBucket under the read lock.
Lookup(c) ==
    /\ client[c].pc = "lookup"
    /\ loop # "sweeping"
    /\ IF buckets[client[c].key] # 0
       THEN Hold(c, buckets[client[c].key])
       ELSE client' = [client EXCEPT ![c].pc = "create"]
    /\ UNCHANGED <<now, bucket, buckets, loop, unvisited, doomed, dropped>>

\* A new bucket, b, is put into the map for the client's key.
Insert(c, b) ==
    /\ bucket' = [bucket EXCEPT ![b] = NewTokenBucket(now)]
    /\ buckets' = [buckets EXCEPT ![client[c].key] = b]
    /\ Hold(c, b)

\* Mutant: the double-check is forgotten.
AlwaysInsert(c) ==
    /\ client[c].pc = "create"
    /\ loop # "sweeping"
    /\ Unused # {} /\ Insert(c, CHOOSE b \in Unused : TRUE)
    /\ UNCHANGED <<now, loop, unvisited, doomed, dropped>>

\* getBucket under the write lock.
Create(c) ==
    /\ client[c].pc = "create"
    /\ loop # "sweeping"
    /\ \/ /\ buckets[client[c].key] # 0
          /\ Hold(c, buckets[client[c].key])
          /\ UNCHANGED <<bucket, buckets>>
       \/ /\ buckets[client[c].key] = 0
          /\ Unused # {}
          /\ Insert(c, CHOOSE b \in Unused : TRUE)
    /\ UNCHANGED <<now, loop, unvisited, doomed, dropped>>

Held(c) == bucket[client[c].bucket]

AllowHeld(c) == bucket' = [bucket EXCEPT ![client[c].bucket] = AfterAllow(@)]

\* The first Allow.  Without a token the Wait calls start their timer.  AllowKey
\* then reads the bucket's Tokens for the metrics, if there are any.
Take(c) ==
    /\ client[c].pc = "take"
    /\ AllowHeld(c)
    /\ IF client[c].wait /\ ~CanTake(Held(c))
       THEN client' = [client EXCEPT ![c].pc = "waiting", ![c].wake = now + WaitTime,
                                     ![c].seen = Held(c).taken]
       ELSE IF MetricsOn /\ ~client[c].wait /\ client[c].key # NoKey
       THEN client' = [client EXCEPT ![c].pc = "measure"]
       ELSE Return(c)
    /\ UNCHANGED <<now, buckets, loop, unvisited, doomed, dropped>>

\* Tokens refills the bucket as well.
Measure(c) ==
    /\ client[c].pc = "measure"
    /\ bucket' = [bucket EXCEPT ![client[c].bucket] = Refill(@)]
    /\ Return(c)
    /\ UNCHANGED <<now, buckets, loop, unvisited, doomed, dropped>>

\* The timer has fired: the second Allow, on the same bucket, is the last one.
Wake(c) ==
    /\ client[c].pc = "waiting"
    /\ now >= client[c].wake
    /\ AllowHeld(c)
    /\ IF CanTake(Held(c)) THEN Return(c)
       ELSE client' = [client EXCEPT ![c].pc = "refused"]
    /\ UNCHANGED <<now, buckets, loop, unvisited, doomed, dropped>>

\* ErrRateLimitExceeded is returned.
Refused(c) ==
    /\ client[c].pc = "refused"
    /\ Return(c)
    /\ UNCHANGED <<now, bucket, buckets, loop, unvisited, doomed, dropped>>

CtxDone(c) ==
    /\ client[c].pc = "waiting"
    /\ Return(c)
    /\ UNCHANGED <<now, bucket, buckets, loop, unvisited, doomed, dropped>>

----
(* The cleanup loop, which holds rl.mu from StartCleanup to EndCleanup. *)

StartCleanup ==
    /\ loop = "idle"
    /\ loop' = "sweeping"
    /\ unvisited' = {k \in Keys : buckets[k] # 0}
    /\ UNCHANGED <<now, bucket, buckets, client, doomed, dropped>>

\* bucket.Tokens(), under the bucket's own lock only.
Visit(k) ==
    /\ loop = "sweeping" /\ doomed = {}
    /\ k \in unvisited
    /\ unvisited' = unvisited \ {k}
    /\ bucket' = [bucket EXCEPT ![buckets[k]] = Refill(@)]
    /\ doomed' = IF Refill(bucket[buckets[k]]).tokens >= Capacity - Slack THEN {k} ELSE {}
    /\ UNCHANGED <<now, buckets, client, loop, dropped>>

Delete(k) ==
    /\ k \in doomed
    /\ doomed' = {}
    /\ buckets' = [buckets EXCEPT ![k] = 0]
    /\ dropped' = dropped \cup {k}
    /\ UNCHANGED <<now, bucket, client, loop, unvisited>>

\* Mutant: the lock is not released.
KeepSweeping ==
    /\ loop = "sweeping" /\ unvisited = {} /\ doomed = {}
    /\ UNCHANGED vars

EndCleanup ==
    /\ loop = "sweeping" /\ unvisited = {} /\ doomed = {}
    /\ loop' = "idle"
    /\ UNCHANGED <<now, bucket, buckets, client, unvisited, doomed, dropped>>

\* Close, noticed by the loop between two cleanups; the limiter itself goes on.
\* A second Close would panic.
Close ==
    /\ loop = "idle"
    /\ loop' = "stopped"
    /\ UNCHANGED <<now, bucket, buckets, client, unvisited, doomed, dropped>>

\* Bound: after the last call time passes only for those who wait.
Tick ==
    /\ \/ now < MaxTime
       \/ \E c \in Clients : client[c].pc = "waiting" /\ now < client[c].wake
    /\ now' = now + 1
    /\ UNCHANGED <<bucket, buckets, client, loop, unvisited, doomed, dropped>>

\* Bound: the last call has returned.
Over ==
    /\ now > MaxTime
    /\ \A c \in Clients : client[c].pc = "idle"
    /\ UNCHANGED vars

----
ClientStep(c) ==
    \/ Lookup(c) \/ Create(c) \/ Take(c) \/ Measure(c) \/ Wake(c) \/ Refused(c)

CleanupStep == (\E k \in Keys : Visit(k) \/ Delete(k)) \/ EndCleanup

Next ==
    \/ \E c \in Clients :
          \/ \E k \in Callable, wait \in BOOLEAN : Call(c, k, wait)
          \/ ClientStep(c) \/ CtxDone(c)
    \/ StartCleanup \/ CleanupStep \/ Close \/ Tick
    \/ Over

\* Goroutines run, time passes, and a lock asked for again and again is had:
\* Go's mutexes do not starve a waiter.  No context need ever be done.
Fairness ==
    /\ \A c \in Clients : SF_vars(ClientStep(c))
    /\ WF_vars(CleanupStep)
    /\ WF_vars(Tick)

Spec == Init /\ [][Next]_vars
FairSpec == Spec /\ Fairness

----
(* Properties. *)

BucketType ==
    [tokens : 0..Capacity, last : Nat, born : Nat, taken : Nat]

ClientType ==
    [pc : {"idle", "lookup", "create", "take", "measure", "waiting", "refused"},
     key : Keys \cup {NoKey}, wait : BOOLEAN, bucket : BucketIds,
     wake : Nat, seen : Nat]

\* Types; among them that a bucket is never overdrawn nor above its capacity.
TypeOK ==
    /\ now \in Nat
    /\ bucket \in [BucketIds -> BucketType]
    /\ buckets \in [Keys -> BucketIds]
    /\ client \in [Clients -> ClientType]
    /\ loop \in {"idle", "sweeping", "stopped"}
    /\ unvisited \subseteq Keys /\ doomed \subseteq Keys /\ dropped \subseteq Keys

\* However its users and the cleanup interleave, over its whole life a bucket
\* gives out at most its burst and what the rate has earned since it was made
\* (TokenBucket.Allow, refill).
BucketBound ==
    \A b \in BucketIds :
        Token * bucket[b].taken <= Capacity + Rate * (now - bucket[b].born)

\* A Wait or WaitKey that gives up with ErrRateLimitExceeded lost its token to
\* another request: while it waited, somebody took a token from its bucket, be
\* the bucket still in the map or dropped by cleanup.
RefusedByAnother ==
    \A c \in Clients : client[c].pc = "refused" => Held(c).taken > client[c].seen

\* Until cleanup drops the bucket of a key, all the requests for the key share
\* it, also those that found none at the same time (getBucket's double-check).
SharedUntilDropped ==
    \A c \in Clients :
        LET k == client[c].key
        IN  k \in Keys \ dropped /\ client[c].bucket # 0 => buckets[k] = client[c].bucket

\* Every call returns: no client waits for ever for the lock, the timer or a
\* free bucket.
CallsReturn == \A c \in Clients : client[c].pc # "idle" ~> client[c].pc = "idle"

\* "Each key gets its own bucket" (ratelimit_test.go): two requests for a key
\* that are under way at the same time draw on the same bucket.
OneBucketPerKey ==
    \A c, d \in Clients :
        (/\ client[c].key = client[d].key
         /\ client[c].bucket # 0 /\ client[d].bucket # 0)
        => client[c].bucket = client[d].bucket

\* "WaitKey waits until a token is available for the key or context is
\* cancelled." (ratelimit.go): no waiting call is refused.
WaitsForToken == \A c \in Clients : client[c].pc # "refused"
====
