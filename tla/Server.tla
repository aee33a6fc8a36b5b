---- MODULE Server ----
(***************************************************************************)
(* The life cycle of internal/server/server.go: Start, Stop, Shutdown and  *)
(* StartWithGracefulShutdown, called by concurrent goroutines, with the    *)
(* readiness flag of internal/observability/health.go.  s.mu only guards   *)
(* the running flag; everything after it interleaves.                      *)
(*                                                                         *)
(* external: http.Server.  Shutdown closes the listener at once, for ever, *)
(* and waits until no request is in flight or its context is done.         *)
(***************************************************************************)
EXTENDS Naturals, FiniteSets

CONSTANTS
    Runner,         \* the goroutine in StartWithGracefulShutdown
    Callers,        \* goroutines that make one call each
    Hooks,          \* what OnShutdown registered before the start
    MaxRequests     \* bound: requests in flight

ASSUME CallersAssumption == IsFiniteSet(Callers) /\ Runner \notin Callers
ASSUME MaxRequestsAssumption == MaxRequests \in Nat

VARIABLES
    pc,             \* where each goroutine is
    running,        \* s.running
    ready,          \* healthManager.ready
    checking,       \* a health check holds hm.mu
    spawned,        \* goroutines of ListenAndServe that have yet to listen
    listening,      \* ListenAndServe accepts
    httpDown,       \* httpServer.Shutdown was called
    inflight,       \* requests being served
    outstanding,    \* hooks still running, of the Shutdown of each goroutine
    expired,        \* the context of the Shutdown of each goroutine is done
    result,         \* what the call of each goroutine returned
    stopped,        \* shutdownCh is closed
    done,           \* doneCh is closed
    starts,         \* auxiliary: calls of Start that got through
    hookRuns,       \* auxiliary: how often each hook was run
    overlapped      \* auxiliary: a Start and a Shutdown were under way together

vars == <<pc, running, ready, checking, spawned, listening, httpDown, inflight, outstanding,
          expired, result, stopped, done, starts, hookRuns, overlapped>>

lifecycle == <<running, starts, overlapped>>
http == <<spawned, listening, httpDown, inflight>>
shutdown == <<outstanding, expired, hookRuns>>

Procs == Callers \cup {Runner}
Starting == {"ready", "listen"}
ShuttingDown == {"unready", "launch", "hooks", "http"}

Init ==
    /\ pc = [p \in Procs |-> "idle"]
    /\ running = FALSE /\ ready = FALSE /\ checking = FALSE
    /\ spawned = 0 /\ listening = FALSE /\ httpDown = FALSE /\ inflight = 0
    /\ outstanding = [p \in Procs |-> {}]
    /\ expired = [p \in Procs |-> FALSE]
    /\ result = [p \in Procs |-> "none"]
    /\ stopped = FALSE /\ done = FALSE
    /\ starts = 0 /\ overlapped = FALSE
    /\ hookRuns = [h \in Hooks |-> 0]

Goto(p, l) == pc' = [pc EXCEPT ![p] = l]

Return(p, r) == Goto(p, "returned") /\ result' = [result EXCEPT ![p] = r]

----
(* Start. *)

Start(p) ==
    /\ pc[p] = "idle"
    /\ IF running
       THEN Return(p, "already running") /\ UNCHANGED lifecycle
       ELSE /\ running' = TRUE
            /\ starts' = starts + 1
            /\ overlapped' = (overlapped \/ \E q \in Procs : pc[q] \in ShuttingDown)
            /\ Goto(p, "ready")
            /\ UNCHANGED result
    /\ UNCHANGED <<ready, checking, http, shutdown, stopped, done>>

SetReady(p) ==
    /\ pc[p] = "ready"
    /\ ~checking
    /\ ready' = TRUE
    /\ Goto(p, "listen")
    /\ UNCHANGED <<lifecycle, checking, http, shutdown, result, stopped, done>>

\* The goroutine of ListenAndServe is created, and Start returns.  The runner
\* goes on to wait for a signal or for Stop.
Listen(p) ==
    /\ pc[p] = "listen"
    /\ spawned' = spawned + 1
    /\ IF p = Runner THEN Goto(p, "wait") /\ UNCHANGED result ELSE Return(p, "started")
    /\ UNCHANGED <<lifecycle, ready, checking, listening, httpDown, inflight, shutdown,
                   stopped, done>>

\* That goroutine gets to run, perhaps long after: it listens, unless that fails
\* or the server has been shut down before.
ListenAndServe ==
    /\ spawned > 0
    /\ spawned' = spawned - 1
    /\ listening' \in {listening, ~httpDown}
    /\ UNCHANGED <<pc, lifecycle, ready, checking, httpDown, inflight, shutdown, result,
                   stopped, done>>

----
(* Shutdown. *)

\* Mutant: the running flag is not looked at.
ShutdownAlways(p) ==
    /\ Goto(p, "unready")
    /\ running' = FALSE
    /\ UNCHANGED <<starts, overlapped, result>>

\* A server that is not running, or is being shut down already, returns nil.
BeginShutdown(p) ==
    IF running
    THEN /\ Goto(p, "unready")
         /\ running' = FALSE
         /\ overlapped' = (overlapped \/ \E q \in Procs : pc[q] \in Starting)
         /\ UNCHANGED <<starts, result>>
    ELSE /\ IF p = Runner THEN Goto(p, "close") ELSE Goto(p, "returned")
         /\ result' = [result EXCEPT ![p] = "skipped"]
         /\ UNCHANGED lifecycle

Shutdown(p) ==
    /\ pc[p] = "idle"
    /\ BeginShutdown(p)
    /\ UNCHANGED <<ready, checking, http, shutdown, stopped, done>>

\* A signal arrives, or Stop was called.
Wakes ==
    /\ pc[Runner] = "wait"
    /\ BeginShutdown(Runner)
    /\ UNCHANGED <<ready, checking, http, shutdown, stopped, done>>

\* Mutant: the server stays ready while it drains.
StayReady(p) ==
    /\ pc[p] = "unready"
    /\ Goto(p, "launch")
    /\ UNCHANGED <<lifecycle, ready, checking, http, shutdown, result, stopped, done>>

SetUnready(p) ==
    /\ pc[p] = "unready"
    /\ ~checking
    /\ ready' = FALSE
    /\ Goto(p, "launch")
    /\ UNCHANGED <<lifecycle, checking, http, shutdown, result, stopped, done>>

\* The context starts to run and every hook gets a goroutine.
LaunchHooks(p) ==
    /\ pc[p] = "launch"
    /\ outstanding' = [outstanding EXCEPT ![p] = Hooks]
    /\ hookRuns' = [h \in Hooks |-> hookRuns[h] + 1]
    /\ Goto(p, "hooks")
    /\ UNCHANGED <<lifecycle, ready, checking, http, expired, result, stopped, done>>

\* A hook returns, or fails, which is only logged.
HookReturns(p, h) ==
    /\ h \in outstanding[p]
    /\ outstanding' = [outstanding EXCEPT ![p] = @ \ {h}]
    /\ UNCHANGED <<pc, lifecycle, ready, checking, http, expired, hookRuns, result,
                   stopped, done>>

\* ShutdownTimeout has passed.
Timeout(p) ==
    /\ pc[p] \in {"hooks", "http"}
    /\ ~expired[p]
    /\ expired' = [expired EXCEPT ![p] = TRUE]
    /\ UNCHANGED <<pc, lifecycle, ready, checking, http, outstanding, hookRuns, result,
                   stopped, done>>

\* Mutant: the context is not waited for.
WaitForHooks(p) == outstanding[p] = {}

HooksWaitOver(p) == outstanding[p] = {} \/ expired[p]

\* The hooks are done or out of time; the http server gets the same context.
HooksOver(p) ==
    /\ pc[p] = "hooks"
    /\ HooksWaitOver(p)
    /\ httpDown' = TRUE /\ listening' = FALSE
    /\ Goto(p, "http")
    /\ UNCHANGED <<lifecycle, ready, checking, spawned, inflight, shutdown, result,
                   stopped, done>>

\* Mutant: the requests in flight are not waited for.
NothingToWaitFor(p) == {"nil"}

\* Mutant: the error is returned as it is, not as a failed shutdown.
ErrorUnwrapped(p) ==
    {r \in {"nil", "deadline exceeded"} : IF r = "nil" THEN inflight = 0 ELSE expired[p]}

\* What httpServer.Shutdown may return; nothing while it waits.  It polls, and
\* may notice the end of its context before that of the last request.
HttpResult(p) ==
    {r \in {"nil", "error"} : IF r = "nil" THEN inflight = 0 ELSE expired[p]}

HttpOver(p) ==
    /\ pc[p] = "http"
    /\ \E r \in HttpResult(p) : result' = [result EXCEPT ![p] = r]
    /\ IF p = Runner THEN Goto(p, "close") ELSE Goto(p, "returned")
    /\ UNCHANGED <<lifecycle, ready, checking, http, shutdown, stopped, done>>

CloseDone ==
    /\ pc[Runner] = "close"
    /\ done' = TRUE
    /\ Goto(Runner, "returned")
    /\ UNCHANGED <<lifecycle, ready, checking, http, shutdown, result, stopped>>

\* Stop; a second one would panic.
Stop(p) ==
    /\ pc[p] = "idle"
    /\ ~stopped
    /\ stopped' = TRUE
    /\ Return(p, "stopped")
    /\ UNCHANGED <<lifecycle, ready, checking, http, shutdown, done>>

----
(* The world around. *)

\* CheckHealth, by a probe or in the background, holds hm.mu all the time.
CheckStarts ==
    /\ ~checking
    /\ checking' = TRUE
    /\ UNCHANGED <<pc, lifecycle, ready, http, shutdown, result, stopped, done>>

CheckEnds ==
    /\ checking
    /\ checking' = FALSE
    /\ UNCHANGED <<pc, lifecycle, ready, http, shutdown, result, stopped, done>>

RequestArrives ==
    /\ listening
    /\ inflight < MaxRequests
    /\ inflight' = inflight + 1
    /\ UNCHANGED <<pc, lifecycle, ready, checking, spawned, listening, httpDown, shutdown,
                   result, stopped, done>>

RequestEnds ==
    /\ inflight > 0
    /\ inflight' = inflight - 1
    /\ UNCHANGED <<pc, lifecycle, ready, checking, spawned, listening, httpDown, shutdown,
                   result, stopped, done>>

----
Step(p) ==
    \/ SetReady(p) \/ Listen(p) \/ SetUnready(p) \/ LaunchHooks(p) \/ Timeout(p)
    \/ HooksOver(p) \/ HttpOver(p)

Next ==
    \/ Start(Runner)
    \/ \E p \in Callers : Start(p) \/ Shutdown(p) \/ Stop(p)
    \/ Wakes
    \/ \E p \in Procs : Step(p) \/ \E h \in Hooks : HookReturns(p, h)
    \/ CloseDone
    \/ ListenAndServe
    \/ CheckStarts \/ CheckEnds
    \/ RequestArrives \/ RequestEnds

\* Goroutines run, the timer fires, and hm.mu is had by who keeps asking for it;
\* a health check ends, for its context does (5 s).  Hooks and requests may hang.
Fairness ==
    /\ \A p \in Procs : SF_vars(Step(p))
    /\ WF_vars(CloseDone) /\ WF_vars(stopped /\ Wakes)
    /\ WF_vars(CheckEnds)

Spec == Init /\ [][Next]_vars
FairSpec == Spec /\ Fairness

----
(* Properties. *)

TypeOK ==
    /\ pc \in [Procs -> Starting \cup ShuttingDown \cup {"idle", "wait", "close", "returned"}]
    /\ result \in [Procs -> {"none", "already running", "started", "skipped", "nil",
                             "error", "stopped"}]
    /\ running \in BOOLEAN /\ ready \in BOOLEAN /\ checking \in BOOLEAN
    /\ spawned \in Nat /\ listening \in BOOLEAN /\ httpDown \in BOOLEAN /\ inflight \in 0..MaxRequests
    /\ outstanding \in [Procs -> SUBSET Hooks] /\ expired \in [Procs -> BOOLEAN]
    /\ stopped \in BOOLEAN /\ done \in BOOLEAN
    /\ starts \in Nat /\ overlapped \in BOOLEAN /\ hookRuns \in [Hooks -> Nat]

\* However many goroutines call Shutdown, and whatever signals come, a started
\* server runs each of its hooks once at most.
HooksRunOncePerStart == \A h \in Hooks : hookRuns[h] <= starts

\* A server drains unready: while hooks run and requests finish, the readiness
\* probe fails, provided no Start was under way together with the Shutdown.
UnreadyWhileDraining ==
    ~overlapped => \A p \in Procs : pc[p] \in {"hooks", "http"} => ~ready

\* The Shutdown that did the work and returned nil has left no request in
\* flight, and none has come since, not even by a listener that started late.
NilMeansDrained == \A p \in Procs : result[p] = "nil" => inflight = 0 /\ ~listening

\* A stop request brings the runner to an end and closes doneCh, whatever hooks
\* and requests do: everything that is waited for has a time limit.
StopEnds == stopped /\ pc[Runner] = "wait" ~> done

\* "Done returns a channel that's closed when the server is done." (server.go):
\* once it is closed, no shutdown is still under way.
DoneMeansDone == done => \A p \in Procs : pc[p] \notin ShuttingDown
====
