---- MODULE TemporalActivities ----
(***************************************************************************)
(* What the workflows of internal/temporal rely on from the Temporal       *)
(* service: the life of one activity, from workflow.ExecuteActivity to the *)
(* result that Future.Get returns.  Temporal itself is not in this         *)
(* repository; its behaviour is taken from how workflows.go uses it        *)
(* (retry policies, activity timeouts, cancellable contexts).              *)
(*                                                                         *)
(* A future is a record: its state, and the number of attempts made so far *)
(* while it is pending (0 again once it is resolved: a workflow cannot see *)
(* how many attempts an activity took).                                    *)
(***************************************************************************)
EXTENDS Naturals

\* The future of an activity that has not been scheduled (a nil Future).
NoFuture == [state |-> "idle", attempt |-> 0]

\* ExecuteActivity: on a cancelled context it resolves at once.
Scheduled(ctxCancelled) ==
    [state |-> IF ctxCancelled THEN "canceled" ELSE "scheduled", attempt |-> 0]

Pending(f)  == f.state \in {"scheduled", "running"}
Resolved(f) == f.state \in {"ok", "failed", "canceled"}

\* A worker picks the next attempt up.  An activity without a limit (max = 0)
\* keeps no count: nothing ever depends on it.
Started(f, max) ==
    [state |-> "running", attempt |-> IF max = 0 THEN 0 ELSE f.attempt + 1]

Succeeded == [state |-> "ok", attempt |-> 0]

\* The attempt ended in an error or timed out: the service schedules the next
\* one while the policy allows it.
RetryOrFail(f, max) ==
    IF max = 0 \/ f.attempt < max
    THEN [state |-> "scheduled", attempt |-> f.attempt]
    ELSE [state |-> "failed", attempt |-> 0]

\* Cancellation of the workflow's context resolves what is pending at once
\* (ActivityOptions.WaitForCancellation is never set).
Cancelled(f) == IF Pending(f) THEN [state |-> "canceled", attempt |-> 0] ELSE f

FutureType(max) ==
    [state : {"idle", "scheduled", "running", "ok", "failed", "canceled"},
     attempt : 0..max]
====
