---- MODULE AnalysisContract ----
(***************************************************************************)
(* What one analysis promises to whoever started it, without its           *)
(* activities: it decides once what it found, it closes once, an execution *)
(* that has decided closes as completed and in no other way, and alerts go *)
(* out only for a decision that something is critical, at most MaxAlerts.  *)
(***************************************************************************)
EXTENDS Naturals

CONSTANT MaxAlerts

VARIABLES
    decision,   \* "none", "quiet" or "critical"
    result,     \* "open", "completed", "failed" or "canceled"
    sent        \* alerts sent

contractVars == <<decision, result, sent>>

Init == decision = "none" /\ result = "open" /\ sent = 0

Decide ==
    /\ decision = "none" /\ result = "open"
    /\ decision' \in {"quiet", "critical"}
    /\ UNCHANGED <<result, sent>>

\* Also after the close: an attempt given up by the service may still send.
SendAlert ==
    /\ decision = "critical"
    /\ sent < MaxAlerts
    /\ sent' = sent + 1
    /\ UNCHANGED <<decision, result>>

Complete ==
    /\ decision # "none" /\ result = "open"
    /\ result' = "completed"
    /\ UNCHANGED <<decision, sent>>

GiveUp ==
    /\ decision = "none" /\ result = "open"
    /\ result' \in {"failed", "canceled"}
    /\ UNCHANGED <<decision, sent>>

Next == Decide \/ SendAlert \/ Complete \/ GiveUp

Spec == Init /\ [][Next]_contractVars
====
