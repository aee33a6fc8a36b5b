---- MODULE MCIngestion ----
(***************************************************************************)
(* Two documents that share a text; the first has it twice and needs two   *)
(* batches.  A caller ingests it, on tuning: it answers the question, on   *)
(* performance, until its chunks are upserted again as a matter of         *)
(* security.  The other is an incident of the knowledge base.              *)
(***************************************************************************)
EXTENDS Ingestion, TLC

CONSTANTS d1, d2, a, b, q

MCTextsOf == (d1 :> <<b, a, b>>) @@ (d2 :> <<b>>)
MCTuning == [category |-> "performance", namespace |-> "security"]
MCMetadataOf == (d1 :> MCTuning) @@ (d2 :> IngestIncident)
MCRelabels == {IngestSecurityGuidelines}
MCQuestions == {[text |-> b, filter |-> QueryPerformance, about |-> {MCTuning}]}
====
