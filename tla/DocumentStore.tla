---- MODULE DocumentStore ----
(***************************************************************************)
(* What the knowledge base promises to those who ingest documents and ask  *)
(* questions, without embedder, batches, cache and transactions: a         *)
(* document is put in at once, all chunks of it, each with the embedding   *)
(* of its own text; whoever was told so is right; chunks leave one by one  *)
(* or with their namespace; and an answer is the right one of a single     *)
(* moment.                                                                 *)
(***************************************************************************)
EXTENDS Naturals, FiniteSets

CONSTANTS
    Docs,           \* documents
    Ids,            \* their chunks
    Parts,          \* Parts[d]: the chunks of document d
    Own,            \* Own[id] = [embedding, metadata], as its document has it
    Metadatas,      \* what a chunk can be upserted again with
    Questions,      \* what may be asked: [text, ...]
    Accepts,        \* Accepts[q]: the metadata that the filter of q lets pass
    TopK,           \* how many chunks an answer may have
    Absent          \* no chunk, no answer

VARIABLES
    chunks,         \* chunks[id]: like Own[id], or Absent
    told,           \* told[d]: what the caller was told, "nothing", "stored" or "failed"
    answer          \* [question, found], until it has been read, or Absent

baseVars == <<chunks, told, answer>>

Init ==
    /\ chunks = [id \in Ids |-> Absent]
    /\ told = [d \in Docs |-> "nothing"]
    /\ answer = Absent

Tell(d, what) == told' = [told EXCEPT ![d] = what]

\* The caller may not hear of it.
Store(d) ==
    /\ told[d] = "nothing"
    /\ Tell(d, "stored") \/ Tell(d, "failed")
    /\ chunks' = [id \in Ids |-> IF id \in Parts[d] THEN Own[id] ELSE chunks[id]]
    /\ UNCHANGED answer

Fail(d) ==
    /\ told[d] = "nothing"
    /\ Tell(d, "failed")
    /\ UNCHANGED <<chunks, answer>>

Remove(S) ==
    /\ chunks' = [id \in Ids |-> IF id \in S THEN Absent ELSE chunks[id]]
    /\ UNCHANGED <<told, answer>>

\* The chunks of a namespace, as their metadata say now.
Within(ns) == {id \in Ids : chunks[id] # Absent /\ chunks[id].metadata.namespace = ns}

Relabel(id, metadata) ==
    /\ chunks[id] # Absent
    /\ chunks' = [chunks EXCEPT ![id] = [embedding |-> @.embedding, metadata |-> metadata]]
    /\ UNCHANGED <<told, answer>>

Hits(q) ==
    {id \in Ids : /\ chunks[id] # Absent
                  /\ chunks[id].embedding = q.text
                  /\ chunks[id].metadata \in Accepts[q]}

\* All that there is, or as much of it as was asked for.
Answer(q) ==
    /\ \E S \in SUBSET Hits(q) :
          /\ Cardinality(S) <= TopK /\ (S = Hits(q) \/ Cardinality(S) = TopK)
          /\ answer' = [question |-> q, found |-> S]
    /\ UNCHANGED <<chunks, told>>

Read ==
    /\ answer' = Absent
    /\ UNCHANGED <<chunks, told>>

Next ==
    \/ \E d \in Docs : Store(d) \/ Fail(d)
    \/ \E metadata \in Metadatas : Remove(Within(metadata.namespace))
    \/ \E id \in Ids : Remove({id}) \/ \E metadata \in Metadatas : Relabel(id, metadata)
    \/ \E q \in Questions : Answer(q)
    \/ Read

Spec == Init /\ [][Next]_baseVars
====
