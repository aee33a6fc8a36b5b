---- MODULE RagEngine ----
(***************************************************************************)
(* Documents go into and out of the knowledge base: Engine.IngestDocument, *)
(* Clear, Delete and Count (internal/rag/engine.go) over the               *)
(* InMemoryVectorStore (vectorstore.go), which keeps an index of the chunk *)
(* IDs of each namespace beside the chunks.                                *)
(*                                                                         *)
(* Goroutines ingest concurrently.  Splitting and embedding happen before  *)
(* the store is locked; each operation of the store is one step under its  *)
(* mutex.  The splitter gives every chunk a new UUID and the document's    *)
(* namespace; a caller that works on the store itself (GetVectorStore) may *)
(* upsert a chunk again, to replace its content or to move it.             *)
(***************************************************************************)
EXTENDS FiniteSets, Naturals

CONSTANTS
    Docs,           \* documents, each ingested by a goroutine of its own
    Ids,            \* chunk IDs; bound: each is given out once
    Namespaces,     \* the values of Metadata["namespace"]; "default" if there is none
    Absent,         \* no such chunk
    MayMove         \* TRUE: a caller may upsert a chunk again in another namespace

ASSUME AbsentAssumption == Absent \notin Namespaces
ASSUME MayMoveAssumption == MayMove \in BOOLEAN

VARIABLES
    chunks,         \* s.chunks: the namespace in each chunk's metadata, or Absent
    index,          \* s.namespaces: the IDs recorded for each namespace
    answer,         \* what the last Count returned
    home,           \* Metadata["namespace"] of each document
    pc,             \* the ingestion of each document
    batch,          \* the chunks that it has made
    used,           \* auxiliary: the UUIDs given out
    removed         \* auxiliary: the chunks that Delete or Clear was asked to remove

vars == <<chunks, index, answer, home, pc, batch, used, removed>>

store == <<chunks, index, answer>>

----
(* InMemoryVectorStore. *)

\* Mutant: only the first chunk of a namespace is recorded.
RecordFirst(S, ns) ==
    [n \in Namespaces |-> IF n = ns /\ index[n] = {} THEN S ELSE index[n]]

Recorded(S, ns) == [index EXCEPT ![ns] = @ \cup S]

\* Chunks S, of namespace ns, one after the other under the lock.
Upsert(S, ns) ==
    /\ chunks' = [id \in Ids |-> IF id \in S THEN ns ELSE chunks[id]]
    /\ index' = Recorded(S, ns)
    /\ UNCHANGED answer

\* Mutant: the index is forgotten.
Forgotten(S) == index

\* Each chunk is taken out of the index of the namespace it has now.
Unrecorded(S) == [n \in Namespaces |-> index[n] \ {id \in S : chunks[id] = n}]

Remove(S) ==
    /\ chunks' = [id \in Ids |-> IF id \in S THEN Absent ELSE chunks[id]]
    /\ index' = Unrecorded(S)
    /\ UNCHANGED answer

\* Mutant: the chunks are left to the garbage collector.
ClearIndexOnly(ns) ==
    /\ index' = [index EXCEPT ![ns] = {}]
    /\ UNCHANGED <<chunks, answer>>

RemoveNamespace(ns) ==
    /\ chunks' = [id \in Ids |-> IF id \in index[ns] THEN Absent ELSE chunks[id]]
    /\ index' = [index EXCEPT ![ns] = {}]
    /\ UNCHANGED answer

----
Init ==
    /\ chunks = [id \in Ids |-> Absent]
    /\ index = [ns \in Namespaces |-> {}]
    /\ answer = 0
    /\ home \in [Docs -> Namespaces]
    /\ pc = [d \in Docs |-> "new"]
    /\ batch = [d \in Docs |-> {}]
    /\ used = {}
    /\ removed = {}

\* The document is split; the goroutine goes off to embed the chunks.  An empty
\* document has none and is done.
Split(d) ==
    /\ pc[d] = "new"
    /\ \E S \in SUBSET (Ids \ used) :
          /\ batch' = [batch EXCEPT ![d] = S]
          /\ used' = used \cup S
          /\ pc' = [pc EXCEPT ![d] = IF S = {} THEN "stored" ELSE "embedding"]
    /\ UNCHANGED <<store, home, removed>>

EmbedFails(d) ==
    /\ pc[d] = "embedding"
    /\ pc' = [pc EXCEPT ![d] = "failed"]
    /\ UNCHANGED <<store, home, batch, used, removed>>

\* Mutant: the last chunk of a batch is skipped.
AllButOne(d) == {S \in SUBSET batch[d] : Cardinality(batch[d] \ S) = 1}

WholeBatch(d) == {batch[d]}

Store(d) ==
    /\ pc[d] = "embedding"
    /\ \E S \in WholeBatch(d) : Upsert(S, home[d])
    /\ pc' = [pc EXCEPT ![d] = "stored"]
    /\ UNCHANGED <<home, batch, used, removed>>

\* One chunk has got an empty embedding: those before it are stored, and the
\* call fails.
StoreFails(d) ==
    /\ pc[d] = "embedding"
    /\ \E S \in SUBSET batch[d] : S # batch[d] /\ Upsert(S, home[d])
    /\ pc' = [pc EXCEPT ![d] = "failed"]
    /\ UNCHANGED <<home, batch, used, removed>>

\* The caller tries again: the document is split into new chunks.
Retry(d) ==
    /\ pc[d] = "failed"
    /\ pc' = [pc EXCEPT ![d] = "new"]
    /\ batch' = [batch EXCEPT ![d] = {}]
    /\ UNCHANGED <<store, home, used, removed>>

\* Engine.Clear.
Clear(ns) ==
    /\ RemoveNamespace(ns)
    /\ removed' = removed \cup {id \in Ids : chunks[id] = ns}
    /\ UNCHANGED <<home, pc, batch, used>>

\* VectorStore.Delete of chunks; Engine.Delete passes the ID of a document,
\* which no chunk has: the case S = {}.
Delete(S) ==
    /\ Remove(S)
    /\ removed' = removed \cup S
    /\ UNCHANGED <<home, pc, batch, used>>

Count(ns) ==
    /\ answer' = Cardinality(index[ns])
    /\ UNCHANGED <<chunks, index, home, pc, batch, used, removed>>

\* Mutant: chunks and index entries are added up.
CountBoth ==
    /\ answer' = Cardinality({id \in Ids : chunks[id] # Absent})
                  + Cardinality(UNION {index[ns] : ns \in Namespaces})
    /\ UNCHANGED <<chunks, index, home, pc, batch, used, removed>>

\* Count("").
CountAll ==
    /\ answer' = Cardinality({id \in Ids : chunks[id] # Absent})
    /\ UNCHANGED <<chunks, index, home, pc, batch, used, removed>>

\* A chunk is upserted again by a caller of the store.
UpsertAgain(id, ns) ==
    /\ id \in used
    /\ chunks[id] = ns \/ MayMove
    /\ Upsert({id}, ns)
    /\ UNCHANGED <<home, pc, batch, used, removed>>

Next ==
    \/ \E d \in Docs : Split(d) \/ EmbedFails(d) \/ Store(d) \/ StoreFails(d) \/ Retry(d)
    \/ \E ns \in Namespaces : Clear(ns) \/ Count(ns)
    \/ CountAll
    \/ \E S \in SUBSET used : Delete(S)
    \/ \E id \in Ids, ns \in Namespaces : UpsertAgain(id, ns)

Spec == Init /\ [][Next]_vars

----
(* Properties. *)

TypeOK ==
    /\ chunks \in [Ids -> Namespaces \cup {Absent}]
    /\ index \in [Namespaces -> SUBSET Ids]
    /\ answer \in 0..Cardinality(Ids)
    /\ home \in [Docs -> Namespaces]
    /\ pc \in [Docs -> {"new", "embedding", "stored", "failed"}]
    /\ batch \in [Docs -> SUBSET used]
    /\ used \subseteq Ids /\ removed \subseteq Ids

\* Count and Clear work on the index and Search on the chunks: both always speak
\* of the same chunks, after any sequence of ingestions, retries, failures in
\* the middle of a batch, deletions and clears, as long as no chunk is moved.
IndexExact == \A ns \in Namespaces : index[ns] = {id \in Ids : chunks[id] = ns}

\* A document whose ingestion succeeded is in the store, complete and in its
\* namespace, until somebody removes chunks of it.
StoredUntilRemoved ==
    \A d \in Docs : pc[d] = "stored" =>
        \A id \in batch[d] \ removed : chunks[id] = home[d]

\* "Count returns the number of chunks in the store." (types.go), those of a
\* namespace if one is given: the size of the index is that number.
CountCorrect ==
    \A ns \in Namespaces :
        Cardinality(index[ns]) = Cardinality({id \in Ids : chunks[id] = ns})

\* The two maps behave as the one dictionary of module VectorStore.
Dictionary == INSTANCE VectorStore WITH content <- chunks
ImplementsVectorStore == Dictionary!Spec
====
