---- MODULE Ingestion ----
(***************************************************************************)
(* The RAG engine over the components it was written for: documents are    *)
(* ingested (Engine.IngestDocument) and queries answered (QueryWithFilters)*)
(* with one shared HTTPEmbedder and a PostgresVectorStore.  Goroutines     *)
(* ingest and ask concurrently, answers of the provider are incomplete,    *)
(* and calls of it and of the database fail.                               *)
(***************************************************************************)
EXTENDS HTTPEmbedder, KnowledgeBase

CONSTANTS
    Docs,           \* documents, each ingested by a goroutine of its own
    Querier,        \* the goroutine that asks
    TextsOf,        \* the chunks of each document: a sequence of texts
    MetadataOf,     \* the metadata of each document
    Relabels,       \* other metadata that a chunk may be upserted again with
    MayMove,        \* whether a chunk may be upserted again with another namespace
    Questions,      \* what may be asked: [text, filter, about]
    MaxQueries,     \* bound: queries
    MaxRemovals,    \* bound: calls of Delete, Clear, and Upsert of a stored chunk
    TopK,           \* SearchQuery.TopK
    Absent          \* no row, no answer

ASSUME QuerierAssumption == Querier \notin Docs /\ Callers = Docs \cup {Querier}
ASSUME TextsOfAssumption == TextsOf \in [Docs -> Seq(Texts)]
ASSUME QuestionsAssumption == \A q \in Questions : q.text \in Texts
ASSUME MayMoveAssumption == MayMove \in BOOLEAN

\* The splitter gives every chunk an ID of its own.
ChunksOf(d) == {<<d, i>> : i \in DOMAIN TextsOf[d]}
Ids == UNION {ChunksOf(d) : d \in Docs}
TextOf(id) == TextsOf[id[1]][id[2]]

Metadatas == {MetadataOf[d] : d \in Docs} \cup Relabels
Namespaces == {metadata.namespace : metadata \in Metadatas}

Rows == [text : Texts, embedding : Texts, metadata : Metadatas, column : Namespaces]

ASSUME AbsentAssumption ==
    /\ Absent \notin Rows \cup [embedding : Texts, metadata : Metadatas] \cup Questions
    /\ \A S \in SUBSET Ids : S # Absent
ASSUME FiniteAssumption == IsFiniteSet(Ids)
ASSUME TopKAssumption == TopK \in Nat

VARIABLES
    rows, tx,       \* of PostgresStore
    stage,          \* the ingestion of each document
    embeddings,     \* what Embed returned for the chunks
    done,           \* chunks upserted in the open transaction
    refused,        \* auxiliary: texts that the table refused
    removed,        \* auxiliary: chunks that were to be removed
    removals,       \* calls counted by MaxRemovals
    query,          \* the query: [asked, expected, allowed, found], of which
                    \* expected and allowed are auxiliary
    queries         \* queries counted by MaxQueries

INSTANCE PostgresStore WITH Clients <- Docs

tableVars == <<rows, tx>>
local == <<stage, embeddings, done, refused>>
others == <<removed, removals, query, queries>>
vars == <<embedderVars, tableVars, local, others>>

NoQuery == [asked |-> Absent, expected |-> {}, allowed |-> {}, found |-> Absent]

Init ==
    /\ EmbedderInit /\ StoreInit
    /\ stage = [d \in Docs |-> "new"]
    /\ embeddings = [d \in Docs |-> <<>>]
    /\ done = [d \in Docs |-> 0]
    /\ refused = {} /\ removed = {} /\ removals = 0
    /\ query = NoQuery /\ queries = 0

Goto(d, s) == stage' = [stage EXCEPT ![d] = s]

----
(* IngestDocument. *)

Ingest(d) ==
    /\ stage[d] = "new"
    /\ Embed(d, TextsOf[d])
    /\ Goto(d, "embedding")
    /\ UNCHANGED <<tableVars, embeddings, done, refused, others>>

Embedding(c) ==
    /\ EmbedStep(c)
    /\ UNCHANGED <<tableVars, local, others>>

\* The embeddings are attached to the chunks, and Upsert begins its transaction.
Embedded(d) ==
    /\ stage[d] = "embedding" /\ Returned(d)
    /\ Forget(d)
    /\ IF call[d].pc = "ok"
       THEN embeddings' = [embeddings EXCEPT ![d] = call[d].results] /\ Goto(d, "storing")
       ELSE UNCHANGED embeddings /\ Goto(d, "failed")
    /\ UNCHANGED <<cache, cacheSize, raced, leftOut, tableVars, done, refused, others>>

NextChunk(d) == done[d] + 1

StoreChunk(d) ==
    /\ stage[d] = "storing" /\ done[d] < Len(TextsOf[d])
    /\ LET i == NextChunk(d)
       IN  Exec(d, <<d, i>>, TextsOf[d][i], embeddings[d][i], MetadataOf[d])
    /\ done' = [done EXCEPT ![d] = NextChunk(d)]
    /\ UNCHANGED <<embedderVars, stage, embeddings, refused, others>>

\* Mutant: what has been written stays.
KeepWritten(d) == Commit(d)

UpsertFails(d) == Rollback(d)

\* The local variables are gone.
Leave(d) ==
    /\ done' = [done EXCEPT ![d] = 0]
    /\ embeddings' = [embeddings EXCEPT ![d] = <<>>]

Fail(d) ==
    /\ UpsertFails(d)
    /\ Leave(d)
    /\ Goto(d, "failed")

\* A chunk without an embedding makes the statement fail.
ChunkRefused(d) ==
    /\ stage[d] = "storing" /\ done[d] < Len(TextsOf[d])
    /\ embeddings[d][NextChunk(d)] = Empty
    /\ refused' = refused \cup {TextsOf[d][NextChunk(d)]}
    /\ Fail(d)
    /\ UNCHANGED <<embedderVars, others>>

\* The database fails, or the context is cancelled.
DatabaseFails(d) ==
    /\ stage[d] = "storing"
    /\ Fail(d)
    /\ UNCHANGED <<embedderVars, refused, others>>

\* The caller may fail to hear of the commit.
CommitChunks(d) ==
    /\ stage[d] = "storing" /\ done[d] = Len(TextsOf[d])
    /\ Commit(d)
    /\ Leave(d)
    /\ stage' \in {[stage EXCEPT ![d] = s] : s \in {"stored", "failed"}}
    /\ UNCHANGED <<embedderVars, refused, others>>

----
(* QueryWithFilters: the query is embedded, then the store searched. *)

\* What a question should be answered with: the chunks of this very text whose
\* metadata, as they are now, are of what it is about.
Fitting(q) ==
    {id \in Ids : /\ rows[id] # Absent
                  /\ rows[id].text = q.text
                  /\ rows[id].metadata \in q.about}

Ask(q) ==
    /\ query.found = Absent /\ query.asked = Absent
    /\ queries < MaxQueries
    /\ queries' = queries + 1
    /\ Embed(Querier, <<q.text>>)
    /\ query' = [NoQuery EXCEPT !.asked = q, !.expected = Fitting(q)]
    /\ UNCHANGED <<tableVars, local, removed, removals>>

\* Embed failed, or its nil embedding is refused by the database.
NoAnswer ==
    /\ query.asked # Absent /\ Returned(Querier)
    /\ call[Querier].pc = "ok" => call[Querier].results[1] = Empty
    /\ Forget(Querier)
    /\ query' = NoQuery
    /\ UNCHANGED <<cache, cacheSize, raced, leftOut, tableVars, local, removed, removals, queries>>

Answer ==
    /\ query.asked # Absent /\ call[Querier].pc = "ok" /\ call[Querier].results[1] # Empty
    /\ Forget(Querier)
    /\ \E S \in Search(call[Querier].results[1], query.asked.filter) :
          LET fitting == Fitting(query.asked)
          IN  query' = [query EXCEPT !.found = S, !.allowed = fitting, !.expected = @ \cap fitting]
    /\ UNCHANGED <<cache, cacheSize, raced, leftOut, tableVars, local, removed, removals, queries>>

\* The caller has its answer.
Read ==
    /\ query.found # Absent
    /\ query' = NoQuery
    /\ UNCHANGED <<embedderVars, tableVars, local, removed, removals, queries>>

----
(* Other callers of the store. *)

Other(S) ==
    /\ removals < MaxRemovals
    /\ removals' = removals + 1
    /\ removed' = removed \cup S
    /\ UNCHANGED <<embedderVars, local, query, queries>>

Removal ==
    \/ \E ns \in Namespaces : Clear(ns) /\ Other(RowsOf(ns))
    \/ \E id \in Ids : Delete({id}) /\ rows[id] # Absent /\ Other({id})
    \/ \E id \in Ids, metadata \in Metadatas :
          /\ UpsertAgain(id, metadata) /\ Other({})
          /\ MayMove \/ metadata.namespace = rows[id].metadata.namespace

\* Everything that was to be done is done.
Quiet == \A d \in Docs : stage[d] \in {"stored", "failed"}
Done == Quiet /\ query = NoQuery /\ UNCHANGED vars

\* What the goroutines do of themselves.
Work ==
    \/ \E d \in Docs :
          Embedded(d) \/ StoreChunk(d) \/ ChunkRefused(d) \/ DatabaseFails(d) \/ CommitChunks(d)
    \/ \E c \in Callers : Embedding(c)

Next ==
    \/ \E d \in Docs : Ingest(d)
    \/ Work
    \/ \E q \in Questions : Ask(q)
    \/ NoAnswer \/ Answer \/ Read
    \/ Removal \/ Done

\* The scheduler does not stop while a goroutine can run: requests end by the HTTP
\* client's timeout, statements by the database's.  Which one runs is open, and
\* nobody has to ask or to remove.
Spec == Init /\ [][Next]_vars
FairSpec == Spec /\ WF_vars(Work)

----
(* Properties. *)

TypeOK ==
    /\ cache \subseteq Texts \X (Texts \cup {Empty})
    /\ cacheSize \in Nat
    /\ \A c \in Callers : call[c].pc \in {"idle", "lookup", "request", "check", "put",
                                          "read", "write", "ok", "error"}
    /\ \A c \in Callers :
          /\ Len(call[c].uncached) <= Len(call[c].texts)
          /\ call[c].pc = "ok" /\ c \in Docs => Len(call[c].results) = Len(TextsOf[c])
    /\ rows \in [Ids -> Rows \cup {Absent}]
    /\ \A id \in Ids : rows[id] # Absent => rows[id].text = TextOf(id)
    /\ \A d \in Docs : DOMAIN tx[d] \subseteq ChunksOf(d)
    /\ \A ns \in Namespaces : Count(ns) <= CountAll
    /\ stage \in [Docs -> {"new", "embedding", "storing", "stored", "failed"}]
    /\ refused \subseteq Texts /\ removed \subseteq Ids

\* However cached and uncached texts, batches, duplicates and concurrent calls
\* mix: every chunk in the table has the embedding of its own text.
EmbeddingIsItsOwn == \A id \in Ids : rows[id] # Absent => rows[id].embedding = TextOf(id)

\* Whatever fails and at whatever point: of every document the table has all
\* chunks or none, except those that somebody removed.
AllOrNothing ==
    \A d \in Docs :
        LET present == {id \in ChunksOf(d) : rows[id] # Absent}
        IN  present # {} => ChunksOf(d) \ removed \subseteq present

\* An ingestion that succeeded is in the table, complete except for what was
\* removed, though chunks are upserted again.
StoredStays ==
    \A d \in Docs : stage[d] = "stored" =>
        \A id \in ChunksOf(d) \ removed : rows[id] # Absent

\* "Count returns the number of chunks in the store" (types.go:83) and "Clear removes
\* all chunks from the specified namespace" (types.go:80): what the table says of a
\* namespace is what the chunks themselves say.  The code keeps to that only until
\* a chunk is upserted again with another namespace: the column stays.
ColumnsExact ==
    \A ns \in Namespaces :
        RowsOf(ns) = {id \in Ids : rows[id] # Absent /\ rows[id].metadata.namespace = ns}

\* The cache keeps to its bound, and the counter never says less than is
\* cached, unless two callers were in cacheEmbedding together.
CacheBounded ==
    \/ raced
    \/ /\ Cardinality(cache) <= MaxCache
       /\ cacheSize <= MaxCache
       /\ (\A c \in Callers : ~InCache(c)) => Cardinality(cache) <= cacheSize

\* A text is refused only if the provider once left it out of an answer, to this
\* caller or, through the cache, to another.
RefusalExplained == refused \subseteq leftOut

\* Every row is right, and every document is all there or not at all.
StoreConsistent ==
    TypeOK /\ EmbeddingIsItsOwn /\ RefusalExplained /\ AllOrNothing /\ StoredStays

\* A filter lets pass what the question is about, and nothing else.
FiltersFit ==
    \A question \in Questions, metadata \in Metadatas :
        metadata \in question.about <=> Matches(question.filter, metadata)

\* What was stored when a query began, and is there when it is answered, is found,
\* unless more rows answer than TopK; and nothing is found but chunks of the text
\* whose metadata, at that moment, are of what the question is about.
QueryFindsStored ==
    query.found # Absent =>
        /\ query.found \subseteq query.allowed
        /\ query.expected \subseteq query.found \/ Cardinality(query.found) = TopK

\* What can be seen of a row from outside.
Shown(row) ==
    IF row = Absent THEN Absent ELSE [embedding |-> row.embedding, metadata |-> row.metadata]

\* Whatever is batched, cached, left out, rolled back and retried in between, and
\* however many goroutines do it: from outside a document is stored at once, and
\* a query answered from the table of a single moment.
Base == INSTANCE DocumentStore WITH
    Parts <- [d \in Docs |-> ChunksOf(d)],
    Own <- [id \in Ids |-> [embedding |-> TextOf(id), metadata |-> MetadataOf[id[1]]]],
    Accepts <- [question \in Questions |->
                  {metadata \in Metadatas : Matches(question.filter, metadata)}],
    chunks <- [id \in Ids |-> Shown(rows[id])],
    told <- [d \in Docs |-> IF stage[d] \in {"stored", "failed"} THEN stage[d] ELSE "nothing"],
    answer <- IF query.found = Absent THEN Absent
              ELSE [question |-> query.asked, found |-> query.found]

ImplementsDocumentStore == Base!Spec

\* Ingestions come to an end, one way or the other, whatever fails on the way.
IngestionsEnd == []<>(\A d \in Docs : stage[d] \notin {"embedding", "storing"})
====
