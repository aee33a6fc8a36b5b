---- MODULE PostgresStore ----
(***************************************************************************)
(* PostgresVectorStore (internal/rag/vectorstore_postgres.go): one table,  *)
(* a row for each chunk with a namespace column beside the metadata.       *)
(*                                                                         *)
(* external: PostgreSQL at READ COMMITTED.  The rows that a transaction    *)
(* has written are seen by nobody else before Commit, and a row of the     *)
(* table that it has updated is locked until then; every other call is one *)
(* statement, and so one step.  A broken connection rolls back.            *)
(***************************************************************************)
EXTENDS Naturals, Sequences, FiniteSets, KnowledgeBase

CONSTANTS
    Clients,        \* goroutines that call Upsert
    Ids,            \* chunk IDs
    Absent,         \* no such row
    Empty,          \* the empty embedding, "[]", which the vector column rejects
    TopK            \* SearchQuery.TopK

VARIABLES
    rows,           \* rows[id] = [text, embedding, metadata, column], or Absent
    tx              \* tx[c]: the rows written by the open transaction, [id |-> row]

NoTx == [id \in {} |-> Absent]

StoreInit ==
    /\ rows = [id \in Ids |-> Absent]
    /\ tx = [c \in Clients |-> NoTx]

----
Locked(id) == \E c \in Clients : id \in DOMAIN tx[c] /\ rows[id] # Absent
Unlocked(id, c) == \A d \in Clients \ {c} : id \notin DOMAIN tx[d]

\* INSERT ... ON CONFLICT (id) DO UPDATE: content, embedding and metadata are
\* replaced, the namespace column of an existing row stays.
Written(id, text, embedding, metadata) ==
    [text |-> text, embedding |-> embedding, metadata |-> metadata,
     column |-> IF rows[id] = Absent THEN metadata.namespace ELSE rows[id].column]

Exec(c, id, text, embedding, metadata) ==
    /\ embedding # Empty
    /\ Unlocked(id, c)
    /\ tx' = [tx EXCEPT ![c] = [i \in DOMAIN @ \cup {id} |->
                                  IF i = id THEN Written(id, text, embedding, metadata) ELSE @[i]]]
    /\ UNCHANGED rows

Commit(c) ==
    /\ rows' = [id \in Ids |-> IF id \in DOMAIN tx[c] THEN tx[c][id] ELSE rows[id]]
    /\ tx' = [tx EXCEPT ![c] = NoTx]

\* defer tx.Rollback(), after an error.
Rollback(c) ==
    /\ tx' = [tx EXCEPT ![c] = NoTx]
    /\ UNCHANGED rows

\* A chunk that exists is upserted again, in a transaction of its own.
UpsertAgain(id, metadata) ==
    /\ rows[id] # Absent
    /\ ~Locked(id)
    /\ rows' = [rows EXCEPT ![id] = Written(id, @.text, @.embedding, metadata)]
    /\ UNCHANGED tx

DeleteWhere(S) ==
    /\ \A id \in S : ~Locked(id)
    /\ rows' = [id \in Ids |-> IF id \in S THEN Absent ELSE rows[id]]
    /\ UNCHANGED tx

RowsOf(ns) == {id \in Ids : rows[id] # Absent /\ rows[id].column = ns}

Delete(S) == DeleteWhere({id \in S : rows[id] # Absent})

Clear(ns) == DeleteWhere(RowsOf(ns))

Count(ns) == Cardinality(RowsOf(ns))

\* Count("").
CountAll == Cardinality({id \in Ids : rows[id] # Absent})

\* The best TopK of the rows S for an embedding, ties broken in any order.  A row
\* of the very text is at distance 0, the others do not reach the minimal score.
Nearest(embedding, S) ==
    LET hits == {id \in S : rows[id].embedding = embedding}
        enough == IF Cardinality(hits) < TopK THEN Cardinality(hits) ELSE TopK
    IN  {T \in SUBSET hits : Cardinality(T) = enough}

\* Mutant: the filters are left out of the WHERE clause.
Unfiltered(filter) == {id \in Ids : rows[id] # Absent}

\* The rows whose metadata pass the filters.  (A namespace column asked for by
\* SearchQuery.Namespace is a conjunct more; the engine never asks for it.)
Matching(filter) == {id \in Ids : rows[id] # Absent /\ Matches(filter, rows[id].metadata)}

\* Mutant: LIMIT is applied before the WHERE clause.
LimitFirst(embedding, filter) ==
    {T \cap Matching(filter) : T \in Nearest(embedding, {id \in Ids : rows[id] # Absent})}

\* What Search may return.
Search(embedding, filter) == Nearest(embedding, Matching(filter))
====
