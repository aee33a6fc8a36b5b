---- MODULE VectorStore ----
(***************************************************************************)
(* What the interface VectorStore of internal/rag/types.go promises: a     *)
(* dictionary of chunks, each in one namespace.  A chunk is known by its   *)
(* ID; content, embedding and scores are left out.                         *)
(***************************************************************************)
EXTENDS FiniteSets

CONSTANTS
    Ids,            \* chunk IDs
    Namespaces,     \* namespace names
    Absent          \* no such chunk

VARIABLES
    content,        \* the namespace of each chunk, or Absent
    answer          \* what the last Count returned

storeVars == <<content, answer>>

In(ns) == {id \in Ids : content[id] = ns}

Init ==
    /\ content = [id \in Ids |-> Absent]
    /\ answer = 0

\* Chunks are added or updated: all of a call's, or some if the call fails.
Upsert ==
    /\ \E S \in SUBSET Ids : \E f \in [S -> Namespaces] :
          content' = [id \in Ids |-> IF id \in S THEN f[id] ELSE content[id]]
    /\ UNCHANGED answer

Delete ==
    /\ \E S \in SUBSET Ids :
          content' = [id \in Ids |-> IF id \in S THEN Absent ELSE content[id]]
    /\ UNCHANGED answer

Clear ==
    /\ \E ns \in Namespaces :
          content' = [id \in Ids |-> IF id \in In(ns) THEN Absent ELSE content[id]]
    /\ UNCHANGED answer

Count ==
    /\ \E ns \in Namespaces : answer' = Cardinality(In(ns))
    /\ UNCHANGED content

CountAll ==
    /\ answer' = Cardinality({id \in Ids : content[id] # Absent})
    /\ UNCHANGED content

Next == Upsert \/ Delete \/ Clear \/ Count \/ CountAll

Spec == Init /\ [][Next]_storeVars
====
