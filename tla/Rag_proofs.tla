---- MODULE Rag_proofs ----
(***************************************************************************)
(* Theorems about what a document goes through: the splitters, for every   *)
(* document and configuration, and the engine with the in-memory store,    *)
(* for every set of documents, chunk IDs and namespaces, as long as no     *)
(* chunk is moved between namespaces.                                      *)
(***************************************************************************)
EXTENDS RagEngine, Splitter, FiniteSetTheorems, WellFoundedInduction, TLAPS

----
(* The engine. *)

\* A chunk of an unfinished document is not in the store, no chunk belongs to
\* two documents, and only UUIDs that were given out are in the store.
FreshBatches ==
    /\ batch \in [Docs -> SUBSET Ids]
    /\ used \subseteq Ids
    /\ \A d \in Docs : batch[d] \subseteq used
    /\ \A d \in Docs : pc[d] = "new" => batch[d] = {}
    /\ \A d, e \in Docs : d # e => batch[d] \cap batch[e] = {}
    /\ \A d \in Docs : pc[d] = "embedding" => \A id \in batch[d] : chunks[id] = Absent
    /\ \A id \in Ids : chunks[id] # Absent => id \in used

Types ==
    /\ chunks \in [Ids -> Namespaces \cup {Absent}]
    /\ index \in [Namespaces -> SUBSET Ids]
    /\ home \in [Docs -> Namespaces]
    /\ pc \in [Docs -> {"new", "embedding", "stored", "failed"}]

IInv == Types /\ FreshBatches /\ IndexExact

----
(* The store's operations keep chunks and index together. *)

LEMMA UpsertExact ==
    ASSUME Types, IndexExact, NEW S \in SUBSET Ids, NEW ns \in Namespaces, Upsert(S, ns),
           \A id \in S : chunks[id] \in {Absent, ns}
    PROVE  /\ IndexExact'
           /\ chunks' \in [Ids -> Namespaces \cup {Absent}]
           /\ index' \in [Namespaces -> SUBSET Ids]
           /\ \A id \in Ids : id \notin S => chunks'[id] = chunks[id]
  BY AbsentAssumption DEF Types, IndexExact, Upsert, Recorded

LEMMA RemoveExact ==
    ASSUME Types, IndexExact, NEW S \in SUBSET Ids, Remove(S)
    PROVE  /\ IndexExact'
           /\ chunks' \in [Ids -> Namespaces \cup {Absent}]
           /\ index' \in [Namespaces -> SUBSET Ids]
           /\ \A id \in Ids : chunks'[id] \in {chunks[id], Absent}
  BY AbsentAssumption DEF Types, IndexExact, Remove, Unrecorded

LEMMA RemoveNamespaceExact ==
    ASSUME Types, IndexExact, NEW ns \in Namespaces, RemoveNamespace(ns)
    PROVE  /\ IndexExact'
           /\ chunks' \in [Ids -> Namespaces \cup {Absent}]
           /\ index' \in [Namespaces -> SUBSET Ids]
           /\ \A id \in Ids : chunks'[id] \in {chunks[id], Absent}
  BY AbsentAssumption DEF Types, IndexExact, RemoveNamespace

----
LEMMA InitInvariant == Init => IInv
  BY AbsentAssumption DEF Init, IInv, Types, FreshBatches, IndexExact

LEMMA NextInvariant ==
    ASSUME MayMove = FALSE, IInv, Next
    PROVE  IInv'
  <1> USE DEF IInv
  <1>1. ASSUME NEW d \in Docs, Split(d) PROVE IInv'
    <2> PICK S \in SUBSET (Ids \ used) :
            /\ batch' = [batch EXCEPT ![d] = S]
            /\ used' = used \cup S
            /\ pc' = [pc EXCEPT ![d] = IF S = {} THEN "stored" ELSE "embedding"]
      BY <1>1 DEF Split
    <2>1. UNCHANGED <<chunks, index, home>>
      BY <1>1 DEF Split, store
    <2>2. Types' /\ IndexExact'
      BY <2>1 DEF Types, IndexExact
    <2>3. FreshBatches'
      BY <2>1 DEF FreshBatches, Types
    <2> QED BY <2>2, <2>3
  <1>2. ASSUME NEW d \in Docs, Store(d) \/ StoreFails(d) PROVE IInv'
    <2>1. PICK S \in SUBSET batch[d] : Upsert(S, home[d])
      BY <1>2 DEF Store, StoreFails, WholeBatch
    <2>2. /\ UNCHANGED <<home, batch, used>>
          /\ pc[d] = "embedding"
          /\ pc' \in {[pc EXCEPT ![d] = "stored"], [pc EXCEPT ![d] = "failed"]}
      BY <1>2 DEF Store, StoreFails
    <2>3. S \in SUBSET Ids /\ home[d] \in Namespaces /\ \A id \in S : chunks[id] = Absent
      BY <2>1, <2>2 DEF FreshBatches, Types
    <2>4. /\ IndexExact'
          /\ chunks' \in [Ids -> Namespaces \cup {Absent}]
          /\ index' \in [Namespaces -> SUBSET Ids]
          /\ \A id \in Ids : id \notin S => chunks'[id] = chunks[id]
      BY <2>1, <2>3, UpsertExact
    <2>5. Types'
      BY <2>2, <2>4 DEF Types
    <2>6. \A e \in Docs : pc'[e] = "embedding" => e # d /\ pc[e] = "embedding"
      BY <2>2 DEF Types
    <2>7. FreshBatches'
      BY <2>1, <2>2, <2>4, <2>6 DEF FreshBatches, Types
    <2> QED BY <2>4, <2>5, <2>7
  <1>3. ASSUME NEW d \in Docs, EmbedFails(d) PROVE IInv'
    BY <1>3 DEF EmbedFails, store, Types, FreshBatches, IndexExact
  <1>4. ASSUME NEW d \in Docs, Retry(d) PROVE IInv'
    BY <1>4 DEF Retry, store, Types, FreshBatches, IndexExact
  <1>5. ASSUME NEW ns \in Namespaces, Clear(ns) PROVE IInv'
    BY <1>5, RemoveNamespaceExact DEF Clear, Types, FreshBatches
  <1>6. ASSUME NEW S \in SUBSET used, Delete(S) PROVE IInv'
    BY <1>6, RemoveExact DEF Delete, Types, FreshBatches
  <1>7. ASSUME NEW id \in Ids, NEW ns \in Namespaces, UpsertAgain(id, ns) PROVE IInv'
    <2>1. /\ IndexExact'
          /\ chunks' \in [Ids -> Namespaces \cup {Absent}]
          /\ index' \in [Namespaces -> SUBSET Ids]
          /\ chunks' = chunks
      <3>1. chunks[id] = ns /\ Upsert({id}, ns)
        BY <1>7 DEF UpsertAgain
      <3>2. chunks' = chunks
        BY <3>1 DEF Upsert, Types
      <3> QED BY <3>1, <3>2, UpsertExact
    <2> QED BY <1>7, <2>1 DEF UpsertAgain, Types, FreshBatches
  <1>8. ASSUME CountAll \/ \E ns \in Namespaces : Count(ns) PROVE IInv'
    BY <1>8 DEF CountAll, Count, Types, FreshBatches, IndexExact
  <1> QED BY <1>1, <1>2, <1>3, <1>4, <1>5, <1>6, <1>7, <1>8 DEF Next

LEMMA Invariance ==
    ASSUME MayMove = FALSE
    PROVE  Spec => []IInv
  <1>1. IInv /\ [Next]_vars => IInv'
    <2> SUFFICES ASSUME IInv, [Next]_vars PROVE IInv'
      OBVIOUS
    <2>1. CASE Next
      BY <2>1, NextInvariant
    <2>2. CASE UNCHANGED vars
      BY <2>2 DEF vars, IInv, Types, FreshBatches, IndexExact
    <2> QED BY <2>1, <2>2
  <1> QED BY <1>1, InitInvariant, PTL DEF Spec

\* As long as chunks keep their namespace, the index of the in-memory store is
\* exact, whatever is ingested, retried, half stored, deleted and cleared.
THEOREM IndexIsExact ==
    ASSUME MayMove = FALSE
    PROVE  Spec => []IndexExact
  <1>1. IInv => IndexExact
    BY DEF IInv
  <1> QED BY <1>1, Invariance, PTL

\* And Count returns the number of chunks.
THEOREM CountIsCorrect ==
    ASSUME MayMove = FALSE
    PROVE  Spec => []CountCorrect
  <1>1. IndexExact => CountCorrect
    BY DEF IndexExact, CountCorrect
  <1> QED BY <1>1, IndexIsExact, PTL

\* The variables keep their types, Count never returns more than there are chunks,
\* and a batch holds only UUIDs that were given out.
THEOREM TypeCorrect ==
    ASSUME MayMove = FALSE, IsFiniteSet(Ids)
    PROVE  Spec => []TypeOK
  <1> DEFINE More == answer \in 0..Cardinality(Ids) /\ removed \subseteq Ids
  <1>1. \A S \in SUBSET Ids : Cardinality(S) \in 0..Cardinality(Ids)
    BY FS_Subset, FS_CardinalityType
  <1>2. Init => More
    BY FS_CardinalityType DEF Init
  <1>3. IInv /\ More /\ [Next]_vars => More'
    <2> SUFFICES ASSUME IInv, More, [Next]_vars PROVE More'
      OBVIOUS
    <2> USE DEF IInv
    <2>1. ASSUME NEW d \in Docs, Split(d) \/ EmbedFails(d) \/ Store(d) \/ StoreFails(d) \/ Retry(d)
          PROVE  UNCHANGED <<answer, removed>>
      BY <2>1 DEF Split, EmbedFails, Store, StoreFails, Retry, Upsert, store
    <2>2. ASSUME NEW ns \in Namespaces, Clear(ns) PROVE More'
      BY <2>2 DEF Clear, RemoveNamespace
    <2>3. ASSUME NEW S \in SUBSET used, Delete(S) PROVE More'
      BY <2>3 DEF Delete, Remove, FreshBatches
    <2>4. ASSUME NEW ns \in Namespaces, Count(ns) PROVE More'
      BY <1>1, <2>4 DEF Count, Types
    <2>5. CASE CountAll
      BY <1>1, <2>5 DEF CountAll
    <2>6. ASSUME NEW id \in Ids, NEW ns \in Namespaces, UpsertAgain(id, ns)
          PROVE  UNCHANGED <<answer, removed>>
      BY <2>6 DEF UpsertAgain, Upsert
    <2>7. CASE UNCHANGED vars
      BY <2>7 DEF vars
    <2> QED BY <2>1, <2>2, <2>3, <2>4, <2>5, <2>6, <2>7 DEF Next
  <1>4. IInv /\ More => TypeOK
    BY DEF IInv, Types, FreshBatches, TypeOK
  <1> QED BY <1>2, <1>3, <1>4, Invariance, PTL DEF Spec

----
(* The engine over the in-memory store implements the interface. *)

\* A chunk of a stored document is where the document belongs, or was removed.
THEOREM StoredStays ==
    ASSUME MayMove = FALSE
    PROVE  Spec => []StoredUntilRemoved
  <1>1. Init => StoredUntilRemoved
    BY DEF Init, StoredUntilRemoved
  <1>2. IInv /\ StoredUntilRemoved /\ [Next]_vars => StoredUntilRemoved'
    <2> SUFFICES ASSUME IInv, StoredUntilRemoved, [Next]_vars PROVE StoredUntilRemoved'
      OBVIOUS
    <2> USE DEF IInv
    <2>1. ASSUME NEW d \in Docs, Split(d) PROVE StoredUntilRemoved'
      BY <2>1 DEF Split, store, StoredUntilRemoved, Types, FreshBatches
    <2>2. ASSUME NEW d \in Docs, Store(d) PROVE StoredUntilRemoved'
      <3>1. /\ \A id \in Ids : chunks'[id] = IF id \in batch[d] THEN home[d] ELSE chunks[id]
            /\ pc' = [pc EXCEPT ![d] = "stored"]
            /\ UNCHANGED <<home, batch, removed>>
        BY <2>2 DEF Store, WholeBatch, Upsert
      <3> QED BY <3>1 DEF StoredUntilRemoved, Types, FreshBatches
    <2>3. ASSUME NEW d \in Docs, StoreFails(d) PROVE StoredUntilRemoved'
      <3>1. PICK S \in SUBSET batch[d] : Upsert(S, home[d])
        BY <2>3 DEF StoreFails
      <3>2. /\ \A id \in Ids : chunks'[id] = IF id \in S THEN home[d] ELSE chunks[id]
            /\ pc' = [pc EXCEPT ![d] = "failed"]
            /\ UNCHANGED <<home, batch, removed>>
        BY <2>3, <3>1 DEF StoreFails, Upsert
      <3> QED BY <3>2 DEF StoredUntilRemoved, Types, FreshBatches
    <2>4. ASSUME NEW d \in Docs, EmbedFails(d) \/ Retry(d) PROVE StoredUntilRemoved'
      BY <2>4 DEF EmbedFails, Retry, store, StoredUntilRemoved, Types, FreshBatches
    <2>5. ASSUME NEW ns \in Namespaces, Clear(ns) PROVE StoredUntilRemoved'
      BY <2>5 DEF Clear, RemoveNamespace, IndexExact, StoredUntilRemoved, Types, FreshBatches
    <2>6. ASSUME NEW S \in SUBSET used, Delete(S) PROVE StoredUntilRemoved'
      BY <2>6 DEF Delete, Remove, StoredUntilRemoved, Types, FreshBatches
    <2>7. ASSUME NEW id \in Ids, NEW ns \in Namespaces, UpsertAgain(id, ns), MayMove = FALSE
          PROVE  StoredUntilRemoved'
      BY <2>7 DEF UpsertAgain, Upsert, StoredUntilRemoved, Types, FreshBatches
    <2>8. CASE CountAll \/ (\E ns \in Namespaces : Count(ns)) \/ UNCHANGED vars
      BY <2>8 DEF CountAll, Count, vars, StoredUntilRemoved
    <2> QED BY <2>1, <2>2, <2>3, <2>4, <2>5, <2>6, <2>7, <2>8 DEF Next
  <1> QED BY <1>1, <1>2, Invariance, PTL DEF Spec

\* Both modules take Cardinality from FiniteSets.
LEMMA SameCardinality == \A S : Dictionary!Cardinality(S) = Cardinality(S)
  BY Zenon DEF Dictionary!Cardinality, Cardinality

\* The engine with the in-memory store is the dictionary that the interface
\* VectorStore promises: ingestion, also one that fails half-way, is an Upsert
\* or nothing, and Count and Clear, which go by the index, speak of the chunks.
THEOREM EngineImplementsStore ==
    ASSUME MayMove = FALSE
    PROVE  Spec => ImplementsVectorStore
  <1>1. Init => Dictionary!Init
    BY DEF Init, Dictionary!Init
  <1>2. IInv /\ [Next]_vars => [Dictionary!Next]_(Dictionary!storeVars)
    <2> SUFFICES ASSUME IInv, [Next]_vars
                 PROVE  Dictionary!Next \/ UNCHANGED Dictionary!storeVars
      OBVIOUS
    <2> USE DEF IInv, Dictionary!Next, Dictionary!storeVars
    <2>1. ASSUME NEW S \in SUBSET Ids, NEW ns \in Namespaces, Upsert(S, ns)
          PROVE  Dictionary!Upsert
      <3> DEFINE f == [id \in S |-> ns]
      <3>1. f \in [S -> Namespaces]
        OBVIOUS
      <3>2. chunks' = [id \in Ids |-> IF id \in S THEN f[id] ELSE chunks[id]]
        BY <2>1 DEF Upsert
      <3>3. UNCHANGED answer
        BY <2>1 DEF Upsert
      <3> QED BY <3>1, <3>2, <3>3 DEF Dictionary!Upsert
    <2>2. ASSUME NEW d \in Docs, Store(d) \/ StoreFails(d) PROVE Dictionary!Next
      <3>1. PICK S \in SUBSET batch[d] : Upsert(S, home[d])
        BY <2>2 DEF Store, StoreFails, WholeBatch
      <3> QED BY <2>1, <3>1 DEF Types, FreshBatches
    <2>3. ASSUME NEW d \in Docs, Split(d) \/ EmbedFails(d) \/ Retry(d)
          PROVE  UNCHANGED Dictionary!storeVars
      BY <2>3 DEF Split, EmbedFails, Retry, store
    <2>4. ASSUME NEW ns \in Namespaces, Clear(ns) PROVE Dictionary!Clear
      <3>1. index[ns] = {id \in Ids : chunks[id] = ns}
        BY DEF IndexExact
      <3> QED BY <2>4, <3>1 DEF Clear, RemoveNamespace, Dictionary!Clear, Dictionary!In
    <2>5. ASSUME NEW S \in SUBSET used, Delete(S) PROVE Dictionary!Delete
      BY <2>5 DEF Delete, Remove, Dictionary!Delete, FreshBatches
    <2>6. ASSUME NEW ns \in Namespaces, Count(ns) PROVE Dictionary!Count
      <3>1. index[ns] = Dictionary!In(ns)
        BY DEF IndexExact, Dictionary!In
      <3>2. answer' = Dictionary!Cardinality(Dictionary!In(ns)) /\ UNCHANGED chunks
        BY <2>6, <3>1, SameCardinality DEF Count
      <3> QED BY <3>2 DEF Dictionary!Count
    <2>7. CASE CountAll
      BY <2>7, SameCardinality DEF CountAll, Dictionary!CountAll
    <2>8. ASSUME NEW id \in Ids, NEW ns \in Namespaces, UpsertAgain(id, ns)
          PROVE  Dictionary!Next
      BY <2>1, <2>8 DEF UpsertAgain
    <2>9. CASE UNCHANGED vars
      BY <2>9 DEF vars
    <2> QED BY <2>2, <2>3, <2>4, <2>5, <2>6, <2>7, <2>8, <2>9 DEF Next
  <1> QED BY <1>1, <1>2, Invariance, PTL DEF Spec, ImplementsVectorStore, Dictionary!Spec

----
(* The splitters: what the proofs are about. *)

Alphabet == STRING \cup Space \cup {Stop}
Chars == [char : Alphabet, at : Nat]
Spans == [from : Int, to : Int]
Frames == [level : DOMAIN Separators, rest : Spans, good : Seq(Spans), large : Spans]

Kinds == {"recursive", "sentence"}

SplitterTypes ==
    /\ content \in Seq(Alphabet)
    /\ config \in [kind : Kinds, size : Nat \ {0}, overlap : Nat, keep : BOOLEAN, strip : BOOLEAN]
    /\ config.overlap < config.size
    /\ calls \in Seq(Frames)
    /\ merged \in Seq(Chars)
    /\ texts \in Seq(Seq(Chars))
    /\ placed \in Seq([start : Nat, end : Nat])
    /\ offset \in Nat

\* No letter is lost between the positions.
NoLetters(from, to) == \A p \in Letters : ~(from <= p /\ p <= to)
Follows(a, b) == a < b /\ NoLetters(a + 1, b - 1)

InPlace(span) == 1 <= span.from /\ span.from <= span.to /\ span.to <= Len(content)

\* What is pending in a call: its good splits, the large one and the rest.
AfterGood(f) == IF IsEmpty(f.large) THEN f.rest.from ELSE f.large.from
Start(f) == IF f.good = <<>> THEN AfterGood(f) ELSE f.good[1].from

RestOK(f) == 1 <= f.rest.from /\ f.rest.from <= f.rest.to + 1 /\ f.rest.to <= Len(content)
GoodOK(f) ==
    /\ \A j \in DOMAIN f.good : InPlace(f.good[j]) /\ Size(f.good[j]) < config.size
    /\ \A j \in 1..(Len(f.good) - 1) : Follows(f.good[j].to, f.good[j + 1].from)
    /\ f.good # <<>> => Follows(f.good[Len(f.good)].to, AfterGood(f))
LargeOK(f) ==
    ~IsEmpty(f.large) =>
        /\ InPlace(f.large) /\ Follows(f.large.to, f.rest.from)
        /\ f.level = Len(Separators) => Size(f.large) = 1

Waiting(f) == f.good = <<>> /\ IsEmpty(f.large)

\* What the calls of a sequence have left of the document is consecutive.
CallsOK(cs) ==
    /\ \A i \in DOMAIN cs : RestOK(cs[i]) /\ GoodOK(cs[i]) /\ LargeOK(cs[i])
    /\ \A i \in 1..(Len(cs) - 1) : Waiting(cs[i]) /\ Follows(cs[i + 1].rest.to, cs[i].rest.from)
    /\ cs # <<>> => cs[1].rest.to = Len(content)

\* All before this position has been merged, all from it on is pending.
Mark(cs) == IF cs = <<>> THEN Len(content) + 1 ELSE Start(cs[Len(cs)])

Text(t) ==
    /\ \A i \in DOMAIN t : t[i].at # 0 => t[i].at \in DOMAIN content /\ t[i].char = content[t[i].at]
    /\ \A j \in DOMAIN t : \A i \in 1..(j - 1) :
          t[i].at # 0 /\ t[j].at # 0 => t[i].at < t[j].at

Whole(S) == \A p, q \in S : p..q \cap Letters \subseteq S

\* With a position the set has all letters from there on up to mark.
Reaches(S, mark) == \A p \in S : p < mark /\ p..(mark - 1) \cap Letters \subseteq S

InOrder == config.overlap = 0 \/ config.kind = "sentence"

\* The letters before the mark are in the texts, or will be in the one that is built.
Behind(mark, ts, S) ==
    /\ \A n \in DOMAIN ts : \A p \in From(ts[n]) : p < mark
    /\ Reaches(S, mark)
    /\ \A p \in Letters : p < mark => p \in S \/ \E n \in DOMAIN ts : p \in From(ts[n])
    /\ InOrder =>
          /\ \A n \in DOMAIN ts : \A m \in 1..(n - 1) :
                \A p \in From(ts[m]), q \in From(ts[n]) : p < q
          /\ \A n \in DOMAIN ts : \A p \in From(ts[n]), q \in S : p < q

Bounded(t) ==
    \/ Len(t) <= config.size
    \/ /\ config.kind = "recursive" /\ config.overlap > 0
       /\ Len(t) <= config.size - 1 + config.overlap + 2
    \/ config.kind = "sentence" /\ OneSentence(t)

BuiltOK(t) == Text(t) /\ Bounded(t)
TextOK(t) == t # <<>> /\ Text(t) /\ Whole(From(t)) /\ Bounded(t)

Solid(t) == \E i \in DOMAIN t : t[i].char \notin Space

Control ==
    /\ stage \in {"split", "merge", "descend", "sentence", "place", "done", "panic"}
    /\ stage \in {"split", "merge", "descend"} => calls # <<>> /\ config.kind = "recursive"
    /\ stage = "split" => IsEmpty(call.large) /\ merged = <<>>
    /\ stage = "merge" /\ IsEmpty(call.large) => IsEmpty(call.rest)
    /\ stage = "descend" => call.good = <<>> /\ ~IsEmpty(call.large) /\ merged = <<>>
    /\ stage = "sentence" =>
          /\ Len(calls) = 1 /\ Waiting(call) /\ config.kind = "sentence"
          /\ merged # <<>> => Solid(merged)
    /\ SplitDone => calls = <<>> /\ merged = <<>>

Placed ==
    /\ ~SplitDone => placed = <<>> /\ offset = 0
    /\ Len(placed) <= Len(texts)
    /\ stage = "place" => Len(placed) < Len(texts)
    /\ stage = "done" => Len(placed) = Len(texts)
    /\ \A n \in DOMAIN placed : placed[n].end = placed[n].start + Len(texts[n])

SplitterInv ==
    /\ SplitterTypes
    /\ Control
    /\ Placed
    /\ CallsOK(calls)
    /\ BuiltOK(merged)
    /\ \A n \in DOMAIN texts : TextOK(texts[n])
    /\ Behind(Mark(calls), texts, From(merged))

Simple == Regular /\ InOrder /\ config.kind = "recursive" /\ config.strip /\ config.keep

\* A separator of the call's is all that is between the positions.
Adjoins(f, a, b) ==
    /\ b = a + Len(Separators[f.level]) + 1
    /\ \A j \in DOMAIN Separators[f.level] : content[a + j] = Separators[f.level][j]

SolidEnds(span) == ~IsEmpty(span) => content[span.from] \notin Space /\ content[span.to] \notin Space

\* The separators that were tried before do not occur any more.
Used(f) ==
    /\ \A i \in 1..(f.level - 1) : Occurrences(Separators[i], f.rest) = {}
    /\ ~IsEmpty(f.large) /\ f.level < Len(Separators) =>
           \A i \in 1..f.level : Occurrences(Separators[i], f.large) = {}

Adjacent(f) ==
    /\ SolidEnds(f.rest) /\ SolidEnds(f.large)
    /\ \A j \in DOMAIN f.good : SolidEnds(f.good[j])
    /\ \A j \in 1..(Len(f.good) - 1) : Adjoins(f, f.good[j].to, f.good[j + 1].from)
    /\ f.good # <<>> /\ IsEmpty(f.large) /\ ~IsEmpty(f.rest)
           => Adjoins(f, f.good[Len(f.good)].to, f.rest.from)

\* The text is in the document, from this position on.
Lies(t, from) ==
    \A i \in DOMAIN t :
        /\ t[i].char = content[from + i - 1]
        /\ t[i].at # 0 => t[i].at = from + i - 1

Exact(t) ==
    /\ t # <<>> => /\ t[1].at # 0 /\ t[1].char \notin Space
                   /\ t[Len(t)].at # 0 /\ t[Len(t)].char \notin Space
    /\ Lies(t, t[1].at)

CallsExact(cs, text) ==
    /\ \A i \in DOMAIN cs : Used(cs[i]) /\ Adjacent(cs[i])
    /\ Exact(text)
    /\ cs # <<>> /\ text # <<>> /\ cs[Len(cs)].good # <<>>
           => Adjoins(cs[Len(cs)], text[Len(text)].at, cs[Len(cs)].good[1].from)

PlacedExact ==
    /\ \A n \in DOMAIN placed : placed[n].start + 1 = texts[n][1].at
    /\ offset = IF placed = <<>> THEN 0 ELSE placed[Len(placed)].end

ExactInv ==
    Simple =>
        /\ stage # "panic"
        /\ CallsExact(calls, merged)
        /\ \A n \in DOMAIN texts : Exact(texts[n])
        /\ PlacedExact

----
(* The least and the greatest element of a set of positions. *)

LEMMA LeastOf ==
    ASSUME NEW S \in SUBSET Nat, S # {}
    PROVE  Least(S) \in S /\ \A y \in S : Least(S) <= y
  <1> DEFINE R == {ss \in Nat \X Nat : ss[1] < ss[2]}
  <1>1. IsWellFoundedOn(R, Nat)
    BY NatLessThanWellFounded DEF OpToRel
  <1>2. PICK x \in S : \A y \in S : <<y, x>> \notin R
    BY <1>1, WFMin
  <1>3. ASSUME NEW y \in S PROVE x <= y
    <2>1. ~ (y < x)
      BY <1>2
    <2> QED BY <2>1
  <1> QED BY <1>3 DEF Least

LEMMA GreatestOf ==
    ASSUME NEW S, NEW b \in Nat, S \subseteq 0..b, S # {}
    PROVE  Greatest(S) \in S /\ \A y \in S : y <= Greatest(S)
  <1> DEFINE D == {i \in 0..b : b - i \in S}
  <1>1. D \in SUBSET Nat /\ D # {}
    <2>1. PICK y \in S : TRUE
      OBVIOUS
    <2>2. b - y \in D
      BY <2>1
    <2> QED BY <2>2
  <1>2. Least(D) \in D /\ \A i \in D : Least(D) <= i
    BY <1>1, LeastOf
  <1> DEFINE x == b - Least(D)
  <1>3. x \in S
    BY <1>2
  <1>4. ASSUME NEW y \in S PROVE y <= x
    <2>1. b - y \in D /\ y \in 0..b
      BY <1>4
    <2> QED BY <1>2, <2>1
  <1> QED BY <1>3, <1>4 DEF Greatest

----
(* Spans. *)

LEMMA TrimmedSpan ==
    ASSUME content \in Seq(Alphabet), NEW span \in Spans, 1 <= span.from, span.to <= Len(content)
    PROVE  /\ TrimSpan(span) \in Spans
           /\ IsEmpty(TrimSpan(span)) => \A i \in span.from..span.to : content[i] \in Space
           /\ ~IsEmpty(TrimSpan(span)) =>
                 /\ span.from <= TrimSpan(span).from
                 /\ TrimSpan(span).from <= TrimSpan(span).to
                 /\ TrimSpan(span).to <= span.to
                 /\ content[TrimSpan(span).from] \notin Space
                 /\ content[TrimSpan(span).to] \notin Space
                 /\ \A i \in span.from..span.to :
                       content[i] \notin Space => TrimSpan(span).from <= i /\ i <= TrimSpan(span).to
  <1> DEFINE solid == {i \in span.from..span.to : content[i] \notin Space}
  <1>1. Len(content) \in Nat /\ span.from \in Nat /\ span.to \in Int
    BY DEF Spans
  <1>2. solid \in SUBSET Nat /\ solid \subseteq 0..Len(content)
    BY <1>1
  <1>3. TrimSpan(span) = IF solid = {} THEN NoSpan ELSE Span(Least(solid), Greatest(solid))
    BY DEF TrimSpan
  <1>4. \A i \in solid : i \in span.from..span.to /\ content[i] \notin Space
    OBVIOUS
  <1>5. \A i \in span.from..span.to : content[i] \notin Space => i \in solid
    OBVIOUS
  <1> HIDE DEF solid
  <1>6. CASE solid = {}
    <2>1. TrimSpan(span) = NoSpan
      BY <1>3, <1>6
    <2>2. NoSpan \in Spans /\ IsEmpty(NoSpan)
      BY DEF NoSpan, Span, Spans, IsEmpty
    <2>3. \A i \in span.from..span.to : content[i] \in Space
      BY <1>5, <1>6
    <2> QED BY <2>1, <2>2, <2>3
  <1>7. CASE solid # {}
    <2>1. Least(solid) \in solid /\ \A y \in solid : Least(solid) <= y
      BY <1>2, <1>7, LeastOf
    <2>2. Greatest(solid) \in solid /\ \A y \in solid : y <= Greatest(solid)
      BY <1>1, <1>2, <1>7, GreatestOf
    <2> DEFINE a == Least(solid)
               b == Greatest(solid)
    <2>3. /\ a \in span.from..span.to /\ content[a] \notin Space
          /\ b \in span.from..span.to /\ content[b] \notin Space
          /\ a <= b
      BY <1>4, <2>1, <2>2
    <2>4. TrimSpan(span) = [from |-> a, to |-> b]
      BY <1>3, <1>7 DEF Span
    <2>5. \A i \in span.from..span.to : content[i] \notin Space => a <= i /\ i <= b
      BY <1>5, <2>1, <2>2
    <2> HIDE DEF a, b
    <2>6. TrimSpan(span).from = a /\ TrimSpan(span).to = b
      BY <2>4
    <2>7. a \in Int /\ b \in Int
      BY <1>1, <2>3
    <2>8. TrimSpan(span) \in Spans
      BY <2>4, <2>7 DEF Spans
    <2>9. ~IsEmpty(TrimSpan(span))
      BY <2>3, <2>6, <2>7 DEF IsEmpty
    <2> QED BY <1>1, <2>3, <2>5, <2>6, <2>7, <2>8, <2>9
  <1> QED BY <1>6, <1>7

LEMMA OccurrencesIn ==
    ASSUME NEW part \in Seq(Alphabet), NEW span \in Spans, 1 <= span.from
    PROVE  /\ Occurrences(part, span) \in SUBSET Nat
           /\ \A i \in Occurrences(part, span) :
                 /\ span.from <= i /\ i + Len(part) - 1 <= span.to
                 /\ \A j \in 1..Len(part) : content[i + j - 1] = part[j]
           /\ Occurrences(part, span) # {} =>
                 /\ Least(Occurrences(part, span)) \in Occurrences(part, span)
                 /\ \A i \in Occurrences(part, span) : Least(Occurrences(part, span)) <= i
  <1>1. span.from \in Nat /\ span.to \in Int /\ Len(part) \in Nat
    BY DEF Spans
  <1>2. Occurrences(part, span) \in SUBSET Nat
    BY <1>1 DEF Occurrences
  <1>3. \A i \in Occurrences(part, span) :
           /\ span.from <= i /\ i + Len(part) - 1 <= span.to
           /\ \A j \in 1..Len(part) : content[i + j - 1] = part[j]
    BY <1>1 DEF Occurrences
  <1> QED BY <1>2, <1>3, LeastOf

LEMMA SeparatorParts ==
    /\ DOMAIN Separators = 1..5 /\ Len(Separators) = 5
    /\ \A i \in 1..5 : Separators[i] \in Seq(Alphabet) /\ Len(Separators[i]) \in 0..2
    /\ Separators[5] = <<>>
    /\ \A i \in 1..4 : Separators[i] # <<>> /\ Len(Separators[i]) \in 1..2
    /\ \A i \in 1..5 : \A j \in DOMAIN Separators[i] : Separators[i][j] \in Space \cup {Stop}
  <1>1. DOMAIN Separators = 1..5 /\ Len(Separators) = 5
    BY DEF Separators
  <1>2. /\ Separators[1] = <<Newline, Newline>>
        /\ Separators[2] = <<Newline>>
        /\ Separators[3] = <<Stop, Blank>>
        /\ Separators[4] = <<Blank>>
        /\ Separators[5] = <<>>
    BY DEF Separators
  <1>3. /\ Blank \in Alphabet /\ Newline \in Alphabet /\ Stop \in Alphabet
        /\ Blank \in Space /\ Newline \in Space
    BY DEF Alphabet, Space
  <1> DEFINE Part(s) ==
           /\ s \in Seq(Alphabet) /\ Len(s) \in 1..2 /\ s # <<>>
           /\ \A j \in DOMAIN s : s[j] \in Space \cup {Stop}
  <1>4. Part(<<Newline, Newline>>)
    BY <1>3
  <1>5. Part(<<Newline>>)
    BY <1>3
  <1>6. Part(<<Stop, Blank>>)
    BY <1>3
  <1>7. Part(<<Blank>>)
    BY <1>3
  <1>8. <<>> \in Seq(Alphabet) /\ Len(<<>>) = 0 /\ DOMAIN <<>> = {}
    OBVIOUS
  <1>9. \A i \in 1..4 : Part(Separators[i])
    <2>1. \A i \in 1..4 : i = 1 \/ i = 2 \/ i = 3 \/ i = 4
      OBVIOUS
    <2> HIDE DEF Part
    <2> QED BY <1>2, <1>4, <1>5, <1>6, <1>7, <2>1
  <1>10. \A i \in 1..5 : i \in 1..4 \/ i = 5
    OBVIOUS
  <1>11. \A i \in 1..5 : /\ Separators[i] \in Seq(Alphabet) /\ Len(Separators[i]) \in 0..2
                         /\ \A j \in DOMAIN Separators[i] : Separators[i][j] \in Space \cup {Stop}
    <2> TAKE i \in 1..5
    <2>1. CASE i = 5
      <3>1. Separators[i] = <<>>
        BY <1>2, <2>1
      <3>2. Separators[i] \in Seq(Alphabet) /\ Len(Separators[i]) \in 0..2
        BY <1>8, <3>1
      <3>3. DOMAIN Separators[i] = {}
        BY <1>8, <3>1
      <3> QED BY <3>2, <3>3
    <2>2. CASE i \in 1..4
      BY <1>9, <2>2
    <2> QED BY <1>10, <2>1, <2>2
  <1> QED BY <1>1, <1>2, <1>9, <1>11

----
(* Texts. *)

LEMMA CharactersOf ==
    ASSUME content \in Seq(Alphabet), NEW span \in Spans, InPlace(span)
    PROVE  /\ Characters(span) \in Seq(Chars)
           /\ Len(Characters(span)) = Size(span) /\ Size(span) \in Nat \ {0}
           /\ \A i \in 1..Size(span) :
                 /\ Characters(span)[i].char = content[span.from + i - 1]
                 /\ Characters(span)[i].at = span.from + i - 1
           /\ From(Characters(span)) = span.from..span.to
           /\ Text(Characters(span))
  <1> DEFINE t == Characters(span)
  <1>1. /\ span.from \in Nat \ {0} /\ span.to \in Nat /\ Len(content) \in Nat
        /\ Size(span) \in Nat \ {0} /\ Size(span) = span.to - span.from + 1
        /\ span.to <= Len(content)
    BY DEF Spans, InPlace, Size
  <1>2. \A i \in 1..Size(span) : span.from + i - 1 \in span.from..span.to
    BY <1>1
  <1>3. \A p \in span.from..span.to : p \in DOMAIN content /\ content[p] \in Alphabet /\ p \in Nat \ {0}
    BY <1>1
  <1>4. t = [i \in 1..Size(span) |->
                [char |-> content[span.from + i - 1], at |-> span.from + i - 1]]
    BY DEF Characters
  <1>5. \A i \in 1..Size(span) : t[i] = [char |-> content[span.from + i - 1], at |-> span.from + i - 1]
    BY <1>4
  <1>6. \A i \in 1..Size(span) : /\ t[i] \in Chars
                                 /\ t[i].char = content[span.from + i - 1]
                                 /\ t[i].at = span.from + i - 1
    <2> TAKE i \in 1..Size(span)
    <2>1. content[span.from + i - 1] \in Alphabet /\ span.from + i - 1 \in Nat
      BY <1>2, <1>3
    <2>2. t[i] = [char |-> content[span.from + i - 1], at |-> span.from + i - 1]
      BY <1>5
    <2> QED BY <2>1, <2>2 DEF Chars
  <1>7. t \in Seq(Chars) /\ Len(t) = Size(span) /\ DOMAIN t = 1..Size(span)
    BY <1>1, <1>4, <1>6
  <1> HIDE DEF t
  <1>8. From(t) = span.from..span.to
    <2>1. ASSUME NEW p \in From(t) PROVE p \in span.from..span.to
      BY <1>2, <1>6, <1>7, <2>1 DEF From
    <2>2. ASSUME NEW p \in span.from..span.to PROVE p \in From(t)
      <3>1. p - span.from + 1 \in 1..Size(span) /\ p # 0
        BY <1>1, SMTT(30)
      <3>2. t[p - span.from + 1].at = p
        BY <1>1, <1>6, <3>1, SMTT(30)
      <3> QED BY <1>7, <3>1, <3>2 DEF From
    <2> QED BY <2>1, <2>2
  <1>9. Text(t)
    <2>1. \A i \in DOMAIN t : t[i].at # 0 => t[i].at \in DOMAIN content /\ t[i].char = content[t[i].at]
      BY <1>2, <1>3, <1>6, <1>7
    <2>2. \A j \in DOMAIN t : \A i \in 1..(j - 1) : t[i].at < t[j].at
      BY <1>1, <1>6, <1>7
    <2> QED BY <2>1, <2>2 DEF Text
  <1> QED BY <1>1, <1>6, <1>7, <1>8, <1>9 DEF t

LEMMA InsertedPart ==
    ASSUME NEW part \in Seq(Alphabet)
    PROVE  /\ Inserted(part) \in Seq(Chars) /\ Len(Inserted(part)) = Len(part)
           /\ \A i \in DOMAIN part : Inserted(part)[i].char = part[i] /\ Inserted(part)[i].at = 0
           /\ From(Inserted(part)) = {}
           /\ Text(Inserted(part))
  <1> DEFINE t == Inserted(part)
  <1>1. t = [i \in 1..Len(part) |-> [char |-> part[i], at |-> 0]]
    BY DEF Inserted
  <1>2. \A i \in 1..Len(part) : t[i] \in Chars /\ t[i].char = part[i] /\ t[i].at = 0
    BY <1>1 DEF Chars
  <1>3. t \in Seq(Chars) /\ Len(t) = Len(part) /\ DOMAIN t = 1..Len(part)
    BY <1>1, <1>2
  <1> HIDE DEF t
  <1>4. From(t) = {}
    BY <1>2, <1>3 DEF From
  <1>5. Text(t)
    BY <1>2, <1>3 DEF Text
  <1> QED BY <1>2, <1>3, <1>4, <1>5 DEF t

LEMMA NoText == From(<<>>) = {} /\ Text(<<>>) /\ <<>> \in Seq(Chars)
  BY DEF From, Text

LEMMA TagsOf ==
    ASSUME NEW t \in Seq(Chars)
    PROVE  /\ From(t) \subseteq Nat \ {0}
           /\ Text(t) => From(t) \subseteq DOMAIN content
  <1>1. \A i \in DOMAIN t : t[i] \in Chars /\ t[i].at \in Nat
    <2> TAKE i \in DOMAIN t
    <2>1. t[i] \in Chars
      OBVIOUS
    <2> QED BY <2>1 DEF Chars
  <1>2. From(t) \subseteq Nat \ {0}
    BY <1>1 DEF From
  <1>3. Text(t) => From(t) \subseteq DOMAIN content
    BY <1>1 DEF From, Text
  <1> QED BY <1>2, <1>3

LEMMA JoinedTexts ==
    ASSUME NEW a \in Seq(Chars), NEW b \in Seq(Chars)
    PROVE  /\ a \o b \in Seq(Chars) /\ Len(a \o b) = Len(a) + Len(b)
           /\ From(a \o b) = From(a) \cup From(b)
           /\ Text(a) /\ Text(b) /\ (\A p \in From(a), q \in From(b) : p < q) => Text(a \o b)
  <1> DEFINE t == a \o b
  <1>1. t \in Seq(Chars) /\ Len(t) = Len(a) + Len(b) /\ Len(a) \in Nat /\ Len(b) \in Nat
    OBVIOUS
  <1>2. \A i \in 1..Len(a) : t[i] = a[i]
    OBVIOUS
  <1>3. \A i \in 1..Len(b) : t[Len(a) + i] = b[i]
    OBVIOUS
  <1>4. \A i \in DOMAIN t : i \in 1..Len(a) \/ (i - Len(a) \in 1..Len(b) /\ t[i] = b[i - Len(a)])
    BY <1>1, <1>3
  <1> HIDE DEF t
  <1>5. From(t) = From(a) \cup From(b)
    <2>1. ASSUME NEW p \in From(t) PROVE p \in From(a) \cup From(b)
      BY <1>1, <1>2, <1>4, <2>1 DEF From
    <2>2. ASSUME NEW p \in From(a) PROVE p \in From(t)
      BY <1>1, <1>2, <2>2, SMTT(30) DEF From
    <2>3. ASSUME NEW p \in From(b) PROVE p \in From(t)
      <3>1. PICK i \in DOMAIN b : p = b[i].at /\ p # 0
        BY <2>3 DEF From
      <3>2. Len(a) + i \in DOMAIN t /\ t[Len(a) + i].at = p
        BY <1>1, <1>3, <3>1
      <3> QED BY <3>1, <3>2 DEF From
    <2> QED BY <2>1, <2>2, <2>3
  <1>6. ASSUME Text(a), Text(b), \A p \in From(a), q \in From(b) : p < q
        PROVE  Text(t)
    <2>1. \A i \in DOMAIN t : t[i].at # 0 => t[i].at \in DOMAIN content /\ t[i].char = content[t[i].at]
      BY <1>1, <1>2, <1>4, <1>6, SMTT(30) DEF Text
    <2>2. ASSUME NEW j \in DOMAIN t, NEW i \in 1..(j - 1), t[i].at # 0, t[j].at # 0
          PROVE  t[i].at < t[j].at
      <3>1. i \in DOMAIN t /\ i < j /\ i \in Nat /\ j \in Nat
        BY <1>1
      <3>2. CASE j \in 1..Len(a)
        <4>1. i \in 1..(j - 1) /\ i \in 1..Len(a)
          BY <1>1, <3>1, <3>2
        <4> QED BY <1>2, <1>6, <2>2, <3>2, <4>1 DEF Text
      <3>3. CASE j \notin 1..Len(a)
        <4>1. j - Len(a) \in DOMAIN b /\ t[j] = b[j - Len(a)]
          BY <1>1, <1>4, <3>3
        <4>2. CASE i \in 1..Len(a)
          <5>1. t[i].at \in From(a)
            <6>1. i \in DOMAIN a /\ a[i].at = t[i].at
              BY <1>2, <4>2
            <6> QED BY <2>2, <6>1 DEF From
          <5>2. t[j].at \in From(b)
            BY <2>2, <4>1 DEF From
          <5> QED BY <1>6, <5>1, <5>2
        <4>3. CASE i \notin 1..Len(a)
          <5>1. i - Len(a) \in 1..((j - Len(a)) - 1) /\ t[i] = b[i - Len(a)]
            BY <1>1, <1>4, <3>1, <4>1, <4>3
          <5> QED BY <1>6, <2>2, <4>1, <5>1 DEF Text
        <4> QED BY <4>2, <4>3
      <3> QED BY <3>2, <3>3
    <2> QED BY <2>1, <2>2 DEF Text
  <1> QED BY <1>1, <1>5, <1>6 DEF t

LEMMA PartOfText ==
    ASSUME NEW t \in Seq(Chars), NEW m \in Nat \ {0}, NEW n \in Nat, n <= Len(t), m <= n + 1
    PROVE  /\ SubSeq(t, m, n) \in Seq(Chars) /\ Len(SubSeq(t, m, n)) = n - m + 1
           /\ \A i \in 1..(n - m + 1) : SubSeq(t, m, n)[i] = t[i + m - 1]
           /\ From(SubSeq(t, m, n)) \subseteq From(t)
           /\ \A i \in m..n : t[i].at # 0 => t[i].at \in From(SubSeq(t, m, n))
           /\ Text(t) => Text(SubSeq(t, m, n))
           /\ OneSentence(t) => OneSentence(SubSeq(t, m, n))
  <1> DEFINE s == SubSeq(t, m, n)
  <1>1. s \in Seq(Chars) /\ Len(s) = n - m + 1 /\ Len(s) \in Nat /\ DOMAIN s = 1..Len(s)
    OBVIOUS
  <1>2. \A i \in 1..Len(s) : s[i] = t[i + m - 1] /\ i + m - 1 \in m..n /\ i + m - 1 \in DOMAIN t
    OBVIOUS
  <1>3. \A i \in m..n : i - m + 1 \in DOMAIN s /\ s[i - m + 1] = t[i]
    OBVIOUS
  <1> HIDE DEF s
  <1>4. From(s) \subseteq From(t)
    BY <1>1, <1>2, SMTT(30) DEF From
  <1>5. \A i \in m..n : t[i].at # 0 => t[i].at \in From(s)
    BY <1>3 DEF From
  <1>6. ASSUME Text(t) PROVE Text(s)
    <2>1. \A i \in DOMAIN s : s[i].at # 0 => s[i].at \in DOMAIN content /\ s[i].char = content[s[i].at]
      BY <1>1, <1>2, <1>6, SMTT(30) DEF Text
    <2>2. ASSUME NEW j \in DOMAIN s, NEW i \in 1..(j - 1), s[i].at # 0, s[j].at # 0
          PROVE  s[i].at < s[j].at
      <3>1. i \in 1..Len(s) /\ i + m - 1 \in 1..((j + m - 1) - 1)
        BY <1>1
      <3>2. s[i] = t[i + m - 1] /\ s[j] = t[j + m - 1] /\ j + m - 1 \in DOMAIN t
        BY <1>1, <1>2, <3>1
      <3> QED BY <1>6, <2>2, <3>1, <3>2 DEF Text
    <2> QED BY <2>1, <2>2 DEF Text
  <1>7. ASSUME OneSentence(t) PROVE OneSentence(s)
    <2>1. ASSUME NEW i \in 1..(Len(s) - 1), s[i].char \in SentenceMarks
          PROVE  s[i + 1].char \notin Space
      <3>1. i \in 1..Len(s) /\ i + 1 \in 1..Len(s)
        BY <1>1
      <3>2. s[i] = t[i + m - 1] /\ s[i + 1] = t[(i + m - 1) + 1] /\ i + m - 1 \in 1..(Len(t) - 1)
        BY <1>1, <1>2, <3>1
      <3> QED BY <1>7, <2>1, <3>2 DEF OneSentence
    <2> QED BY <2>1 DEF OneSentence
  <1> QED BY <1>1, <1>2, <1>4, <1>5, <1>6, <1>7 DEF s

LEMMA TrimmedText ==
    ASSUME NEW t \in Seq(Chars)
    PROVE  /\ TrimText(t) \in Seq(Chars) /\ Len(TrimText(t)) <= Len(t)
           /\ From(TrimText(t)) \subseteq From(t)
           /\ \A i \in DOMAIN t :
                 t[i].char \notin Space /\ t[i].at # 0 => t[i].at \in From(TrimText(t))
           /\ Text(t) => Text(TrimText(t))
           /\ OneSentence(t) => OneSentence(TrimText(t))
           /\ Solid(t) => TrimText(t) # <<>>
           /\ t # <<>> /\ t[1].char \notin Space /\ t[Len(t)].char \notin Space => TrimText(t) = t
  <1> DEFINE solid == {i \in DOMAIN t : t[i].char \notin Space}
  <1>1. Len(t) \in Nat /\ DOMAIN t = 1..Len(t)
    OBVIOUS
  <1>2. solid \in SUBSET Nat /\ solid \subseteq 0..Len(t)
    BY <1>1
  <1>3. TrimText(t) = IF solid = {} THEN <<>> ELSE SubSeq(t, Least(solid), Greatest(solid))
    BY DEF TrimText
  <1>4. \A i \in DOMAIN t : t[i].char \notin Space <=> i \in solid
    OBVIOUS
  <1>5. solid \subseteq DOMAIN t
    OBVIOUS
  <1>6. Solid(t) <=> solid # {}
    BY DEF Solid
  <1> HIDE DEF solid
  <1>7. CASE solid = {}
    <2>1. TrimText(t) = <<>>
      BY <1>3, <1>7
    <2>2. OneSentence(<<>>)
      BY DEF OneSentence
    <2>3. \A i \in DOMAIN t : t[i].char \in Space
      BY <1>4, <1>7
    <2>4. t # <<>> => t[1].char \in Space
      BY <1>1, <2>3
    <2> QED BY <1>1, <1>6, <1>7, <2>1, <2>2, <2>3, <2>4, NoText
  <1>8. CASE solid # {}
    <2> DEFINE a == Least(solid)
               b == Greatest(solid)
    <2>1. a \in solid /\ \A i \in solid : a <= i
      BY <1>2, <1>8, LeastOf
    <2>2. b \in solid /\ \A i \in solid : i <= b
      BY <1>1, <1>2, <1>8, GreatestOf
    <2>3. TrimText(t) = SubSeq(t, a, b)
      BY <1>3, <1>8
    <2> HIDE DEF a, b
    <2>4. a \in Nat \ {0} /\ b \in Nat /\ b <= Len(t) /\ a <= b /\ a <= b + 1
      BY <1>1, <1>5, <2>1, <2>2
    <2>5. /\ SubSeq(t, a, b) \in Seq(Chars) /\ Len(SubSeq(t, a, b)) = b - a + 1
          /\ From(SubSeq(t, a, b)) \subseteq From(t)
          /\ \A i \in a..b : t[i].at # 0 => t[i].at \in From(SubSeq(t, a, b))
          /\ Text(t) => Text(SubSeq(t, a, b))
          /\ OneSentence(t) => OneSentence(SubSeq(t, a, b))
      BY <2>4, PartOfText
    <2>6. \A i \in DOMAIN t : t[i].char \notin Space => i \in a..b
      BY <1>1, <1>4, <2>1, <2>2, <2>4
    <2>7. SubSeq(t, a, b) # <<>>
      BY <2>4, <2>5
    <2>8. Len(SubSeq(t, a, b)) <= Len(t)
      BY <1>1, <2>4, <2>5
    <2>9. ASSUME t # <<>>, t[1].char \notin Space, t[Len(t)].char \notin Space
          PROVE  SubSeq(t, a, b) = t
      <3>1. 1 \in DOMAIN t /\ Len(t) \in DOMAIN t
        BY <1>1, <2>9
      <3>2. a = 1 /\ b = Len(t)
        <4>1. 1 \in a..b /\ Len(t) \in a..b
          BY <2>6, <2>9, <3>1
        <4>2. a <= 1 /\ Len(t) <= b
          BY <1>1, <2>4, <4>1
        <4>3. a = 1
          BY <2>4, <4>2, SMTT(30)
        <4>4. b = Len(t)
          <5>1. \A x, y \in Nat : x <= y /\ y <= x => x = y
            OBVIOUS
          <5> QED BY <1>1, <2>4, <4>2, <5>1
        <4> QED BY <4>3, <4>4
      <3> QED BY <3>2
    <2> QED BY <2>3, <2>5, <2>6, <2>7, <2>8, <2>9
  <1> QED BY <1>7, <1>8

LEMMA TailOfText ==
    ASSUME NEW t \in Seq(Chars), Text(t), NEW m \in 1..(Len(t) + 1),
           NEW q \in From(SubSeq(t, m, Len(t))), NEW p \in From(t), q <= p
    PROVE  p \in From(SubSeq(t, m, Len(t)))
  <1>1. Len(t) \in Nat /\ m \in Nat \ {0} /\ m <= Len(t) + 1 /\ DOMAIN t = 1..Len(t)
    OBVIOUS
  <1>2. /\ SubSeq(t, m, Len(t)) \in Seq(Chars) /\ Len(SubSeq(t, m, Len(t))) = Len(t) - m + 1
        /\ \A i \in 1..(Len(t) - m + 1) : SubSeq(t, m, Len(t))[i] = t[i + m - 1]
        /\ \A i \in m..Len(t) : t[i].at # 0 => t[i].at \in From(SubSeq(t, m, Len(t)))
    BY <1>1, PartOfText
  <1>3. PICK i \in DOMAIN SubSeq(t, m, Len(t)) : q = SubSeq(t, m, Len(t))[i].at /\ q # 0
    BY DEF From
  <1>4. i + m - 1 \in m..Len(t) /\ q = t[i + m - 1].at
    BY <1>1, <1>2, <1>3
  <1>5. PICK j \in DOMAIN t : p = t[j].at /\ p # 0
    BY DEF From
  <1>6. CASE j >= m
    BY <1>1, <1>2, <1>5, <1>6
  <1>7. CASE j < m
    <2>1. j \in 1..((i + m - 1) - 1) /\ i + m - 1 \in DOMAIN t
      BY <1>1, <1>4, <1>7
    <2>2. p < q
      BY <1>3, <1>4, <1>5, <2>1 DEF Text
    <2>3. p \in Nat /\ q \in Nat
      <3>1. From(t) \subseteq Nat
        BY TagsOf
      <3>2. From(SubSeq(t, m, Len(t))) \subseteq Nat
        BY <1>2, TagsOf
      <3> QED BY <3>1, <3>2
    <2> QED BY <2>2, <2>3
  <1>8. j >= m \/ j < m
    BY <1>1
  <1> QED BY <1>6, <1>7, <1>8

----
(* What is behind the mark. *)

LEMMA MarkAdvances ==
    ASSUME NEW a \in Nat, NEW b \in Nat, NEW ts, NEW S \in SUBSET Nat,
           \A n \in DOMAIN ts : From(ts[n]) \subseteq Nat, Letters \subseteq Nat,
           Behind(a, ts, S), a <= b, NoLetters(a, b - 1)
    PROVE  Behind(b, ts, S)
  <1>1. \A p \in Letters : p < b => p < a
    BY DEF NoLetters
  <1>2. \A p \in Nat : p < a => p < b
    OBVIOUS
  <1>3. \A n \in DOMAIN ts : \A p \in From(ts[n]) : p < b
    BY <1>2 DEF Behind
  <1>4. Reaches(S, b)
    <2>1. ASSUME NEW p \in S PROVE p < b /\ p..(b - 1) \cap Letters \subseteq S
      <3>1. p < a /\ p..(a - 1) \cap Letters \subseteq S
        BY DEF Behind, Reaches
      <3>2. \A l \in p..(b - 1) \cap Letters : l \in p..(a - 1)
        BY <1>1
      <3> QED BY <1>2, <3>1, <3>2
    <2> QED BY <2>1 DEF Reaches
  <1>5. \A p \in Letters : p < b => p \in S \/ \E n \in DOMAIN ts : p \in From(ts[n])
    BY <1>1 DEF Behind
  <1> QED BY <1>3, <1>4, <1>5 DEF Behind

LEMMA SpanAdded ==
    ASSUME NEW span \in Spans, InPlace(span), NEW ts, NEW S \in SUBSET Nat,
           \A n \in DOMAIN ts : From(ts[n]) \subseteq Nat, Letters \subseteq Nat,
           Behind(span.from, ts, S)
    PROVE  Behind(span.to + 1, ts, S \cup (span.from..span.to))
  <1> DEFINE a == span.from
             b == span.to + 1
             T == S \cup (span.from..span.to)
  <1>1. a \in Nat /\ b \in Nat /\ a < b /\ T = S \cup (a..(b - 1))
    BY DEF InPlace, Spans
  <1>2. Behind(a, ts, S)
    OBVIOUS
  <1> HIDE DEF a, b, T
  <1>3. \A n \in DOMAIN ts : \A p \in From(ts[n]) : p < a /\ p < b
    BY <1>1, <1>2 DEF Behind
  <1>4. Reaches(T, b)
    <2>1. ASSUME NEW p \in T PROVE p < b /\ p..(b - 1) \cap Letters \subseteq T
      <3>1. CASE p \in S
        <4>1. p < a /\ p..(a - 1) \cap Letters \subseteq S
          BY <1>2, <3>1 DEF Behind, Reaches
        <4>2. \A l \in p..(b - 1) : l \in p..(a - 1) \/ l \in a..(b - 1)
          BY <1>1, <3>1
        <4> QED BY <1>1, <3>1, <4>1, <4>2
      <3>2. CASE p \in a..(b - 1)
        BY <1>1, <3>2
      <3> QED BY <1>1, <2>1, <3>1, <3>2
    <2> QED BY <2>1 DEF Reaches
  <1>5. ASSUME NEW p \in Letters, p < b
        PROVE  p \in T \/ \E n \in DOMAIN ts : p \in From(ts[n])
    <2>1. p < a \/ p \in a..(b - 1)
      BY <1>1, <1>5
    <2> QED BY <1>1, <1>2, <2>1 DEF Behind
  <1>6. InOrder => /\ \A n \in DOMAIN ts : \A m \in 1..(n - 1) :
                        \A p \in From(ts[m]), q \in From(ts[n]) : p < q
                   /\ \A n \in DOMAIN ts : \A p \in From(ts[n]), q \in S : p < q
    BY <1>2 DEF Behind
  <1>7. InOrder => \A n \in DOMAIN ts : \A p \in From(ts[n]), q \in T : p < q
    <2>1. \A n \in DOMAIN ts : \A p \in From(ts[n]), q \in a..(b - 1) : p < q
      BY <1>1, <1>3
    <2> QED BY <1>1, <1>6, <2>1
  <1>8. Behind(b, ts, T)
    BY <1>3, <1>4, <1>5, <1>6, <1>7 DEF Behind
  <1> QED BY <1>8 DEF a, b, T

LEMMA TextDone ==
    ASSUME NEW a \in Nat, NEW ts \in Seq(Seq(Chars)), NEW S \in SUBSET Nat, NEW R \in SUBSET S,
           NEW t \in Seq(Chars), From(t) \subseteq S, S \cap Letters \subseteq From(t),
           Letters \subseteq Nat, Behind(a, ts, S), Reaches(R, a), InOrder => R = {}
    PROVE  Behind(a, Append(ts, t), R) /\ Whole(From(t))
  <1> DEFINE us == Append(ts, t)
  <1>1. /\ DOMAIN us = 1..(Len(ts) + 1) /\ DOMAIN ts = 1..Len(ts) /\ Len(ts) \in Nat
        /\ us[Len(ts) + 1] = t /\ \A n \in DOMAIN ts : us[n] = ts[n]
    OBVIOUS
  <1> HIDE DEF us
  <1>2. \A n \in DOMAIN us : n \in DOMAIN ts \/ n = Len(ts) + 1
    BY <1>1
  <1>3. /\ \A n \in DOMAIN ts : \A p \in From(ts[n]) : p < a
        /\ \A p \in S : p < a
        /\ \A p \in S : p..(a - 1) \cap Letters \subseteq S
    BY DEF Behind, Reaches
  <1>4. \A n \in DOMAIN us : \A p \in From(us[n]) : p < a
    BY <1>1, <1>2, <1>3
  <1>5. ASSUME NEW p \in Letters, p < a
        PROVE  p \in R \/ \E n \in DOMAIN us : p \in From(us[n])
    <2>1. CASE p \in S
      <3>1. p \in From(t)
        BY <1>5, <2>1
      <3>2. p \in From(us[Len(ts) + 1]) /\ Len(ts) + 1 \in DOMAIN us
        BY <1>1, <3>1
      <3> QED BY <3>2
    <2>2. CASE p \notin S
      <3>1. PICK n \in DOMAIN ts : p \in From(ts[n])
        BY <1>5, <2>2 DEF Behind
      <3>2. n \in DOMAIN us /\ us[n] = ts[n]
        BY <1>1
      <3> QED BY <3>1, <3>2
    <2> QED BY <2>1, <2>2
  <1>6. ASSUME InOrder PROVE /\ \A n \in DOMAIN us : \A m \in 1..(n - 1) :
                                  \A p \in From(us[m]), q \in From(us[n]) : p < q
                             /\ \A n \in DOMAIN us : \A p \in From(us[n]), q \in R : p < q
    <2>1. R = {}
      BY <1>6
    <2>2. /\ \A n \in DOMAIN ts : \A m \in 1..(n - 1) :
               \A p \in From(ts[m]), q \in From(ts[n]) : p < q
          /\ \A n \in DOMAIN ts : \A p \in From(ts[n]), q \in S : p < q
      BY <1>6 DEF Behind
    <2>3. ASSUME NEW n \in DOMAIN us, NEW m \in 1..(n - 1), NEW p \in From(us[m]), NEW q \in From(us[n])
          PROVE  p < q
      <3>1. m \in DOMAIN ts /\ us[m] = ts[m]
        <4>1. n \in 1..(Len(ts) + 1) /\ m \in 1..(n - 1)
          BY <1>1
        <4>2. m \in 1..Len(ts)
          BY <1>1, <4>1
        <4> QED BY <1>1, <4>2
      <3>2. CASE n \in DOMAIN ts
        BY <1>1, <2>2, <2>3, <3>1, <3>2
      <3>3. CASE n = Len(ts) + 1
        BY <1>1, <2>2, <2>3, <3>1, <3>3
      <3> QED BY <1>2, <3>2, <3>3
    <2> QED BY <2>1, <2>3
  <1>7. Behind(a, us, R)
    BY <1>4, <1>5, <1>6 DEF Behind
  <1>8. Whole(From(t))
    <2>1. ASSUME NEW p \in From(t), NEW q \in From(t), NEW l \in p..q \cap Letters PROVE l \in From(t)
      <3>1. p \in S /\ q \in S /\ q < a /\ p \in Nat /\ q \in Nat
        BY <1>3
      <3>2. l \in p..(a - 1)
        BY <3>1
      <3> QED BY <1>3, <3>1, <3>2
    <2> QED BY <2>1 DEF Whole
  <1> QED BY <1>7, <1>8 DEF us

LEMMA NothingBuilt ==
    ASSUME NEW a, NEW ts, NEW S, S \cap Letters = {}, Behind(a, ts, S)
    PROVE  Behind(a, ts, {})
  BY DEF Behind, Reaches

----
(* The calls. *)

LEMMA LettersAre == content \in Seq(Alphabet) => Letters \subseteq Nat \ {0} /\ Letters \subseteq 1..Len(content)
  BY DEF Letters

LEMMA NoLettersParts ==
    ASSUME Letters \subseteq Nat, NEW a \in Int, NEW b \in Int, NEW c \in Int, NoLetters(a, b), NoLetters(b + 1, c)
    PROVE  NoLetters(a, c)
  BY DEF NoLetters

LEMMA FrameParts ==
    ASSUME NEW f \in Frames
    PROVE  /\ f.level \in 1..5 /\ f.rest \in Spans /\ f.good \in Seq(Spans) /\ f.large \in Spans
           /\ f.rest.from \in Int /\ f.rest.to \in Int
           /\ f.large.from \in Int /\ f.large.to \in Int
           /\ \A j \in DOMAIN f.good : f.good[j] \in Spans /\ f.good[j].from \in Int /\ f.good[j].to \in Int
  <1>1. f.level \in 1..5 /\ f.rest \in Spans /\ f.good \in Seq(Spans) /\ f.large \in Spans
    BY SeparatorParts DEF Frames
  <1>2. \A s \in Spans : s.from \in Int /\ s.to \in Int
    BY DEF Spans
  <1>3. \A j \in DOMAIN f.good : f.good[j] \in Spans
    BY <1>1
  <1> QED BY <1>1, <1>2, <1>3

LEMMA CallReplaced ==
    ASSUME NEW cs \in Seq(Frames), CallsOK(cs), cs # <<>>, NEW f \in Frames,
           RestOK(f), GoodOK(f), LargeOK(f), f.rest.to = cs[Len(cs)].rest.to,
           NEW ds, ds = [cs EXCEPT ![Len(cs)] = f]
    PROVE  /\ ds \in Seq(Frames) /\ Len(ds) = Len(cs) /\ ds # <<>>
           /\ ds[Len(ds)] = f /\ Mark(ds) = Start(f)
           /\ CallsOK(ds)
  <1> DEFINE k == Len(cs)
  <1>1. /\ k \in Nat \ {0} /\ DOMAIN cs = 1..k /\ Len(cs) = k
        /\ ds \in Seq(Frames) /\ Len(ds) = k /\ DOMAIN ds = 1..k /\ ds # <<>>
        /\ ds[k] = f /\ \A i \in 1..(k - 1) : ds[i] = cs[i]
    OBVIOUS
  <1> HIDE DEF k
  <1>2. \A i \in 1..k : i \in 1..(k - 1) \/ i = k
    BY <1>1
  <1>3. \A i \in DOMAIN ds : RestOK(ds[i]) /\ GoodOK(ds[i]) /\ LargeOK(ds[i])
    BY <1>1, <1>2 DEF CallsOK
  <1>4. \A i \in DOMAIN ds : ds[i].rest.to = cs[i].rest.to
    BY <1>1, <1>2
  <1>5. ASSUME NEW i \in 1..(Len(ds) - 1)
        PROVE  Waiting(ds[i]) /\ Follows(ds[i + 1].rest.to, ds[i].rest.from)
    <2>1. ds[i] = cs[i] /\ i + 1 \in DOMAIN ds /\ i \in 1..(Len(cs) - 1)
      <3>1. i \in 1..(k - 1)
        BY <1>1
      <3> QED BY <1>1, <3>1
    <2> QED BY <1>4, <2>1 DEF CallsOK
  <1>6. ds # <<>> => ds[1].rest.to = Len(content)
    <2>1. 1 \in DOMAIN ds
      BY <1>1
    <2> QED BY <1>4, <2>1 DEF CallsOK
  <1>7. CallsOK(ds)
    BY <1>3, <1>5, <1>6 DEF CallsOK
  <1>8. Mark(ds) = Start(f)
    BY <1>1 DEF Mark
  <1> QED BY <1>1, <1>7, <1>8

LEMMA CallReturns ==
    ASSUME content \in Seq(Alphabet), NEW cs \in Seq(Frames), CallsOK(cs), cs # <<>>,
           Waiting(cs[Len(cs)]), IsEmpty(cs[Len(cs)].rest),
           NEW ds, ds = SubSeq(cs, 1, Len(cs) - 1)
    PROVE  /\ ds \in Seq(Frames) /\ Len(ds) = Len(cs) - 1
           /\ CallsOK(ds)
           /\ ds # <<>> => Waiting(ds[Len(ds)])
           /\ Mark(cs) \in Nat /\ Mark(ds) \in Nat
           /\ Mark(cs) <= Mark(ds) /\ NoLetters(Mark(cs), Mark(ds) - 1)
  <1> DEFINE k == Len(cs)
  <1>1. k \in Nat \ {0} /\ Len(cs) = k /\ DOMAIN cs = 1..k /\ Len(content) \in Nat
    OBVIOUS
  <1> HIDE DEF k
  <1>0. /\ ds \in Seq(Frames) /\ Len(ds) = k - 1 /\ DOMAIN ds = 1..(k - 1)
        /\ \A i \in 1..(k - 1) : ds[i] = cs[i]
    BY <1>1
  <1>2. CallsOK(ds)
    <2>1. \A i \in DOMAIN ds : RestOK(ds[i]) /\ GoodOK(ds[i]) /\ LargeOK(ds[i])
      BY <1>0, <1>1 DEF CallsOK
    <2>2. ASSUME NEW i \in 1..(Len(ds) - 1)
          PROVE  Waiting(ds[i]) /\ Follows(ds[i + 1].rest.to, ds[i].rest.from)
      <3>1. ds[i] = cs[i] /\ ds[i + 1] = cs[i + 1] /\ i \in 1..(Len(cs) - 1)
        BY <1>0, <1>1
      <3> QED BY <3>1 DEF CallsOK
    <2>3. ds # <<>> => ds[1].rest.to = Len(content)
      <3>1. ds # <<>> => ds[1] = cs[1]
        BY <1>0, <1>1
      <3> QED BY <3>1 DEF CallsOK
    <2> QED BY <2>1, <2>2, <2>3 DEF CallsOK
  <1> DEFINE f == cs[Len(cs)]
  <1>3. f \in Frames /\ RestOK(f)
    BY <1>0, <1>1, SMTT(30) DEF CallsOK
  <1> HIDE DEF f
  <1>4. Mark(cs) = f.rest.from
    BY DEF Mark, Start, AfterGood, Waiting, f
  <1>5. f.rest.from = f.rest.to + 1 /\ f.rest.from \in Nat /\ f.rest.to \in Int
    <2>1. f.rest.from \in Int /\ f.rest.to \in Int
      BY <1>3, FrameParts
    <2>2. f.rest.from > f.rest.to
      BY DEF IsEmpty, f
    <2> QED BY <1>3, <2>1, <2>2 DEF RestOK
  <1>6. CASE Len(cs) = 1
    <2>1. ds = <<>>
      BY <1>0, <1>1, <1>6
    <2>2. Mark(ds) = Len(content) + 1
      BY <2>1 DEF Mark
    <2>3. f.rest.to = Len(content)
      BY <1>6 DEF CallsOK, f
    <2>4. Mark(cs) = Mark(ds)
      BY <1>4, <1>5, <2>2, <2>3
    <2>5. NoLetters(Mark(cs), Mark(ds) - 1)
      BY <1>4, <1>5, <2>4, LettersAre DEF NoLetters
    <2> QED BY <1>0, <1>1, <1>2, <1>4, <1>5, <2>1, <2>4, <2>5
  <1>7. CASE Len(cs) # 1
    <2> DEFINE g == cs[Len(cs) - 1]
    <2>1. Len(cs) - 1 \in 1..(Len(cs) - 1) /\ (Len(cs) - 1) + 1 = Len(cs)
      BY <1>0, <1>1, <1>7
    <2>2. Waiting(g) /\ Follows(f.rest.to, g.rest.from) /\ g \in Frames
      BY <1>0, <1>1, <2>1 DEF CallsOK, f
    <2>3. ds # <<>> /\ ds[Len(ds)] = g
      BY <1>0, <1>1, <2>1
    <2>4. Mark(ds) = g.rest.from
      BY <2>2, <2>3 DEF Mark, Start, AfterGood, Waiting
    <2>5. g.rest.from \in Int
      BY <2>2, FrameParts
    <2> HIDE DEF g
    <2>6. f.rest.to < g.rest.from /\ NoLetters(f.rest.to + 1, g.rest.from - 1)
      BY <2>2 DEF Follows
    <2>7. Mark(cs) <= Mark(ds) /\ Mark(ds) \in Nat /\ NoLetters(Mark(cs), Mark(ds) - 1)
      BY <1>4, <1>5, <2>4, <2>5, <2>6
    <2> QED BY <1>0, <1>1, <1>2, <1>4, <1>5, <2>2, <2>3, <2>7
  <1> QED BY <1>6, <1>7

LEMMA CallOf ==
    ASSUME NEW span \in Spans, 1 <= span.from, NEW first \in 1..5
    PROVE  /\ Call(span, first) \in Frames
           /\ Call(span, first).rest = span
           /\ Waiting(Call(span, first))
           /\ Call(span, first).level \in first..5
           /\ \A i \in first..(Call(span, first).level - 1) : Occurrences(Separators[i], span) = {}
           /\ GoodOK(Call(span, first)) /\ LargeOK(Call(span, first))
  <1> DEFINE D == {i \in first..Len(Separators) :
                      Separators[i] = <<>> \/ Occurrences(Separators[i], span) # {}}
             l == Least(D)
  <1>1. D \in SUBSET Nat /\ 5 \in D /\ D \subseteq first..5
    BY SeparatorParts, SMTT(30)
  <1>2. l \in D /\ \A i \in D : l <= i
    BY <1>1, LeastOf
  <1>3. l \in first..5
    BY <1>1, <1>2
  <1>4. ASSUME NEW i \in first..(l - 1) PROVE Occurrences(Separators[i], span) = {}
    <2>1. i \notin D /\ i \in first..Len(Separators)
      <3>1. i \in first..5 /\ ~(l <= i)
        BY <1>3
      <3> QED BY <1>2, <3>1, SeparatorParts
    <2> QED BY <2>1
  <1>5. Call(span, first) = [level |-> l, rest |-> span, good |-> <<>>, large |-> NoSpan]
    BY DEF Call
  <1> HIDE DEF l
  <1>6. NoSpan \in Spans /\ IsEmpty(NoSpan)
    BY DEF NoSpan, Span, Spans, IsEmpty
  <1> DEFINE f == Call(span, first)
  <1>7. f.level = l /\ f.rest = span /\ f.good = <<>> /\ f.large = NoSpan
    BY <1>5
  <1>8. f \in Frames
    <2>1. l \in DOMAIN Separators
      BY <1>3, SeparatorParts, SMTT(30)
    <2> QED BY <1>5, <1>6, <2>1 DEF Frames
  <1> HIDE DEF f
  <1>9. Waiting(f) /\ GoodOK(f) /\ LargeOK(f)
    BY <1>6, <1>7 DEF Waiting, GoodOK, LargeOK
  <1> QED BY <1>3, <1>4, <1>7, <1>8, <1>9 DEF f

LEMMA CallMade ==
    ASSUME content \in Seq(Alphabet), NEW cs \in Seq(Frames), CallsOK(cs), cs # <<>>, Waiting(cs[Len(cs)]),
           NEW span \in Spans, InPlace(span), Follows(span.to, cs[Len(cs)].rest.from), NEW first \in 1..5,
           NEW ds, ds = Append(cs, Call(span, first))
    PROVE  /\ ds \in Seq(Frames) /\ ds # <<>> /\ ds[Len(ds)] = Call(span, first)
           /\ CallsOK(ds) /\ Mark(ds) = span.from
  <1> DEFINE f == Call(span, first)
  <1>1. span.from \in Int /\ span.to \in Int /\ 1 <= span.from /\ span.from <= span.to + 1
    BY DEF Spans, InPlace
  <1>2. f \in Frames /\ f.rest = span /\ Waiting(f) /\ GoodOK(f) /\ LargeOK(f)
    BY <1>1, CallOf
  <1>3. RestOK(f)
    BY <1>1, <1>2 DEF RestOK, InPlace
  <1>4. ds = Append(cs, f)
    OBVIOUS
  <1> HIDE DEF f
  <1> DEFINE k == Len(cs)
  <1>5. /\ k \in Nat \ {0} /\ DOMAIN cs = 1..k /\ Len(cs) = k
        /\ ds \in Seq(Frames) /\ Len(ds) = k + 1 /\ DOMAIN ds = 1..(k + 1) /\ ds # <<>>
        /\ ds[k + 1] = f /\ \A i \in 1..k : ds[i] = cs[i]
    BY <1>2, <1>4
  <1> HIDE DEF k
  <1>6. \A i \in 1..(k + 1) : i \in 1..k \/ i = k + 1
    BY <1>5
  <1>7. \A i \in DOMAIN ds : RestOK(ds[i]) /\ GoodOK(ds[i]) /\ LargeOK(ds[i])
    BY <1>2, <1>3, <1>5, <1>6 DEF CallsOK
  <1>8. ASSUME NEW i \in 1..(Len(ds) - 1)
        PROVE  Waiting(ds[i]) /\ Follows(ds[i + 1].rest.to, ds[i].rest.from)
    <2>1. i \in 1..k /\ ds[i] = cs[i]
      BY <1>5
    <2>2. CASE i = k
      BY <1>2, <1>5, <2>1, <2>2
    <2>3. CASE i # k
      <3>1. i \in 1..(k - 1) /\ i \in 1..(Len(cs) - 1) /\ ds[i + 1] = cs[i + 1]
        BY <1>5, <2>1, <2>3
      <3> QED BY <2>1, <3>1 DEF CallsOK
    <2> QED BY <2>2, <2>3
  <1>9. ds[1].rest.to = Len(content)
    BY <1>5 DEF CallsOK
  <1>10. Mark(ds) = span.from
    BY <1>2, <1>5 DEF Mark, Start, AfterGood, Waiting
  <1> QED BY <1>5, <1>7, <1>8, <1>9, <1>10 DEF CallsOK, f

LEMMA SpanOf ==
    ASSUME NEW i, NEW j
    PROVE  /\ Span(i, j).from = i /\ Span(i, j).to = j
           /\ i \in Int /\ j \in Int => Span(i, j) \in Spans
  BY DEF Span, Spans

LEMMA SplitFound ==
    ASSUME content \in Seq(Alphabet), call \in Frames, RestOK(call), ~IsEmpty(call.rest)
    PROVE  /\ NextSplit \in Spans /\ AfterSplit \in Spans
           /\ NextSplit.from = call.rest.from
           /\ NextSplit.to <= call.rest.to
           /\ NextSplit.to < AfterSplit.from
           /\ call.rest.from <= AfterSplit.from
           /\ AfterSplit.from <= AfterSplit.to + 1 /\ AfterSplit.to = call.rest.to
           /\ NoLetters(NextSplit.to + 1, AfterSplit.from - 1)
           /\ call.level = 5 => Size(NextSplit) = 1
  <1> DEFINE span == call.rest
             at == Occurrences(Separator, span)
             a == span.from
             b == span.to
             n == Len(Separator)
  <1>1. /\ a \in Int /\ b \in Int /\ 1 <= a /\ a <= b /\ b <= Len(content) /\ Len(content) \in Nat
        /\ span \in Spans
    BY FrameParts DEF RestOK, IsEmpty
  <1>2. /\ Separator \in Seq(Alphabet) /\ n \in 0..2
        /\ \A j \in 1..n : Separator[j] \in Space \cup {Stop}
        /\ Separator = <<>> <=> call.level = 5
        /\ Separator # <<>> => n \in 1..2
    <2>1. call.level \in 1..5
      BY FrameParts
    <2>2. call.level \in 1..4 \/ call.level = 5
      BY <2>1
    <2>3. DOMAIN Separator = 1..n
      BY <2>1, SeparatorParts, SMTT(30) DEF Separator
    <2> QED BY <2>1, <2>2, <2>3, SeparatorParts DEF Separator
  <1>3. /\ at \in SUBSET Nat
        /\ \A i \in at : /\ a <= i /\ i + n - 1 <= b
                         /\ \A j \in 1..n : content[i + j - 1] = Separator[j]
        /\ at # {} => Least(at) \in at
    BY <1>1, <1>2, OccurrencesIn
  <1>4. NextSplit = IF Separator = <<>> THEN Span(a, a)
                    ELSE IF at = {} THEN span ELSE Span(a, Least(at) - 1)
    BY DEF NextSplit
  <1>5. AfterSplit = Span(NextSplit.to + 1 + (IF NextSplit.to = b THEN 0 ELSE n), b)
    BY DEF AfterSplit
  <1> HIDE DEF span, a, b, n, at
  <1>7. CASE Separator = <<>>
    <2>1. NextSplit = Span(a, a) /\ n = 0
      BY <1>4, <1>7 DEF n
    <2>2. NextSplit.to = a /\ NextSplit.from = a /\ NextSplit \in Spans /\ Size(NextSplit) = 1
      <3>1. NextSplit.to = a /\ NextSplit.from = a /\ NextSplit \in Spans
        BY <1>1, <2>1, SpanOf
      <3> QED BY <1>1, <3>1 DEF Size
    <2>3. AfterSplit = Span(a + 1, b)
      BY <1>1, <1>5, <2>1, <2>2
    <2>4. AfterSplit.from = a + 1 /\ AfterSplit.to = b /\ AfterSplit \in Spans
      <3>1. a + 1 \in Int
        BY <1>1
      <3> QED BY <1>1, <2>3, <3>1, SpanOf
    <2>5. NoLetters(a + 1, a)
      BY <1>1, LettersAre DEF NoLetters
    <2> QED BY <1>1, <2>2, <2>4, <2>5 DEF a, b, span
  <1>8. CASE Separator # <<>> /\ at = {}
    <2>1. NextSplit = span
      BY <1>4, <1>8
    <2>2. AfterSplit = Span(b + 1, b)
      BY <1>1, <1>5, <2>1 DEF b
    <2>3. AfterSplit.from = b + 1 /\ AfterSplit.to = b /\ AfterSplit \in Spans
      <3>1. b + 1 \in Int
        BY <1>1
      <3> QED BY <1>1, <2>2, <3>1, SpanOf
    <2>4. NoLetters(b + 1, b)
      BY <1>1, LettersAre DEF NoLetters
    <2> QED BY <1>1, <1>2, <1>8, <2>1, <2>3, <2>4, SMTT(30) DEF a, b, span
  <1>9. CASE Separator # <<>> /\ at # {}
    <2> DEFINE o == Least(at)
    <2>1. /\ o \in Nat /\ a <= o /\ o + n - 1 <= b
          /\ \A j \in 1..n : content[o + j - 1] = Separator[j]
      BY <1>3, <1>9
    <2>2. NextSplit = Span(a, o - 1)
      BY <1>4, <1>9
    <2> HIDE DEF o
    <2>3. NextSplit.from = a /\ NextSplit.to = o - 1 /\ NextSplit \in Spans
      BY <1>1, <2>1, <2>2, SpanOf
    <2>4. n \in 1..2 /\ o - 1 # b
      BY <1>1, <1>2, <1>9, <2>1
    <2>5. AfterSplit = Span(o + n, b)
      BY <1>5, <2>1, <2>3, <2>4
    <2>6. AfterSplit.from = o + n /\ AfterSplit.to = b /\ AfterSplit \in Spans
      <3>1. o + n \in Int
        BY <2>1, <2>4
      <3> QED BY <1>1, <2>5, <3>1, SpanOf
    <2>7. NoLetters(o, o + n - 1)
      <3>1. ASSUME NEW p \in Letters, o <= p, p <= o + n - 1 PROVE FALSE
        <4>1. p \in Nat
          BY LettersAre
        <4>2. p - o + 1 \in 1..n /\ o + (p - o + 1) - 1 = p
          BY <2>1, <2>4, <3>1, <4>1
        <4>3. content[p] \in Space \cup {Stop}
          BY <1>2, <2>1, <4>2, ZenonT(60)
        <4> QED BY <4>3 DEF Letters, IsLetter
      <3> QED BY <3>1 DEF NoLetters
    <2>8. (o - 1) + 1 = o /\ o + n - 1 = AfterSplit.from - 1
      BY <2>1, <2>4, <2>6
    <2> QED BY <1>1, <1>2, <1>9, <2>1, <2>3, <2>4, <2>6, <2>7, <2>8, SMTT(30) DEF a, b, span
  <1> QED BY <1>7, <1>8, <1>9

LEMMA SplitTaken ==
    ASSUME content \in Seq(Alphabet), call \in Frames, RestOK(call), ~IsEmpty(call.rest)
    PROVE  /\ StrippedSplit \in Spans
           /\ IsEmpty(StrippedSplit) => NoLetters(call.rest.from, AfterSplit.from - 1)
           /\ ~IsEmpty(StrippedSplit) =>
                 /\ InPlace(StrippedSplit)
                 /\ call.rest.from <= StrippedSplit.from
                 /\ NoLetters(call.rest.from, StrippedSplit.from - 1)
                 /\ Follows(StrippedSplit.to, AfterSplit.from)
                 /\ call.level = 5 => Size(StrippedSplit) = 1
  <1> DEFINE a == call.rest.from
             c == AfterSplit.from
             s == NextSplit
             t == StrippedSplit
  <1>1. /\ a \in Int /\ 1 <= a /\ call.rest.to \in Int /\ call.rest.to <= Len(content)
        /\ Len(content) \in Nat /\ c \in Int /\ s \in Spans /\ s.from = a /\ s.to \in Int
        /\ s.to <= call.rest.to /\ s.to < c /\ a <= c /\ NoLetters(s.to + 1, c - 1)
        /\ call.level = 5 => Size(s) = 1
    <2>1. \A x \in Spans : x.from \in Int /\ x.to \in Int
      BY DEF Spans
    <2> QED BY <2>1, FrameParts, SplitFound DEF RestOK
  <1>2. /\ Letters \subseteq Nat /\ \A p \in Letters : content[p] \notin Space
    BY LettersAre DEF Letters, IsLetter
  <1> HIDE DEF a, c, s, t
  <1>3. CASE config.strip
    <2>1. t = TrimSpan(s)
      BY <1>3 DEF t, s, StrippedSplit
    <2>2. /\ t \in Spans
          /\ IsEmpty(t) => \A i \in a..s.to : content[i] \in Space
          /\ ~IsEmpty(t) => /\ a <= t.from /\ t.from <= t.to /\ t.to <= s.to
                            /\ \A i \in a..s.to : content[i] \notin Space => t.from <= i /\ i <= t.to
      <3>1. 1 <= s.from /\ s.to <= Len(content)
        BY <1>1
      <3> QED BY <1>1, <2>1, <3>1, TrimmedSpan
    <2>3. t.from \in Int /\ t.to \in Int
      BY <2>2 DEF Spans
    <2>4. ASSUME IsEmpty(t) PROVE NoLetters(a, c - 1)
      <3>1. NoLetters(a, s.to)
        BY <1>1, <1>2, <2>2, <2>4 DEF NoLetters
      <3> QED BY <1>1, <1>2, <3>1, NoLettersParts
    <2>5. ASSUME ~IsEmpty(t)
          PROVE  /\ InPlace(t) /\ a <= t.from /\ NoLetters(a, t.from - 1) /\ Follows(t.to, c)
                 /\ call.level = 5 => Size(t) = 1
      <3>1. InPlace(t) /\ t.to < c
        BY <1>1, <2>2, <2>3, <2>5, SMTT(30) DEF InPlace
      <3>2. NoLetters(a, t.from - 1)
        <4>1. \A p \in Letters : ~(a <= p /\ p <= t.from - 1)
          BY <1>1, <1>2, <2>2, <2>3, <2>5, SMTT(30)
        <4> QED BY <4>1 DEF NoLetters
      <3>3. NoLetters(t.to + 1, s.to)
        <4>1. \A p \in Letters : ~(t.to + 1 <= p /\ p <= s.to)
          BY <1>1, <1>2, <2>2, <2>3, <2>5
        <4> QED BY <4>1 DEF NoLetters
      <3>4. NoLetters(t.to + 1, c - 1)
        BY <1>1, <1>2, <2>3, <3>3, NoLettersParts
      <3>5. call.level = 5 => Size(t) = 1
        <4>1. call.level = 5 => s.to - a + 1 = 1
          BY <1>1 DEF Size
        <4>2. call.level = 5 => t.to = a /\ t.from = a
          BY <1>1, <2>2, <2>3, <2>5, <4>1, SMTT(40)
        <4> QED BY <1>1, <4>2 DEF Size
      <3> QED BY <2>2, <2>5, <3>1, <3>2, <3>4, <3>5 DEF Follows
    <2> QED BY <2>2, <2>4, <2>5 DEF a, c, t
  <1>4. CASE ~config.strip
    <2>1. t = s
      BY <1>4 DEF t, s, StrippedSplit
    <2>2. ASSUME IsEmpty(t) PROVE NoLetters(a, c - 1)
      <3>1. s.to < a
        BY <1>1, <2>1, <2>2 DEF IsEmpty
      <3>2. NoLetters(a, c - 1)
        <4>1. \A p \in Letters : ~(s.to + 1 <= p /\ p <= c - 1)
          BY <1>1 DEF NoLetters
        <4>2. ASSUME NEW p \in Letters, a <= p, p <= c - 1 PROVE FALSE
          BY <1>1, <1>2, <3>1, <4>1, <4>2
        <4> QED BY <4>2 DEF NoLetters
      <3> QED BY <3>2
    <2>3. ASSUME ~IsEmpty(t)
          PROVE  /\ InPlace(t) /\ a <= t.from /\ NoLetters(a, t.from - 1) /\ Follows(t.to, c)
                 /\ call.level = 5 => Size(t) = 1
      <3>1. InPlace(t) /\ t.from = a /\ t.to = s.to
        BY <1>1, <2>1, <2>3 DEF InPlace, IsEmpty
      <3>2. NoLetters(a, t.from - 1)
        <4>1. \A p \in Int : ~(a <= p /\ p <= t.from - 1)
          BY <1>1, <3>1
        <4> QED BY <1>2, <4>1 DEF NoLetters
      <3> QED BY <1>1, <2>1, <3>1, <3>2 DEF Follows
    <2> QED BY <1>1, <2>1, <2>2, <2>3 DEF a, c, t
  <1> QED BY <1>3, <1>4

LEMMA AppendedOne ==
    ASSUME NEW S, NEW g \in Seq(S), NEW s \in S, NEW h, h = Append(g, s)
    PROVE  /\ h \in Seq(S) /\ h # <<>> /\ h[Len(h)] = s
           /\ g = <<>> => h[1] = s
           /\ g # <<>> => h[1] = g[1]
           /\ \A j \in DOMAIN h : (j \in DOMAIN g /\ h[j] = g[j]) \/ h[j] = s
           /\ \A j \in 1..(Len(h) - 1) :
                 \/ j \in 1..(Len(g) - 1) /\ h[j] = g[j] /\ h[j + 1] = g[j + 1]
                 \/ g # <<>> /\ h[j] = g[Len(g)] /\ h[j + 1] = s
  <1> DEFINE k == Len(g)
  <1>1. /\ k \in Nat /\ Len(g) = k /\ DOMAIN g = 1..k /\ (g = <<>> <=> k = 0)
        /\ h \in Seq(S) /\ Len(h) = k + 1 /\ DOMAIN h = 1..(k + 1) /\ h # <<>>
        /\ h[k + 1] = s /\ \A j \in 1..k : h[j] = g[j]
    OBVIOUS
  <1> HIDE DEF k
  <1>2. \A j \in 1..(k + 1) : j \in 1..k \/ j = k + 1
    BY <1>1
  <1>3. \A j \in DOMAIN h : (j \in DOMAIN g /\ h[j] = g[j]) \/ h[j] = s
    BY <1>1, <1>2
  <1>4. ASSUME NEW j \in 1..(Len(h) - 1)
        PROVE  \/ j \in 1..(Len(g) - 1) /\ h[j] = g[j] /\ h[j + 1] = g[j + 1]
               \/ g # <<>> /\ h[j] = g[Len(g)] /\ h[j + 1] = s
    <2>1. j \in 1..k
      BY <1>1
    <2>2. CASE j = k
      BY <1>1, <2>1, <2>2
    <2>3. CASE j # k
      BY <1>1, <2>1, <2>3
    <2> QED BY <2>2, <2>3
  <1>5. (g = <<>> => h[1] = s) /\ (g # <<>> => h[1] = g[1])
    <2>1. CASE g = <<>>
      BY <1>1, <2>1
    <2>2. CASE g # <<>>
      <3>1. 1 \in 1..k
        BY <1>1, <2>2
      <3> QED BY <1>1, <2>2, <3>1
    <2> QED BY <2>1, <2>2
  <1> QED BY <1>1, <1>3, <1>4, <1>5

LEMMA FollowsFurther ==
    ASSUME Letters \subseteq Nat, NEW a \in Int, NEW b \in Int, NEW c \in Int,
           Follows(a, b), b <= c, NoLetters(b, c - 1)
    PROVE  Follows(a, c)
  <1>1. a < b /\ \A p \in Letters : ~(a + 1 <= p /\ p <= b - 1)
    BY DEF Follows, NoLetters
  <1>2. \A p \in Letters : ~(b <= p /\ p <= c - 1)
    BY DEF NoLetters
  <1>3. ASSUME NEW p \in Letters, a + 1 <= p, p <= c - 1 PROVE FALSE
    BY <1>1, <1>2, <1>3
  <1> QED BY <1>1, <1>3 DEF Follows, NoLetters

\* A split that is empty is skipped, a small one is kept, a large one waits.
LEMMA FrameAdvances ==
    ASSUME content \in Seq(Alphabet), config.size \in Nat \ {0},
           call \in Frames, RestOK(call), GoodOK(call), IsEmpty(call.large), ~IsEmpty(call.rest),
           NEW f, f = Taken(StrippedSplit)
    PROVE  /\ f \in Frames /\ RestOK(f) /\ GoodOK(f) /\ LargeOK(f)
           /\ f.rest.to = call.rest.to
           /\ Start(call) \in Nat /\ Start(f) \in Nat
           /\ Start(call) <= Start(f) /\ NoLetters(Start(call), Start(f) - 1)
           /\ IsEmpty(f.large) <=> IsEmpty(StrippedSplit) \/ Small(StrippedSplit)
  <1> DEFINE s == StrippedSplit
             small == Size(s) < config.size
             g == call.good
             a == call.rest.from
             c == AfterSplit.from
  <1>1. /\ s \in Spans /\ s.from \in Int /\ s.to \in Int /\ g \in Seq(Spans) /\ call.level \in 1..5
        /\ a \in Int /\ c \in Int /\ 1 <= a /\ a <= c /\ Letters \subseteq Nat
        /\ AfterSplit \in Spans /\ AfterSplit.to = call.rest.to
        /\ c <= AfterSplit.to + 1 /\ AfterSplit.to <= Len(content) /\ Len(content) \in Nat
    <2>1. \A x \in Spans : x.from \in Int /\ x.to \in Int
      BY DEF Spans
    <2> QED BY <2>1, FrameParts, SplitFound, SplitTaken, LettersAre, SMTT(30) DEF RestOK
  <1>2. /\ IsEmpty(s) => NoLetters(a, c - 1)
        /\ ~IsEmpty(s) => /\ InPlace(s) /\ a <= s.from /\ NoLetters(a, s.from - 1) /\ Follows(s.to, c)
                          /\ call.level = 5 => Size(s) = 1
    BY SplitTaken
  <1>3. /\ f.level = call.level /\ f.rest = AfterSplit
        /\ f.good = IF ~IsEmpty(s) /\ small THEN Append(g, s) ELSE g
        /\ f.large = IF ~IsEmpty(s) /\ ~small THEN s ELSE call.large
        /\ f = [level |-> f.level, rest |-> f.rest, good |-> f.good, large |-> f.large]
        /\ small <=> Small(s)
    BY DEF Taken, Small
  <1>4. f \in Frames
    <2>1. f.good \in Seq(Spans) /\ f.large \in Spans /\ call.level \in DOMAIN Separators
      BY <1>1, <1>3, FrameParts, SeparatorParts
    <2> QED BY <1>1, <1>3, <2>1 DEF Frames
  <1>5. /\ \A j \in DOMAIN g : InPlace(g[j]) /\ Size(g[j]) < config.size
        /\ \A j \in 1..(Len(g) - 1) : Follows(g[j].to, g[j + 1].from)
        /\ g # <<>> => Follows(g[Len(g)].to, a)
    BY DEF GoodOK, AfterGood
  <1>6. Start(call) = IF g = <<>> THEN a ELSE g[1].from
    BY DEF Start, AfterGood
  <1>7. Start(call) \in Nat
    <2>1. CASE g = <<>>
      BY <1>1, <1>6, <2>1
    <2>2. CASE g # <<>>
      <3>1. 1 \in DOMAIN g
        BY <1>1, <2>2
      <3>2. g[1].from \in Int /\ 1 <= g[1].from
        BY <1>5, <3>1, FrameParts DEF InPlace
      <3> QED BY <1>6, <2>2, <3>2
    <2> QED BY <2>1, <2>2
  <1>8. g # <<>> => g[Len(g)].to \in Int
    <2>1. g # <<>> => Len(g) \in DOMAIN g
      BY <1>1
    <2> QED BY <2>1, FrameParts
  <1> HIDE DEF s, g, a, c, small
  <1>9. RestOK(f) /\ f.rest.to = call.rest.to /\ f.rest.from = c
    BY <1>1, <1>3 DEF RestOK, c
  <1>10. CASE IsEmpty(s)
    <2>1. f.good = g /\ f.large = call.large
      BY <1>3, <1>10
    <2>2. g # <<>> => Follows(g[Len(g)].to, c)
      BY <1>1, <1>2, <1>5, <1>8, <1>10, FollowsFurther
    <2>3. GoodOK(f) /\ LargeOK(f)
      <3>1. AfterGood(f) = c
        BY <1>9, <2>1 DEF AfterGood
      <3>2. GoodOK(f)
        BY <1>5, <2>1, <2>2, <3>1 DEF GoodOK
      <3> QED BY <2>1, <3>2 DEF LargeOK
    <2>4. Start(f) = IF g = <<>> THEN c ELSE g[1].from
      BY <1>9, <2>1 DEF Start, AfterGood
    <2>5. CASE g = <<>>
      <3>1. Start(f) = c /\ Start(call) = a
        BY <1>6, <2>4, <2>5
      <3> QED BY <1>1, <1>2, <1>4, <1>7, <1>9, <1>10, <2>1, <2>3, <3>1 DEF s
    <2>6. CASE g # <<>>
      <3>1. Start(f) = Start(call)
        BY <1>6, <2>4, <2>6
      <3>2. NoLetters(Start(call), Start(f) - 1)
        BY <1>1, <1>7, <3>1 DEF NoLetters
      <3> QED BY <1>4, <1>7, <1>9, <1>10, <2>1, <2>3, <3>1, <3>2 DEF s
    <2> QED BY <2>5, <2>6
  <1>11. CASE ~IsEmpty(s)
    <2>1. g # <<>> => Follows(g[Len(g)].to, s.from)
      BY <1>1, <1>2, <1>5, <1>8, <1>11, FollowsFurther
    <2>2. /\ InPlace(s) /\ Follows(s.to, c) /\ a <= s.from /\ NoLetters(a, s.from - 1)
          /\ call.level = 5 => Size(s) = 1
      BY <1>2, <1>11
    <2>3. CASE small
      <3>1. f.good = Append(g, s) /\ f.large = call.large /\ Size(s) < config.size
        BY <1>3, <1>11, <2>3 DEF s, small
      <3> DEFINE h == f.good
      <3>0. h = Append(g, s)
        BY <3>1
      <3> HIDE DEF h
      <3>2. /\ h # <<>> /\ h[Len(h)] = s
            /\ g = <<>> => h[1] = s
            /\ g # <<>> => h[1] = g[1]
            /\ \A j \in DOMAIN h : (j \in DOMAIN g /\ h[j] = g[j]) \/ h[j] = s
            /\ \A j \in 1..(Len(h) - 1) :
                  \/ j \in 1..(Len(g) - 1) /\ h[j] = g[j] /\ h[j + 1] = g[j + 1]
                  \/ g # <<>> /\ h[j] = g[Len(g)] /\ h[j + 1] = s
        <4>1. g \in Seq(Spans) /\ s \in Spans
          BY <1>1
        <4>2. h # <<>> /\ h[Len(h)] = s
          BY <3>0, <4>1, AppendedOne
        <4>3. (g = <<>> => h[1] = s) /\ (g # <<>> => h[1] = g[1])
          BY <3>0, <4>1, AppendedOne
        <4>4. \A j \in DOMAIN h : (j \in DOMAIN g /\ h[j] = g[j]) \/ h[j] = s
          BY <3>0, <4>1, AppendedOne
        <4>5. \A j \in 1..(Len(h) - 1) :
                 \/ j \in 1..(Len(g) - 1) /\ h[j] = g[j] /\ h[j + 1] = g[j + 1]
                 \/ g # <<>> /\ h[j] = g[Len(g)] /\ h[j + 1] = s
          BY <3>0, <4>1, AppendedOne
        <4> QED BY <4>2, <4>3, <4>4, <4>5
      <3>3. \A j \in DOMAIN h : InPlace(h[j]) /\ Size(h[j]) < config.size
        BY <1>5, <2>2, <3>1, <3>2
      <3>4. \A j \in 1..(Len(h) - 1) : Follows(h[j].to, h[j + 1].from)
        BY <1>5, <2>1, <3>2
      <3>5. AfterGood(f) = c
        BY <1>9, <3>1 DEF AfterGood
      <3>6. GoodOK(f) /\ LargeOK(f)
        BY <2>2, <3>1, <3>2, <3>3, <3>4, <3>5 DEF GoodOK, LargeOK, h
      <3>7. Start(f) = IF g = <<>> THEN s.from ELSE g[1].from
        BY <3>2 DEF Start, h
      <3>8. CASE g = <<>>
        <4>1. Start(f) = s.from /\ Start(call) = a
          BY <1>6, <3>7, <3>8
        <4> QED BY <1>1, <1>3, <1>4, <1>7, <1>9, <2>2, <2>3, <3>1, <3>6, <4>1 DEF s
      <3>9. CASE g # <<>>
        <4>1. Start(f) = Start(call)
          BY <1>6, <3>7, <3>9
        <4>2. NoLetters(Start(call), Start(f) - 1)
          BY <1>1, <1>7, <4>1 DEF NoLetters
        <4> QED BY <1>3, <1>4, <1>7, <1>9, <2>3, <3>1, <3>6, <4>1, <4>2 DEF s
      <3> QED BY <3>8, <3>9
    <2>4. CASE ~small
      <3>1. f.good = g /\ f.large = s
        BY <1>3, <1>11, <2>4
      <3>2. AfterGood(f) = s.from
        BY <1>11, <3>1 DEF AfterGood
      <3>3. GoodOK(f)
        BY <1>5, <2>1, <3>1, <3>2 DEF GoodOK
      <3>4. LargeOK(f)
        BY <1>3, <1>9, <2>2, <3>1, SeparatorParts DEF LargeOK
      <3>5. Start(f) = IF g = <<>> THEN s.from ELSE g[1].from
        BY <3>1, <3>2 DEF Start
      <3>6. CASE g = <<>>
        <4>1. Start(f) = s.from /\ Start(call) = a
          BY <1>6, <3>5, <3>6
        <4> QED BY <1>1, <1>3, <1>4, <1>7, <1>9, <1>11, <2>2, <2>4, <3>1, <3>3, <3>4, <4>1 DEF s
      <3>7. CASE g # <<>>
        <4>1. Start(f) = Start(call)
          BY <1>6, <3>5, <3>7
        <4>2. NoLetters(Start(call), Start(f) - 1)
          BY <1>1, <1>7, <4>1 DEF NoLetters
        <4> QED BY <1>3, <1>4, <1>7, <1>9, <1>11, <2>4, <3>1, <3>3, <3>4, <4>1, <4>2 DEF s
      <3> QED BY <3>6, <3>7
    <2> QED BY <2>3, <2>4
  <1> QED BY <1>10, <1>11

----
(* Texts that are done, and the one that is built. *)

LEMMA TextsGrow ==
    ASSUME NEW ts \in Seq(Seq(Chars)), \A n \in DOMAIN ts : TextOK(ts[n]), NEW t \in Seq(Chars), TextOK(t)
    PROVE  Append(ts, t) \in Seq(Seq(Chars)) /\ \A n \in DOMAIN Append(ts, t) : TextOK(Append(ts, t)[n])
  <1> DEFINE us == Append(ts, t)
  <1>1. us \in Seq(Seq(Chars))
    OBVIOUS
  <1>2. \A n \in DOMAIN us : (n \in DOMAIN ts /\ us[n] = ts[n]) \/ us[n] = t
    BY AppendedOne
  <1> QED BY <1>1, <1>2

\* From its tags a text has its letters, which are not trimmed.
LEMMA LettersKept ==
    ASSUME content \in Seq(Alphabet), NEW t \in Seq(Chars), Text(t)
    PROVE  From(t) \cap Letters \subseteq From(TrimText(t))
  <1>1. ASSUME NEW l \in From(t) \cap Letters PROVE l \in From(TrimText(t))
    <2>1. PICK i \in DOMAIN t : l = t[i].at /\ l # 0
      BY <1>1 DEF From
    <2>2. t[i].char = content[l] /\ content[l] \notin Space
      BY <1>1, <2>1 DEF Text, Letters, IsLetter
    <2> QED BY <2>1, <2>2, TrimmedText
  <1> QED BY <1>1

LEMMA TrimmedOK ==
    ASSUME config.size \in Nat, config.overlap \in Nat, NEW t \in Seq(Chars), BuiltOK(t)
    PROVE  BuiltOK(TrimText(t))
  <1>1. /\ Text(TrimText(t)) /\ TrimText(t) \in Seq(Chars)
        /\ Len(TrimText(t)) <= Len(t)
        /\ OneSentence(t) => OneSentence(TrimText(t))
    BY TrimmedText DEF BuiltOK
  <1>2. Len(t) \in Nat /\ Len(TrimText(t)) \in Nat
    BY <1>1
  <1>3. Bounded(TrimText(t))
    BY <1>1, <1>2 DEF BuiltOK, Bounded
  <1> QED BY <1>1, <1>3 DEF BuiltOK

LEMMA StrippedOK ==
    ASSUME content \in Seq(Alphabet), config.size \in Nat, config.overlap \in Nat,
           NEW t \in Seq(Chars), BuiltOK(t)
    PROVE  /\ Stripped(t) \in Seq(Chars) /\ BuiltOK(Stripped(t))
           /\ From(Stripped(t)) \subseteq From(t)
           /\ From(t) \cap Letters \subseteq From(Stripped(t))
  <1>1. CASE config.strip
    BY <1>1, TrimmedText, TrimmedOK, LettersKept DEF Stripped, BuiltOK
  <1>2. CASE ~config.strip
    BY <1>2 DEF Stripped
  <1> QED BY <1>1, <1>2

\* A text is done: what is built next may start with its end.
LEMMA TextAdded ==
    ASSUME content \in Seq(Alphabet), config.size \in Nat, config.overlap \in Nat,
           texts \in Seq(Seq(Chars)), \A n \in DOMAIN texts : TextOK(texts[n]),
           merged \in Seq(Chars), NEW a \in Nat, Behind(a, texts, From(merged)),
           NEW t \in Seq(Chars), BuiltOK(t), t # <<>>, From(t) \subseteq From(merged),
           From(merged) \cap Letters \subseteq From(t),
           NEW R \in SUBSET From(t), Reaches(R, a), InOrder => R = {}
    PROVE  /\ Append(texts, t) \in Seq(Seq(Chars))
           /\ \A n \in DOMAIN Append(texts, t) : TextOK(Append(texts, t)[n])
           /\ Behind(a, Append(texts, t), R)
  <1>1. From(merged) \in SUBSET Nat /\ Letters \subseteq Nat /\ R \in SUBSET From(merged)
    BY TagsOf, LettersAre
  <1>2. Behind(a, Append(texts, t), R) /\ Whole(From(t))
    BY <1>1, TextDone
  <1>3. TextOK(t)
    BY <1>2 DEF TextOK, BuiltOK
  <1> QED BY <1>2, <1>3, TextsGrow

LEMMA EmittedOK ==
    ASSUME content \in Seq(Alphabet), config.size \in Nat, config.overlap \in Nat,
           texts \in Seq(Seq(Chars)), \A n \in DOMAIN texts : TextOK(texts[n]),
           merged \in Seq(Chars), BuiltOK(merged), NEW a \in Nat, Behind(a, texts, From(merged)),
           NEW R \in SUBSET From(Stripped(merged)), Reaches(R, a), InOrder => R = {}
    PROVE  /\ Emitted \in Seq(Seq(Chars))
           /\ \A n \in DOMAIN Emitted : TextOK(Emitted[n])
           /\ Behind(a, Emitted, R)
  <1>1. /\ Stripped(merged) \in Seq(Chars) /\ BuiltOK(Stripped(merged))
        /\ From(Stripped(merged)) \subseteq From(merged)
        /\ From(merged) \cap Letters \subseteq From(Stripped(merged))
    BY StrippedOK
  <1>2. CASE Stripped(merged) = <<>>
    <2>1. Emitted = texts
      BY <1>2 DEF Emitted
    <2>2. From(Stripped(merged)) = {}
      BY <1>2, NoText
    <2>3. R = {} /\ From(merged) \cap Letters = {}
      BY <1>1, <2>2
    <2> QED BY <2>1, <2>3, NothingBuilt
  <1>3. CASE Stripped(merged) # <<>>
    <2>1. Emitted = Append(texts, Stripped(merged))
      BY <1>3 DEF Emitted
    <2> QED BY <1>1, <1>3, <2>1, TextAdded
  <1> QED BY <1>2, <1>3

LEMMA OverlapOf ==
    ASSUME config.overlap \in Nat, NEW t \in Seq(Chars), Text(t)
    PROVE  /\ Overlap(t) \in Seq(Chars) /\ Text(Overlap(t))
           /\ Len(Overlap(t)) <= config.overlap
           /\ config.overlap = 0 => Overlap(t) = <<>>
           /\ From(Overlap(t)) \subseteq From(t)
           /\ \A q \in From(Overlap(t)), p \in From(t) : q <= p => p \in From(Overlap(t))
  <1>1. CASE config.overlap > 0 /\ Len(t) > config.overlap
    <2> DEFINE n == Len(t)
               m == n - config.overlap + 1
    <2>1. n \in Nat /\ n = Len(t) /\ m \in Nat \ {0} /\ m \in 1..(n + 1) /\ m <= n + 1 /\ n - m + 1 = config.overlap
      BY <1>1
    <2>2. Overlap(t) = SubSeq(t, m, n)
      BY <1>1 DEF Overlap
    <2> HIDE DEF m, n
    <2>3. /\ SubSeq(t, m, n) \in Seq(Chars) /\ Len(SubSeq(t, m, n)) = n - m + 1
          /\ From(SubSeq(t, m, n)) \subseteq From(t)
          /\ Text(SubSeq(t, m, n))
      BY <2>1, PartOfText
    <2>4. \A q \in From(SubSeq(t, m, n)), p \in From(t) : q <= p => p \in From(SubSeq(t, m, n))
      BY <2>1, TailOfText
    <2>5. config.overlap <= config.overlap /\ config.overlap # 0
      BY <1>1
    <2> QED BY <2>1, <2>2, <2>3, <2>4, <2>5
  <1>2. CASE ~(config.overlap > 0 /\ Len(t) > config.overlap)
    <2>1. Overlap(t) = <<>>
      BY <1>2 DEF Overlap
    <2>2. Len(Overlap(t)) = 0
      BY <2>1
    <2> QED BY <2>1, <2>2, NoText
  <1> QED BY <1>1, <1>2

\* What is repeated reaches as far as the text it is the end of.
LEMMA OverlapReaches ==
    ASSUME NEW a \in Nat, NEW S \in SUBSET Nat, Reaches(S, a), NEW T \in SUBSET S, S \cap Letters \subseteq T,
           NEW R \in SUBSET T, \A q \in R, p \in T : q <= p => p \in R
    PROVE  Reaches(R, a)
  <1>1. ASSUME NEW q \in R PROVE q < a /\ q..(a - 1) \cap Letters \subseteq R
    <2>1. q \in S /\ q < a /\ q..(a - 1) \cap Letters \subseteq S
      BY DEF Reaches
    <2>2. ASSUME NEW l \in q..(a - 1) \cap Letters PROVE l \in R
      <3>1. l \in T /\ q <= l
        BY <2>1
      <3> QED BY <3>1
    <2> QED BY <2>1, <2>2
  <1> QED BY <1>1 DEF Reaches

\* A span is put to the text, with a separator if there is something before it.
Extended(begun, part, span) ==
    (IF begun = <<>> THEN <<>> ELSE begun \o Inserted(part)) \o Characters(span)

LEMMA ExtendedOK ==
    ASSUME content \in Seq(Alphabet), NEW begun \in Seq(Chars), Text(begun), NEW part \in Seq(Alphabet),
           NEW span \in Spans, InPlace(span), NEW ts \in Seq(Seq(Chars)),
           Behind(span.from, ts, From(begun))
    PROVE  /\ Extended(begun, part, span) \in Seq(Chars) /\ Text(Extended(begun, part, span))
           /\ Extended(begun, part, span) # <<>>
           /\ Len(Extended(begun, part, span)) =
                 Size(span) + (IF begun = <<>> THEN 0 ELSE Len(begun) + Len(part))
           /\ Behind(span.to + 1, ts, From(Extended(begun, part, span)))
  <1> DEFINE a == IF begun = <<>> THEN <<>> ELSE begun \o Inserted(part)
             b == Characters(span)
  <1>1. /\ b \in Seq(Chars) /\ Text(b) /\ Len(b) = Size(span) /\ Size(span) \in Nat \ {0}
        /\ From(b) = span.from..span.to
    BY CharactersOf
  <1>2. /\ a \in Seq(Chars) /\ Text(a) /\ From(a) = From(begun)
        /\ Len(a) = IF begun = <<>> THEN 0 ELSE Len(begun) + Len(part)
    <2>1. CASE begun = <<>>
      BY <2>1, NoText
    <2>2. CASE begun # <<>>
      <3>1. /\ Inserted(part) \in Seq(Chars) /\ Len(Inserted(part)) = Len(part)
            /\ From(Inserted(part)) = {} /\ Text(Inserted(part))
        BY InsertedPart
      <3>2. /\ begun \o Inserted(part) \in Seq(Chars) /\ Text(begun \o Inserted(part))
            /\ From(begun \o Inserted(part)) = From(begun)
            /\ Len(begun \o Inserted(part)) = Len(begun) + Len(part)
        <4>1. /\ begun \o Inserted(part) \in Seq(Chars)
              /\ Len(begun \o Inserted(part)) = Len(begun) + Len(part)
          BY <3>1, JoinedTexts
        <4>2. From(begun \o Inserted(part)) = From(begun) \cup From(Inserted(part))
          BY <3>1, JoinedTexts
        <4>3. \A p \in From(begun), q \in From(Inserted(part)) : p < q
          BY <3>1
        <4>4. Text(begun \o Inserted(part))
          BY <3>1, <4>3, JoinedTexts
        <4> QED BY <3>1, <4>1, <4>2, <4>4
      <3> QED BY <2>2, <3>2
    <2> QED BY <2>1, <2>2
  <1>3. \A p \in From(begun) : p < span.from
    BY DEF Behind, Reaches
  <1>4. span.from \in Int /\ span.to \in Int
    BY DEF Spans
  <1>5. From(begun) \in SUBSET Nat /\ Letters \subseteq Nat /\ \A n \in DOMAIN ts : From(ts[n]) \subseteq Nat
    <2>1. \A n \in DOMAIN ts : ts[n] \in Seq(Chars)
      OBVIOUS
    <2> QED BY <2>1, TagsOf, LettersAre
  <1>6. Extended(begun, part, span) = a \o b
    BY DEF Extended
  <1> HIDE DEF a, b
  <1>7. \A p \in From(a), q \in From(b) : p < q
    BY <1>1, <1>2, <1>3, <1>4, <1>5
  <1>8. /\ a \o b \in Seq(Chars) /\ Len(a \o b) = Len(a) + Len(b)
        /\ From(a \o b) = From(begun) \cup (span.from..span.to)
        /\ Text(a \o b)
    <2>1. a \o b \in Seq(Chars) /\ Len(a \o b) = Len(a) + Len(b)
      BY <1>1, <1>2, JoinedTexts
    <2>2. From(a \o b) = From(a) \cup From(b)
      BY <1>1, <1>2, JoinedTexts
    <2>3. Text(a \o b)
      BY <1>1, <1>2, <1>7, JoinedTexts
    <2> QED BY <1>1, <1>2, <2>1, <2>2, <2>3
  <1>9. Behind(span.to + 1, ts, From(begun) \cup (span.from..span.to))
    BY <1>5, SpanAdded
  <1>10. Len(a) \in Nat /\ Len(a) + Len(b) = Size(span) + Len(a) /\ Len(a) + Len(b) # 0
    BY <1>1, <1>2
  <1>11. a \o b # <<>>
    BY <1>8, <1>10
  <1> QED BY <1>2, <1>6, <1>8, <1>9, <1>10, <1>11

LEMMA MergeOK ==
    ASSUME SplitterTypes, config.kind = "recursive", call \in Frames, call.good # <<>>, MergeSplit,
           InPlace(Head(call.good)), Size(Head(call.good)) < config.size,
           BuiltOK(merged), \A n \in DOMAIN texts : TextOK(texts[n]),
           Behind(Head(call.good).from, texts, From(merged))
    PROVE  /\ merged' \in Seq(Chars) /\ BuiltOK(merged')
           /\ texts' \in Seq(Seq(Chars)) /\ \A n \in DOMAIN texts' : TextOK(texts'[n])
           /\ Behind(Head(call.good).to + 1, texts', From(merged'))
  <1> DEFINE split == Head(call.good)
             full == merged # <<>> /\ Joined(merged, split) > config.size
             begun == IF full THEN Overlap(Stripped(merged)) ELSE merged
  <1>1. /\ texts' = IF full THEN Emitted ELSE texts
        /\ merged' = Extended(begun, SeparatorToUse, split)
    BY DEF MergeSplit, Extended
  <1>2. split \in Spans /\ InPlace(split) /\ Size(split) < config.size
    <2>1. call.good \in Seq(Spans)
      BY FrameParts
    <2> QED BY <2>1
  <1>3. SeparatorToUse \in Seq(Alphabet) /\ Len(SeparatorToUse) \in 0..2
    <2>1. Separator \in Seq(Alphabet) /\ Len(Separator) \in 0..2
      BY FrameParts, SeparatorParts DEF Separator
    <2>2. <<>> \in Seq(Alphabet) /\ Len(<<>>) = 0
      OBVIOUS
    <2> QED BY <2>1, <2>2 DEF SeparatorToUse
  <1>4. /\ content \in Seq(Alphabet) /\ config.size \in Nat \ {0} /\ config.overlap \in Nat
        /\ merged \in Seq(Chars) /\ texts \in Seq(Seq(Chars)) /\ Text(merged) /\ Len(merged) \in Nat
    BY DEF SplitterTypes, BuiltOK
  <1>5. split.from \in Nat /\ Size(split) \in Nat
    BY <1>2, CharactersOf, <1>4 DEF InPlace, Spans
  <1>6. Behind(split.from, texts, From(merged))
    OBVIOUS
  <1> HIDE DEF split
  <1>7. CASE ~full
    <2>1. texts' = texts /\ begun = merged
      BY <1>1, <1>7
    <2>2. /\ merged' \in Seq(Chars) /\ Text(merged')
          /\ Len(merged') = Size(split) + (IF merged = <<>> THEN 0 ELSE Len(merged) + Len(SeparatorToUse))
          /\ Behind(split.to + 1, texts, From(merged'))
      BY <1>1, <1>2, <1>3, <1>4, <1>6, <2>1, ExtendedOK, SMTT(30)
    <2>3. Len(merged') <= config.size
      <3>1. CASE merged = <<>>
        BY <1>2, <1>4, <1>5, <2>2, <3>1
      <3>2. CASE merged # <<>>
        <4>1. ~(Len(merged) + Size(split) + Len(SeparatorToUse) > config.size)
          BY <1>7, <3>2 DEF Joined
        <4> QED BY <1>3, <1>4, <1>5, <2>2, <3>2, <4>1, SMTT(30)
      <3> QED BY <3>1, <3>2
    <2> QED BY <1>4, <2>1, <2>2, <2>3 DEF split, BuiltOK, Bounded
  <1>8. CASE full
    <2> DEFINE t == Stripped(merged)
               R == From(Overlap(t))
    <2>1. texts' = Emitted /\ begun = Overlap(t)
      BY <1>1, <1>8
    <2>2. /\ t \in Seq(Chars) /\ Text(t) /\ From(t) \subseteq From(merged)
          /\ From(merged) \cap Letters \subseteq From(t)
      BY <1>4, StrippedOK DEF BuiltOK
    <2>3. /\ Overlap(t) \in Seq(Chars) /\ Text(Overlap(t)) /\ Len(Overlap(t)) <= config.overlap
          /\ config.overlap = 0 => Overlap(t) = <<>>
          /\ From(Overlap(t)) \subseteq From(t)
          /\ \A q \in From(Overlap(t)), p \in From(t) : q <= p => p \in From(Overlap(t))
      BY <1>4, <2>2, OverlapOf
    <2>4. InOrder => R = {}
      BY <2>3, NoText DEF InOrder
    <2>5. Reaches(R, split.from)
      <3>1. Reaches(From(merged), split.from) /\ From(merged) \in SUBSET Nat
        BY <1>4, TagsOf DEF Behind, split
      <3> QED BY <1>5, <2>2, <2>3, <3>1, OverlapReaches
    <2>6. /\ Emitted \in Seq(Seq(Chars)) /\ \A n \in DOMAIN Emitted : TextOK(Emitted[n])
          /\ Behind(split.from, Emitted, R)
      BY <1>4, <1>5, <1>6, <2>3, <2>4, <2>5, EmittedOK
    <2>7. /\ merged' \in Seq(Chars) /\ Text(merged')
          /\ Len(merged') = Size(split) + (IF Overlap(t) = <<>> THEN 0
                                           ELSE Len(Overlap(t)) + Len(SeparatorToUse))
          /\ Behind(split.to + 1, Emitted, From(merged'))
      BY <1>1, <1>2, <1>3, <1>4, <2>1, <2>3, <2>6, ExtendedOK, ZenonT(60)
    <2>8. Bounded(merged')
      <3>1. Len(merged') \in Nat /\ Len(Overlap(t)) \in Nat
        BY <2>3, <2>7
      <3>2. CASE Overlap(t) = <<>>
        BY <1>2, <1>4, <1>5, <2>7, <3>1, <3>2 DEF Bounded
      <3>3. CASE Overlap(t) # <<>>
        <4>1. config.overlap > 0
          BY <1>4, <2>3, <3>3
        <4>2. Len(merged') <= config.size - 1 + config.overlap + 2
          <5>1. Len(merged') = Size(split) + (Len(Overlap(t)) + Len(SeparatorToUse))
            BY <2>7, <3>3
          <5>2. \A n, o, p, c, v \in Nat : n < c /\ o <= v /\ p <= 2 => n + (o + p) <= c - 1 + v + 2
            OBVIOUS
          <5>3. /\ Size(split) \in Nat /\ Len(Overlap(t)) \in Nat /\ Len(SeparatorToUse) \in Nat
                /\ config.size \in Nat /\ config.overlap \in Nat
                /\ Size(split) < config.size /\ Len(Overlap(t)) <= config.overlap
                /\ Len(SeparatorToUse) <= 2
            <6>1. Size(split) \in Nat /\ Size(split) < config.size
              BY <1>2, <1>5
            <6>2. Len(Overlap(t)) \in Nat /\ Len(Overlap(t)) <= config.overlap
              BY <2>3, <3>1
            <6>3. Len(SeparatorToUse) \in Nat /\ Len(SeparatorToUse) <= 2
              <7>1. \A n \in 0..2 : n \in Nat /\ n <= 2
                OBVIOUS
              <7> QED BY <1>3, <7>1
            <6>4. config.size \in Nat /\ config.overlap \in Nat
              BY <1>4
            <6> QED BY <6>1, <6>2, <6>3, <6>4
          <5> QED BY <5>1, <5>2, <5>3, SMTT(30)
        <4> QED BY <4>1, <4>2 DEF Bounded
      <3> QED BY <3>2, <3>3
    <2> QED BY <2>1, <2>6, <2>7, <2>8 DEF split, BuiltOK
  <1> QED BY <1>7, <1>8

----
(* Sentences. *)

LEMMA SentenceFound ==
    ASSUME content \in Seq(Alphabet), call \in Frames, RestOK(call), ~IsEmpty(call.rest),
           call.rest.to = Len(content)
    PROVE  /\ Least(SentenceEnds) \in Nat
           /\ call.rest.from <= Least(SentenceEnds) /\ Least(SentenceEnds) <= call.rest.to
           /\ \A i \in call.rest.from..(Least(SentenceEnds) - 1) :
                 content[i] \in SentenceMarks => content[i + 1] \notin Space
  <1> DEFINE a == call.rest.from
             b == call.rest.to
             e == Least(SentenceEnds)
  <1>1. a \in Nat /\ b \in Nat /\ 1 <= a /\ a <= b /\ b = Len(content)
    BY FrameParts DEF RestOK, IsEmpty
  <1>2. \A i \in a..b : i \in SentenceEnds <=> i = Len(content)
                            \/ (content[i] \in SentenceMarks /\ content[i + 1] \in Space)
    BY DEF SentenceEnds
  <1>3. SentenceEnds \subseteq a..b
    BY DEF SentenceEnds
  <1> HIDE DEF a, b, e
  <1>4. SentenceEnds \in SUBSET Nat /\ b \in SentenceEnds
    BY <1>1, <1>2, <1>3
  <1>5. e \in SentenceEnds /\ \A i \in SentenceEnds : e <= i
    BY <1>4, LeastOf DEF e
  <1>6. e \in Nat /\ a <= e /\ e <= b
    BY <1>1, <1>3, <1>5
  <1>7. ASSUME NEW i \in a..(e - 1), content[i] \in SentenceMarks PROVE content[i + 1] \notin Space
    <2>1. i \in a..b /\ ~(e <= i)
      BY <1>1, <1>6
    <2>2. i \notin SentenceEnds
      BY <1>5, <2>1
    <2> QED BY <1>2, <1>7, <2>1, <2>2
  <1> QED BY <1>6, <1>7 DEF a, b, e

LEMMA SentenceTrimmed ==
    ASSUME content \in Seq(Alphabet), call \in Frames, RestOK(call), ~IsEmpty(call.rest),
           call.rest.to = Len(content), NEW e, e = Least(SentenceEnds),
           NEW s, s = TrimSpan(Span(call.rest.from, e))
    PROVE  /\ s \in Spans
           /\ IsEmpty(s) => NoLetters(call.rest.from, e)
           /\ ~IsEmpty(s) =>
                 /\ InPlace(s) /\ call.rest.from <= s.from /\ s.to <= e
                 /\ NoLetters(call.rest.from, s.from - 1) /\ NoLetters(s.to + 1, e)
                 /\ OneSentence(Characters(s)) /\ Solid(Characters(s))
  <1> DEFINE a == call.rest.from
             r == Span(a, e)
  <1>1. /\ a \in Nat /\ 1 <= a /\ e \in Nat /\ a <= e /\ e <= Len(content) /\ Len(content) \in Nat
        /\ \A i \in a..(e - 1) : content[i] \in SentenceMarks => content[i + 1] \notin Space
    BY FrameParts, SentenceFound DEF RestOK
  <1>2. r \in Spans /\ r.from = a /\ r.to = e
    BY <1>1, SpanOf
  <1>3. s = TrimSpan(r)
    OBVIOUS
  <1> HIDE DEF a, r
  <1>4. /\ s \in Spans
        /\ IsEmpty(s) => \A i \in a..e : content[i] \in Space
        /\ ~IsEmpty(s) =>
              /\ a <= s.from /\ s.from <= s.to /\ s.to <= e
              /\ content[s.from] \notin Space
              /\ \A i \in a..e : content[i] \notin Space => s.from <= i /\ i <= s.to
    BY <1>1, <1>2, <1>3, TrimmedSpan
  <1>5. s.from \in Int /\ s.to \in Int
    BY <1>4 DEF Spans
  <1>6. Letters \subseteq Nat /\ \A p \in Letters : content[p] \notin Space
    BY LettersAre DEF Letters, IsLetter
  <1>7. ASSUME IsEmpty(s) PROVE NoLetters(a, e)
    BY <1>1, <1>4, <1>6, <1>7 DEF NoLetters
  <1>8. ASSUME ~IsEmpty(s)
        PROVE  /\ InPlace(s) /\ a <= s.from /\ s.to <= e /\ NoLetters(a, s.from - 1) /\ NoLetters(s.to + 1, e)
               /\ OneSentence(Characters(s)) /\ Solid(Characters(s))
    <2>1. InPlace(s)
      BY <1>1, <1>4, <1>5, <1>8 DEF InPlace
    <2>2. NoLetters(a, s.from - 1)
      <3>1. \A p \in Letters : ~(a <= p /\ p <= s.from - 1)
        BY <1>1, <1>4, <1>5, <1>6, <1>8
      <3> QED BY <3>1 DEF NoLetters
    <2>3. NoLetters(s.to + 1, e)
      <3>1. \A p \in Letters : ~(s.to + 1 <= p /\ p <= e)
        BY <1>1, <1>4, <1>5, <1>6, <1>8
      <3> QED BY <3>1 DEF NoLetters
    <2>4. /\ Characters(s) \in Seq(Chars)
          /\ Len(Characters(s)) = Size(s) /\ Size(s) \in Nat \ {0} /\ Size(s) = s.to - s.from + 1
          /\ \A i \in 1..Size(s) : Characters(s)[i].char = content[s.from + i - 1]
      BY <1>4, <2>1, CharactersOf DEF Size
    <2>5. OneSentence(Characters(s))
      <3>1. ASSUME NEW i \in 1..(Size(s) - 1), Characters(s)[i].char \in SentenceMarks
            PROVE  Characters(s)[i + 1].char \notin Space
        <4>1. i \in 1..Size(s) /\ i + 1 \in 1..Size(s)
          BY <2>4
        <4>2. s.from + i - 1 \in a..(e - 1) /\ s.from + (i + 1) - 1 = (s.from + i - 1) + 1
          <5>1. i \in Nat /\ 1 <= i /\ i <= (s.to - s.from + 1) - 1
            BY <1>5, <2>4
          <5> QED BY <1>1, <1>4, <1>5, <1>8, <5>1, SMTT(40)
        <4>3. /\ Characters(s)[i].char = content[s.from + i - 1]
              /\ Characters(s)[i + 1].char = content[(s.from + i - 1) + 1]
          BY <2>4, <4>1, <4>2
        <4> QED BY <1>1, <3>1, <4>2, <4>3
      <3> QED BY <2>4, <3>1 DEF OneSentence
    <2>6. Solid(Characters(s))
      <3>1. 1 \in DOMAIN Characters(s) /\ 1 \in 1..Size(s) /\ s.from + 1 - 1 = s.from
        <4>1. \A n \in Nat \ {0} : 1 \in 1..n
          OBVIOUS
        <4>2. 1 \in 1..Size(s)
          BY <2>4, <4>1, Zenon
        <4>3. DOMAIN Characters(s) = 1..Size(s)
          BY <2>4
        <4>4. s.from + 1 - 1 = s.from
          BY <1>5
        <4> QED BY <4>2, <4>3, <4>4
      <3>2. Characters(s)[1].char = content[s.from]
        BY <2>4, <3>1
      <3> QED BY <1>4, <1>8, <3>1, <3>2 DEF Solid
    <2> QED BY <1>4, <1>8, <2>1, <2>2, <2>3, <2>5, <2>6
  <1> QED BY <1>4, <1>7, <1>8 DEF a

LEMMA SolidEnd ==
    ASSUME NEW a \in Seq(Chars), NEW b \in Seq(Chars), Solid(b)
    PROVE  Solid(a \o b)
  <1>1. PICK i \in DOMAIN b : b[i].char \notin Space
    BY DEF Solid
  <1>2. Len(a) + i \in DOMAIN (a \o b) /\ (a \o b)[Len(a) + i] = b[i]
    BY <1>1
  <1> QED BY <1>1, <1>2 DEF Solid

LEMMA SentenceOK ==
    ASSUME SplitterTypes, config.kind = "sentence", call \in Frames, RestOK(call), ~IsEmpty(call.rest),
           call.rest.to = Len(content), TakeSentence,
           BuiltOK(merged), merged # <<>> => Solid(merged), \A n \in DOMAIN texts : TextOK(texts[n]),
           Behind(call.rest.from, texts, From(merged))
    PROVE  /\ merged' \in Seq(Chars) /\ BuiltOK(merged') /\ (merged' # <<>> => Solid(merged'))
           /\ texts' \in Seq(Seq(Chars)) /\ \A n \in DOMAIN texts' : TextOK(texts'[n])
           /\ Behind(Least(SentenceEnds) + 1, texts', From(merged'))
  <1> DEFINE a == call.rest.from
             e == Least(SentenceEnds)
             s == TrimSpan(Span(a, e))
             full == merged # <<>> /\ ~IsEmpty(s) /\ ~Fits(merged, s)
             begun == IF full THEN <<>> ELSE merged
  <1>1. /\ texts' = IF full THEN Append(texts, TrimText(merged)) ELSE texts
        /\ merged' = IF IsEmpty(s) THEN merged ELSE Extended(begun, <<Blank>>, s)
    BY DEF TakeSentence, Extended
  <1>2. a \in Nat /\ e \in Nat /\ a <= e
    BY FrameParts, SentenceFound DEF RestOK, SplitterTypes
  <1>3. /\ s \in Spans
        /\ IsEmpty(s) => NoLetters(a, e)
        /\ ~IsEmpty(s) => /\ InPlace(s) /\ a <= s.from /\ s.to <= e
                          /\ NoLetters(a, s.from - 1) /\ NoLetters(s.to + 1, e)
                          /\ OneSentence(Characters(s)) /\ Solid(Characters(s))
    BY SentenceTrimmed DEF SplitterTypes
  <1>4. /\ content \in Seq(Alphabet) /\ config.size \in Nat \ {0} /\ config.overlap \in Nat
        /\ merged \in Seq(Chars) /\ texts \in Seq(Seq(Chars)) /\ Text(merged) /\ Len(merged) \in Nat
    BY DEF SplitterTypes, BuiltOK
  <1>5. /\ From(merged) \in SUBSET Nat /\ Letters \subseteq Nat
        /\ \A n \in DOMAIN texts : texts[n] \in Seq(Chars) /\ From(texts[n]) \subseteq Nat
    <2>1. \A n \in DOMAIN texts : texts[n] \in Seq(Chars)
      BY <1>4
    <2> QED BY <1>4, <2>1, TagsOf, LettersAre
  <1>6. s.from \in Int /\ s.to \in Int
    BY <1>3 DEF Spans
  <1>7. Behind(a, texts, From(merged))
    OBVIOUS
  <1>8. full <=> merged # <<>> /\ ~IsEmpty(s) /\ ~(Len(merged) + Size(s) + 1 <= config.size)
    BY DEF Fits
  <1>9. <<Blank>> \in Seq(Alphabet) /\ Len(<<Blank>>) = 1
    BY DEF Alphabet, Space
  <1> HIDE DEF a, e, s, full
  <1>10. CASE IsEmpty(s)
    <2>1. texts' = texts /\ merged' = merged
      BY <1>1, <1>8, <1>10
    <2>2. Behind(e + 1, texts, From(merged))
      <3>1. e + 1 \in Nat /\ a <= e + 1 /\ (e + 1) - 1 = e
        BY <1>2
      <3> QED BY <1>2, <1>3, <1>5, <1>7, <1>10, <3>1, MarkAdvances
    <2> QED BY <1>4, <2>1, <2>2 DEF e
  <1>11. CASE ~IsEmpty(s)
    <2>0. s.from \in Nat /\ Size(s) \in Nat \ {0}
      BY <1>3, <1>4, <1>6, <1>11, CharactersOf DEF InPlace
    <2>1. Behind(s.from, texts, From(merged))
      BY <1>2, <1>3, <1>5, <1>7, <1>11, <2>0, MarkAdvances
    <2>2. /\ texts' \in Seq(Seq(Chars)) /\ \A n \in DOMAIN texts' : TextOK(texts'[n])
          /\ Behind(s.from, texts', From(begun)) /\ Text(begun) /\ begun \in Seq(Chars)
      <3>1. CASE ~full
        BY <1>1, <1>4, <2>1, <3>1
      <3>2. CASE full
        <4> DEFINE t == TrimText(merged)
        <4>1. texts' = Append(texts, t) /\ begun = <<>>
          BY <1>1, <3>2
        <4>2. t \in Seq(Chars) /\ BuiltOK(t) /\ t # <<>> /\ From(t) \subseteq From(merged)
          BY <1>4, <1>8, <3>2, TrimmedText, TrimmedOK
        <4>3. From(merged) \cap Letters \subseteq From(t)
          BY <1>4, LettersKept
        <4>4. Reaches({}, s.from) /\ {} \in SUBSET From(t)
          BY DEF Reaches
        <4>5. /\ Append(texts, t) \in Seq(Seq(Chars))
              /\ \A n \in DOMAIN Append(texts, t) : TextOK(Append(texts, t)[n])
              /\ Behind(s.from, Append(texts, t), {})
          BY <1>4, <2>0, <2>1, <4>2, <4>3, <4>4, TextAdded
        <4> QED BY <4>1, <4>5, NoText
      <3> QED BY <3>1, <3>2
    <2>3. /\ merged' \in Seq(Chars) /\ Text(merged')
          /\ Len(merged') = Size(s) + (IF begun = <<>> THEN 0 ELSE Len(begun) + 1)
          /\ Behind(s.to + 1, texts', From(merged'))
      BY <1>1, <1>3, <1>4, <1>9, <1>11, <2>2, ExtendedOK
    <2>4. Behind(e + 1, texts', From(merged'))
      <3>1. \A n \in DOMAIN texts' : From(texts'[n]) \subseteq Nat
        <4>1. \A n \in DOMAIN texts' : texts'[n] \in Seq(Chars)
          BY <2>2
        <4> QED BY <4>1, TagsOf
      <3>2. From(merged') \in SUBSET Nat
        BY <2>3, TagsOf
      <3>3. s.to + 1 \in Nat /\ e + 1 \in Nat /\ s.to + 1 <= e + 1 /\ (e + 1) - 1 = e
        BY <1>2, <1>3, <1>6, <1>11, <2>0 DEF InPlace
      <3> QED BY <1>3, <1>5, <1>11, <2>3, <3>1, <3>2, <3>3, MarkAdvances
    <2>5. Bounded(merged')
      <3>1. CASE begun = <<>>
        <4>1. merged' = <<>> \o Characters(s)
          BY <1>1, <1>11, <3>1 DEF Extended
        <4>2. merged' = Characters(s)
          BY <1>3, <1>4, <1>11, <4>1, CharactersOf
        <4> QED BY <1>3, <1>11, <4>2 DEF Bounded
      <3>2. CASE begun # <<>>
        <4>1. begun = merged /\ Len(merged) + Size(s) + 1 <= config.size
          BY <1>8, <1>11, <3>2
        <4>2. Len(merged') = Size(s) + (Len(merged) + 1)
          BY <2>3, <3>2, <4>1
        <4>3. Len(merged') <= config.size
          BY <1>4, <2>0, <4>1, <4>2
        <4> QED BY <4>3 DEF Bounded
      <3> QED BY <3>1, <3>2
    <2>6. Solid(merged')
      <3> DEFINE x == IF begun = <<>> THEN <<>> ELSE begun \o Inserted(<<Blank>>)
      <3>1. x \in Seq(Chars)
        BY <1>9, <2>2, InsertedPart, JoinedTexts, NoText
      <3>2. merged' = x \o Characters(s)
        BY <1>1, <1>11 DEF Extended
      <3>3. Characters(s) \in Seq(Chars)
        BY <1>3, <1>4, <1>11, CharactersOf
      <3> HIDE DEF x
      <3> QED BY <1>3, <1>11, <3>1, <3>2, <3>3, SolidEnd
    <2> QED BY <2>2, <2>3, <2>4, <2>5, <2>6 DEF e, BuiltOK
  <1> QED BY <1>10, <1>11

----
(* The invariant. *)

LEMMA Rebased ==
    ASSUME content' = content, config' = config, SplitterTypes', Control', Placed',
           CallsOK(calls'), BuiltOK(merged'), \A n \in DOMAIN texts' : TextOK(texts'[n]),
           Behind(Mark(calls'), texts', From(merged'))
    PROVE  SplitterInv'
  <1>1. Letters' = Letters
    BY DEF Letters
  <1>2. \A a, b : NoLetters(a, b)' <=> NoLetters(a, b)
    BY <1>1 DEF NoLetters
  <1>3. CallsOK(calls)'
    BY <1>2 DEF CallsOK, RestOK, GoodOK, LargeOK, Follows, InPlace, Waiting, AfterGood
  <1>4. \A t : Text(t)' <=> Text(t)
    BY DEF Text
  <1>5. \A t : Bounded(t)' <=> Bounded(t)
    BY DEF Bounded
  <1>6. BuiltOK(merged)'
    BY <1>4, <1>5 DEF BuiltOK
  <1>7. (\A n \in DOMAIN texts : TextOK(texts[n]))'
    BY <1>1, <1>4, <1>5 DEF TextOK, Whole
  <1>8. Behind(Mark(calls), texts, From(merged))'
    BY <1>1 DEF Behind, Mark, Reaches, InOrder
  <1> QED BY <1>3, <1>6, <1>7, <1>8 DEF SplitterInv

LEMMA NormalisedOK ==
    ASSUME NEW cfg \in Configs
    PROVE  /\ Normalised(cfg) \in [kind : Kinds, size : Nat \ {0}, overlap : Nat,
                                   keep : BOOLEAN, strip : BOOLEAN]
           /\ Normalised(cfg).overlap < Normalised(cfg).size
  <1> DEFINE size == IF cfg.size <= 0 THEN 1000 ELSE cfg.size
             overlap == IF cfg.overlap < 0 THEN 0 ELSE cfg.overlap
             o == IF overlap >= size THEN size \div 4 ELSE overlap
  <1>1. /\ cfg \in [kind : Kinds, size : Int, overlap : Int, keep : BOOLEAN, strip : BOOLEAN]
        /\ cfg.size \in Int /\ cfg.overlap \in Int
    BY ConfigsAssumption DEF Kinds
  <1>2. size \in Nat \ {0} /\ overlap \in Nat
    BY <1>1
  <1>3. o \in Nat /\ o < size
    <2>1. \A n \in Nat \ {0} : n \div 4 \in Nat /\ n \div 4 < n
      OBVIOUS
    <2> QED BY <1>2, <2>1
  <1>4. Normalised(cfg) = [cfg EXCEPT !.size = size, !.overlap = o]
    BY DEF Normalised
  <1> HIDE DEF size, o
  <1>5. Normalised(cfg) = [kind |-> cfg.kind, size |-> size, overlap |-> o,
                           keep |-> cfg.keep, strip |-> cfg.strip]
    BY <1>1, <1>4
  <1>6. cfg.kind \in Kinds /\ cfg.keep \in BOOLEAN /\ cfg.strip \in BOOLEAN
    BY <1>1
  <1> QED BY <1>2, <1>3, <1>5, <1>6

LEMMA InitSplitterInv == SplitterInit => SplitterInv
  <1> SUFFICES ASSUME SplitterInit PROVE SplitterInv
    OBVIOUS
  <1> USE DEF SplitterInit
  <1>1. content \in Seq(Alphabet)
    <2>1. content \in Seq(STRING)
      BY DocumentsAssumption
    <2>2. \A i \in DOMAIN content : content[i] \in Alphabet
      BY <2>1 DEF Alphabet
    <2> QED BY <2>1, <2>2
  <1>2. /\ config \in [kind : Kinds, size : Nat \ {0}, overlap : Nat, keep : BOOLEAN, strip : BOOLEAN]
        /\ config.overlap < config.size
    BY NormalisedOK
  <1> DEFINE span == Span(1, Len(content))
             f == Call(span, 1)
  <1>3. span \in Spans /\ span.from = 1 /\ span.to = Len(content) /\ Len(content) \in Nat
    BY <1>1, SpanOf
  <1>4. /\ f \in Frames /\ f.rest = span /\ Waiting(f) /\ GoodOK(f) /\ LargeOK(f)
    BY <1>3, CallOf
  <1>5. calls = <<f>>
    OBVIOUS
  <1> HIDE DEF f, span
  <1>6. RestOK(f)
    BY <1>3, <1>4 DEF RestOK
  <1>7. calls \in Seq(Frames) /\ Len(calls) = 1 /\ calls[1] = f /\ calls # <<>> /\ DOMAIN calls = {1}
    BY <1>4, <1>5
  <1>8. CallsOK(calls)
    BY <1>3, <1>4, <1>6, <1>7 DEF CallsOK
  <1>9. SplitterTypes
    <2>1. <<>> \in Seq(Chars) /\ <<>> \in Seq(Seq(Chars)) /\ <<>> \in Seq([start : Nat, end : Nat])
      OBVIOUS
    <2> QED BY <1>1, <1>2, <1>7, <2>1 DEF SplitterTypes
  <1>10. stage \in {"split", "sentence"} /\ (stage = "split" <=> config.kind = "recursive")
    BY <1>2 DEF Kinds
  <1>11. Control
    BY <1>2, <1>4, <1>7, <1>10 DEF Control, call, SplitDone, Waiting, Kinds
  <1>12. Placed
    BY <1>10 DEF Placed, SplitDone
  <1>13. Len(<<>>) = 0 /\ DOMAIN <<>> = {}
    OBVIOUS
  <1>14. BuiltOK(merged)
    BY <1>2, <1>13, NoText DEF BuiltOK, Bounded
  <1>15. \A n \in DOMAIN texts : TextOK(texts[n])
    BY <1>13
  <1>16. Mark(calls) = 1
    BY <1>3, <1>4, <1>7 DEF Mark, Start, AfterGood, Waiting
  <1>17. \A p \in Letters : ~(p < 1)
    BY <1>1, LettersAre
  <1>18. From(merged) = {}
    BY NoText
  <1>19. Behind(1, texts, {})
    BY <1>13, <1>17 DEF Behind, Reaches
  <1> QED BY <1>8, <1>9, <1>11, <1>12, <1>14, <1>15, <1>16, <1>18, <1>19 DEF SplitterInv

LEMMA MarkIs ==
    ASSUME SplitterInv
    PROVE  /\ content \in Seq(Alphabet) /\ config.size \in Nat \ {0} /\ config.overlap \in Nat
           /\ Letters \subseteq Nat /\ Len(content) \in Nat
           /\ From(merged) \in SUBSET Nat
           /\ \A n \in DOMAIN texts : texts[n] \in Seq(Chars) /\ From(texts[n]) \subseteq Nat
           /\ calls # <<>> =>
                 /\ Len(calls) \in DOMAIN calls
                 /\ call \in Frames /\ RestOK(call) /\ GoodOK(call) /\ LargeOK(call)
                 /\ Mark(calls) = Start(call)
  <1>1. /\ content \in Seq(Alphabet) /\ config.size \in Nat \ {0} /\ config.overlap \in Nat
        /\ calls \in Seq(Frames) /\ merged \in Seq(Chars) /\ texts \in Seq(Seq(Chars))
    BY DEF SplitterInv, SplitterTypes
  <1>2. From(merged) \in SUBSET Nat /\ Letters \subseteq Nat /\ Len(content) \in Nat
    BY <1>1, TagsOf, LettersAre
  <1>3. \A n \in DOMAIN texts : texts[n] \in Seq(Chars) /\ From(texts[n]) \subseteq Nat
    <2>1. \A n \in DOMAIN texts : texts[n] \in Seq(Chars)
      BY <1>1
    <2> QED BY <2>1, TagsOf
  <1>4. ASSUME calls # <<>>
        PROVE  /\ Len(calls) \in DOMAIN calls
               /\ call \in Frames /\ RestOK(call) /\ GoodOK(call) /\ LargeOK(call)
               /\ Mark(calls) = Start(call)
    <2>1. Len(calls) \in DOMAIN calls
      BY <1>1, <1>4
    <2> QED BY <1>1, <1>4, <2>1 DEF SplitterInv, CallsOK, Mark, call
  <1> QED BY <1>1, <1>2, <1>3, <1>4

LEMMA TakeSplitKeeps ==
    ASSUME SplitterInv, TakeSplit
    PROVE  SplitterInv'
  <1>1. /\ stage = "split" /\ ~IsEmpty(call.rest) /\ calls # <<>> /\ config.kind = "recursive"
        /\ IsEmpty(call.large) /\ merged = <<>> /\ calls \in Seq(Frames) /\ CallsOK(calls)
    BY DEF TakeSplit, SplitterInv, Control, SplitterTypes
  <1>2. /\ content \in Seq(Alphabet) /\ config.size \in Nat \ {0} /\ config.overlap \in Nat
        /\ call \in Frames /\ RestOK(call) /\ GoodOK(call) /\ Mark(calls) = Start(call)
    BY <1>1, MarkIs
  <1> DEFINE s == StrippedSplit
             f == Taken(s)
  <1>3. /\ calls' = [calls EXCEPT ![Len(calls)] = f]
        /\ stage' = IF IsEmpty(s) \/ Small(s) THEN "split" ELSE "merge"
        /\ UNCHANGED <<content, config, merged, texts, placed, offset>>
    BY DEF TakeSplit, BeforeLarge
  <1>6. /\ f \in Frames /\ RestOK(f) /\ GoodOK(f) /\ LargeOK(f)
        /\ f.rest.to = call.rest.to
        /\ Start(call) \in Nat /\ Start(f) \in Nat
        /\ Start(call) <= Start(f) /\ NoLetters(Start(call), Start(f) - 1)
        /\ IsEmpty(f.large) <=> IsEmpty(s) \/ Small(s)
    BY <1>1, <1>2, FrameAdvances
  <1> HIDE DEF s, f
  <1>7. /\ calls' \in Seq(Frames) /\ Len(calls') = Len(calls) /\ calls' # <<>>
        /\ calls'[Len(calls')] = f /\ Mark(calls') = Start(f) /\ CallsOK(calls')
    <2>1. f.rest.to = calls[Len(calls)].rest.to
      BY <1>6 DEF call
    <2>2. calls' \in Seq(Frames) /\ Len(calls') = Len(calls) /\ calls' # <<>>
      BY <1>1, <1>3, <1>6, <2>1, CallReplaced
    <2>3. calls'[Len(calls')] = f
      BY <1>1, <1>3, <1>6, <2>1, CallReplaced
    <2>5. Mark(calls') = Start(f)
      BY <2>2, <2>3 DEF Mark
    <2>4. CallsOK(calls')
      BY <1>1, <1>3, <1>6, <2>1, CallReplaced
    <2> QED BY <2>2, <2>3, <2>4, <2>5
  <1>8. Behind(Start(call), texts, From(merged))
    BY <1>2 DEF SplitterInv
  <1>9. Behind(Start(f), texts, From(merged))
    BY <1>6, <1>8, MarkIs, MarkAdvances
  <1>10. call' = f
    BY <1>7 DEF call
  <1>11. SplitterTypes'
    BY <1>3, <1>7 DEF SplitterInv, SplitterTypes
  <1>12. Control'
    BY <1>1, <1>3, <1>6, <1>7, <1>10 DEF Control, SplitDone
  <1>13. Placed'
    BY <1>1, <1>3 DEF SplitterInv, Placed, SplitDone
  <1>14. BuiltOK(merged') /\ \A n \in DOMAIN texts' : TextOK(texts'[n])
    BY <1>3 DEF SplitterInv
  <1>15. Behind(Mark(calls'), texts', From(merged'))
    BY <1>3, <1>7, <1>9
  <1> QED BY <1>3, <1>7, <1>11, <1>12, <1>13, <1>14, <1>15, Rebased

LEMMA OnlyPlaced ==
    ASSUME SplitterInv, UNCHANGED <<content, config, calls, merged, texts>>,
           SplitterTypes', Control', Placed'
    PROVE  SplitterInv'
  <1>1. /\ CallsOK(calls') /\ BuiltOK(merged') /\ \A n \in DOMAIN texts' : TextOK(texts'[n])
        /\ Behind(Mark(calls'), texts', From(merged'))
    BY DEF SplitterInv
  <1> QED BY <1>1, Rebased

LEMMA EndSplitsKeeps ==
    ASSUME SplitterInv, EndSplits
    PROVE  SplitterInv'
  <1>1. /\ UNCHANGED <<content, config, calls, merged, texts, placed, offset>>
        /\ stage = "split" /\ IsEmpty(call.rest) /\ stage' = "merge"
    BY DEF EndSplits
  <1>2. call' = call
    BY <1>1 DEF call
  <1>3. SplitterTypes'
    BY <1>1 DEF SplitterInv, SplitterTypes
  <1>4. Control'
    BY <1>1, <1>2 DEF SplitterInv, Control, SplitDone
  <1>5. Placed'
    BY <1>1 DEF SplitterInv, Placed, SplitDone
  <1> QED BY <1>1, <1>3, <1>4, <1>5, OnlyPlaced

LEMMA TailParts ==
    ASSUME NEW S, NEW g \in Seq(S), g # <<>>, NEW h, h = Tail(g)
    PROVE  /\ h \in Seq(S)
           /\ \A j \in DOMAIN h : j + 1 \in DOMAIN g /\ h[j] = g[j + 1]
           /\ \A j \in 1..(Len(h) - 1) : j + 1 \in 1..(Len(g) - 1) /\ h[j] = g[j + 1] /\ h[j + 1] = g[(j + 1) + 1]
           /\ h # <<>> => h[Len(h)] = g[Len(g)] /\ h[1] = g[2] /\ 1 \in 1..(Len(g) - 1)
           /\ h = <<>> => g[1] = g[Len(g)]
           /\ g[1] = Head(g) /\ 1 \in DOMAIN g
  <1> DEFINE k == Len(g)
  <1>1. /\ k \in Nat \ {0} /\ Len(g) = k /\ DOMAIN g = 1..k
        /\ h \in Seq(S) /\ Len(h) = k - 1 /\ DOMAIN h = 1..(k - 1) /\ (h = <<>> <=> k = 1)
        /\ \A j \in 1..(k - 1) : h[j] = g[j + 1]
        /\ g[1] = Head(g)
    <2>1. k \in Nat \ {0} /\ Len(g) = k /\ DOMAIN g = 1..k
      OBVIOUS
    <2>2. h \in Seq(S)
      OBVIOUS
    <2>3. Len(h) = k - 1
      OBVIOUS
    <2>4. DOMAIN h = 1..(k - 1)
      BY <2>2, <2>3
    <2>5. \A j \in 1..(k - 1) : h[j] = g[j + 1]
      OBVIOUS
    <2>6. g[1] = Head(g)
      OBVIOUS
    <2> HIDE DEF k
    <2>7. h = <<>> <=> k = 1
      <3>1. CASE k = 1
        BY <2>2, <2>3, <3>1
      <3>2. CASE k # 1
        <4>1. Len(<<>>) = 0 /\ Len(h) # 0
          BY <2>1, <2>3, <3>2, SMTT(30)
        <4> QED BY <4>1, <3>2
      <3> QED BY <3>1, <3>2
    <2> QED BY <2>1, <2>2, <2>3, <2>4, <2>5, <2>6, <2>7
  <1> HIDE DEF k
  <1>2. h # <<>> => h[Len(h)] = g[Len(g)] /\ h[1] = g[2] /\ 1 \in 1..(Len(g) - 1)
    <2>1. k # 1 => k - 1 \in 1..(k - 1) /\ (k - 1) + 1 = k /\ 1 \in 1..(k - 1)
      BY <1>1
    <2> QED BY <1>1, <2>1
  <1>3. \A j \in 1..(k - 1) : j + 1 \in 1..k
    BY <1>1
  <1>4. \A j \in 1..((k - 1) - 1) : j \in 1..(k - 1) /\ j + 1 \in 1..(k - 1)
    BY <1>1
  <1>5. 1 \in 1..k
    BY <1>1
  <1> QED BY <1>1, <1>2, <1>3, <1>4, <1>5

\* The first of the good splits is taken.
LEMMA GoodTaken ==
    ASSUME content \in Seq(Alphabet), call \in Frames, RestOK(call), GoodOK(call), LargeOK(call),
           call.good # <<>>, NEW f, f = [call EXCEPT !.good = Tail(call.good)]
    PROVE  /\ f \in Frames /\ RestOK(f) /\ GoodOK(f) /\ LargeOK(f)
           /\ f.rest = call.rest /\ f.large = call.large /\ f.level = call.level
           /\ Head(call.good) \in Spans /\ InPlace(Head(call.good))
           /\ Size(Head(call.good)) < config.size
           /\ Start(call) = Head(call.good).from
           /\ Follows(Head(call.good).to, Start(f))
           /\ Head(call.good).to \in Nat /\ Start(f) \in Nat
  <1> DEFINE g == call.good
             h == f.good
  <1>1. /\ f = [level |-> call.level, rest |-> call.rest, good |-> Tail(g), large |-> call.large]
        /\ f.rest = call.rest /\ f.large = call.large /\ f.level = call.level /\ h = Tail(g)
    BY DEF Frames
  <1>2. g \in Seq(Spans) /\ g # <<>>
    BY FrameParts
  <1>3. f \in Frames
    <2>1. Tail(g) \in Seq(Spans)
      BY <1>2
    <2>2. call.level \in DOMAIN Separators
      BY FrameParts, SeparatorParts
    <2> QED BY <1>1, <2>1, <2>2, FrameParts DEF Frames
  <1>4. /\ \A j \in DOMAIN g : InPlace(g[j]) /\ Size(g[j]) < config.size
        /\ \A j \in 1..(Len(g) - 1) : Follows(g[j].to, g[j + 1].from)
        /\ Follows(g[Len(g)].to, AfterGood(call))
    BY <1>2 DEF GoodOK
  <1>5. AfterGood(f) = AfterGood(call)
    BY <1>1 DEF AfterGood
  <1>6. Start(f) = IF h = <<>> THEN AfterGood(call) ELSE h[1].from
    BY <1>5 DEF Start
  <1>7. Start(call) = g[1].from
    BY <1>2 DEF Start
  <1> HIDE DEF g, h
  <1>8. \A j \in DOMAIN h : j + 1 \in DOMAIN g /\ h[j] = g[j + 1]
    BY <1>1, <1>2, TailParts
  <1>9. \A j \in 1..(Len(h) - 1) : j + 1 \in 1..(Len(g) - 1) /\ h[j] = g[j + 1] /\ h[j + 1] = g[(j + 1) + 1]
    BY <1>1, <1>2, TailParts
  <1>10. h # <<>> => h[Len(h)] = g[Len(g)] /\ h[1] = g[2] /\ 1 \in 1..(Len(g) - 1)
    BY <1>1, <1>2, TailParts
  <1>11. (h = <<>> => g[1] = g[Len(g)]) /\ g[1] = Head(g) /\ 1 \in DOMAIN g
    BY <1>1, <1>2, TailParts, ZenonT(60)
  <1>12. GoodOK(f)
    <2>1. \A j \in DOMAIN h : InPlace(h[j]) /\ Size(h[j]) < config.size
      BY <1>4, <1>8
    <2>2. \A j \in 1..(Len(h) - 1) : Follows(h[j].to, h[j + 1].from)
      BY <1>4, <1>9
    <2>3. h # <<>> => Follows(h[Len(h)].to, AfterGood(f))
      BY <1>4, <1>5, <1>10
    <2> QED BY <2>1, <2>2, <2>3 DEF GoodOK, h
  <1>13. RestOK(f) /\ LargeOK(f)
    BY <1>1 DEF RestOK, LargeOK
  <1>14. Follows(g[1].to, Start(f))
    <2>1. CASE h = <<>>
      BY <1>4, <1>6, <1>11, <2>1
    <2>2. CASE h # <<>>
      <3>1. Follows(g[1].to, g[1 + 1].from) /\ 1 + 1 = 2
        BY <1>4, <1>10, <2>2, SMTT(30)
      <3> QED BY <1>6, <1>10, <2>2, <3>1
    <2> QED BY <2>1, <2>2
  <1>15. g[1] \in Spans /\ g[1].to \in Nat
    <2>1. g[1] \in Spans /\ g[1].to \in Int /\ g[1].from \in Int
      BY <1>11, FrameParts DEF g
    <2> QED BY <1>4, <1>11, <2>1 DEF InPlace
  <1>16. Start(f) \in Int
    <2>1. CASE h = <<>>
      BY <1>1, <1>6, <2>1, FrameParts DEF AfterGood
    <2>2. CASE h # <<>>
      <3>1. 1 \in DOMAIN h
        BY <1>1, <1>2, <2>2
      <3>2. h \in Seq(Spans)
        BY <1>1, <1>2
      <3>3. h[1] \in Spans
        BY <3>1, <3>2
      <3> QED BY <1>6, <2>2, <3>3 DEF Spans
    <2> QED BY <2>1, <2>2
  <1>17. Start(f) \in Nat
    BY <1>14, <1>15, <1>16 DEF Follows
  <1> QED BY <1>1, <1>3, <1>4, <1>7, <1>11, <1>12, <1>13, <1>14, <1>15, <1>17 DEF g

LEMMA MergeSplitKeeps ==
    ASSUME SplitterInv, MergeSplit
    PROVE  SplitterInv'
  <1>1. /\ stage = "merge" /\ call.good # <<>> /\ calls # <<>> /\ config.kind = "recursive"
        /\ calls \in Seq(Frames) /\ CallsOK(calls)
        /\ (IsEmpty(call.large) => IsEmpty(call.rest))
        /\ UNCHANGED <<content, config, placed, offset, stage>>
    BY DEF MergeSplit, SplitterInv, Control, SplitterTypes
  <1>2. /\ content \in Seq(Alphabet) /\ call \in Frames /\ RestOK(call) /\ GoodOK(call) /\ LargeOK(call)
        /\ Mark(calls) = Start(call)
    BY <1>1, MarkIs
  <1> DEFINE f == [call EXCEPT !.good = Tail(call.good)]
             s == Head(call.good)
  <1>3. calls' = [calls EXCEPT ![Len(calls)] = f]
    BY DEF MergeSplit, call
  <1>4. /\ f \in Frames /\ RestOK(f) /\ GoodOK(f) /\ LargeOK(f)
        /\ f.rest = call.rest /\ f.large = call.large
        /\ s \in Spans /\ InPlace(s) /\ Size(s) < config.size
        /\ Start(call) = s.from /\ Follows(s.to, Start(f))
        /\ s.to \in Nat /\ Start(f) \in Nat
    BY <1>1, <1>2, GoodTaken
  <1> HIDE DEF f
  <1>5. SplitterTypes /\ BuiltOK(merged) /\ \A n \in DOMAIN texts : TextOK(texts[n])
    BY DEF SplitterInv
  <1>6. Behind(s.from, texts, From(merged))
    BY <1>2, <1>4 DEF SplitterInv
  <1>7. /\ merged' \in Seq(Chars) /\ BuiltOK(merged')
        /\ texts' \in Seq(Seq(Chars)) /\ \A n \in DOMAIN texts' : TextOK(texts'[n])
        /\ Behind(s.to + 1, texts', From(merged'))
    BY <1>1, <1>2, <1>4, <1>5, <1>6, MergeOK
  <1> HIDE DEF s
  <1>8. calls' \in Seq(Frames) /\ Len(calls') = Len(calls) /\ calls' # <<>>
    <2>1. f.rest.to = calls[Len(calls)].rest.to
      BY <1>4 DEF call
    <2> QED BY <1>1, <1>3, <1>4, <2>1, CallReplaced
  <1>9. calls'[Len(calls')] = f
    BY <1>1, <1>3, <1>4, <1>8
  <1>10. CallsOK(calls')
    <2>1. f.rest.to = calls[Len(calls)].rest.to
      BY <1>4 DEF call
    <2> QED BY <1>1, <1>3, <1>4, <2>1, CallReplaced
  <1>11. Mark(calls') = Start(f) /\ call' = f
    BY <1>8, <1>9 DEF Mark, call
  <1>12. Behind(Start(f), texts', From(merged'))
    <2>1. \A n \in DOMAIN texts' : From(texts'[n]) \subseteq Nat
      <3>1. \A n \in DOMAIN texts' : texts'[n] \in Seq(Chars)
        BY <1>7
      <3> QED BY <3>1, TagsOf
    <2>2. From(merged') \in SUBSET Nat /\ Letters \subseteq Nat
      BY <1>2, <1>7, TagsOf, LettersAre
    <2>3. s.to + 1 \in Nat /\ s.to + 1 <= Start(f) /\ NoLetters(s.to + 1, Start(f) - 1)
      BY <1>4 DEF Follows
    <2> QED BY <1>4, <1>7, <2>1, <2>2, <2>3, MarkAdvances
  <1>13. SplitterTypes'
    BY <1>1, <1>5, <1>7, <1>8 DEF SplitterTypes
  <1>14. Control'
    BY <1>1, <1>4, <1>8, <1>11 DEF Control, SplitDone
  <1>15. Placed'
    <2>1. placed = <<>> /\ offset = 0
      BY <1>1 DEF SplitterInv, Placed, SplitDone
    <2>2. Len(texts') \in Nat
      BY <1>7
    <2> QED BY <1>1, <2>1, <2>2 DEF Placed, SplitDone
  <1> QED BY <1>1, <1>7, <1>10, <1>11, <1>12, <1>13, <1>14, <1>15, Rebased

LEMMA NothingPlaced ==
    ASSUME Placed, ~SplitDone, UNCHANGED <<placed, offset>>, texts' \in Seq(Seq(Chars)),
           ~(SplitDone') \/ stage' = Placing(texts')
    PROVE  Placed'
  <1>1. placed = <<>> /\ offset = 0
    BY DEF Placed
  <1>2. Len(placed) = 0 /\ DOMAIN placed = {}
    BY <1>1
  <1>3. Len(texts') \in Nat
    OBVIOUS
  <1>4. texts' # <<>> => 0 < Len(texts')
    OBVIOUS
  <1>5. texts' = <<>> => Len(texts') = 0
    OBVIOUS
  <1> QED BY <1>1, <1>2, <1>3, <1>4, <1>5 DEF Placed, SplitDone, Placing

LEMMA EndMergeKeeps ==
    ASSUME SplitterInv, EndMerge
    PROVE  SplitterInv'
  <1>1. /\ stage = "merge" /\ call.good = <<>> /\ calls # <<>> /\ config.kind = "recursive"
        /\ calls \in Seq(Frames) /\ CallsOK(calls)
        /\ (IsEmpty(call.large) => IsEmpty(call.rest))
        /\ texts' = Emitted /\ merged' = <<>>
        /\ UNCHANGED <<content, config, placed, offset>>
    BY DEF EndMerge, SplitterInv, Control, SplitterTypes
  <1>2. /\ content \in Seq(Alphabet) /\ config.size \in Nat \ {0} /\ config.overlap \in Nat
        /\ call \in Frames /\ RestOK(call) /\ GoodOK(call) /\ LargeOK(call)
        /\ Mark(calls) = Start(call)
    BY <1>1, MarkIs
  <1>3. Start(call) \in Nat
    <2>1. Start(call) = AfterGood(call)
      BY <1>1 DEF Start
    <2> QED BY <1>2, <2>1, FrameParts DEF AfterGood, RestOK, LargeOK, InPlace
  <1>4. Reaches({}, Start(call))
    BY DEF Reaches
  <1>5. /\ SplitterTypes /\ BuiltOK(merged) /\ \A n \in DOMAIN texts : TextOK(texts[n])
        /\ Behind(Start(call), texts, From(merged))
    BY <1>2 DEF SplitterInv
  <1>6. /\ texts' \in Seq(Seq(Chars)) /\ \A n \in DOMAIN texts' : TextOK(texts'[n])
        /\ Behind(Start(call), texts', {})
    <2>1. {} \in SUBSET From(Stripped(merged))
      OBVIOUS
    <2> QED BY <1>1, <1>2, <1>3, <1>4, <1>5, <2>1, EmittedOK DEF SplitterTypes
  <1>7. From(merged') = {} /\ merged' \in Seq(Chars) /\ BuiltOK(merged')
    <2>1. Len(<<>>) = 0
      OBVIOUS
    <2> QED BY <1>1, <1>2, <2>1, NoText DEF BuiltOK, Bounded
  <1>8. CASE ~IsEmpty(call.large)
    <2>1. calls' = calls /\ stage' = "descend" /\ call' = call
      BY <1>8 DEF EndMerge, call
    <2>2. SplitterTypes'
      BY <1>1, <1>5, <1>6, <1>7, <2>1 DEF SplitterTypes
    <2>3. Control'
      BY <1>1, <1>8, <2>1 DEF Control, SplitDone
    <2>4. Placed'
      BY <1>1, <1>6, <2>1, NothingPlaced DEF SplitterInv, SplitDone
    <2>5. Behind(Mark(calls'), texts', From(merged')) /\ CallsOK(calls')
      BY <1>1, <1>2, <1>6, <1>7, <2>1
    <2> QED BY <1>1, <1>6, <1>7, <2>2, <2>3, <2>4, <2>5, Rebased
  <1>9. CASE IsEmpty(call.large)
    <2>1. calls' = Returned /\ stage' = IF Len(calls) = 1 THEN Placing(texts') ELSE "split"
      BY <1>9 DEF EndMerge
    <2>2. Waiting(calls[Len(calls)]) /\ IsEmpty(calls[Len(calls)].rest)
      BY <1>1, <1>9 DEF Waiting, call
    <2>3. calls' = SubSeq(calls, 1, Len(calls) - 1)
      BY <2>1 DEF Returned
    <2>4. calls' \in Seq(Frames) /\ Len(calls') = Len(calls) - 1 /\ CallsOK(calls')
      BY <1>1, <1>2, <2>2, <2>3, CallReturns
    <2>5. calls' # <<>> => Waiting(call')
      BY <1>1, <1>2, <2>2, <2>3, CallReturns DEF call
    <2>6. /\ Mark(calls) \in Nat /\ Mark(calls') \in Nat
          /\ Mark(calls) <= Mark(calls') /\ NoLetters(Mark(calls), Mark(calls') - 1)
      BY <1>1, <1>2, <2>2, <2>3, CallReturns
    <2>7. Behind(Mark(calls'), texts', {})
      <3>1. \A n \in DOMAIN texts' : From(texts'[n]) \subseteq Nat
        <4>1. \A n \in DOMAIN texts' : texts'[n] \in Seq(Chars)
          BY <1>6
        <4> QED BY <4>1, TagsOf
      <3> QED BY <1>2, <1>6, <2>6, <3>1, MarkIs, MarkAdvances
    <2>8. Len(calls) \in Nat /\ (Len(calls) = 1 => calls' = <<>>) /\ (Len(calls) # 1 => calls' # <<>>)
      <3>1. Len(calls) \in Nat /\ Len(calls') = Len(calls) - 1 /\ Len(<<>>) = 0
        BY <1>1, <2>4
      <3>2. Len(calls') = 0 => calls' = <<>>
        BY <2>4
      <3> QED BY <3>1, <3>2
    <2>9. SplitterTypes'
      BY <1>1, <1>5, <1>6, <1>7, <2>4 DEF SplitterTypes
    <2>10. Control'
      <3>1. CASE Len(calls) = 1
        <4>1. calls' = <<>> /\ stage' \in {"place", "done"}
          BY <2>1, <2>8, <3>1 DEF Placing
        <4> QED BY <1>1, <4>1 DEF Control, SplitDone
      <3>2. CASE Len(calls) # 1
        <4>1. calls' # <<>> /\ stage' = "split" /\ IsEmpty(call'.large)
          BY <2>1, <2>5, <2>8, <3>2 DEF Waiting
        <4> QED BY <1>1, <4>1 DEF Control, SplitDone
      <3> QED BY <3>1, <3>2
    <2>11. Placed'
      BY <1>1, <1>6, <2>1, NothingPlaced DEF SplitterInv, SplitDone
    <2> QED BY <1>1, <1>6, <1>7, <2>4, <2>7, <2>9, <2>10, <2>11, Rebased
  <1> QED BY <1>8, <1>9

LEMMA DescendKeeps ==
    ASSUME SplitterInv, Descend
    PROVE  SplitterInv'
  <1>1. /\ stage = "descend" /\ call.good = <<>> /\ ~IsEmpty(call.large) /\ calls # <<>>
        /\ config.kind = "recursive" /\ calls \in Seq(Frames) /\ CallsOK(calls)
        /\ merged = <<>> /\ stage' = "split"
        /\ UNCHANGED <<content, config, merged, placed, offset>>
    BY DEF Descend, SplitterInv, Control, SplitterTypes
  <1>2. /\ content \in Seq(Alphabet) /\ config.size \in Nat \ {0} /\ config.overlap \in Nat
        /\ Len(calls) \in DOMAIN calls
        /\ call \in Frames /\ RestOK(call) /\ GoodOK(call) /\ LargeOK(call)
        /\ Mark(calls) = Start(call) /\ Letters \subseteq Nat
    BY <1>1, MarkIs
  <1> DEFINE f == [call EXCEPT !.large = NoSpan]
             span == call.large
             waiting == [calls EXCEPT ![Len(calls)] = f]
  <1>3. /\ f = [level |-> call.level, rest |-> call.rest, good |-> <<>>, large |-> NoSpan]
        /\ f.rest = call.rest /\ f.good = <<>> /\ f.large = NoSpan /\ f.level = call.level
    <2>1. f = [level |-> call.level, rest |-> call.rest, good |-> call.good, large |-> NoSpan]
      BY <1>2, SMTT(30) DEF Frames
    <2> QED BY <1>1, <2>1
  <1>4. f \in Frames
    <2>1. NoSpan \in Spans /\ <<>> \in Seq(Spans) /\ call.level \in DOMAIN Separators
      <3>1. NoSpan \in Spans
        BY SpanOf DEF NoSpan
      <3>2. <<>> \in Seq(Spans)
        OBVIOUS
      <3>3. call.level \in DOMAIN Separators
        BY <1>2, FrameParts, SeparatorParts
      <3> QED BY <3>1, <3>2, <3>3
    <2> QED BY <1>2, <1>3, <2>1, FrameParts DEF Frames
  <1>5. IsEmpty(f.large)
    BY <1>3, SpanOf DEF NoSpan, IsEmpty
  <1>6. RestOK(f) /\ GoodOK(f) /\ LargeOK(f) /\ Waiting(f) /\ f.rest.to = call.rest.to
    <2>1. Len(<<>>) = 0 /\ DOMAIN <<>> = {}
      OBVIOUS
    <2>2. GoodOK(f)
      BY <1>3, <2>1 DEF GoodOK
    <2> QED BY <1>2, <1>3, <1>5, <2>2 DEF RestOK, LargeOK, Waiting
  <1>7. /\ span \in Spans /\ InPlace(span) /\ Follows(span.to, f.rest.from)
        /\ (call.level = 5 => Size(span) = 1) /\ Start(call) = span.from
        /\ span.from \in Nat /\ span.to \in Nat /\ f.rest.from \in Nat
    <2>1. /\ span \in Spans /\ span.from \in Int /\ span.to \in Int /\ call.rest.from \in Int
      BY <1>2, FrameParts
    <2>2. InPlace(span) /\ Follows(span.to, f.rest.from)
      BY <1>1, <1>2, <1>3 DEF LargeOK
    <2>3. call.level = 5 => Size(span) = 1
      BY <1>1, <1>2, SeparatorParts DEF LargeOK
    <2>4. Start(call) = span.from
      BY <1>1 DEF Start, AfterGood
    <2>5. span.from \in Nat /\ span.to \in Nat /\ f.rest.from \in Nat
      BY <1>2, <1>3, <2>1, <2>2 DEF InPlace, RestOK
    <2> QED BY <2>1, <2>2, <2>3, <2>4, <2>5
  <1>8. /\ IF call.level < 5
           THEN calls' = Append(waiting, Call(span, call.level + 1)) /\ texts' = texts
           ELSE calls' = waiting /\ texts' = Append(texts, Characters(span))
    <2>1. [calls EXCEPT ![Len(calls)].large = NoSpan] = waiting
      BY DEF call
    <2> QED BY <2>1, SeparatorParts DEF Descend
  <1> HIDE DEF f, span
  <1>9. /\ waiting \in Seq(Frames) /\ Len(waiting) = Len(calls) /\ waiting # <<>>
        /\ waiting[Len(waiting)] = f
    <2>1. f.rest.to = calls[Len(calls)].rest.to
      BY <1>6 DEF call
    <2>2. waiting \in Seq(Frames) /\ Len(waiting) = Len(calls) /\ waiting # <<>>
      BY <1>1, <1>4, <1>6, <2>1, CallReplaced
    <2>3. waiting[Len(waiting)] = f
      BY <1>1, <1>4, <1>6, <2>1, CallReplaced
    <2> QED BY <2>2, <2>3
  <1>10. CallsOK(waiting)
    <2>1. f.rest.to = calls[Len(calls)].rest.to
      BY <1>6 DEF call
    <2> QED BY <1>1, <1>4, <1>6, <2>1, CallReplaced
  <1>11. Mark(waiting) = f.rest.from
    BY <1>5, <1>6, <1>9 DEF Mark, Start, AfterGood, Waiting
  <1> HIDE DEF waiting
  <1>12. /\ SplitterTypes /\ BuiltOK(merged) /\ \A n \in DOMAIN texts : TextOK(texts[n])
         /\ Behind(span.from, texts, From(merged))
    BY <1>2, <1>7 DEF SplitterInv
  <1>13. BuiltOK(merged') /\ From(merged') = {} /\ From(merged) = {}
    BY <1>1, <1>12, NoText
  <1>14. CASE call.level < 5
    <2> DEFINE g == Call(span, call.level + 1)
    <2>1. calls' = Append(waiting, g) /\ texts' = texts /\ call.level + 1 \in 1..5
      <3>1. call.level \in 1..5
        BY <1>2, FrameParts
      <3>2. call.level + 1 \in 1..5
        BY <1>14, <3>1
      <3> QED BY <1>8, <1>14, <3>2
    <2>2. Waiting(g)
      BY <1>7, <2>1, CallOf DEF InPlace
    <2>3. calls' \in Seq(Frames) /\ calls' # <<>> /\ calls'[Len(calls')] = g
      BY <1>2, <1>6, <1>7, <1>9, <1>10, <2>1, CallMade, ZenonT(60)
    <2>4. CallsOK(calls')
      BY <1>2, <1>6, <1>7, <1>9, <1>10, <2>1, CallMade
    <2>5. Mark(calls') = span.from
      BY <1>2, <1>6, <1>7, <1>9, <1>10, <2>1, CallMade, ZenonT(60)
    <2>6. SplitterTypes'
      BY <1>1, <1>12, <2>1, <2>3 DEF SplitterTypes
    <2>7. Control'
      BY <1>1, <2>2, <2>3 DEF Control, SplitDone, call, Waiting
    <2>8. Placed'
      BY <1>1, <2>1 DEF SplitterInv, Placed, SplitDone
    <2>9. Behind(Mark(calls'), texts', From(merged')) /\ \A n \in DOMAIN texts' : TextOK(texts'[n])
      BY <1>1, <1>12, <2>1, <2>5
    <2> QED BY <1>1, <1>13, <2>4, <2>6, <2>7, <2>8, <2>9, Rebased
  <1>15. CASE ~(call.level < 5)
    <2> DEFINE t == Characters(span)
               S == span.from..span.to
    <2>1. calls' = waiting /\ texts' = Append(texts, t) /\ call.level = 5
      <3>1. call.level \in 1..5
        BY <1>2, FrameParts
      <3>2. call.level = 5
        BY <1>15, <3>1
      <3> QED BY <1>8, <1>15, <3>2
    <2>2. /\ t \in Seq(Chars) /\ Len(t) = Size(span) /\ From(t) = S /\ Text(t)
      BY <1>2, <1>7, CharactersOf
    <2>3. t # <<>> /\ Bounded(t)
      <3>1. Len(t) = 1 /\ Len(<<>>) = 0
        BY <1>7, <2>1, <2>2
      <3> HIDE DEF t
      <3>2. t # <<>>
        BY <3>1
      <3>3. Len(t) <= config.size
        BY <1>2, <3>1
      <3> QED BY <3>2, <3>3 DEF Bounded
    <2>4. S \in SUBSET Nat /\ texts \in Seq(Seq(Chars)) /\ \A n \in DOMAIN texts : From(texts[n]) \subseteq Nat
      BY <1>7, <1>12, MarkIs, SMTT(30) DEF SplitterTypes
    <2>5. Behind(span.to + 1, texts, S)
      <3>1. Behind(span.from, texts, {})
        BY <1>12, <1>13
      <3>2. Behind(span.to + 1, texts, {} \cup S)
        BY <1>2, <1>7, <2>4, <3>1, SpanAdded
      <3> QED BY <3>2
    <2> HIDE DEF t, S
    <2>6. Behind(span.to + 1, Append(texts, t), {}) /\ Whole(From(t))
      <3>1. span.to + 1 \in Nat /\ Reaches({}, span.to + 1) /\ {} \in SUBSET S
        BY <1>7 DEF Reaches
      <3> QED BY <1>2, <2>2, <2>4, <2>5, <3>1, TextDone
    <2>7. TextOK(t)
      BY <2>2, <2>3, <2>6 DEF TextOK
    <2>8. texts' \in Seq(Seq(Chars)) /\ \A n \in DOMAIN texts' : TextOK(texts'[n])
      BY <1>12, <2>1, <2>2, <2>4, <2>7, TextsGrow
    <2>9. Behind(f.rest.from, texts', {})
      <3>1. \A n \in DOMAIN texts' : From(texts'[n]) \subseteq Nat
        <4>1. \A n \in DOMAIN texts' : texts'[n] \in Seq(Chars)
          BY <2>8
        <4> QED BY <4>1, TagsOf
      <3>2. span.to + 1 \in Nat /\ span.to + 1 <= f.rest.from /\ NoLetters(span.to + 1, f.rest.from - 1)
        BY <1>7 DEF Follows
      <3> QED BY <1>2, <1>7, <2>1, <2>6, <3>1, <3>2, MarkAdvances, ZenonT(60)
    <2>10. SplitterTypes'
      BY <1>1, <1>9, <1>12, <2>1, <2>8 DEF SplitterTypes
    <2>11. Control'
      BY <1>1, <1>5, <1>9, <2>1 DEF Control, SplitDone, call
    <2>12. Placed'
      BY <1>1, <2>8, NothingPlaced DEF SplitterInv, SplitDone
    <2>13. Behind(Mark(calls'), texts', From(merged'))
      BY <1>11, <1>13, <2>1, <2>9
    <2> QED BY <1>1, <1>10, <1>13, <2>1, <2>8, <2>10, <2>11, <2>12, <2>13, Rebased
  <1> QED BY <1>14, <1>15

LEMMA SentencePending ==
    ASSUME SplitterInv, stage = "sentence"
    PROVE  /\ calls \in Seq(Frames) /\ CallsOK(calls) /\ Len(calls) = 1 /\ calls # <<>>
           /\ content \in Seq(Alphabet) /\ call \in Frames /\ RestOK(call) /\ GoodOK(call) /\ LargeOK(call)
           /\ Waiting(call) /\ call.rest.to = Len(content) /\ config.kind = "sentence"
           /\ Mark(calls) = call.rest.from
  <1>1. /\ calls \in Seq(Frames) /\ CallsOK(calls) /\ Len(calls) = 1
        /\ Waiting(call) /\ config.kind = "sentence"
    BY DEF SplitterInv, SplitterTypes, Control
  <1>2. calls # <<>>
    <2>1. Len(<<>>) = 0
      OBVIOUS
    <2> QED BY <1>1, <2>1
  <1>3. call.rest.to = Len(content)
    BY <1>1, <1>2 DEF CallsOK, call
  <1>4. /\ content \in Seq(Alphabet) /\ call \in Frames /\ RestOK(call) /\ GoodOK(call) /\ LargeOK(call)
        /\ Mark(calls) = Start(call)
    BY <1>2, MarkIs
  <1>5. Start(call) = call.rest.from
    BY <1>1 DEF Start, AfterGood, Waiting
  <1> QED BY <1>1, <1>2, <1>3, <1>4, <1>5

LEMMA TakeSentenceKeeps ==
    ASSUME SplitterInv, TakeSentence
    PROVE  SplitterInv'
  <1>1. /\ stage = "sentence" /\ ~IsEmpty(call.rest)
        /\ UNCHANGED <<content, config, placed, offset, stage>>
    BY DEF TakeSentence
  <1>2. /\ calls \in Seq(Frames) /\ CallsOK(calls) /\ Len(calls) = 1 /\ calls # <<>>
        /\ content \in Seq(Alphabet) /\ call \in Frames /\ RestOK(call) /\ GoodOK(call) /\ LargeOK(call)
        /\ Waiting(call) /\ call.rest.to = Len(content) /\ config.kind = "sentence"
        /\ Mark(calls) = call.rest.from
    BY <1>1, SentencePending
  <1> DEFINE e == Least(SentenceEnds)
             f == [call EXCEPT !.rest = Span(e + 1, call.rest.to)]
  <1>3. calls' = [calls EXCEPT ![Len(calls)] = f]
    BY DEF TakeSentence, call
  <1>4. e \in Nat /\ call.rest.from <= e /\ e <= call.rest.to
    BY <1>1, <1>2, SentenceFound
  <1> HIDE DEF e
  <1>5. /\ f.rest = Span(e + 1, call.rest.to) /\ f.good = call.good /\ f.large = call.large
        /\ f.level = call.level
        /\ f = [level |-> call.level, rest |-> Span(e + 1, call.rest.to), good |-> call.good,
                large |-> call.large]
    <2>1. call = [level |-> call.level, rest |-> call.rest, good |-> call.good, large |-> call.large]
      BY <1>2 DEF Frames
    <2>2. f = [level |-> call.level, rest |-> Span(e + 1, call.rest.to), good |-> call.good,
               large |-> call.large]
      BY <2>1
    <2> HIDE DEF f
    <2> QED BY <2>2
  <1>6. f.rest.from = e + 1 /\ f.rest.to = call.rest.to /\ f.rest \in Spans
    <2>1. e + 1 \in Int /\ call.rest.to \in Int
      BY <1>2, <1>4, FrameParts
    <2> QED BY <1>5, <2>1, SpanOf
  <1>7. f \in Frames
    <2>1. call.level \in DOMAIN Separators
      BY <1>2, FrameParts, SeparatorParts
    <2> QED BY <1>2, <1>5, <1>6, <2>1, FrameParts DEF Frames
  <1> HIDE DEF f
  <1>8. RestOK(f) /\ Waiting(f) /\ GoodOK(f) /\ LargeOK(f)
    <2>1. RestOK(f)
      BY <1>2, <1>4, <1>6, FrameParts DEF RestOK
    <2>2. Waiting(f)
      BY <1>2, <1>5 DEF Waiting
    <2>3. GoodOK(f) /\ LargeOK(f)
      <3>1. Len(<<>>) = 0 /\ DOMAIN <<>> = {}
        OBVIOUS
      <3> QED BY <2>2, <3>1 DEF Waiting, GoodOK, LargeOK
    <2> QED BY <2>1, <2>2, <2>3
  <1>9. calls' \in Seq(Frames) /\ Len(calls') = Len(calls) /\ calls' # <<>> /\ call' = f
    <2>1. f.rest.to = calls[Len(calls)].rest.to
      BY <1>6 DEF call
    <2>2. calls' \in Seq(Frames) /\ Len(calls') = Len(calls) /\ calls' # <<>>
      BY <1>2, <1>3, <1>7, <1>8, <2>1, CallReplaced
    <2>3. calls'[Len(calls')] = f
      BY <1>2, <1>3, <1>7, <1>8, <2>1, CallReplaced
    <2> QED BY <2>2, <2>3 DEF call
  <1>10. CallsOK(calls')
    <2>1. f.rest.to = calls[Len(calls)].rest.to
      BY <1>6 DEF call
    <2> QED BY <1>2, <1>3, <1>7, <1>8, <2>1, CallReplaced
  <1>11. Mark(calls') = e + 1
    BY <1>6, <1>8, <1>9 DEF Mark, Start, AfterGood, Waiting, call
  <1>12. /\ SplitterTypes /\ BuiltOK(merged) /\ \A n \in DOMAIN texts : TextOK(texts[n])
         /\ (merged # <<>> => Solid(merged))
         /\ Behind(call.rest.from, texts, From(merged))
    BY <1>1, <1>2 DEF SplitterInv, Control
  <1>13. /\ merged' \in Seq(Chars) /\ BuiltOK(merged') /\ (merged' # <<>> => Solid(merged'))
         /\ texts' \in Seq(Seq(Chars)) /\ \A n \in DOMAIN texts' : TextOK(texts'[n])
         /\ Behind(e + 1, texts', From(merged'))
    BY <1>1, <1>2, <1>12, SentenceOK DEF e
  <1>14. SplitterTypes'
    BY <1>1, <1>9, <1>12, <1>13 DEF SplitterTypes
  <1>15. Control'
    <2>1. (merged # <<>> => Solid(merged))'
      BY <1>13 DEF Solid
    <2> QED BY <1>1, <1>2, <1>8, <1>9, <2>1 DEF Control, SplitDone, Waiting
  <1>16. Placed'
    BY <1>1, <1>13, NothingPlaced DEF SplitterInv, SplitDone
  <1> QED BY <1>1, <1>10, <1>11, <1>13, <1>14, <1>15, <1>16, Rebased

LEMMA EndSentencesKeeps ==
    ASSUME SplitterInv, EndSentences
    PROVE  SplitterInv'
  <1>1. /\ stage = "sentence" /\ IsEmpty(call.rest)
        /\ texts' = IF merged = <<>> THEN texts ELSE Append(texts, TrimText(merged))
        /\ merged' = <<>> /\ stage' = Placing(texts')
        /\ calls' = SubSeq(calls, 1, Len(calls) - 1)
        /\ UNCHANGED <<content, config, placed, offset>>
    BY DEF EndSentences, Returned
  <1>2. /\ calls \in Seq(Frames) /\ CallsOK(calls) /\ Len(calls) = 1 /\ calls # <<>>
        /\ content \in Seq(Alphabet) /\ call \in Frames /\ RestOK(call)
        /\ Waiting(call) /\ config.kind = "sentence"
        /\ Mark(calls) = call.rest.from
    BY <1>1, SentencePending
  <1>3. Waiting(calls[Len(calls)]) /\ IsEmpty(calls[Len(calls)].rest)
    BY <1>1, <1>2 DEF call
  <1>4. calls' \in Seq(Frames) /\ Len(calls') = Len(calls) - 1 /\ CallsOK(calls')
    BY <1>1, <1>2, <1>3, CallReturns
  <1>5. /\ Mark(calls) \in Nat /\ Mark(calls') \in Nat
        /\ Mark(calls) <= Mark(calls') /\ NoLetters(Mark(calls), Mark(calls') - 1)
    BY <1>1, <1>2, <1>3, CallReturns
  <1>6. calls' = <<>>
    BY <1>2, <1>4
  <1>7. /\ SplitterTypes /\ BuiltOK(merged) /\ \A n \in DOMAIN texts : TextOK(texts[n])
        /\ merged \in Seq(Chars) /\ texts \in Seq(Seq(Chars))
        /\ config.size \in Nat \ {0} /\ config.overlap \in Nat
        /\ (merged # <<>> => Solid(merged))
        /\ Behind(Mark(calls), texts, From(merged))
    BY <1>1 DEF SplitterInv, Control, SplitterTypes
  <1>8. /\ texts' \in Seq(Seq(Chars)) /\ \A n \in DOMAIN texts' : TextOK(texts'[n])
        /\ Behind(Mark(calls), texts', {})
    <2>1. CASE merged = <<>>
      BY <1>1, <1>7, <2>1, NoText
    <2>2. CASE merged # <<>>
      <3> DEFINE t == TrimText(merged)
      <3>1. /\ t \in Seq(Chars) /\ From(t) \subseteq From(merged) /\ t # <<>> /\ BuiltOK(t)
            /\ From(merged) \cap Letters \subseteq From(t)
        <4>1. t \in Seq(Chars) /\ From(t) \subseteq From(merged)
          BY <1>7, TrimmedText
        <4>2. t # <<>>
          BY <1>7, <2>2, TrimmedText
        <4>3. BuiltOK(t)
          BY <1>7, TrimmedOK
        <4>4. From(merged) \cap Letters \subseteq From(t)
          BY <1>2, <1>7, LettersKept DEF BuiltOK
        <4> QED BY <4>1, <4>2, <4>3, <4>4
      <3>2. texts' = Append(texts, t)
        BY <1>1, <2>2
      <3> HIDE DEF t
      <3>3. {} \in SUBSET From(t) /\ Reaches({}, Mark(calls))
        BY DEF Reaches
      <3> QED BY <1>2, <1>5, <1>7, <3>1, <3>2, <3>3, TextAdded
    <2> QED BY <2>1, <2>2
  <1>9. From(merged') = {} /\ merged' \in Seq(Chars) /\ BuiltOK(merged')
    <2>1. Len(<<>>) = 0
      OBVIOUS
    <2> QED BY <1>1, <1>7, <2>1, NoText DEF BuiltOK, Bounded
  <1>10. Behind(Mark(calls'), texts', From(merged'))
    <2>1. \A n \in DOMAIN texts' : From(texts'[n]) \subseteq Nat
      <3>1. \A n \in DOMAIN texts' : texts'[n] \in Seq(Chars)
        BY <1>8
      <3> QED BY <3>1, TagsOf
    <2>2. Letters \subseteq Nat
      BY <1>2, LettersAre
    <2> QED BY <1>5, <1>8, <1>9, <2>1, <2>2, MarkAdvances
  <1>11. SplitterTypes'
    BY <1>1, <1>4, <1>7, <1>8, <1>9 DEF SplitterTypes
  <1>12. Control'
    BY <1>1, <1>2, <1>6 DEF Control, SplitDone, Placing
  <1>13. Placed'
    BY <1>1, <1>8, NothingPlaced DEF SplitterInv, SplitDone
  <1> QED BY <1>1, <1>4, <1>8, <1>9, <1>10, <1>11, <1>12, <1>13, Rebased

LEMMA StartIsNat ==
    ASSUME content \in Seq(Alphabet), offset \in Nat, NEW text \in Seq(Chars)
    PROVE  StartOf(text) \in Nat
  <1> DEFINE start == StartOf(text)
             part == Plain(text)
             span == Span(offset + 1, Len(content))
  <1>1. part \in Seq(Alphabet)
    <2>1. part = [i \in 1..Len(text) |-> text[i].char] /\ Len(text) \in Nat
      BY DEF Plain
    <2>2. \A i \in 1..Len(text) : text[i].char \in Alphabet
      <3>1. \A i \in 1..Len(text) : text[i] \in Chars
        OBVIOUS
      <3> QED BY <3>1 DEF Chars
    <2> QED BY <2>1, <2>2
  <1>2. span \in Spans /\ span.from = offset + 1
    <2>1. offset + 1 \in Int /\ Len(content) \in Int
      OBVIOUS
    <2> QED BY <2>1, SpanOf
  <1> HIDE DEF part, span
  <1>3. /\ Occurrences(part, span) \in SUBSET Nat
        /\ \A i \in Occurrences(part, span) : span.from <= i
        /\ Occurrences(part, span) # {} => Least(Occurrences(part, span)) \in Occurrences(part, span)
    <2>1. 1 <= span.from
      BY <1>2
    <2> QED BY <1>1, <1>2, <2>1, OccurrencesIn
  <1>4. start = IF config.kind = "sentence" \/ Occurrences(part, span) = {} THEN offset
                ELSE Least(Occurrences(part, span)) - 1
    BY DEF StartOf, part, span
  <1> HIDE DEF start
  <1>5. CASE config.kind = "sentence" \/ Occurrences(part, span) = {}
    BY <1>4, <1>5 DEF start
  <1>6. CASE ~(config.kind = "sentence" \/ Occurrences(part, span) = {})
    <2> DEFINE l == Least(Occurrences(part, span))
    <2>1. l \in Nat /\ span.from <= l /\ start = l - 1
      BY <1>3, <1>4, <1>6
    <2> HIDE DEF l
    <2>2. start \in Nat
      BY <1>2, <2>1
    <2> QED BY <2>2 DEF start
  <1> QED BY <1>5, <1>6

LEMMA PlaceChunkKeeps ==
    ASSUME SplitterInv, PlaceChunk
    PROVE  SplitterInv'
  <1> DEFINE text == texts[Len(placed) + 1]
             start == StartOf(text)
             end == start + Len(text)
  <1>1. /\ stage = "place" /\ calls = <<>> /\ merged = <<>>
        /\ placed' = Append(placed, [start |-> start, end |-> end])
        /\ offset' = NewOffset(start, end)
        /\ stage' = IF Len(placed') = Len(texts) THEN "done" ELSE "place"
        /\ UNCHANGED <<content, config, calls, merged, texts>>
    BY DEF PlaceChunk, SplitterInv, Control, SplitDone
  <1>2. /\ content \in Seq(Alphabet) /\ texts \in Seq(Seq(Chars)) /\ offset \in Nat
        /\ placed \in Seq([start : Nat, end : Nat]) /\ config.overlap \in Nat
        /\ Len(placed) < Len(texts)
        /\ \A n \in DOMAIN placed : placed[n].end = placed[n].start + Len(texts[n])
    BY <1>1 DEF SplitterInv, SplitterTypes, Placed
  <1>3. Len(placed) \in Nat /\ Len(texts) \in Nat /\ Len(placed) + 1 \in DOMAIN texts
    <2>1. Len(placed) \in Nat /\ Len(texts) \in Nat
      BY <1>2
    <2> QED BY <1>2, <2>1
  <1>4. text \in Seq(Chars) /\ Len(text) \in Nat
    <2>1. text \in Seq(Chars)
      BY <1>2, <1>3
    <2> QED BY <2>1
  <1> HIDE DEF text
  <1>5. start \in Nat
    BY <1>2, <1>4, StartIsNat
  <1> HIDE DEF start
  <1>6. end \in Nat /\ end = start + Len(text)
    BY <1>4, <1>5
  <1> HIDE DEF end
  <1>7. offset' \in Nat
    BY <1>1, <1>2, <1>6 DEF NewOffset
  <1> DEFINE new == [start |-> start, end |-> end]
  <1>8. new \in [start : Nat, end : Nat] /\ new.end = new.start + Len(text)
    BY <1>5, <1>6
  <1>9. placed' = Append(placed, new)
    BY <1>1
  <1> HIDE DEF new
  <1>10. /\ placed' \in Seq([start : Nat, end : Nat]) /\ Len(placed') = Len(placed) + 1
         /\ \A n \in DOMAIN placed' : placed'[n].end = placed'[n].start + Len(texts[n])
    <2>1. placed' \in Seq([start : Nat, end : Nat]) /\ Len(placed') = Len(placed) + 1
      BY <1>2, <1>8, <1>9
    <2>2. ASSUME NEW n \in DOMAIN placed'
          PROVE  \/ n \in DOMAIN placed /\ placed'[n] = placed[n]
                 \/ n = Len(placed) + 1 /\ placed'[n] = new
      <3>1. n \in 1..(Len(placed) + 1)
        BY <1>9
      <3>2. placed'[n] = IF n = Len(placed) + 1 THEN new ELSE placed[n]
        BY <1>2, <1>9, <3>1
      <3> QED BY <1>2, <1>3, <3>1, <3>2
    <2> QED BY <1>2, <1>8, <2>1, <2>2 DEF text
  <1>11. SplitterTypes'
    BY <1>1, <1>7, <1>10 DEF SplitterInv, SplitterTypes
  <1>12. Control'
    BY <1>1 DEF SplitterInv, Control, SplitDone
  <1>13. Placed'
    BY <1>1, <1>2, <1>3, <1>10, SMTT(30) DEF Placed, SplitDone
  <1> QED BY <1>1, <1>11, <1>12, <1>13, OnlyPlaced

LEMMA PanicKeeps ==
    ASSUME SplitterInv, Panic
    PROVE  SplitterInv'
  <1>1. /\ stage = "place" /\ stage' = "panic"
        /\ UNCHANGED <<content, config, calls, merged, texts, placed, offset>>
    BY DEF Panic
  <1>2. SplitterTypes' /\ Control' /\ Placed'
    BY <1>1 DEF SplitterInv, SplitterTypes, Control, Placed, SplitDone
  <1> QED BY <1>1, <1>2, OnlyPlaced

LEMMA NextSplitterInv == SplitterInv /\ [SplitterNext]_splitVars => SplitterInv'
  <1> SUFFICES ASSUME SplitterInv, [SplitterNext]_splitVars PROVE SplitterInv'
    OBVIOUS
  <1>1. CASE UNCHANGED splitVars
    <2>1. /\ UNCHANGED <<content, config, calls, merged, texts>>
          /\ placed' = placed /\ offset' = offset /\ stage' = stage
      BY <1>1 DEF splitVars
    <2>2. call' = call
      BY <2>1 DEF call
    <2>3. SplitterTypes' /\ Control' /\ Placed'
      BY <2>1, <2>2 DEF SplitterInv, SplitterTypes, Control, Placed, SplitDone, Waiting, IsEmpty,
         Solid
    <2> QED BY <2>1, <2>3, OnlyPlaced
  <1>2. CASE SplitterNext
    BY <1>1, <1>2, TakeSplitKeeps, EndSplitsKeeps, MergeSplitKeeps, EndMergeKeeps, DescendKeeps,
       TakeSentenceKeeps, EndSentencesKeeps, PlaceChunkKeeps, PanicKeeps DEF SplitterNext, Stopped
  <1> QED BY <1>1, <1>2

LEMMA SplitterInvariance == SplitterSpec => []SplitterInv
  <1> QED BY InitSplitterInv, NextSplitterInv, PTL DEF SplitterSpec

\* Whatever is split, merged, carried over and split again (SplitText of both
\* splitters): no letter of the document is lost, none is there twice unless in
\* an overlap, and no chunk joins what is apart in the document.
THEOREM ChunksAreFaithful == SplitterSpec => []ChunksFaithful
  <1>1. ASSUME SplitterInv PROVE ChunksFaithful
    <2>1. /\ texts \in Seq(Seq(Chars)) /\ placed \in Seq([start : Nat, end : Nat])
          /\ config.overlap < config.size /\ content \in Seq(Alphabet)
          /\ \A n \in DOMAIN texts : TextOK(texts[n])
          /\ Placed /\ Behind(Mark(calls), texts, From(merged))
      BY <1>1 DEF SplitterInv, SplitterTypes
    <2>2. TextsOK
      <3>1. \A n \in DOMAIN placed : placed[n].start \in Nat
        <4>1. \A r \in [start : Nat, end : Nat] : r.start \in Nat
          OBVIOUS
        <4>2. ASSUME NEW R, placed \in Seq(R) PROVE \A n \in DOMAIN placed : placed[n] \in R
          BY <4>2
        <4> QED BY <2>1, <4>1, <4>2
      <3> QED BY <2>1, <3>1 DEF TextsOK, TextOK, Text, Placed
    <2>3. NothingLost
      <3> SUFFICES ASSUME SplitDone PROVE NothingLost
        BY DEF NothingLost
      <3>1. calls = <<>> /\ merged = <<>>
        BY <1>1 DEF SplitterInv, Control
      <3>2. Behind(Len(content) + 1, texts, {})
        BY <2>1, <3>1, NoText DEF Mark
      <3>3. \A p \in Letters : p < Len(content) + 1
        BY <2>1, LettersAre
      <3> QED BY <3>2, <3>3 DEF NothingLost, Behind, InOrder
    <2>4. NothingGlued
      BY <2>1 DEF NothingGlued, TextOK, Text, Whole
    <2> QED BY <2>2, <2>3, <2>4 DEF ChunksFaithful
  <1> QED BY <1>1, SplitterInvariance, PTL

\* A chunk exceeds the chunk size by what mergeSplits carries over and puts in
\* between at most, and a chunk of sentences only if it is a single sentence.
THEOREM SizeIsBounded == SplitterSpec => []SizeBound
  <1>1. SplitterInv => SizeBound
    BY DEF SplitterInv, TextOK, Bounded, SizeBound
  <1> QED BY <1>1, SplitterInvariance, PTL

----
(* Where the chunks are, in a regular document. *)

LEMMA SeparatorEnds ==
    ASSUME NEW i \in 1..4
    PROVE  /\ Separators[i][1] \in Space \cup {Stop}
           /\ Separators[i][Len(Separators[i])] \in Space
           /\ 1 \in 1..Len(Separators[i]) /\ Len(Separators[i]) \in 1..Len(Separators[i])
  <1> DEFINE Ends(s) == /\ s[1] \in Space \cup {Stop} /\ s[Len(s)] \in Space
                        /\ 1 \in 1..Len(s) /\ Len(s) \in 1..Len(s)
  <1>1. /\ Separators[1] = <<Newline, Newline>>
        /\ Separators[2] = <<Newline>>
        /\ Separators[3] = <<Stop, Blank>>
        /\ Separators[4] = <<Blank>>
    BY DEF Separators
  <1>2. Blank \in Space /\ Newline \in Space
    BY DEF Space
  <1>3. Ends(<<Newline, Newline>>) /\ Ends(<<Newline>>)
    BY <1>2
  <1>4. Ends(<<Stop, Blank>>) /\ Ends(<<Blank>>)
    BY <1>2
  <1>5. i = 1 \/ i = 2 \/ i = 3 \/ i = 4
    OBVIOUS
  <1>6. Ends(Separators[i])
    <2> HIDE DEF Ends
    <2> QED BY <1>1, <1>3, <1>4, <1>5
  <1> QED BY <1>6

\* There is a separator.
Separates(i, p) ==
    /\ p + Len(Separators[i]) - 1 <= Len(content)
    /\ \A j \in 1..Len(Separators[i]) : content[p + j - 1] = Separators[i][j]

\* Next to a separator there are no others.
LEMMA AroundSeparator ==
    ASSUME content \in Seq(Alphabet), Regular, NEW i \in 1..4, NEW p \in Nat \ {0},
           NEW n, n = Len(Separators[i]), Separates(i, p)
    PROVE  /\ \A q \in Nat \ {0} : q + 1 = p => content[q] \notin Space
           /\ p + n <= Len(content) => IsLetter(content[p + n])
           /\ ~IsLetter(content[p]) /\ n \in 1..2
  <1> DEFINE l == Len(content)
  <1>1. n \in 1..2 /\ l \in Nat
    <2>1. n \in 1..2
      BY SeparatorParts
    <2>2. l \in Nat
      OBVIOUS
    <2> QED BY <2>1, <2>2
  <1>2. content[p] \in Space \cup {Stop} /\ content[p + n - 1] \in Space
    <2>1. content[p + 1 - 1] = Separators[i][1] /\ content[p + n - 1] = Separators[i][n]
      BY <1>1, SeparatorEnds DEF Separates
    <2>2. p + 1 - 1 = p
      OBVIOUS
    <2> QED BY <2>1, <2>2, SeparatorEnds
  <1>3. Stop \notin Space
    BY DEF Stop, Space, Blank, Newline
  <1>4. \A k \in 1..(Len(content) - 1) :
           ~IsLetter(content[k]) /\ ~IsLetter(content[k + 1]) => content[k] = Stop
    BY DEF Regular
  <1>5. ASSUME NEW q \in Nat \ {0}, q + 1 = p, content[q] \in Space PROVE FALSE
    <2>1. q \in 1..(l - 1)
      <3>1. \A x \in Nat \ {0}, y \in 1..2, z \in Nat : (x + 1) + y - 1 <= z => x \in 1..(z - 1)
        OBVIOUS
      <3>2. p + n - 1 <= l
        BY DEF Separates
      <3> HIDE DEF l
      <3> QED BY <1>1, <1>5, <3>1, <3>2
    <2>2. ~IsLetter(content[q]) /\ ~IsLetter(content[q + 1])
      BY <1>2, <1>5 DEF IsLetter
    <2> QED BY <1>3, <1>4, <1>5, <2>1, <2>2
  <1>6. ASSUME p + n <= Len(content), ~IsLetter(content[p + n]) PROVE FALSE
    <2>1. p + n - 1 \in 1..(l - 1) /\ (p + n - 1) + 1 = p + n
      <3>1. p + n <= l
        BY <1>6
      <3>2. \A x \in Nat \ {0}, y \in 1..2, z \in Nat :
               x + y <= z => x + y - 1 \in 1..(z - 1) /\ (x + y - 1) + 1 = x + y
        OBVIOUS
      <3> HIDE DEF l
      <3> QED BY <1>1, <3>1, <3>2
    <2>2. ~IsLetter(content[p + n - 1])
      BY <1>2 DEF IsLetter
    <2> QED BY <1>2, <1>3, <1>4, <1>6, <2>1, <2>2
  <1> QED BY <1>1, <1>2, <1>5, <1>6 DEF IsLetter

LEMMA OccurrencesWithin ==
    ASSUME NEW part \in Seq(Alphabet), NEW a \in Spans, NEW b \in Spans,
           a.from <= b.from, b.to <= a.to, Occurrences(part, a) = {}
    PROVE  Occurrences(part, b) = {}
  <1>1. a.from \in Int /\ a.to \in Int /\ b.from \in Int /\ b.to \in Int /\ Len(part) \in Nat
    BY DEF Spans
  <1>2. Occurrences(part, b) \subseteq Occurrences(part, a)
    BY <1>1, SMTT(30) DEF Occurrences
  <1> QED BY <1>2

LEMMA NoSpaceLeft ==
    ASSUME NEW span \in Spans, Occurrences(Separators[2], span) = {}, Occurrences(Separators[4], span) = {}
    PROVE  \A i \in span.from..span.to : content[i] \notin Space
  <1>1. span.from \in Int /\ span.to \in Int
    BY DEF Spans
  <1>2. /\ Separators[2] = <<Newline>> /\ Separators[4] = <<Blank>>
        /\ Len(<<Newline>>) = 1 /\ Len(<<Blank>>) = 1
        /\ <<Newline>>[1] = Newline /\ <<Blank>>[1] = Blank
    BY DEF Separators
  <1>3. \A x \in {Newline, Blank} : \A i \in span.from..span.to :
           content[i] = x => i \in Occurrences(<<x>>, span)
    <2> TAKE x \in {Newline, Blank}
    <2> TAKE i \in span.from..span.to
    <2> HAVE content[i] = x
    <2>1. Len(<<x>>) = 1 /\ <<x>>[1] = x
      OBVIOUS
    <2>2. i \in span.from..(span.to - Len(<<x>>) + 1)
      BY <1>1, <2>1
    <2>3. \A j \in 1..Len(<<x>>) : content[i + j - 1] = <<x>>[j]
      <3>1. \A j \in 1..1 : j = 1 /\ i + j - 1 = i
        BY <1>1
      <3> QED BY <2>1, <3>1
    <2> QED BY <2>2, <2>3 DEF Occurrences
  <1> QED BY <1>2, <1>3 DEF Space

LEMMA SplitCases ==
    ASSUME content \in Seq(Alphabet), call \in Frames, RestOK(call), ~IsEmpty(call.rest)
    PROVE  \/ /\ call.level = 5 /\ NextSplit.to = call.rest.from /\ AfterSplit.from = call.rest.from + 1
              /\ Len(Separator) = 0
           \/ /\ call.level \in 1..4 /\ Occurrences(Separator, call.rest) = {}
              /\ NextSplit = call.rest /\ AfterSplit.from = call.rest.to + 1
           \/ /\ call.level \in 1..4
              /\ \E o \in Nat :
                    /\ call.rest.from <= o /\ o + Len(Separator) - 1 <= call.rest.to
                    /\ \A j \in 1..Len(Separator) : content[o + j - 1] = Separator[j]
                    /\ \A i \in Occurrences(Separator, call.rest) : o <= i
                    /\ NextSplit.to = o - 1 /\ AfterSplit.from = o + Len(Separator)
  <1> DEFINE span == call.rest
             at == Occurrences(Separator, span)
             a == span.from
             b == span.to
             n == Len(Separator)
  <1>1. a \in Int /\ b \in Int /\ 1 <= a /\ a <= b /\ span \in Spans
    BY FrameParts DEF RestOK, IsEmpty
  <1>2. /\ Separator \in Seq(Alphabet) /\ n \in 0..2
        /\ (call.level = 5 /\ Separator = <<>>) \/ (call.level \in 1..4 /\ Separator # <<>> /\ n \in 1..2)
    <2>1. call.level \in 1..4 \/ call.level = 5
      BY FrameParts
    <2> QED BY <2>1, SeparatorParts, SMTT(30) DEF Separator
  <1>3. /\ at \in SUBSET Nat
        /\ \A i \in at : /\ a <= i /\ i + n - 1 <= b
                         /\ \A j \in 1..n : content[i + j - 1] = Separator[j]
        /\ at # {} => Least(at) \in at /\ \A i \in at : Least(at) <= i
    BY <1>1, <1>2, OccurrencesIn
  <1>4. NextSplit = IF Separator = <<>> THEN Span(a, a)
                    ELSE IF at = {} THEN span ELSE Span(a, Least(at) - 1)
    BY DEF NextSplit
  <1>5. AfterSplit.from = NextSplit.to + 1 + (IF NextSplit.to = b THEN 0 ELSE n)
    BY SpanOf DEF AfterSplit
  <1> HIDE DEF span, a, b, n, at
  <1>6. CASE Separator = <<>>
    <2>1. n = 0 /\ NextSplit.to = a
      BY <1>4, <1>6, SpanOf DEF n
    <2> QED BY <1>1, <1>2, <1>5, <1>6, <2>1 DEF a, span, n
  <1>7. CASE Separator # <<>> /\ at = {}
    <2>1. NextSplit = span
      BY <1>4, <1>7
    <2>2. AfterSplit.from = b + 1
      BY <1>1, <1>5, <2>1 DEF b
    <2> QED BY <1>2, <1>7, <2>1, <2>2 DEF b, span, at
  <1>8. CASE Separator # <<>> /\ at # {}
    <2> DEFINE o == Least(at)
    <2>1. /\ o \in Nat /\ a <= o /\ o + n - 1 <= b
          /\ \A j \in 1..n : content[o + j - 1] = Separator[j]
          /\ \A i \in at : o <= i
      BY <1>3, <1>8
    <2>2. NextSplit.to = o - 1
      BY <1>4, <1>8, SpanOf
    <2> HIDE DEF o
    <2>3. n \in 1..2 /\ o - 1 # b
      BY <1>1, <1>2, <1>8, <2>1
    <2>4. AfterSplit.from = o + n
      BY <1>5, <2>1, <2>2, <2>3
    <2> QED BY <1>2, <1>8, <2>1, <2>2, <2>4 DEF a, b, span, n, at
  <1> QED BY <1>6, <1>7, <1>8

LEMMA SplitExact ==
    ASSUME content \in Seq(Alphabet), call \in Frames, RestOK(call), ~IsEmpty(call.rest),
           Regular, config.strip, Used(call), SolidEnds(call.rest)
    PROVE  /\ SolidEnds(AfterSplit) /\ SolidEnds(StrippedSplit)
           /\ \A i \in 1..(call.level - 1) : Occurrences(Separators[i], AfterSplit) = {}
           /\ call.level < 5 /\ ~IsEmpty(StrippedSplit) =>
                 \A i \in 1..call.level : Occurrences(Separators[i], StrippedSplit) = {}
           /\ ~IsEmpty(StrippedSplit) => StrippedSplit.from = call.rest.from
           /\ IsLetter(content[call.rest.from]) \/ call.level = 5 => ~IsEmpty(StrippedSplit)
           /\ ~IsEmpty(StrippedSplit) /\ ~IsEmpty(AfterSplit)
                 => Adjoins(call, StrippedSplit.to, AfterSplit.from)
  <1> DEFINE a == call.rest.from
             b == call.rest.to
             n == Len(Separator)
             N == NextSplit
             A == AfterSplit
             S == StrippedSplit
  <1>1. /\ a \in Int /\ b \in Int /\ 1 <= a /\ a <= b /\ b <= Len(content) /\ Len(content) \in Nat
        /\ call.rest \in Spans /\ call.level \in 1..5
        /\ content[a] \notin Space /\ content[b] \notin Space
    <2>1. Len(content) \in Nat
      OBVIOUS
    <2> QED BY <2>1, FrameParts DEF RestOK, IsEmpty, SolidEnds
  <1>2. /\ N \in Spans /\ A \in Spans /\ S \in Spans
        /\ N.from = a /\ N.to \in Int /\ N.to <= b
        /\ A.to = b /\ A.from \in Int /\ a <= A.from
    <2>1. \A x \in Spans : x.from \in Int /\ x.to \in Int
      BY DEF Spans
    <2> QED BY <2>1, SplitFound, SplitTaken
  <1>3. /\ \A i \in 1..(call.level - 1) : Occurrences(Separators[i], call.rest) = {}
        /\ \A i \in 1..5 : Separators[i] \in Seq(Alphabet)
    BY SeparatorParts DEF Used
  <1>4. Separator = Separators[call.level] /\ Separator \in Seq(Alphabet) /\ n \in Nat
    <2>1. Separator = Separators[call.level] /\ Separator \in Seq(Alphabet)
      BY <1>1, <1>3 DEF Separator
    <2> QED BY <2>1
  <1>5. S = TrimSpan(N)
    BY DEF StrippedSplit
  <1>6. \A i \in 1..(call.level - 1) : Occurrences(Separators[i], A) = {}
    <2> TAKE i \in 1..(call.level - 1)
    <2>1. i \in 1..5
      BY <1>1
    <2>2. Separators[i] \in Seq(Alphabet) /\ Occurrences(Separators[i], call.rest) = {}
      BY <1>3, <2>1
    <2>3. call.rest.from <= A.from /\ A.to <= call.rest.to
      BY <1>1, <1>2
    <2> HIDE DEF A
    <2> QED BY <1>1, <1>2, <2>2, <2>3, OccurrencesWithin
  <1>7. /\ SolidEnds(A)
        /\ IsLetter(content[a]) \/ call.level = 5 => a <= N.to
        /\ a <= N.to => content[N.to] \notin Space
        /\ call.level < 5 => Occurrences(Separator, N) = {}
        /\ ~IsEmpty(A) => A.from = N.to + n + 1 /\ \A j \in 1..n : content[N.to + j] = Separator[j]
    <2>1. CASE /\ call.level = 5 /\ N.to = a /\ A.from = a + 1 /\ n = 0
      <3>1. \A i \in a..b : content[i] \notin Space
        <4>1. 2 \in 1..(call.level - 1) /\ 4 \in 1..(call.level - 1)
          BY <2>1
        <4> QED BY <1>1, <1>3, <4>1, NoSpaceLeft
      <3>2. SolidEnds(A)
        BY <1>1, <1>2, <2>1, <3>1 DEF SolidEnds, IsEmpty
      <3> QED BY <1>1, <2>1, <3>2
    <2>2. CASE /\ call.level \in 1..4 /\ Occurrences(Separator, call.rest) = {}
               /\ N = call.rest /\ A.from = b + 1
      <3>1. IsEmpty(A)
        BY <1>1, <1>2, <2>2 DEF IsEmpty
      <3> QED BY <1>1, <2>2, <3>1 DEF SolidEnds
    <2>3. CASE /\ call.level \in 1..4
               /\ \E o \in Nat :
                     /\ a <= o /\ o + n - 1 <= b
                     /\ \A j \in 1..n : content[o + j - 1] = Separator[j]
                     /\ \A i \in Occurrences(Separator, call.rest) : o <= i
                     /\ N.to = o - 1 /\ A.from = o + n
      <3>1. PICK o \in Nat :
                     /\ a <= o /\ o + n - 1 <= b
                     /\ \A j \in 1..n : content[o + j - 1] = Separator[j]
                     /\ \A i \in Occurrences(Separator, call.rest) : o <= i
                     /\ N.to = o - 1 /\ A.from = o + n
        BY <2>3
      <3>2. /\ \A q \in Nat \ {0} : q + 1 = o => content[q] \notin Space
            /\ o + n <= Len(content) => IsLetter(content[o + n])
            /\ ~IsLetter(content[o]) /\ n \in 1..2
        <4> DEFINE i == call.level
        <4>1. o \in Nat \ {0} /\ o + n - 1 <= Len(content) /\ i \in 1..4
          BY <1>1, <1>4, <2>3, <3>1, SMTT(30)
        <4>2. n = Len(Separators[i])
          BY <1>4
        <4>3. Separates(i, o)
          BY <1>4, <3>1, <4>1 DEF Separates
        <4> HIDE DEF n, i
        <4>4. \A q \in Nat \ {0} : q + 1 = o => content[q] \notin Space
          BY <4>1, <4>2, <4>3, AroundSeparator
        <4>5. o + n <= Len(content) => IsLetter(content[o + n])
          BY <4>1, <4>2, <4>3, AroundSeparator
        <4>6. ~IsLetter(content[o]) /\ n \in 1..2
          BY <4>1, <4>2, <4>3, AroundSeparator
        <4> QED BY <4>4, <4>5, <4>6
      <3>3. SolidEnds(A)
        <4>1. ~IsEmpty(A) => o + n <= Len(content)
          BY <1>1, <1>2, <3>1, <3>2, SMTT(30) DEF IsEmpty
        <4> QED BY <1>1, <1>2, <3>1, <3>2, <4>1 DEF SolidEnds, IsLetter
      <3>4. IsLetter(content[a]) => a <= N.to
        <4>1. IsLetter(content[a]) => a # o
          BY <3>2
        <4> QED BY <1>1, <3>1, <4>1
      <3>5. a <= N.to => content[N.to] \notin Space
        <4>1. a <= N.to => N.to \in Nat \ {0} /\ N.to + 1 = o
          BY <1>1, <3>1, SMTT(30)
        <4> QED BY <3>2, <4>1
      <3>6. Occurrences(Separator, N) = {}
        <4>1. ASSUME NEW i \in Occurrences(Separator, N) PROVE FALSE
          <5>1. 1 <= N.from
            BY <1>1, <1>2
          <5>2. i \in Nat /\ i + n - 1 <= N.to
            BY <1>2, <1>4, <4>1, <5>1, OccurrencesIn
          <5>3. i \in Occurrences(Separator, call.rest)
            BY <1>1, <1>2, <1>4, <4>1, SMTT(40) DEF Occurrences
          <5>4. o <= i /\ n \in 1..2 /\ N.to = o - 1
            BY <3>1, <3>2, <5>3
          <5> HIDE DEF n, N
          <5> QED BY <5>2, <5>4
        <4> QED BY <4>1
      <3>7. A.from = N.to + n + 1 /\ \A j \in 1..n : content[N.to + j] = Separator[j]
        <4>1. A.from = N.to + n + 1
          <5>1. A.from = o + n /\ N.to = o - 1 /\ n \in Nat
            BY <1>4, <3>1
          <5> HIDE DEF A, N, n
          <5> QED BY <5>1
        <4>2. ASSUME NEW j \in 1..n PROVE content[N.to + j] = Separator[j]
          <5>1. N.to + j = o + j - 1
            BY <1>4, <3>1
          <5> QED BY <3>1, <5>1
        <4> QED BY <4>1, <4>2
      <3> QED BY <2>3, <3>3, <3>4, <3>5, <3>6, <3>7
    <2> QED BY <2>1, <2>2, <2>3, SplitCases
  <1>8. /\ ~IsEmpty(S) <=> a <= N.to
        /\ ~IsEmpty(S) => S.from = a /\ S.to = N.to
    <2>1. /\ IsEmpty(S) => \A i \in a..N.to : content[i] \in Space
          /\ ~IsEmpty(S) =>
                /\ a <= S.from /\ S.from <= S.to /\ S.to <= N.to
                /\ \A i \in a..N.to : content[i] \notin Space => S.from <= i /\ i <= S.to
      <3>1. 1 <= N.from /\ N.to <= Len(content)
        BY <1>1, <1>2
      <3> QED BY <1>2, <1>5, <3>1, TrimmedSpan
    <2>2. S.from \in Int /\ S.to \in Int
      BY <1>2 DEF Spans
    <2>3. a <= N.to => a \in a..N.to /\ N.to \in a..N.to
      BY <1>1, <1>2
    <2> HIDE DEF a, N, S
    <2> QED BY <1>1, <1>2, <1>7, <2>1, <2>2, <2>3
  <1>9. SolidEnds(S)
    BY <1>1, <1>7, <1>8 DEF SolidEnds
  <1>10. ASSUME call.level < 5, ~IsEmpty(S), NEW i \in 1..call.level PROVE Occurrences(Separators[i], S) = {}
    <2>1. i \in 1..5
      BY <1>1
    <2>2. Occurrences(Separators[i], N) = {}
      <3>1. CASE i = call.level
        BY <1>4, <1>7, <1>10, <3>1
      <3>2. CASE i # call.level
        <4>1. i \in 1..(call.level - 1)
          BY <1>1, <3>2
        <4>2. Separators[i] \in Seq(Alphabet) /\ Occurrences(Separators[i], call.rest) = {}
          BY <1>3, <2>1, <4>1
        <4>3. call.rest.from <= N.from /\ N.to <= call.rest.to
          BY <1>1, <1>2
        <4> HIDE DEF N
        <4> QED BY <1>1, <1>2, <4>2, <4>3, OccurrencesWithin
      <3> QED BY <3>1, <3>2
    <2>3. N.from <= S.from /\ S.to <= N.to /\ Separators[i] \in Seq(Alphabet)
      BY <1>1, <1>2, <1>3, <1>8, <1>10, <2>1, SMTT(40)
    <2> HIDE DEF N, S
    <2> QED BY <1>2, <2>2, <2>3, OccurrencesWithin
  <1>11. ~IsEmpty(S) /\ ~IsEmpty(A) => Adjoins(call, S.to, A.from)
    BY <1>4, <1>7, <1>8, SMTT(30) DEF Adjoins
  <1> QED BY <1>6, <1>7, <1>8, <1>9, <1>10, <1>11

\* What follows a good split and a separator begins with a letter.
LEMMA AfterGoodLetter ==
    ASSUME content \in Seq(Alphabet), call \in Frames, RestOK(call), GoodOK(call), ~IsEmpty(call.rest),
           Regular, call.good # <<>>, Adjoins(call, call.good[Len(call.good)].to, call.rest.from)
    PROVE  IsLetter(content[call.rest.from]) \/ call.level = 5
  <1> DEFINE i == call.level
             e == call.good[Len(call.good)].to
             n == Len(Separators[i])
             a == call.rest.from
  <1> SUFFICES ASSUME i # 5 PROVE IsLetter(content[a])
    OBVIOUS
  <1>1. i \in 1..4
    BY FrameParts
  <1>2. e \in Nat
    <2>1. Len(call.good) \in DOMAIN call.good
      <3>1. call.good \in Seq(Spans)
        BY FrameParts
      <3> QED BY <3>1
    <2>2. InPlace(call.good[Len(call.good)]) /\ e \in Int /\ call.good[Len(call.good)].from \in Int
      BY <2>1, FrameParts DEF GoodOK
    <2> QED BY <2>2 DEF InPlace
  <1>3. a = e + n + 1 /\ \A j \in DOMAIN Separators[i] : content[e + j] = Separators[i][j]
    BY DEF Adjoins
  <1>4. a <= Len(content) /\ a \in Int /\ Len(content) \in Nat
    <2>1. Len(content) \in Nat
      OBVIOUS
    <2> QED BY <2>1, FrameParts DEF RestOK, IsEmpty
  <1>5. n \in 1..2 /\ DOMAIN Separators[i] = 1..n
    <2>1. n \in 1..2 /\ Separators[i] \in Seq(Alphabet)
      BY <1>1, SeparatorParts, SMTT(40)
    <2> QED BY <2>1
  <1>8. n = Len(Separators[i])
    OBVIOUS
  <1> HIDE DEF e, a, i, n
  <1>6. Separates(i, e + 1)
    <2>1. ASSUME NEW j \in 1..n PROVE content[(e + 1) + j - 1] = Separators[i][j]
      <3>1. (e + 1) + j - 1 = e + j
        BY <1>2, <1>5
      <3> QED BY <1>3, <1>5, <3>1
    <2>2. (e + 1) + n - 1 <= Len(content)
      BY <1>2, <1>3, <1>4, <1>5
    <2> QED BY <1>8, <2>1, <2>2 DEF Separates
  <1>7. e + 1 \in Nat \ {0} /\ (e + 1) + n = a
    BY <1>2, <1>3, <1>5
  <1> QED BY <1>1, <1>4, <1>6, <1>7, <1>8, AroundSeparator

LEMMA FrameExact ==
    ASSUME content \in Seq(Alphabet), call \in Frames, RestOK(call), GoodOK(call), IsEmpty(call.large),
           ~IsEmpty(call.rest), Regular, config.strip, Used(call), Adjacent(call),
           NEW f, f = Taken(StrippedSplit)
    PROVE  Used(f) /\ Adjacent(f)
  <1> DEFINE s == StrippedSplit
             g == call.good
             A == AfterSplit
  <1>1. /\ f.level = call.level /\ f.rest = A
        /\ f.good = IF ~IsEmpty(s) /\ Small(s) THEN Append(g, s) ELSE g
        /\ f.large = IF ~IsEmpty(s) /\ ~Small(s) THEN s ELSE call.large
    BY DEF Taken
  <1>2. /\ SolidEnds(A) /\ SolidEnds(s)
        /\ \A i \in 1..(call.level - 1) : Occurrences(Separators[i], A) = {}
        /\ call.level < 5 /\ ~IsEmpty(s) => \A i \in 1..call.level : Occurrences(Separators[i], s) = {}
        /\ ~IsEmpty(s) => s.from = call.rest.from
        /\ IsLetter(content[call.rest.from]) \/ call.level = 5 => ~IsEmpty(s)
        /\ ~IsEmpty(s) /\ ~IsEmpty(A) => Adjoins(call, s.to, A.from)
    BY SplitExact DEF Adjacent
  <1>3. /\ \A j \in DOMAIN g : SolidEnds(g[j])
        /\ \A j \in 1..(Len(g) - 1) : Adjoins(call, g[j].to, g[j + 1].from)
        /\ g # <<>> => Adjoins(call, g[Len(g)].to, call.rest.from)
    BY DEF Adjacent
  <1>4. g # <<>> => ~IsEmpty(s) /\ Adjoins(call, g[Len(g)].to, s.from)
    BY <1>2, <1>3, AfterGoodLetter
  <1>5. \A a, b : Adjoins(f, a, b) <=> Adjoins(call, a, b)
    BY <1>1 DEF Adjoins
  <1>6. g \in Seq(Spans) /\ s \in Spans
    BY FrameParts, SplitTaken
  <1> HIDE DEF s, g, A
  <1>7. Used(f)
    BY <1>1, <1>2, SeparatorParts DEF Used
  <1>8. SolidEnds(f.rest) /\ SolidEnds(f.large)
    BY <1>1, <1>2 DEF SolidEnds
  <1>9. CASE ~IsEmpty(s) /\ Small(s)
    <2> DEFINE h == f.good
    <2>1. h = Append(g, s)
      BY <1>1, <1>9
    <2> HIDE DEF h
    <2>2. h # <<>> /\ h[Len(h)] = s
      BY <1>6, <2>1, AppendedOne
    <2>3. \A j \in DOMAIN h : (j \in DOMAIN g /\ h[j] = g[j]) \/ h[j] = s
      BY <1>6, <2>1, AppendedOne
    <2>4. \A j \in 1..(Len(h) - 1) :
             \/ j \in 1..(Len(g) - 1) /\ h[j] = g[j] /\ h[j + 1] = g[j + 1]
             \/ g # <<>> /\ h[j] = g[Len(g)] /\ h[j + 1] = s
      BY <1>6, <2>1, AppendedOne
    <2>5. \A j \in DOMAIN h : SolidEnds(h[j])
      BY <1>2, <1>3, <2>3
    <2>6. \A j \in 1..(Len(h) - 1) : Adjoins(call, h[j].to, h[j + 1].from)
      BY <1>3, <1>4, <2>4
    <2>7. ~IsEmpty(f.rest) => Adjoins(call, h[Len(h)].to, f.rest.from)
      BY <1>1, <1>2, <1>9, <2>2
    <2>8. Adjacent(f)
      BY <1>5, <1>8, <2>5, <2>6, <2>7 DEF Adjacent, h
    <2> QED BY <1>7, <2>8
  <1>10. CASE ~(~IsEmpty(s) /\ Small(s))
    <2>1. f.good = g
      BY <1>1, <1>10
    <2>2. ~IsEmpty(f.large) \/ g = <<>>
      BY <1>1, <1>4, <1>10
    <2>3. Adjacent(f)
      BY <1>3, <1>5, <1>8, <2>1, <2>2 DEF Adjacent
    <2> QED BY <1>7, <2>3
  <1> QED BY <1>9, <1>10

LEMMA ExactRebased ==
    ASSUME content' = content, config' = config,
           Simple => /\ stage' # "panic"
                     /\ CallsExact(calls', merged')
                     /\ \A n \in DOMAIN texts' : Exact(texts'[n])
                     /\ PlacedExact'
    PROVE  ExactInv'
  <1>1. Simple' => Simple
    BY DEF Simple, Regular, IsLetter, InOrder
  <1>2. \A part, span : Occurrences(part, span)' = Occurrences(part, span)
    BY DEF Occurrences
  <1>3. CallsExact(calls', merged') => CallsExact(calls, merged)'
    BY <1>2, ZenonT(60) DEF CallsExact, Used, Adjacent, SolidEnds, Adjoins, Exact, Lies, IsEmpty
  <1>4. (\A n \in DOMAIN texts' : Exact(texts'[n])) => (\A n \in DOMAIN texts : Exact(texts[n]))'
    BY DEF Exact, Lies, Lies
  <1> QED BY <1>1, <1>3, <1>4 DEF ExactInv

\* Nothing is placed before all is split.
LEMMA NotPlacedYet ==
    ASSUME SplitterInv, ~SplitDone, placed' = placed, offset' = offset
    PROVE  PlacedExact'
  <1>1. placed' = <<>> /\ offset' = 0
    BY DEF SplitterInv, Placed
  <1>2. DOMAIN placed' = {}
    BY <1>1
  <1> QED BY <1>1, <1>2 DEF PlacedExact

LEMMA NoTextIsExact == Exact(<<>>)
  BY DEF Exact, Lies

LEMMA ReplacedExact ==
    ASSUME NEW cs \in Seq(Frames), cs # <<>>, \A i \in DOMAIN cs : Used(cs[i]) /\ Adjacent(cs[i]),
           NEW f, Used(f), Adjacent(f), NEW ds, ds = [cs EXCEPT ![Len(cs)] = f]
    PROVE  /\ \A i \in DOMAIN ds : Used(ds[i]) /\ Adjacent(ds[i])
           /\ Len(ds) = Len(cs) /\ ds[Len(ds)] = f /\ ds # <<>>
  <1>1. DOMAIN ds = DOMAIN cs /\ \A i \in DOMAIN cs : ds[i] = IF i = Len(cs) THEN f ELSE cs[i]
    OBVIOUS
  <1>2. \A i \in DOMAIN ds : Used(ds[i]) /\ Adjacent(ds[i])
    BY <1>1
  <1>3. Len(ds) = Len(cs)
    OBVIOUS
  <1>4. Len(cs) \in DOMAIN cs
    OBVIOUS
  <1>5. ds # <<>>
    <2>1. DOMAIN <<>> = {}
      OBVIOUS
    <2> QED BY <1>1, <1>4, <2>1
  <1> QED BY <1>1, <1>2, <1>3, <1>4, <1>5

LEMMA InitExact == SplitterInit /\ SplitterInv => ExactInv
  <1> SUFFICES ASSUME SplitterInit, SplitterInv, Simple PROVE ExactInv
    BY DEF ExactInv
  <1> DEFINE span == Span(1, Len(content))
             f == Call(span, 1)
  <1>1. content \in Seq(Alphabet) /\ Len(content) \in Nat
    <2>1. content \in Seq(Alphabet)
      BY MarkIs
    <2> QED BY <2>1
  <1>2. span \in Spans /\ span.from = 1 /\ span.to = Len(content)
    BY <1>1, SpanOf
  <1>3. /\ f.rest = span /\ Waiting(f)
        /\ \A i \in 1..(f.level - 1) : Occurrences(Separators[i], span) = {}
    <2>1. 1 <= span.from /\ 1 \in 1..5
      BY <1>2
    <2> HIDE DEF span
    <2>2. f.rest = span /\ Waiting(f)
      BY <1>2, <2>1, CallOf
    <2>3. \A i \in 1..(f.level - 1) : Occurrences(Separators[i], span) = {}
      BY <1>2, <2>1, CallOf
    <2> QED BY <2>2, <2>3
  <1>4. /\ calls = <<f>> /\ merged = <<>> /\ texts = <<>> /\ placed = <<>> /\ offset = 0
        /\ stage # "panic"
    BY DEF SplitterInit
  <1>5. SolidEnds(span)
    <2>1. \A i \in {1, Len(content)} \cap DOMAIN content : content[i] \notin Space
      BY DEF Simple, Regular
    <2>2. ~IsEmpty(span) => 1 \in DOMAIN content /\ Len(content) \in DOMAIN content
      BY <1>1, <1>2 DEF IsEmpty
    <2> QED BY <1>2, <2>1, <2>2 DEF SolidEnds
  <1> HIDE DEF f, span
  <1>6. Used(f) /\ Adjacent(f)
    <2>1. DOMAIN <<>> = {} /\ Len(<<>>) = 0
      OBVIOUS
    <2>2. Used(f)
      BY <1>3 DEF Used, Waiting
    <2>3. SolidEnds(f.rest) /\ SolidEnds(f.large)
      BY <1>3, <1>5 DEF SolidEnds, Waiting
    <2>4. /\ \A j \in DOMAIN f.good : SolidEnds(f.good[j])
          /\ \A j \in 1..(Len(f.good) - 1) : Adjoins(f, f.good[j].to, f.good[j + 1].from)
      BY <1>3, <2>1 DEF Waiting
    <2> QED BY <1>3, <2>2, <2>3, <2>4 DEF Adjacent, Waiting
  <1>7. \A i \in DOMAIN calls : Used(calls[i]) /\ Adjacent(calls[i])
    <2>1. DOMAIN <<f>> = {1} /\ <<f>>[1] = f
      OBVIOUS
    <2> QED BY <1>4, <1>6, <2>1
  <1>8. CallsExact(calls, merged)
    BY <1>4, <1>7, NoTextIsExact DEF CallsExact
  <1>9. DOMAIN <<>> = {}
    OBVIOUS
  <1> QED BY <1>4, <1>8, <1>9 DEF ExactInv, PlacedExact

LEMMA TakeSplitExact ==
    ASSUME SplitterInv, ExactInv, TakeSplit
    PROVE  ExactInv'
  <1>1. /\ stage = "split" /\ ~IsEmpty(call.rest) /\ calls # <<>> /\ calls \in Seq(Frames)
        /\ IsEmpty(call.large) /\ merged = <<>>
        /\ UNCHANGED <<content, config, merged, texts, placed, offset>>
        /\ stage' # "panic"
    BY DEF TakeSplit, BeforeLarge, SplitterInv, Control, SplitterTypes
  <1>2. calls' = [calls EXCEPT ![Len(calls)] = Taken(StrippedSplit)]
    BY DEF TakeSplit
  <1>3. ASSUME Simple
        PROVE  /\ CallsExact(calls', merged')
               /\ \A n \in DOMAIN texts' : Exact(texts'[n])
    <2>1. Used(call) /\ Adjacent(call) /\ \A i \in DOMAIN calls : Used(calls[i]) /\ Adjacent(calls[i])
      BY <1>1, <1>3, MarkIs DEF ExactInv, CallsExact, call
    <2>2. Regular /\ config.strip
      BY <1>3 DEF Simple
    <2>3. Used(Taken(StrippedSplit)) /\ Adjacent(Taken(StrippedSplit))
      BY <1>1, <2>1, <2>2, MarkIs, FrameExact
    <2>4. \A i \in DOMAIN calls' : Used(calls'[i]) /\ Adjacent(calls'[i])
      BY <1>1, <1>2, <2>1, <2>3, ReplacedExact
    <2> QED BY <1>1, <1>3, <2>4, NoTextIsExact DEF CallsExact, ExactInv
  <1>4. PlacedExact'
    BY <1>1, NotPlacedYet DEF SplitDone
  <1> QED BY <1>1, <1>3, <1>4, ExactRebased

LEMMA EndSplitsExact ==
    ASSUME SplitterInv, ExactInv, EndSplits
    PROVE  ExactInv'
  <1>1. /\ UNCHANGED <<content, config, calls, merged, texts, placed, offset>>
        /\ stage = "split" /\ stage' = "merge"
    BY DEF EndSplits
  <1>2. PlacedExact'
    BY <1>1, NotPlacedYet DEF SplitDone
  <1> QED BY <1>1, <1>2, ExactRebased DEF ExactInv

LEMMA LiesJoined ==
    ASSUME NEW a \in Seq(Chars), NEW b \in Seq(Chars), NEW x \in Nat,
           Lies(a, x), Lies(b, x + Len(a))
    PROVE  Lies(a \o b, x)
  <1> DEFINE t == a \o b
             n == Len(a)
             m == Len(b)
  <1>1. n \in Nat /\ m \in Nat /\ DOMAIN a = 1..n /\ DOMAIN b = 1..m
    OBVIOUS
  <1>2. DOMAIN t = 1..(n + m)
    OBVIOUS
  <1>3. \A i \in 1..n : t[i] = a[i]
    OBVIOUS
  <1>4. \A i \in 1..m : t[n + i] = b[i]
    OBVIOUS
  <1>5. Lies(b, x + n)
    OBVIOUS
  <1> HIDE DEF t, n, m
  <1>6. ASSUME NEW i \in 1..(n + m)
        PROVE  t[i].char = content[x + i - 1] /\ (t[i].at # 0 => t[i].at = x + i - 1)
    <2>1. CASE i \in 1..n
      BY <1>1, <1>3, <2>1 DEF Lies
    <2>2. CASE i \notin 1..n
      <3>1. i - n \in 1..m /\ n + (i - n) = i /\ (x + n) + (i - n) - 1 = x + i - 1
        BY <1>1, <2>2
      <3>2. t[i] = b[i - n]
        BY <1>4, <3>1
      <3>3. b[i - n].char = content[(x + n) + (i - n) - 1]
            /\ (b[i - n].at # 0 => b[i - n].at = (x + n) + (i - n) - 1)
        BY <1>1, <1>5, <3>1 DEF Lies
      <3> QED BY <3>1, <3>2, <3>3
    <2> QED BY <2>1, <2>2
  <1>7. Lies(t, x)
    BY <1>2, <1>6 DEF Lies
  <1> QED BY <1>7 DEF t

LEMMA ExactSpan ==
    ASSUME content \in Seq(Alphabet), NEW span \in Spans, InPlace(span), SolidEnds(span),
           NEW t, t = Characters(span)
    PROVE  /\ t # <<>> /\ Exact(t) /\ Lies(t, span.from)
           /\ t[1].at = span.from /\ t[1].char \notin Space
           /\ t[Len(t)].at = span.to /\ t[Len(t)].char \notin Space
  <1> DEFINE n == Size(span)
  <1>1. /\ t \in Seq(Chars) /\ Len(t) = n /\ n \in Nat \ {0}
        /\ \A i \in 1..n : t[i].char = content[span.from + i - 1] /\ t[i].at = span.from + i - 1
    BY CharactersOf
  <1>2. span.from \in Nat \ {0} /\ span.to \in Nat \ {0} /\ n = span.to - span.from + 1
    BY DEF Spans, InPlace, Size
  <1>3. content[span.from] \notin Space /\ content[span.to] \notin Space
    BY <1>2 DEF SolidEnds, IsEmpty, InPlace
  <1> HIDE DEF n
  <1>4. 1 \in 1..n /\ n \in 1..n /\ span.from + 1 - 1 = span.from /\ span.from + n - 1 = span.to
    BY <1>1, <1>2
  <1>5. /\ t[1].at = span.from /\ t[1].char \notin Space
        /\ t[n].at = span.to /\ t[n].char \notin Space
    <2>1. t[1].at = span.from + 1 - 1 /\ t[1].char = content[span.from + 1 - 1]
      BY <1>1, <1>4
    <2>2. t[n].at = span.from + n - 1 /\ t[n].char = content[span.from + n - 1]
      BY <1>1, <1>4
    <2> QED BY <1>3, <1>4, <2>1, <2>2
  <1>6. Lies(t, span.from)
    <2>1. DOMAIN t = 1..n
      BY <1>1
    <2> QED BY <1>1, <2>1 DEF Lies
  <1>7. t # <<>>
    <2>1. Len(<<>>) = 0
      OBVIOUS
    <2> QED BY <1>1, <2>1
  <1> QED BY <1>1, <1>2, <1>5, <1>6, <1>7 DEF Exact

LEMMA ExactExtended ==
    ASSUME content \in Seq(Alphabet), NEW begun \in Seq(Chars), begun # <<>>, Exact(begun),
           NEW f, f.level \in 1..5, NEW span \in Spans, InPlace(span), SolidEnds(span),
           Adjoins(f, begun[Len(begun)].at, span.from),
           NEW t, t = Extended(begun, Separators[f.level], span)
    PROVE  t # <<>> /\ Exact(t) /\ t[Len(t)].at = span.to
  <1> DEFINE part == Separators[f.level]
             c == Characters(span)
             m == begun \o Inserted(part)
             x == begun[1].at
             k == Len(begun)
             n == Len(part)
  <1>1. t = m \o c
    BY DEF Extended
  <1>2. /\ begun[1].at # 0 /\ begun[1].char \notin Space /\ begun[k].at # 0 /\ Lies(begun, x)
    BY DEF Exact
  <1>3. /\ c # <<>> /\ Lies(c, span.from) /\ c[Len(c)].at = span.to /\ c[Len(c)].char \notin Space
    BY ExactSpan
  <1>4. c \in Seq(Chars) /\ Len(c) \in Nat \ {0}
    BY CharactersOf
  <1>5. span.to \in Nat \ {0} /\ span.from \in Nat
    BY DEF Spans, InPlace
  <1>6. part \in Seq(Alphabet) /\ n \in Nat /\ DOMAIN part = 1..n
    <2>1. part \in Seq(Alphabet)
      BY SeparatorParts
    <2> QED BY <2>1
  <1>7. /\ span.from = begun[k].at + n + 1
        /\ \A j \in 1..n : content[begun[k].at + j] = part[j]
    BY <1>6 DEF Adjoins
  <1>8. /\ Inserted(part) \in Seq(Chars) /\ Len(Inserted(part)) = n
        /\ \A i \in DOMAIN part : Inserted(part)[i].char = part[i] /\ Inserted(part)[i].at = 0
    BY <1>6, InsertedPart
  <1>9. k \in Nat \ {0} /\ DOMAIN begun = 1..k /\ 1 \in 1..k /\ k \in 1..k
    <2>1. k \in Nat /\ k # 0 /\ DOMAIN begun = 1..k
      OBVIOUS
    <2> HIDE DEF k
    <2> QED BY <2>1
  <1>10. begun[1] \in Chars /\ x \in Nat
    <2>1. begun[1] \in Chars
      BY <1>9
    <2> QED BY <2>1 DEF Chars
  <1>11. begun[k].at = x + k - 1
    BY <1>2, <1>9 DEF Lies
  <1> HIDE DEF part, c, x, k, n
  <1>12. Lies(Inserted(part), x + k)
    <2>1. DOMAIN Inserted(part) = 1..n
      BY <1>8
    <2>2. ASSUME NEW i \in 1..n PROVE Inserted(part)[i].char = content[(x + k) + i - 1]
      <3>1. (x + k) + i - 1 = begun[k].at + i
        BY <1>9, <1>10, <1>11
      <3> QED BY <1>6, <1>7, <1>8, <3>1
    <2> QED BY <1>6, <1>8, <2>1, <2>2 DEF Lies
  <1>13. Lies(m, x) /\ m \in Seq(Chars) /\ Len(m) = k + n
    <2>1. Lies(begun, x) /\ Lies(Inserted(part), x + Len(begun))
      BY <1>2, <1>12 DEF x, k
    <2>2. m \in Seq(Chars) /\ Len(m) = Len(begun) + Len(Inserted(part))
      BY <1>8, JoinedTexts
    <2> QED BY <1>8, <1>10, <2>1, <2>2, LiesJoined DEF k
  <1>14. m[1] = begun[1]
    BY <1>8, <1>9
  <1> HIDE DEF m
  <1>15. span.from = x + Len(m)
    BY <1>6, <1>7, <1>9, <1>10, <1>11, <1>13
  <1>16. Lies(t, x) /\ t \in Seq(Chars) /\ Len(t) = Len(m) + Len(c)
    <2>1. Lies(m \o c, x)
      BY <1>3, <1>4, <1>10, <1>13, <1>15, LiesJoined
    <2>2. m \o c \in Seq(Chars) /\ Len(m \o c) = Len(m) + Len(c)
      BY <1>4, <1>13, JoinedTexts
    <2> QED BY <1>1, <2>1, <2>2
  <1>17. t[1] = begun[1] /\ t[Len(t)] = c[Len(c)] /\ t # <<>>
    <2>1. Len(m) \in Nat \ {0}
      BY <1>6, <1>9, <1>13
    <2>2. \A i \in 1..Len(m) : t[i] = m[i]
      BY <1>1, <1>4, <1>13
    <2>3. \A i \in 1..Len(c) : t[Len(m) + i] = c[i]
      BY <1>1, <1>4, <1>13, SMTT(30)
    <2>4. t[1] = begun[1]
      BY <1>14, <2>1, <2>2
    <2>5. t[Len(t)] = c[Len(c)]
      BY <1>4, <1>16, <2>3
    <2>6. Len(t) # 0 /\ Len(<<>>) = 0
      BY <1>4, <1>16, <2>1
    <2> QED BY <2>4, <2>5, <2>6
  <1> QED BY <1>2, <1>3, <1>5, <1>16, <1>17 DEF Exact, x

LEMMA StrippedIsExact ==
    ASSUME config.strip, NEW t \in Seq(Chars), Exact(t)
    PROVE  Stripped(t) = t
  <1>1. Stripped(t) = TrimText(t)
    BY DEF Stripped
  <1>2. CASE t = <<>>
    <2>1. TrimText(t) \in Seq(Chars) /\ Len(TrimText(t)) <= Len(t) /\ Len(t) = 0
      BY <1>2, TrimmedText
    <2>2. Len(TrimText(t)) = 0
      BY <2>1
    <2> QED BY <1>1, <1>2, <2>1, <2>2
  <1>3. CASE t # <<>>
    <2>1. t[1].char \notin Space /\ t[Len(t)].char \notin Space
      BY <1>3 DEF Exact
    <2> QED BY <1>1, <1>3, <2>1, TrimmedText
  <1> QED BY <1>2, <1>3

LEMMA AppendedExact ==
    ASSUME NEW ts \in Seq(Seq(Chars)), \A n \in DOMAIN ts : Exact(ts[n]), NEW t \in Seq(Chars), Exact(t)
    PROVE  \A n \in DOMAIN Append(ts, t) : Exact(Append(ts, t)[n])
  <1>1. \A n \in DOMAIN Append(ts, t) : (n \in DOMAIN ts /\ Append(ts, t)[n] = ts[n]) \/ Append(ts, t)[n] = t
    OBVIOUS
  <1> QED BY <1>1

LEMMA EmittedExact ==
    ASSUME config.strip, texts \in Seq(Seq(Chars)), \A n \in DOMAIN texts : Exact(texts[n]),
           merged \in Seq(Chars), Exact(merged)
    PROVE  \A n \in DOMAIN Emitted : Exact(Emitted[n])
  <1>1. Stripped(merged) = merged
    BY StrippedIsExact
  <1>2. Emitted = texts \/ Emitted = Append(texts, merged)
    BY <1>1 DEF Emitted
  <1> QED BY <1>2, AppendedExact

LEMMA EndMergeExact ==
    ASSUME SplitterInv, ExactInv, EndMerge
    PROVE  ExactInv'
  <1>1. /\ stage = "merge" /\ calls \in Seq(Frames) /\ calls # <<>>
        /\ texts' = Emitted /\ merged' = <<>>
        /\ UNCHANGED <<content, config, placed, offset>>
        /\ calls' = calls \/ calls' = SubSeq(calls, 1, Len(calls) - 1)
        /\ stage' \in {"descend", "done", "place", "split"}
    BY DEF EndMerge, Returned, Placing, SplitterInv, SplitterTypes, Control
  <1>2. ASSUME Simple
        PROVE  /\ CallsExact(calls', merged')
               /\ \A n \in DOMAIN texts' : Exact(texts'[n])
    <2>1. /\ config.strip /\ texts \in Seq(Seq(Chars)) /\ merged \in Seq(Chars) /\ Exact(merged)
          /\ \A n \in DOMAIN texts : Exact(texts[n])
          /\ \A i \in DOMAIN calls : Used(calls[i]) /\ Adjacent(calls[i])
      BY <1>2 DEF Simple, SplitterInv, SplitterTypes, ExactInv, CallsExact
    <2>2. \A n \in DOMAIN texts' : Exact(texts'[n])
      BY <1>1, <2>1, EmittedExact
    <2>3. \A i \in DOMAIN calls' : i \in DOMAIN calls /\ calls'[i] = calls[i]
      <3> DEFINE k == Len(calls)
      <3>1. k \in Nat /\ k # 0 /\ DOMAIN calls = 1..k
        BY <1>1
      <3>2. DOMAIN SubSeq(calls, 1, k - 1) = 1..(k - 1)
        BY <1>1
      <3>3. \A i \in 1..(k - 1) : SubSeq(calls, 1, k - 1)[i] = calls[i]
        BY <1>1
      <3>4. calls' = calls \/ calls' = SubSeq(calls, 1, k - 1)
        BY <1>1
      <3> HIDE DEF k
      <3> QED BY <3>1, <3>2, <3>3, <3>4
    <2> QED BY <1>1, <2>1, <2>2, <2>3, NoTextIsExact DEF CallsExact
  <1>3. PlacedExact'
    BY <1>1, NotPlacedYet DEF SplitDone
  <1> QED BY <1>1, <1>2, <1>3, ExactRebased

LEMMA MergeSplitExact ==
    ASSUME SplitterInv, ExactInv, MergeSplit
    PROVE  ExactInv'
  <1>1. /\ stage = "merge" /\ stage' = "merge" /\ calls \in Seq(Frames) /\ calls # <<>>
        /\ call.good # <<>> /\ config.overlap \in Nat
        /\ UNCHANGED <<content, config, placed, offset>>
        /\ texts \in Seq(Seq(Chars)) /\ merged \in Seq(Chars)
    BY DEF MergeSplit, SplitterInv, SplitterTypes, Control
  <1>2. /\ content \in Seq(Alphabet) /\ call \in Frames /\ RestOK(call) /\ GoodOK(call) /\ LargeOK(call)
        /\ Len(calls) \in DOMAIN calls
    BY <1>1, MarkIs, SMTT(30)
  <1> DEFINE f == [call EXCEPT !.good = Tail(call.good)]
             g == call.good
             s == Head(call.good)
             full == merged # <<>> /\ Joined(merged, s) > config.size
             begun == IF full THEN Overlap(Stripped(merged)) ELSE merged
  <1>3. calls' = [calls EXCEPT ![Len(calls)] = f]
    BY DEF MergeSplit, call
  <1>4. /\ texts' = IF full THEN Emitted ELSE texts
        /\ merged' = Extended(begun, SeparatorToUse, s)
    BY DEF MergeSplit, Extended
  <1>5. /\ f.rest = call.rest /\ f.large = call.large /\ f.level = call.level
        /\ s \in Spans /\ InPlace(s)
    BY <1>1, <1>2, GoodTaken
  <1>6. f.good = Tail(g) /\ g \in Seq(Spans) /\ g # <<>> /\ call.level \in 1..5
    BY <1>1, <1>2, FrameParts DEF Frames
  <1> DEFINE h == Tail(g)
  <1>7. /\ \A j \in DOMAIN h : j + 1 \in DOMAIN g /\ h[j] = g[j + 1]
        /\ \A j \in 1..(Len(h) - 1) : j + 1 \in 1..(Len(g) - 1) /\ h[j] = g[j + 1] /\ h[j + 1] = g[(j + 1) + 1]
    BY <1>6, TailParts
  <1>8. (h # <<>> => h[Len(h)] = g[Len(g)] /\ h[1] = g[2] /\ 1 \in 1..(Len(g) - 1)) /\ g[1] = s /\ 1 \in DOMAIN g
    BY <1>6, TailParts
  <1> HIDE DEF f, g, s, h, full, begun
  <1>9. ASSUME Simple
        PROVE  /\ CallsExact(calls', merged')
               /\ \A n \in DOMAIN texts' : Exact(texts'[n])
    <2>1. /\ config.strip /\ config.keep /\ config.overlap = 0
          /\ Exact(merged)
          /\ \A n \in DOMAIN texts : Exact(texts[n])
          /\ \A i \in DOMAIN calls : Used(calls[i]) /\ Adjacent(calls[i])
          /\ merged # <<>> /\ g # <<>> => Adjoins(call, merged[Len(merged)].at, g[1].from)
      BY <1>1, <1>9 DEF Simple, InOrder, ExactInv, CallsExact, call, g
    <2>2. Used(call) /\ Adjacent(call)
      BY <1>2, <2>1 DEF call
    <2>3. \A a, b : Adjoins(f, a, b) <=> Adjoins(call, a, b)
      BY <1>5 DEF Adjoins
    <2>4. /\ SolidEnds(call.rest) /\ SolidEnds(call.large)
          /\ \A j \in DOMAIN g : SolidEnds(g[j])
          /\ \A j \in 1..(Len(g) - 1) : Adjoins(call, g[j].to, g[j + 1].from)
          /\ IsEmpty(call.large) /\ ~IsEmpty(call.rest) => Adjoins(call, g[Len(g)].to, call.rest.from)
      BY <1>6, <2>2 DEF Adjacent, g
    <2>5. Used(f)
      BY <1>5, <2>2 DEF Used
    <2>6. Adjacent(f)
      <3>1. \A j \in DOMAIN h : SolidEnds(h[j])
        BY <1>7, <2>4
      <3>2. \A j \in 1..(Len(h) - 1) : Adjoins(f, h[j].to, h[j + 1].from)
        BY <1>7, <2>3, <2>4
      <3>3. h # <<>> /\ IsEmpty(f.large) /\ ~IsEmpty(f.rest) => Adjoins(f, h[Len(h)].to, f.rest.from)
        BY <1>5, <1>8, <2>3, <2>4
      <3>4. f.good = h
        BY <1>6 DEF h
      <3> QED BY <1>5, <2>4, <3>1, <3>2, <3>3, <3>4 DEF Adjacent
    <2>7. SolidEnds(s)
      BY <1>8, <2>4
    <2>8. SeparatorToUse = Separators[call.level]
      BY <2>1 DEF SeparatorToUse, Separator
    <2>9. begun = IF full THEN <<>> ELSE merged
      <3>1. \A t : Overlap(t) = <<>>
        BY <2>1 DEF Overlap
      <3> QED BY <3>1 DEF begun
    <2>10. merged' # <<>> /\ Exact(merged') /\ merged'[Len(merged')].at = s.to
      <3>1. CASE begun = <<>>
        <4>1. merged' = Characters(s)
          <5>1. Characters(s) \in Seq(Chars)
            BY <1>2, <1>5, CharactersOf
          <5> QED BY <1>4, <3>1, <5>1 DEF Extended
        <4> QED BY <1>2, <1>5, <2>7, <4>1, ExactSpan
      <3>2. CASE begun # <<>>
        <4>1. begun = merged /\ merged # <<>>
          BY <2>9, <3>2
        <4>2. Adjoins(call, merged[Len(merged)].at, s.from)
          BY <1>6, <1>8, <2>1, <4>1
        <4>3. merged' = Extended(merged, Separators[call.level], s)
          BY <1>4, <2>8, <4>1
        <4> QED BY <1>1, <1>2, <1>5, <1>6, <2>1, <2>7, <4>1, <4>2, <4>3, ExactExtended
      <3> QED BY <3>1, <3>2
    <2>11. \A n \in DOMAIN texts' : Exact(texts'[n])
      BY <1>1, <1>4, <2>1, EmittedExact
    <2>12. \A i \in DOMAIN calls' : Used(calls'[i]) /\ Adjacent(calls'[i])
      BY <1>1, <1>3, <2>1, <2>5, <2>6, ReplacedExact
    <2>13. Len(calls') = Len(calls) /\ calls'[Len(calls')] = f
      BY <1>1, <1>3, <2>1, <2>5, <2>6, ReplacedExact
    <2>14. h # <<>> => Adjoins(f, s.to, h[1].from)
      <3>1. h # <<>> => Adjoins(call, g[1].to, g[1 + 1].from) /\ 1 + 1 = 2
        BY <1>8, <2>4
      <3> QED BY <1>8, <2>3, <3>1
    <2>15. f.good = h
      BY <1>6 DEF h
    <2> QED BY <2>10, <2>11, <2>12, <2>13, <2>14, <2>15 DEF CallsExact
  <1>10. PlacedExact'
    BY <1>1, NotPlacedYet DEF SplitDone
  <1> QED BY <1>1, <1>9, <1>10, ExactRebased

LEMMA DescendExact ==
    ASSUME SplitterInv, ExactInv, Descend
    PROVE  ExactInv'
  <1> DEFINE f == [call EXCEPT !.large = NoSpan]
             span == call.large
             waiting == [calls EXCEPT ![Len(calls)] = f]
             g == Call(span, call.level + 1)
  <1>1. /\ stage = "descend" /\ stage' = "split" /\ calls \in Seq(Frames) /\ calls # <<>>
        /\ call.good = <<>> /\ ~IsEmpty(span) /\ merged = <<>>
        /\ UNCHANGED <<content, config, merged, placed, offset>>
        /\ texts \in Seq(Seq(Chars))
    BY DEF Descend, SplitterInv, SplitterTypes, Control
  <1>2. /\ content \in Seq(Alphabet) /\ call \in Frames /\ RestOK(call) /\ LargeOK(call)
        /\ Len(calls) \in DOMAIN calls
    BY <1>1, MarkIs
  <1>3. /\ f \in Frames
        /\ f.rest = call.rest /\ f.level = call.level /\ f.good = <<>> /\ f.large = NoSpan
    <2>1. f = [level |-> call.level, rest |-> call.rest, good |-> call.good, large |-> NoSpan]
      BY <1>2 DEF Frames
    <2>2. NoSpan \in Spans
      BY SpanOf DEF NoSpan
    <2>3. call.level \in DOMAIN Separators
      BY <1>2, FrameParts, SeparatorParts
    <2> HIDE DEF f
    <2>4. f \in Frames
      BY <1>2, <2>1, <2>2, <2>3, FrameParts DEF Frames
    <2> QED BY <1>1, <2>1, <2>4
  <1>4. /\ IF call.level < 5
           THEN calls' = Append(waiting, g) /\ texts' = texts
           ELSE calls' = waiting /\ texts' = Append(texts, Characters(span))
    <2>1. [calls EXCEPT ![Len(calls)].large = NoSpan] = waiting
      BY DEF call
    <2> QED BY <2>1, SeparatorParts DEF Descend
  <1>5. span \in Spans /\ InPlace(span) /\ call.level \in 1..5
    BY <1>1, <1>2, FrameParts DEF LargeOK
  <1>6. IsEmpty(f.large)
    BY <1>3, SpanOf DEF NoSpan, IsEmpty
  <1> HIDE DEF f, span
  <1>7. ASSUME Simple
        PROVE  /\ CallsExact(calls', merged')
               /\ \A n \in DOMAIN texts' : Exact(texts'[n])
    <2>1. /\ \A n \in DOMAIN texts : Exact(texts[n])
          /\ \A i \in DOMAIN calls : Used(calls[i]) /\ Adjacent(calls[i])
      BY <1>7 DEF ExactInv, CallsExact
    <2>2. Used(call) /\ Adjacent(call)
      BY <1>2, <2>1 DEF call
    <2>3. Used(f)
      BY <1>3, <1>6, <2>2 DEF Used
    <2>4. Adjacent(f)
      <3>1. DOMAIN <<>> = {} /\ Len(<<>>) = 0
        OBVIOUS
      <3>2. SolidEnds(f.rest) /\ SolidEnds(f.large)
        BY <1>3, <1>6, <2>2 DEF Adjacent, SolidEnds
      <3>3. /\ \A j \in DOMAIN f.good : SolidEnds(f.good[j])
            /\ \A j \in 1..(Len(f.good) - 1) : Adjoins(f, f.good[j].to, f.good[j + 1].from)
        BY <1>3, <3>1
      <3> QED BY <1>3, <3>2, <3>3 DEF Adjacent
    <2>5. /\ \A i \in DOMAIN waiting : Used(waiting[i]) /\ Adjacent(waiting[i])
      BY <1>1, <2>1, <2>3, <2>4, ReplacedExact
    <2>6. SolidEnds(span)
      BY <2>2 DEF Adjacent, span
    <2>7. CASE call.level < 5
      <3>1. calls' = Append(waiting, g) /\ texts' = texts
        BY <1>4, <2>7
      <3>2. call.level + 1 \in 1..5 /\ 1 <= span.from
        <4>1. call.level + 1 \in 1..5
          BY <1>5, <2>7
        <4> QED BY <1>5, <4>1 DEF InPlace
      <3>3. g.rest = span /\ Waiting(g) /\ g.level \in (call.level + 1)..5
        <4>1. g.rest = span /\ Waiting(g)
          BY <1>5, <3>2, CallOf
        <4>2. g.level \in (call.level + 1)..5
          BY <1>5, <3>2, CallOf
        <4> QED BY <4>1, <4>2
      <3>4. \A i \in (call.level + 1)..(g.level - 1) : Occurrences(Separators[i], span) = {}
        BY <1>5, <3>2, CallOf
      <3>5. \A i \in 1..call.level : Occurrences(Separators[i], span) = {}
        BY <1>1, <2>2, <2>7, SeparatorParts DEF Used, span
      <3> HIDE DEF g
      <3>6. Used(g)
        <4>1. \A i \in 1..(g.level - 1) : i \in 1..call.level \/ i \in (call.level + 1)..(g.level - 1)
          BY <1>5, <3>3
        <4>2. \A i \in 1..(g.level - 1) : Occurrences(Separators[i], g.rest) = {}
          BY <3>3, <3>4, <3>5, <4>1
        <4> QED BY <3>3, <4>2 DEF Used, Waiting
      <3>7. Adjacent(g)
        <4>1. DOMAIN <<>> = {} /\ Len(<<>>) = 0
          OBVIOUS
        <4>2. SolidEnds(g.rest) /\ SolidEnds(g.large)
          BY <2>6, <3>3 DEF SolidEnds, Waiting
        <4>3. /\ \A j \in DOMAIN g.good : SolidEnds(g.good[j])
              /\ \A j \in 1..(Len(g.good) - 1) : Adjoins(g, g.good[j].to, g.good[j + 1].from)
          BY <3>3, <4>1 DEF Waiting
        <4> QED BY <3>3, <4>2, <4>3 DEF Adjacent, Waiting
      <3>8. \A i \in DOMAIN calls' : Used(calls'[i]) /\ Adjacent(calls'[i])
        <4>1. \A i \in DOMAIN calls' : (i \in DOMAIN waiting /\ calls'[i] = waiting[i]) \/ calls'[i] = g
          <5>1. waiting \in Seq(Frames)
            BY <1>1, <1>3
          <5> HIDE DEF waiting
          <5> QED BY <3>1, <5>1
        <4> QED BY <2>5, <3>6, <3>7, <4>1
      <3> QED BY <1>1, <2>1, <3>1, <3>8, NoTextIsExact DEF CallsExact
    <2>8. CASE ~(call.level < 5)
      <3>1. calls' = waiting /\ texts' = Append(texts, Characters(span))
        BY <1>4, <2>8
      <3>2. Characters(span) \in Seq(Chars) /\ Exact(Characters(span))
        BY <1>2, <1>5, <2>6, CharactersOf, ExactSpan
      <3>3. \A n \in DOMAIN texts' : Exact(texts'[n])
        BY <1>1, <2>1, <3>1, <3>2, AppendedExact
      <3> QED BY <1>1, <2>5, <3>1, <3>3, NoTextIsExact DEF CallsExact
    <2> QED BY <2>7, <2>8
  <1>8. PlacedExact'
    BY <1>1, NotPlacedYet DEF SplitDone
  <1> QED BY <1>1, <1>7, <1>8, ExactRebased

LEMMA TextExact ==
    ASSUME content \in Seq(Alphabet), NEW t \in Seq(Chars), t # <<>>, Text(t), Exact(t),
           NEW x, x = t[1].at
    PROVE  /\ x \in Nat \ {0} /\ Len(t) \in Nat \ {0}
           /\ x \in From(t) /\ x + Len(t) - 1 \in From(t)
           /\ x + Len(t) - 1 <= Len(content)
           /\ \A p \in From(t) : x <= p /\ p <= x + Len(t) - 1
           /\ content[x] \notin Space
           /\ \A j \in 1..Len(t) : t[j].char = content[x + j - 1]
  <1> DEFINE k == Len(t)
  <1>1. k \in Nat \ {0} /\ DOMAIN t = 1..k /\ Len(t) = k
    <2>1. k \in Nat /\ DOMAIN t = 1..k
      OBVIOUS
    <2>2. k # 0
      OBVIOUS
    <2> QED BY <2>1, <2>2
  <1>2. \A i \in 1..k : t[i] \in Chars /\ t[i].at \in Nat
    <2>1. \A r \in Chars : r.at \in Nat
      BY DEF Chars
    <2>2. \A i \in 1..k : t[i] \in Chars
      OBVIOUS
    <2> QED BY <2>1, <2>2
  <1>3. /\ t[1].at # 0 /\ t[1].char \notin Space /\ t[k].at # 0
        /\ Lies(t, x)
    BY DEF Exact
  <1> HIDE DEF k
  <1>4. 1 \in 1..k /\ k \in 1..k
    BY <1>1
  <1>5. \A i \in 1..k : t[i].char = content[x + i - 1] /\ (t[i].at # 0 => t[i].at = x + i - 1)
    BY <1>1, <1>3 DEF Lies
  <1>6. x \in Nat \ {0} /\ t[k].at = x + k - 1
    BY <1>2, <1>3, <1>4, <1>5
  <1>7. x \in From(t) /\ x + k - 1 \in From(t)
    BY <1>1, <1>3, <1>4, <1>6 DEF From
  <1>8. \A p \in From(t) : x <= p /\ p <= x + k - 1
    BY <1>1, <1>5, <1>6 DEF From
  <1>9. x + k - 1 <= Len(content)
    <2>1. From(t) \subseteq DOMAIN content
      BY TagsOf
    <2>2. DOMAIN content = 1..Len(content) /\ Len(content) \in Nat
      OBVIOUS
    <2> QED BY <1>7, <2>1, <2>2
  <1>10. content[x] \notin Space
    <2>1. t[1].char = content[x + 1 - 1] /\ x + 1 - 1 = x
      BY <1>4, <1>5, <1>6
    <2> QED BY <1>3, <2>1
  <1> QED BY <1>1, <1>5, <1>6, <1>7, <1>8, <1>9, <1>10

\* Where the text before the n-th one ends.
EndBefore(n) == IF n = 1 THEN 0 ELSE texts[n - 1][1].at + Len(texts[n - 1]) - 1

\* Between two texts there is no letter: all letters are in texts, in their order.
LEMMA GapClear ==
    ASSUME SplitterInv, SplitDone, Simple, \A n \in DOMAIN texts : Exact(texts[n]),
           NEW n \in DOMAIN texts
    PROVE  /\ EndBefore(n) \in Nat /\ EndBefore(n) < texts[n][1].at
           /\ EndBefore(n) <= Len(content)
           /\ NoLetters(EndBefore(n) + 1, texts[n][1].at - 1)
  <1>1. /\ content \in Seq(Alphabet) /\ Letters \subseteq Nat /\ texts \in Seq(Seq(Chars))
        /\ calls = <<>> /\ merged = <<>>
    BY MarkIs DEF SplitterInv, SplitterTypes, Control
  <1>2. /\ Len(texts) \in Nat /\ DOMAIN texts = 1..Len(texts) /\ Len(content) \in Nat
    BY <1>1
  <1>3. \A m \in DOMAIN texts : texts[m] \in Seq(Chars) /\ texts[m] # <<>> /\ Text(texts[m]) /\ Exact(texts[m])
    <2>1. \A m \in DOMAIN texts : texts[m] \in Seq(Chars)
      BY <1>1
    <2> QED BY <2>1 DEF SplitterInv, TextOK
  <1>4. Behind(Len(content) + 1, texts, {})
    BY <1>1, NoText DEF SplitterInv, Mark
  <1>5. /\ \A p \in Letters : \E m \in DOMAIN texts : p \in From(texts[m])
        /\ \A k \in DOMAIN texts : \A m \in 1..(k - 1) :
              \A p \in From(texts[m]), q \in From(texts[k]) : p < q
    <2>1. \A p \in Letters : p < Len(content) + 1
      BY <1>1, <1>2, LettersAre
    <2> QED BY <1>4, <2>1 DEF Behind, Simple
  <1> DEFINE x == texts[n][1].at
             b == EndBefore(n)
  <1>6. x \in Nat \ {0} /\ x \in From(texts[n]) /\ \A p \in From(texts[n]) : x <= p
    BY <1>1, <1>3, TextExact
  <1>7. CASE n = 1
    <2>1. b = 0
      BY <1>7 DEF EndBefore
    <2>2. ASSUME NEW p \in Letters, 1 <= p, p <= x - 1 PROVE FALSE
      <3>1. PICK m \in DOMAIN texts : p \in From(texts[m])
        BY <1>5
      <3>2. CASE m = n
        BY <1>1, <1>6, <2>2, <3>1, <3>2
      <3>3. CASE m # n
        <4>1. n \in 1..(m - 1)
          BY <1>2, <1>7, <3>3
        <4>2. x < p
          BY <1>5, <1>6, <3>1, <4>1
        <4>3. p \in Nat
          BY <1>1
        <4> HIDE DEF x
        <4> QED BY <1>6, <2>2, <4>2, <4>3
      <3> QED BY <3>2, <3>3
    <2> QED BY <1>2, <1>6, <2>1, <2>2 DEF NoLetters
  <1>8. CASE n # 1
    <2> DEFINE l == n - 1
    <2>1. l \in DOMAIN texts /\ l \in 1..(n - 1) /\ n \in Nat /\ n = l + 1
      BY <1>2, <1>8
    <2>2. b = texts[l][1].at + Len(texts[l]) - 1
      BY <1>8 DEF EndBefore
    <2> HIDE DEF l
    <2>3. b \in From(texts[l]) /\ b <= Len(content)
      BY <1>1, <1>3, <2>1, <2>2, TextExact, SMTT(30)
    <2>4. \A p \in From(texts[l]) : p <= b
      BY <1>1, <1>3, <2>1, <2>2, TextExact, SMTT(30)
    <2>5. b \in Nat
      BY <1>3, <2>1, <2>3, TagsOf
    <2> HIDE DEF b, x
    <2>6. b < x
      BY <1>5, <1>6, <2>1, <2>3
    <2>7. ASSUME NEW p \in Letters, b + 1 <= p, p <= x - 1 PROVE FALSE
      <3>1. PICK m \in DOMAIN texts : p \in From(texts[m])
        BY <1>5
      <3>2. p \in Nat /\ m \in Nat /\ b < p /\ p < x
        BY <1>1, <1>2, <1>6, <2>5, <2>7
      <3>3. CASE m = n
        BY <1>6, <3>1, <3>2, <3>3
      <3>4. CASE m = l
        BY <2>4, <2>5, <3>1, <3>2, <3>4
      <3>5. CASE m < l
        <4>1. m \in 1..(l - 1)
          BY <1>2, <2>1, <3>5
        <4>2. p < b
          BY <1>5, <2>1, <2>3, <3>1, <4>1
        <4> QED BY <2>5, <3>2, <4>2
      <3>6. CASE n < m
        <4>1. n \in 1..(m - 1)
          BY <1>2, <3>2, <3>6
        <4>2. x < p
          BY <1>5, <1>6, <3>1, <4>1
        <4> QED BY <1>6, <3>2, <4>2
      <3> QED BY <2>1, <3>2, <3>3, <3>4, <3>5, <3>6
    <2> QED BY <2>3, <2>5, <2>6, <2>7 DEF NoLetters, b, x
  <1> QED BY <1>7, <1>8

\* Each chunk is found where its text is, and not before.
LEMMA StartIsExact ==
    ASSUME SplitterInv, Simple, SplitDone, \A n \in DOMAIN texts : Exact(texts[n]),
           NEW n \in DOMAIN texts, offset = EndBefore(n)
    PROVE  StartOf(texts[n]) + 1 = texts[n][1].at
  <1> DEFINE t == texts[n]
             x == t[1].at
             k == Len(t)
             part == Plain(t)
             span == Span(offset + 1, Len(content))
             found == Occurrences(part, span)
  <1>1. /\ content \in Seq(Alphabet) /\ Letters \subseteq Nat /\ texts \in Seq(Seq(Chars))
        /\ config.kind # "sentence"
    BY MarkIs DEF SplitterInv, SplitterTypes, Simple
  <1>2. t \in Seq(Chars) /\ t # <<>> /\ Text(t) /\ Exact(t)
    <2>1. t \in Seq(Chars)
      BY <1>1
    <2> QED BY <2>1 DEF SplitterInv, TextOK
  <1>3. x \in Nat \ {0} /\ k \in Nat \ {0} /\ x + k - 1 <= Len(content) /\ content[x] \notin Space
    BY <1>1, <1>2, TextExact
  <1>4. \A j \in 1..k : t[j].char = content[x + j - 1]
    BY <1>1, <1>2, TextExact
  <1>5. offset \in Nat /\ offset < x /\ NoLetters(offset + 1, x - 1)
    BY GapClear
  <1>6. Len(content) \in Nat
    BY <1>1
  <1>7. /\ part \in Seq(Alphabet) /\ Len(part) = k /\ \A j \in 1..k : part[j] = t[j].char
    <2>1. DOMAIN t = 1..k
      BY <1>2
    <2>2. part = [j \in 1..k |-> t[j].char]
      BY <2>1 DEF Plain
    <2>3. \A j \in 1..k : t[j].char \in Alphabet
      <3>1. \A j \in 1..k : t[j] \in Chars
        BY <1>2
      <3> HIDE DEF t
      <3> QED BY <3>1 DEF Chars
    <2> HIDE DEF t, part, k
    <2> QED BY <1>3, <2>2, <2>3
  <1>8. span \in Spans /\ span.from = offset + 1 /\ span.to = Len(content)
    <2>1. offset + 1 \in Int /\ Len(content) \in Int
      BY <1>5, <1>6
    <2> QED BY <2>1, SpanOf
  <1>9. StartOf(t) = IF found = {} THEN offset ELSE Least(found) - 1
    BY <1>1 DEF StartOf
  <1> HIDE DEF x, k, part, span, found
  <1>10. /\ found \in SUBSET Nat
         /\ \A i \in found : /\ span.from <= i
                             /\ \A j \in 1..Len(part) : content[i + j - 1] = part[j]
         /\ found # {} => Least(found) \in found /\ \A i \in found : Least(found) <= i
    <2>1. 1 <= span.from
      BY <1>5, <1>8
    <2> QED BY <1>7, <1>8, <2>1, OccurrencesIn DEF found
  <1>11. x \in found
    <2>1. x \in span.from..(span.to - Len(part) + 1)
      BY <1>3, <1>5, <1>6, <1>7, <1>8
    <2>2. \A j \in 1..Len(part) : content[x + j - 1] = part[j]
      BY <1>4, <1>7
    <2> QED BY <2>1, <2>2 DEF found, Occurrences
  <1>12. ASSUME NEW i \in found, i < x PROVE FALSE
    <2>1. i \in Nat /\ offset + 1 <= i /\ i <= x - 1
      BY <1>3, <1>8, <1>10, <1>12
    <2>2. \A p \in offset + 1..x - 1 : ~IsLetter(content[p])
      <3>1. ASSUME NEW p \in offset + 1..x - 1 PROVE p \in DOMAIN content /\ offset + 1 <= p /\ p <= x - 1
        <4>1. p \in 1..Len(content)
          BY <1>3, <1>5, <1>6
        <4>2. DOMAIN content = 1..Len(content)
          BY <1>1
        <4> QED BY <1>3, <1>5, <4>1, <4>2
      <3> QED BY <1>5, <3>1 DEF NoLetters, Letters
    <2>3. content[i] = content[x]
      <3>1. 1 \in 1..Len(part)
        BY <1>3, <1>7
      <3>2. content[i + 1 - 1] = part[1] /\ i + 1 - 1 = i
        BY <1>10, <2>1, <3>1
      <3>3. content[x + 1 - 1] = part[1] /\ x + 1 - 1 = x
        BY <1>3, <1>10, <1>11, <3>1
      <3> QED BY <3>2, <3>3
    <2>4. ~IsLetter(content[i]) /\ ~IsLetter(content[x - 1])
      <3>1. i \in offset + 1..x - 1 /\ x - 1 \in offset + 1..x - 1
        BY <1>3, <1>5, <2>1
      <3> QED BY <2>2, <3>1
    <2>5. content[x] = Stop
      BY <1>3, <2>3, <2>4 DEF IsLetter
    <2>6. ~IsLetter(content[x])
      BY <2>5 DEF IsLetter
    <2>7. x - 1 \in 1..(Len(content) - 1) /\ (x - 1) + 1 = x
      BY <1>3, <1>5, <1>6, <2>1
    <2>8. \A q \in 1..(Len(content) - 1) :
             ~IsLetter(content[q]) /\ ~IsLetter(content[q + 1]) => content[q + 1] = Blank
      BY DEF Simple, Regular
    <2>9. content[x] = Blank
      BY <2>4, <2>6, <2>7, <2>8
    <2> QED BY <1>3, <2>9 DEF Space
  <1>13. Least(found) = x
    <2> DEFINE l == Least(found)
    <2>1. l \in found /\ l <= x
      BY <1>10, <1>11
    <2>2. l \in Nat
      BY <1>10, <2>1
    <2> HIDE DEF l
    <2>3. ~(l < x)
      BY <1>12, <2>1
    <2>4. l = x
      BY <1>3, <2>1, <2>2, <2>3
    <2> QED BY <2>4 DEF l
  <1> QED BY <1>3, <1>9, <1>11, <1>13 DEF x, t

\* The search goes on where the last text ends.
LEMMA OffsetIs ==
    ASSUME SplitterInv, ExactInv, Simple, stage = "place"
    PROVE  /\ Len(placed) + 1 \in DOMAIN texts /\ Len(placed) \in Nat
           /\ offset = EndBefore(Len(placed) + 1)
  <1>1. /\ placed \in Seq([start : Nat, end : Nat]) /\ texts \in Seq(Seq(Chars)) /\ offset \in Nat
        /\ Len(placed) < Len(texts)
        /\ \A n \in DOMAIN placed : placed[n].end = placed[n].start + Len(texts[n])
    BY DEF SplitterInv, SplitterTypes, Placed
  <1>2. PlacedExact
    BY DEF ExactInv
  <1>3. Len(placed) \in Nat /\ Len(texts) \in Nat /\ DOMAIN placed = 1..Len(placed) /\ DOMAIN texts = 1..Len(texts)
    BY <1>1
  <1>4. Len(placed) + 1 \in DOMAIN texts
    BY <1>1, <1>3
  <1>5. CASE placed = <<>>
    <2>1. Len(placed) + 1 = 1
      BY <1>5
    <2> QED BY <1>2, <1>3, <1>4, <1>5, <2>1 DEF PlacedExact, EndBefore
  <1>6. CASE placed # <<>>
    <2> DEFINE k == Len(placed)
    <2>1. k # 0
      BY <1>1, <1>6
    <2>2. k \in DOMAIN placed
      BY <1>3, <2>1
    <2>3. offset = placed[k].end /\ placed[k].start + 1 = texts[k][1].at
      BY <1>2, <1>6, <2>2 DEF PlacedExact
    <2>4. placed[k].end = placed[k].start + Len(texts[k])
      BY <1>1, <2>2
    <2>5. placed[k].start \in Nat /\ Len(texts[k]) \in Nat
      <3>1. \A r \in [start : Nat, end : Nat] : r.start \in Nat
        OBVIOUS
      <3>2. ASSUME NEW R, placed \in Seq(R) PROVE \A n \in DOMAIN placed : placed[n] \in R
        BY <3>2
      <3>3. placed[k].start \in Nat
        BY <1>1, <2>2, <3>1, <3>2
      <3>4. texts[k] \in Seq(Chars)
        BY <1>1, <1>3, <2>2
      <3> QED BY <3>3, <3>4
    <2> HIDE DEF k
    <2>6. k \in Nat /\ (k + 1) - 1 = k /\ k + 1 # 1
      BY <1>3, <2>1 DEF k
    <2>7. EndBefore(k + 1) = texts[k][1].at + Len(texts[k]) - 1
      BY <2>6 DEF EndBefore
    <2>8. offset = EndBefore(k + 1)
      BY <2>3, <2>4, <2>5, <2>7, SMTT(30)
    <2> QED BY <1>3, <1>4, <2>8 DEF k
  <1> QED BY <1>5, <1>6

LEMMA PlaceChunkExact ==
    ASSUME SplitterInv, ExactInv, PlaceChunk
    PROVE  ExactInv'
  <1> DEFINE n == Len(placed) + 1
             start == StartOf(texts[n])
             end == start + Len(texts[n])
             new == [start |-> start, end |-> end]
  <1>1. /\ stage = "place" /\ stage' # "panic"
        /\ placed' = Append(placed, new) /\ offset' = NewOffset(start, end)
        /\ UNCHANGED <<content, config, calls, merged, texts>>
        /\ placed \in Seq([start : Nat, end : Nat]) /\ texts \in Seq(Seq(Chars))
    BY DEF PlaceChunk, SplitterInv, SplitterTypes
  <1>2. ASSUME Simple PROVE PlacedExact'
    <2>1. n \in DOMAIN texts /\ Len(placed) \in Nat /\ offset = EndBefore(n)
      BY <1>1, <1>2, OffsetIs
    <2>2. SplitDone /\ config.overlap = 0 /\ config.kind # "sentence"
          /\ \A m \in DOMAIN texts : Exact(texts[m])
      BY <1>1, <1>2 DEF SplitDone, Simple, InOrder, ExactInv
    <2> HIDE DEF n
    <2>3. start + 1 = texts[n][1].at
      BY <1>2, <2>1, <2>2, StartIsExact
    <2>4. texts[n][1].at \in Nat \ {0} /\ Len(texts[n]) \in Nat \ {0}
      <3>1. texts[n] \in Seq(Chars) /\ content \in Seq(Alphabet)
        BY <1>1, <2>1, MarkIs
      <3>2. texts[n] # <<>> /\ Text(texts[n]) /\ Exact(texts[n])
        BY <2>1, <2>2 DEF SplitterInv, TextOK
      <3> QED BY <3>1, <3>2, TextExact
    <2>5. start \in Nat
      <3>1. texts[n] \in Seq(Chars) /\ content \in Seq(Alphabet) /\ offset \in Nat
        BY <1>1, <2>1, MarkIs DEF SplitterInv, SplitterTypes
      <3> QED BY <3>1, StartIsNat
    <2> HIDE DEF start
    <2>6. end \in Nat /\ end = start + Len(texts[n])
      BY <2>4, <2>5
    <2> HIDE DEF end
    <2>7. offset' = end
      BY <1>1, <2>2, <2>6 DEF NewOffset
    <2>8. new \in [start : Nat, end : Nat] /\ new.start = start /\ new.end = end
      BY <2>5, <2>6
    <2> HIDE DEF new
    <2>9. /\ placed' # <<>> /\ placed'[Len(placed')] = new
          /\ \A m \in DOMAIN placed' : (m \in DOMAIN placed /\ placed'[m] = placed[m]) \/ (m = n /\ placed'[m] = new)
      <3> DEFINE k == Len(placed)
      <3>1. k \in Nat /\ n = k + 1 /\ DOMAIN placed = 1..k
        BY <1>1, <2>1 DEF n
      <3>2. Len(placed') = k + 1 /\ DOMAIN placed' = 1..(k + 1)
        BY <1>1, <2>8
      <3>3. \A m \in 1..(k + 1) : placed'[m] = IF m = k + 1 THEN new ELSE placed[m]
        BY <1>1, <2>8, SMTT(30)
      <3>4. placed' # <<>>
        <4>1. DOMAIN <<>> = {} /\ 1 \in 1..(k + 1)
          BY <3>1
        <4> QED BY <3>2, <4>1
      <3> HIDE DEF k
      <3>5. k + 1 \in 1..(k + 1) /\ \A m \in 1..(k + 1) : m = k + 1 \/ m \in 1..k
        BY <3>1
      <3> QED BY <3>1, <3>2, <3>3, <3>4, <3>5
    <2>10. \A m \in DOMAIN placed : placed[m].start + 1 = texts[m][1].at
      BY <1>2 DEF ExactInv, PlacedExact
    <2>11. \A m \in DOMAIN placed' : placed'[m].start + 1 = texts'[m][1].at
      BY <1>1, <2>3, <2>8, <2>9, <2>10
    <2> QED BY <2>7, <2>8, <2>9, <2>11 DEF PlacedExact
  <1> QED BY <1>1, <1>2, ExactRebased DEF ExactInv

LEMMA PanicNot ==
    ASSUME SplitterInv, ExactInv, Panic
    PROVE  ExactInv'
  <1>1. /\ stage = "place" /\ offset > Len(content) /\ UNCHANGED <<content, config>>
    BY DEF Panic
  <1>2. ASSUME Simple PROVE FALSE
    <2>1. Len(placed) + 1 \in DOMAIN texts /\ offset = EndBefore(Len(placed) + 1)
      BY <1>1, <1>2, OffsetIs
    <2>2. \A m \in DOMAIN texts : Exact(texts[m])
      BY <1>2 DEF ExactInv
    <2>3. offset <= Len(content) /\ offset \in Nat
      BY <1>1, <1>2, <2>1, <2>2, GapClear DEF SplitDone
    <2>4. Len(content) \in Nat
      BY MarkIs
    <2> QED BY <1>1, <2>3, <2>4
  <1> QED BY <1>1, <1>2, ExactRebased

LEMMA NextExact == SplitterInv /\ ExactInv /\ [SplitterNext]_splitVars => ExactInv'
  <1> SUFFICES ASSUME SplitterInv, ExactInv, [SplitterNext]_splitVars PROVE ExactInv'
    OBVIOUS
  <1>1. CASE UNCHANGED splitVars
    <2>1. UNCHANGED <<content, config, calls, merged, texts, placed, offset, stage>>
      BY <1>1 DEF splitVars
    <2> QED BY <2>1, ExactRebased DEF ExactInv, PlacedExact
  <1>2. CASE TakeSentence \/ EndSentences
    <2>1. stage = "sentence" /\ UNCHANGED <<content, config>>
      BY <1>2 DEF TakeSentence, EndSentences
    <2>2. config.kind = "sentence"
      BY <2>1 DEF SplitterInv, Control
    <2> QED BY <2>1, <2>2, ExactRebased DEF Simple
  <1>3. CASE SplitterNext
    BY <1>1, <1>2, <1>3, TakeSplitExact, EndSplitsExact, MergeSplitExact, EndMergeExact,
       DescendExact,
       PlaceChunkExact, PanicNot DEF SplitterNext, Stopped
  <1> QED BY <1>1, <1>3

\* In a regular document Split finds every chunk where it is and does not panic:
\* between two chunks there are only separators.
THEOREM PositionsAreExact == SplitterSpec => []PositionsExact
  <1>1. ASSUME SplitterInv, ExactInv PROVE PositionsExact
    <2> SUFFICES ASSUME Regular /\ config.overlap = 0 /\ config.kind = "recursive" /\ config.strip /\ config.keep
                 PROVE  /\ stage # "panic"
                        /\ \A n \in DOMAIN placed :
                              LET begin == IF n = 1 THEN 0 ELSE placed[n - 1].end IN
                              /\ SubSeq(content, placed[n].start + 1, placed[n].end) = Plain(texts[n])
                              /\ begin <= placed[n].start
                              /\ (begin + 1)..placed[n].start \cap Letters = {}
      BY DEF PositionsExact
    <2>1. Simple
      BY DEF Simple, InOrder
    <2>2. /\ stage # "panic" /\ PlacedExact /\ \A n \in DOMAIN texts : Exact(texts[n])
      BY <1>1, <2>1 DEF ExactInv
    <2>3. /\ content \in Seq(Alphabet) /\ texts \in Seq(Seq(Chars)) /\ Letters \subseteq Nat
          /\ placed \in Seq([start : Nat, end : Nat]) /\ Len(placed) <= Len(texts)
          /\ \A n \in DOMAIN placed : placed[n].end = placed[n].start + Len(texts[n])
      BY <1>1, MarkIs DEF SplitterInv, SplitterTypes, Placed
    <2>4. Len(placed) \in Nat /\ Len(texts) \in Nat /\ DOMAIN placed = 1..Len(placed) /\ DOMAIN texts = 1..Len(texts)
      BY <2>3
    <2>5. \A n \in DOMAIN placed : placed[n].start \in Nat
      <3>1. \A r \in [start : Nat, end : Nat] : r.start \in Nat
        OBVIOUS
      <3>2. ASSUME NEW R, placed \in Seq(R) PROVE \A n \in DOMAIN placed : placed[n] \in R
        BY <3>2
      <3> QED BY <2>3, <3>1, <3>2
    <2>6. ASSUME NEW n \in DOMAIN placed
          PROVE  LET begin == IF n = 1 THEN 0 ELSE placed[n - 1].end IN
                 /\ SubSeq(content, placed[n].start + 1, placed[n].end) = Plain(texts[n])
                 /\ begin <= placed[n].start
                 /\ (begin + 1)..placed[n].start \cap Letters = {}
      <3> DEFINE begin == IF n = 1 THEN 0 ELSE placed[n - 1].end
                 t == texts[n]
                 s == placed[n].start
                 k == Len(t)
      <3>1. n \in DOMAIN texts /\ n \in Nat
        BY <2>3, <2>4
      <3>2. s \in Nat /\ placed[n].end = s + k /\ s + 1 = t[1].at
        BY <2>2, <2>3, <2>5 DEF PlacedExact
      <3>3. t \in Seq(Chars) /\ t # <<>> /\ Text(t) /\ Exact(t)
        <4>1. t \in Seq(Chars)
          BY <2>3, <3>1
        <4> QED BY <1>1, <2>2, <3>1, <4>1 DEF SplitterInv, TextOK
      <3>4. /\ k \in Nat \ {0} /\ (s + 1) + k - 1 <= Len(content)
            /\ \A j \in 1..k : t[j].char = content[(s + 1) + j - 1]
        <4> DEFINE x == t[1].at
        <4>1. content \in Seq(Alphabet)
          BY <2>3
        <4>2. k \in Nat \ {0}
          BY <3>3, <4>1, TextExact
        <4>3. x + k - 1 <= Len(content)
          BY <3>3, <4>1, TextExact
        <4>4. \A j \in 1..k : t[j].char = content[x + j - 1]
          BY <3>3, <4>1, TextExact, SMTT(30)
        <4>5. x = s + 1
          BY <3>2
        <4> HIDE DEF x, s, k, t
        <4> QED BY <4>2, <4>3, <4>4, <4>5
      <3>5. begin = EndBefore(n)
        <4>1. CASE n = 1
          BY <4>1 DEF EndBefore
        <4>2. CASE n # 1
          <5>1. n - 1 \in DOMAIN placed
            BY <2>4, <3>1, <4>2
          <5>2. /\ placed[n - 1].end = placed[n - 1].start + Len(texts[n - 1])
                /\ placed[n - 1].start + 1 = texts[n - 1][1].at /\ placed[n - 1].start \in Nat
            BY <2>2, <2>3, <2>5, <5>1 DEF PlacedExact
          <5>3. Len(texts[n - 1]) \in Nat
            <6>1. texts[n - 1] \in Seq(Chars)
              BY <2>3, <2>4, <5>1
            <6> QED BY <6>1
          <5>4. EndBefore(n) = texts[n - 1][1].at + Len(texts[n - 1]) - 1
            BY <4>2 DEF EndBefore
          <5>5. begin = placed[n - 1].end
            BY <4>2
          <5> QED BY <5>2, <5>3, <5>4, <5>5, SMTT(30)
        <4> QED BY <4>1, <4>2
      <3>6. /\ EndBefore(n) \in Nat /\ EndBefore(n) < t[1].at
            /\ NoLetters(EndBefore(n) + 1, t[1].at - 1)
        <4>1. SplitDone
          <5>1. placed # <<>>
            OBVIOUS
          <5> QED BY <1>1, <5>1 DEF SplitterInv, Placed
        <4> QED BY <1>1, <2>1, <2>2, <3>1, <4>1, GapClear
      <3> HIDE DEF begin, s, t, k
      <3>7. begin <= s
        BY <3>2, <3>5, <3>6
      <3>8. (begin + 1)..s \cap Letters = {}
        <4>1. NoLetters(begin + 1, s)
          BY <3>2, <3>5, <3>6
        <4> QED BY <4>1 DEF NoLetters
      <3>9. SubSeq(content, s + 1, s + k) = Plain(t)
        <4>1. Plain(t) = [j \in 1..k |-> t[j].char]
          BY <3>3 DEF Plain, k
        <4> DEFINE q == SubSeq(content, s + 1, s + k)
                   l == Len(content)
        <4>2. l \in Nat /\ s + k <= l
          <5>1. l \in Nat
            BY <2>3
          <5>2. (s + 1) + k - 1 <= l
            BY <3>4
          <5> HIDE DEF l
          <5> QED BY <3>2, <3>4, <5>1, <5>2
        <4>3. \A i \in (s + 1)..(s + k) : content[i] \in Alphabet
          <5>1. \A i \in 1..l : content[i] \in Alphabet
            BY <2>3
          <5> HIDE DEF l
          <5> QED BY <3>2, <3>4, <4>2, <5>1
        <4>4. q = [j \in 1..k |-> content[(s + 1) + j - 1]]
          <5>1. (s + k) - (s + 1) + 1 = k
            BY <3>2, <3>4
          <5>2. SubSeq(content, s + 1, s + k)
                   = [j \in 1..((s + k) - (s + 1) + 1) |-> content[(s + 1) + j - 1]]
            BY <2>3, <3>2, <3>4, <4>2
          <5> QED BY <5>1, <5>2
        <4>5. \A j \in 1..k : t[j].char = content[(s + 1) + j - 1]
          BY <3>4
        <4>6. q = [j \in 1..k |-> t[j].char]
          <5> HIDE DEF q, t, k, s
          <5> QED BY <4>4, <4>5
        <4> QED BY <4>1, <4>6
      <3> QED BY <3>2, <3>7, <3>8, <3>9 DEF begin, s, t, k
    <2> QED BY <2>2, <2>6
  <1>2. SplitterInit => SplitterInv /\ ExactInv
    BY InitSplitterInv, InitExact
  <1>3. (SplitterInv /\ ExactInv) /\ [SplitterNext]_splitVars => (SplitterInv /\ ExactInv)'
    BY NextSplitterInv, NextExact
  <1> QED BY <1>1, <1>2, <1>3, PTL DEF SplitterSpec
====
