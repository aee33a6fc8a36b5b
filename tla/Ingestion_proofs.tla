---- MODULE Ingestion_proofs ----
(***************************************************************************)
(* Theorems about ingestion with the shared embedder and the PostgreSQL    *)
(* store, for every set of documents and texts, every batch size and cache *)
(* bound.                                                                  *)
(***************************************************************************)
EXTENDS Ingestion, SequenceTheorems, FiniteSetTheorems, TLAPS

----
(* One call of the embedder. *)

Placing == {"check", "put", "read", "write"}
Working == {"lookup", "request"} \cup Placing

CallTypes ==
    [pc : Working \cup {"idle", "ok", "error"}, texts : Seq(Texts),
     results : Seq(Texts \cup {Empty}), uncached : Seq(Nat), start : Nat,
     answer : Seq(Texts \cup {Empty}), k : Nat, size : Nat]

\* An embedding e of a text t is its own, or was left out by the provider (L).
Sound(t, e, L) == e = t \/ (e = Empty /\ t \in L)

AllSound(texts, results, L) ==
    Len(results) = Len(texts) /\ \A i \in 1..Len(texts) : Sound(texts[i], results[i], L)

\* The uncached texts up to here have their results.
DoneTo(k) == k.start + (IF k.pc = "check" THEN k.k - 1 ELSE k.k)

Rest(k) == Len(k.uncached) - k.start
SizeOfBatch(k) == IF Rest(k) < BatchSize THEN Rest(k) ELSE BatchSize

\* Every result so far is sound, or its place is among those to be filled.
GoodResults(k, L) ==
    /\ Len(k.uncached) <= Len(k.results)
    /\ \A j \in 1..Len(k.uncached) : k.uncached[j] \in 1..Len(k.results)
    /\ \A i \in 1..Len(k.results) :
          \/ Sound(k.texts[i], k.results[i], L)
          \/ k.results[i] = Empty /\ \E j \in 1..Len(k.uncached) : j > DoneTo(k) /\ k.uncached[j] = i

GoodAnswer(k, L) ==
    /\ k.k \in 1..Len(k.answer) /\ Len(k.answer) = SizeOfBatch(k)
    /\ \A i \in 1..Len(k.answer) : Sound(k.texts[k.uncached[k.start + i]], k.answer[i], L)

GoodCall(k, L) ==
    /\ k.pc \in Working => GoodResults(k, L)
    /\ k.pc = "lookup" => k.start = 0 /\ k.k = 0 /\ Len(k.results) < Len(k.texts)
    /\ k.pc \in Working \ {"lookup"} => Len(k.results) = Len(k.texts) /\ k.start < Len(k.uncached)
    /\ k.pc = "request" => k.k = 0
    /\ k.pc \in Placing => GoodAnswer(k, L)
    /\ k.pc \notin Working => k.uncached = <<>>

\* What a step makes of a call k: it goes on, fails, or returns sound embeddings.
Outcome(k, a, L) ==
    /\ a \in CallTypes /\ GoodCall(a, L)
    /\ \/ a.pc \in Working /\ a.texts = k.texts
       \/ a.pc = "error"
       \/ a.pc = "ok" /\ AllSound(k.texts, a.results, L)

GoodCache(C, L) == \A pair \in C : \E t \in Texts : \E e : pair = <<t, e>> /\ Sound(t, e, L)

LEMMA SoundTypes ==
    ASSUME NEW L, NEW t \in Texts, NEW e, Sound(t, e, L)
    PROVE  e \in Texts \cup {Empty} /\ (e # Empty => e = t) /\ (e = Empty => t \in L)
  BY EmptyAssumption DEF Sound

\* More left out.
LEMMA Monotone ==
    ASSUME NEW k, NEW L, NEW M, L \subseteq M, GoodCall(k, L)
    PROVE  GoodCall(k, M)
  BY DEF GoodCall, GoodResults, GoodAnswer, Sound

LEMMA CacheMonotone ==
    ASSUME NEW C, NEW L, NEW M, L \subseteq M, GoodCache(C, L)
    PROVE  GoodCache(C, M)
  BY DEF GoodCache, Sound

\* The fields that Advanced leaves.
AdvancedTo(k, a) ==
    \/ /\ k.k < Len(k.answer)
       /\ a.pc = "check" /\ a.k = k.k + 1 /\ a.texts = k.texts /\ a.results = k.results
       /\ a.uncached = k.uncached /\ a.start = k.start /\ a.answer = k.answer
    \/ /\ k.k >= Len(k.answer) /\ k.start + BatchSize < Len(k.uncached)
       /\ a.pc = "request" /\ a.k = 0 /\ a.texts = k.texts /\ a.results = k.results
       /\ a.uncached = k.uncached /\ a.start = k.start + BatchSize
    \/ /\ k.k >= Len(k.answer) /\ k.start + BatchSize >= Len(k.uncached)
       /\ a.pc = "ok" /\ a.results = k.results /\ a.uncached = <<>>

LEMMA AdvancedGood ==
    ASSUME NEW L, NEW k \in CallTypes, GoodCall(k, L), k.pc \in {"put", "read", "write"},
           NEW a \in CallTypes, AdvancedTo(k, a)
    PROVE  Outcome(k, a, L)
  <1>1. /\ GoodResults(k, L) /\ Len(k.results) = Len(k.texts) /\ k.start < Len(k.uncached)
        /\ GoodAnswer(k, L) /\ DoneTo(k) = k.start + k.k
    BY DEF GoodCall, Working, Placing, DoneTo
  <1>2. /\ k.start \in Nat /\ k.k \in Nat /\ BatchSize \in Nat /\ BatchSize > 0
        /\ Len(k.uncached) \in Nat /\ Len(k.answer) \in Nat
    BY BatchSizeAssumption, LenProperties DEF CallTypes
  <1>3. CASE a.pc = "check"
    <2>1. /\ k.k < Len(k.answer)
          /\ a.k = k.k + 1 /\ a.texts = k.texts /\ a.results = k.results
          /\ a.uncached = k.uncached /\ a.start = k.start /\ a.answer = k.answer
      BY <1>3 DEF AdvancedTo
    <2>2. DoneTo(a) = DoneTo(k)
      BY <1>1, <1>2, <1>3, <2>1 DEF DoneTo
    <2>3. GoodResults(a, L)
      BY <1>1, <2>1, <2>2 DEF GoodResults
    <2>4. a.k \in 1..Len(a.answer) /\ SizeOfBatch(a) = SizeOfBatch(k)
      BY <1>1, <1>2, <2>1 DEF GoodAnswer, SizeOfBatch, Rest
    <2>5. GoodAnswer(a, L)
      BY <1>1, <2>1, <2>4 DEF GoodAnswer
    <2> QED BY <1>1, <1>3, <2>1, <2>3, <2>5 DEF GoodCall, Outcome, Working, Placing
  <1>4. CASE a.pc = "request"
    <2>1. DoneTo(a) = DoneTo(k)
      BY <1>1, <1>2, <1>4 DEF AdvancedTo, DoneTo, GoodAnswer, SizeOfBatch, Rest
    <2>2. GoodResults(a, L)
      BY <1>1, <1>4, <2>1 DEF AdvancedTo, GoodResults
    <2> QED BY <1>1, <1>2, <1>4, <2>2 DEF AdvancedTo, GoodCall, Outcome, Working, Placing
  <1>5. CASE a.pc = "ok"
    <2>1. DoneTo(k) >= Len(k.uncached)
      BY <1>1, <1>2, <1>5 DEF AdvancedTo, GoodAnswer, SizeOfBatch, Rest
    <2>2. \A i \in 1..Len(k.results) : Sound(k.texts[i], k.results[i], L)
      BY <1>1, <1>2, <2>1 DEF GoodResults
    <2> QED BY <1>1, <1>5, <2>2 DEF AdvancedTo, GoodCall, Outcome, Working, Placing, AllSound
  <1> QED BY <1>3, <1>4, <1>5 DEF AdvancedTo

\* The embedding at hand and its place.
LEMMA AtHand ==
    ASSUME NEW L, NEW k \in CallTypes, GoodCall(k, L), k.pc \in Placing
    PROVE  /\ k.start + k.k \in 1..Len(k.uncached) /\ k.k \in 1..Len(k.answer)
           /\ k.uncached[k.start + k.k] \in 1..Len(k.results) /\ Len(k.results) = Len(k.texts)
           /\ Sound(k.texts[k.uncached[k.start + k.k]], k.answer[k.k], L)
           /\ k.texts[k.uncached[k.start + k.k]] \in Texts
           /\ k.answer[k.k] \in Texts \cup {Empty}
  <1>1. /\ GoodResults(k, L) /\ k.start < Len(k.uncached) /\ GoodAnswer(k, L)
        /\ Len(k.results) = Len(k.texts)
    BY DEF GoodCall, Working, Placing
  <1>2. /\ k.start \in Nat /\ BatchSize \in Nat /\ Len(k.uncached) \in Nat /\ Len(k.answer) \in Nat
        /\ k.k \in Nat /\ k.texts \in Seq(Texts) /\ k.answer \in Seq(Texts \cup {Empty})
    BY BatchSizeAssumption, LenProperties DEF CallTypes
  <1>3. k.k \in 1..Len(k.answer) /\ Len(k.answer) <= Len(k.uncached) - k.start
    BY <1>1, <1>2 DEF GoodAnswer, SizeOfBatch, Rest
  <1>4. k.start + k.k \in 1..Len(k.uncached)
    BY <1>2, <1>3
  <1>5. k.uncached[k.start + k.k] \in 1..Len(k.results)
    BY <1>1, <1>4 DEF GoodResults
  <1>6. Sound(k.texts[k.uncached[k.start + k.k]], k.answer[k.k], L)
    BY <1>1, <1>3 DEF GoodAnswer
  <1>7. k.texts[k.uncached[k.start + k.k]] \in Texts /\ k.answer[k.k] \in Texts \cup {Empty}
    BY <1>1, <1>2, <1>3, <1>5, ElementOfSeq
  <1> QED BY <1>1, <1>3, <1>4, <1>5, <1>6, <1>7

\* The result of a batch is put in its place.
LEMMA PlacedGood ==
    ASSUME NEW L, NEW k \in CallTypes, GoodCall(k, L), k.pc = "check",
           NEW a \in CallTypes, a.pc = "put", a.texts = k.texts, a.uncached = k.uncached,
           a.start = k.start, a.answer = k.answer, a.k = k.k,
           a.results = [k.results EXCEPT ![k.uncached[k.start + k.k]] = k.answer[k.k]]
    PROVE  GoodCall(a, L)
  <1> DEFINE j == k.start + k.k
             i == k.uncached[j]
  <1>1. /\ GoodResults(k, L) /\ Len(k.results) = Len(k.texts) /\ k.start < Len(k.uncached)
        /\ GoodAnswer(k, L)
    BY DEF GoodCall, Working, Placing
  <1>2. /\ k.start \in Nat /\ k.k \in Nat /\ BatchSize \in Nat /\ BatchSize > 0
        /\ Len(k.uncached) \in Nat /\ Len(k.answer) \in Nat
        /\ k.results \in Seq(Texts \cup {Empty}) /\ k.answer \in Seq(Texts \cup {Empty})
    BY BatchSizeAssumption, LenProperties DEF CallTypes
  <1>3. j \in 1..Len(k.uncached)
    BY AtHand DEF Placing
  <1>4. i \in 1..Len(k.results) /\ Sound(k.texts[i], k.answer[k.k], L)
        /\ k.answer[k.k] \in Texts \cup {Empty}
    BY AtHand DEF Placing
  <1> HIDE DEF i
  <1>5. /\ Len(a.results) = Len(k.results)
        /\ \A n \in 1..Len(k.results) : a.results[n] = IF n = i THEN k.answer[k.k] ELSE k.results[n]
    BY <1>2, <1>4, ExceptSeq DEF i
  <1>6. DoneTo(k) = j - 1 /\ DoneTo(a) = j
    BY <1>2 DEF DoneTo
  <1>7. GoodResults(a, L)
    <2>1. ASSUME NEW n \in 1..Len(k.results)
          PROVE  \/ Sound(a.texts[n], a.results[n], L)
                 \/ a.results[n] = Empty /\ \E m \in 1..Len(a.uncached) : m > DoneTo(a) /\ a.uncached[m] = n
      <3>1. CASE n = i
        BY <1>4, <1>5, <3>1
      <3>2. CASE n # i /\ ~Sound(k.texts[n], k.results[n], L)
        <4>1. PICK m \in 1..Len(k.uncached) : m > DoneTo(k) /\ k.uncached[m] = n
          BY <1>1, <3>2 DEF GoodResults
        <4>2. k.results[n] = Empty
          BY <1>1, <3>2 DEF GoodResults
        <4>3. m # j
          BY <3>2, <4>1 DEF i
        <4>4. m > DoneTo(a)
          BY <1>2, <1>6, <4>1, <4>3
        <4> QED BY <1>5, <3>2, <4>1, <4>2, <4>4
      <3>3. CASE n # i /\ Sound(k.texts[n], k.results[n], L)
        BY <1>5, <3>3
      <3> QED BY <3>1, <3>2, <3>3
    <2> QED BY <1>1, <1>5, <2>1 DEF GoodResults
  <1>8. GoodAnswer(a, L)
    BY <1>1 DEF GoodAnswer, SizeOfBatch, Rest
  <1> QED BY <1>1, <1>5, <1>7, <1>8 DEF GoodCall, Working, Placing

\* A batch is answered.
LEMMA AnsweredGood ==
    ASSUME NEW L, NEW k \in CallTypes, GoodCall(k, L), k.pc = "request",
           NEW a \in CallTypes, a.pc = "check", a.texts = k.texts, a.uncached = k.uncached,
           a.start = k.start, a.k = 1, a.results = k.results,
           Len(a.answer) = SizeOfBatch(k),
           \A i \in 1..Len(a.answer) : Sound(k.texts[k.uncached[k.start + i]], a.answer[i], L)
    PROVE  GoodCall(a, L)
  <1>1. /\ GoodResults(k, L) /\ Len(k.results) = Len(k.texts) /\ k.start < Len(k.uncached)
        /\ k.k = 0
    BY DEF GoodCall, Working, Placing
  <1>2. /\ k.start \in Nat /\ BatchSize \in Nat /\ BatchSize > 0
        /\ Len(k.uncached) \in Nat
    BY BatchSizeAssumption, LenProperties DEF CallTypes
  <1>3. DoneTo(a) = DoneTo(k)
    BY <1>1, <1>2 DEF DoneTo
  <1>4. GoodResults(a, L)
    BY <1>1, <1>3 DEF GoodResults
  <1>5. Len(a.answer) \in Nat \ {0}
    BY <1>1, <1>2 DEF SizeOfBatch, Rest
  <1>6. GoodAnswer(a, L)
    BY <1>5 DEF GoodAnswer, SizeOfBatch, Rest
  <1> QED BY <1>1, <1>4, <1>6 DEF GoodCall, Working, Placing

----
(* The steps of the embedder. *)

EmbedderInv ==
    /\ call \in [Callers -> CallTypes]
    /\ \A c \in Callers : GoodCall(call[c], leftOut)
    /\ GoodCache(cache, leftOut)
    /\ cacheSize \in Nat
    /\ leftOut \subseteq Texts

\* A step of c, and what it does to the calls of the others.
StepOf(c) ==
    /\ EmbedderInv'
    /\ leftOut \subseteq leftOut'
    /\ call[c].pc \in Working
    /\ Outcome(call[c], call'[c], leftOut')
    /\ \A d \in Callers \ {c} : call'[d] = call[d]

\* The call of c becomes a.
LEMMA StepByOutcome ==
    ASSUME EmbedderInv, NEW c \in Callers, call[c].pc \in Working,
           NEW a, call' = [call EXCEPT ![c] = a],
           leftOut \subseteq leftOut', leftOut' \subseteq Texts, cacheSize' \in Nat,
           GoodCache(cache', leftOut'), Outcome(call[c], a, leftOut')
    PROVE  StepOf(c)
  <1>1. call'[c] = a /\ \A d \in Callers \ {c} : call'[d] = call[d]
    BY DEF EmbedderInv
  <1>2. a \in CallTypes
    BY DEF Outcome
  <1>3. call' \in [Callers -> CallTypes]
    BY <1>2 DEF EmbedderInv
  <1>4. \A d \in Callers : GoodCall(call'[d], leftOut')
    BY <1>1, Monotone DEF EmbedderInv, Outcome
  <1> QED BY <1>1, <1>3, <1>4 DEF StepOf, EmbedderInv

LEMMA LookupStep ==
    ASSUME EmbedderInv, NEW c \in Callers, Lookup(c)
    PROVE  StepOf(c)
  <1> DEFINE k == call[c]
             i == Len(k.results) + 1
             text == k.texts[i]
             hit == text \in Cached
             todo == IF hit THEN k.uncached ELSE Append(k.uncached, i)
             found == IF hit THEN (CHOOSE pair \in cache : pair[1] = text)[2] ELSE Empty
             pc == IF i < Len(k.texts) THEN "lookup" ELSE IF todo = <<>> THEN "ok" ELSE "request"
             a == [k EXCEPT !.results = Append(k.results, found), !.uncached = todo, !.pc = pc]
  <1>1. /\ k.pc = "lookup" /\ call' = [call EXCEPT ![c] = a]
        /\ UNCHANGED <<cache, cacheSize, leftOut>>
    BY DEF Lookup, Filled
  <1>2. k \in CallTypes /\ GoodCall(k, leftOut)
    BY DEF EmbedderInv
  <1>3. /\ GoodResults(k, leftOut) /\ k.start = 0 /\ k.k = 0 /\ Len(k.results) < Len(k.texts)
    BY <1>1, <1>2 DEF GoodCall, Working
  <1>4. /\ k.texts \in Seq(Texts) /\ k.results \in Seq(Texts \cup {Empty}) /\ k.uncached \in Seq(Nat)
        /\ Len(k.texts) \in Nat /\ Len(k.results) \in Nat /\ Len(k.uncached) \in Nat
    BY <1>2, LenProperties DEF CallTypes
  <1>5. i \in 1..Len(k.texts) /\ text \in Texts
    BY <1>3, <1>4, ElementOfSeq
  <1>6. /\ hit => Sound(text, found, leftOut)
        /\ ~hit => found = Empty
    <2>1. CASE hit
      <3>1. \E pair \in cache : pair[1] = text
        BY <2>1 DEF Cached
      <3>2. PICK pair \in cache : pair[1] = text /\ found = pair[2]
        BY <2>1, <3>1
      <3> QED BY <2>1, <3>2 DEF EmbedderInv, GoodCache
    <2> QED BY <2>1
  <1>7. found \in Texts \cup {Empty}
    BY <1>5, <1>6 DEF Sound
  <1>8. todo \in Seq(Nat) /\ pc \in {"lookup", "ok", "request"}
    BY <1>4
  <1>9. /\ a \in CallTypes
        /\ a.pc = pc /\ a.results = Append(k.results, found) /\ a.uncached = todo
        /\ a.texts = k.texts /\ a.start = 0 /\ a.k = 0
    <2>1. Append(k.results, found) \in Seq(Texts \cup {Empty})
      BY <1>4, <1>7, AppendProperties
    <2> HIDE DEF found, todo, pc
    <2> QED BY <1>2, <1>3, <1>8, <2>1 DEF CallTypes, Working
  <1>10. /\ Len(a.results) = i
         /\ \A n \in 1..Len(k.results) : a.results[n] = k.results[n]
         /\ a.results[i] = found
    <2> HIDE DEF found, a
    <2> QED BY <1>4, <1>7, <1>9, AppendProperties
  <1>11. /\ Len(a.uncached) = IF hit THEN Len(k.uncached) ELSE Len(k.uncached) + 1
         /\ \A j \in 1..Len(k.uncached) : a.uncached[j] = k.uncached[j]
         /\ ~hit => a.uncached[Len(k.uncached) + 1] = i
    <2>1. CASE hit
      BY <1>9, <2>1
    <2>2. CASE ~hit
      <3>1. a.uncached = Append(k.uncached, i) /\ i \in Nat
        BY <1>4, <1>9, <2>2, SMTT(30)
      <3> HIDE DEF a, i, hit
      <3> QED BY <1>4, <2>2, <3>1, AppendProperties
    <2> QED BY <2>1, <2>2
  <1>12. DoneTo(a) = 0 /\ DoneTo(k) = 0
    <2>1. a.pc # "check" /\ k.pc # "check"
      BY <1>1, <1>8, <1>9
    <2> HIDE DEF a, k
    <2> QED BY <1>3, <1>9, <2>1 DEF DoneTo
  <1> HIDE DEF found, todo, a, hit
  <1>13. GoodResults(a, leftOut)
    <2>1. Len(a.uncached) <= Len(a.results)
      BY <1>3, <1>4, <1>10, <1>11, SMTT(30) DEF GoodResults
    <2>2. ASSUME NEW j \in 1..Len(a.uncached) PROVE a.uncached[j] \in 1..Len(a.results)
      <3>1. CASE j \in 1..Len(k.uncached)
        <4>1. a.uncached[j] = k.uncached[j]
          BY <1>11, <3>1
        <4>2. k.uncached[j] \in 1..Len(k.results)
          BY <1>3, <3>1 DEF GoodResults
        <4>3. Len(k.results) \in Nat /\ Len(a.results) = Len(k.results) + 1
          BY <1>4, <1>10
        <4> HIDE DEF k
        <4> QED BY <4>1, <4>2, <4>3
      <3>2. CASE j \notin 1..Len(k.uncached)
        <4>1. ~hit /\ j = Len(k.uncached) + 1
          BY <1>4, <1>11, <3>2
        <4> QED BY <1>4, <1>10, <1>11, <4>1, SMTT(30)
      <3> QED BY <3>1, <3>2
    <2>3. ASSUME NEW n \in 1..Len(a.results)
          PROVE  \/ Sound(a.texts[n], a.results[n], leftOut)
                 \/ a.results[n] = Empty /\ \E j \in 1..Len(a.uncached) : j > DoneTo(a) /\ a.uncached[j] = n
      <3>1. CASE n \in 1..Len(k.results)
        <4>1. \/ Sound(k.texts[n], k.results[n], leftOut)
              \/ k.results[n] = Empty /\ \E j \in 1..Len(k.uncached) : j > DoneTo(k) /\ k.uncached[j] = n
          BY <1>3, <3>1 DEF GoodResults
        <4>2. \A j \in 1..Len(k.uncached) : j \in 1..Len(a.uncached)
          BY <1>4, <1>11
        <4> QED BY <1>9, <1>10, <1>11, <1>12, <3>1, <4>1, <4>2
      <3>2. CASE n = i /\ hit
        BY <1>6, <1>9, <1>10, <3>2
      <3>3. CASE n = i /\ ~hit
        <4>1. /\ Len(k.uncached) + 1 \in 1..Len(a.uncached) /\ Len(k.uncached) + 1 > 0
              /\ a.uncached[Len(k.uncached) + 1] = n
          BY <1>4, <1>11, <3>3
        <4> QED BY <1>6, <1>10, <1>12, <3>3, <4>1
      <3> QED BY <1>4, <1>10, <3>1, <3>2, <3>3
    <2> QED BY <2>1, <2>2, <2>3 DEF GoodResults
  <1>14. Outcome(k, a, leftOut)
    <2>1. CASE i < Len(k.texts)
      BY <1>9, <1>10, <1>13, <2>1 DEF Outcome, GoodCall, Working, Placing
    <2>2. CASE i >= Len(k.texts) /\ todo = <<>>
      <3>1. a.pc = "ok" /\ Len(a.results) = Len(k.texts) /\ Len(a.uncached) = 0
        BY <1>4, <1>5, <1>9, <1>10, <2>2
      <3>2. AllSound(k.texts, a.results, leftOut)
        BY <1>9, <1>13, <3>1 DEF GoodResults, AllSound
      <3> QED BY <1>9, <2>2, <3>1, <3>2 DEF Outcome, GoodCall, Working, Placing
    <2>3. CASE i >= Len(k.texts) /\ todo # <<>>
      <3>1. a.pc = "request" /\ Len(a.results) = Len(k.texts)
        BY <1>4, <1>5, <1>9, <1>10, <2>3
      <3>2. Len(a.uncached) > 0
        BY <1>8, <1>9, <2>3, EmptySeq
      <3> QED BY <1>9, <1>13, <3>1, <3>2 DEF Outcome, GoodCall, Working, Placing
    <2> QED BY <1>4, <2>1, <2>2, <2>3
  <1> QED BY <1>1, <1>14, StepByOutcome DEF EmbedderInv, Working

LEMMA AnsweredStep ==
    ASSUME EmbedderInv, NEW c \in Callers, Answered(c)
    PROVE  StepOf(c)
  <1> DEFINE k == call[c]
  <1>1. PICK data \in OrdersOf(c) :
            /\ call' = [call EXCEPT ![c] = [@ EXCEPT !.pc = "check", !.k = 1, !.answer = Placed(c, data)]]
            /\ leftOut' = leftOut \cup
                  {TextOfBatch(c, i) : i \in BatchOf(c) \ {data[j] : j \in DOMAIN data}}
    BY DEF Answered
  <1>2. k.pc = "request" /\ UNCHANGED <<cache, cacheSize>>
    BY DEF Answered
  <1>3. k \in CallTypes /\ GoodCall(k, leftOut)
    BY DEF EmbedderInv
  <1>4. /\ GoodResults(k, leftOut) /\ Len(k.results) = Len(k.texts) /\ k.start < Len(k.uncached)
    BY <1>2, <1>3 DEF GoodCall, Working, Placing
  <1>5. /\ k.start \in Nat /\ BatchSize \in Nat /\ BatchSize > 0
        /\ Len(k.uncached) \in Nat /\ k.texts \in Seq(Texts)
    BY <1>3, BatchSizeAssumption, LenProperties DEF CallTypes
  <1> DEFINE n == SizeOfBatch(k)
             f == Placed(c, data)
             a == [k EXCEPT !.pc = "check", !.k = 1, !.answer = f]
  <1>6. n \in Nat \ {0} /\ BatchOf(c) = 1..n /\ n <= Len(k.uncached) - k.start
    BY <1>4, <1>5, SMTT(30) DEF BatchOf, SizeOfBatch, Rest
  <1>7. ASSUME NEW i \in BatchOf(c)
        PROVE  /\ TextOfBatch(c, i) = k.texts[k.uncached[k.start + i]]
               /\ TextOfBatch(c, i) \in Texts
    <2>1. k.start + i \in 1..Len(k.uncached)
      BY <1>5, <1>6
    <2>2. k.uncached[k.start + i] \in 1..Len(k.texts)
      BY <1>4, <2>1 DEF GoodResults
    <2> QED BY <1>5, <2>2, ElementOfSeq DEF TextOfBatch
  <1>8. leftOut \subseteq leftOut' /\ leftOut' \subseteq Texts
    BY <1>1, <1>7 DEF EmbedderInv
  <1>9. f \in [1..n -> Texts \cup {Empty}]
        /\ \A i \in 1..n : Sound(k.texts[k.uncached[k.start + i]], f[i], leftOut')
    <2>1. ASSUME NEW i \in 1..n
          PROVE  /\ f[i] \in Texts \cup {Empty}
                 /\ Sound(k.texts[k.uncached[k.start + i]], f[i], leftOut')
      <3>1. i \in BatchOf(c)
        BY <1>6
      <3>2. CASE \E j \in DOMAIN data : data[j] = i
        <4>1. f[i] = TextOfBatch(c, i)
          BY <3>1, <3>2 DEF Placed
        <4> QED BY <1>7, <3>1, <4>1 DEF Sound
      <3>3. CASE ~\E j \in DOMAIN data : data[j] = i
        <4>1. f[i] = Empty
          BY <3>1, <3>3 DEF Placed
        <4>2. TextOfBatch(c, i) \in leftOut'
          BY <1>1, <3>1, <3>3
        <4> QED BY <1>7, <3>1, <4>1, <4>2 DEF Sound
      <3> QED BY <3>2, <3>3
    <2> QED BY <1>6, <2>1 DEF Placed
  <1> HIDE DEF f, n
  <1>10. f \in Seq(Texts \cup {Empty}) /\ Len(f) = n
    <2>1. f \in Seq(Texts \cup {Empty})
      BY <1>6, <1>9, SeqDef
    <2>2. DOMAIN f = 1..n /\ DOMAIN f = 1..Len(f) /\ Len(f) \in Nat
      BY <1>9, <2>1, LenProperties
    <2> QED BY <1>6, <2>1, <2>2
  <1>11. /\ a \in CallTypes /\ a.pc = "check" /\ a.texts = k.texts /\ a.uncached = k.uncached
         /\ a.start = k.start /\ a.k = 1 /\ a.results = k.results /\ a.answer = f
    BY <1>3, <1>10 DEF CallTypes, Working, Placing
  <1>12. call' = [call EXCEPT ![c] = a]
    BY <1>1 DEF f
  <1> HIDE DEF a
  <1>13. GoodCall(a, leftOut')
    <2>1. GoodCall(k, leftOut')
      BY <1>3, <1>8, Monotone
    <2> QED BY <1>2, <1>3, <1>9, <1>10, <1>11, <2>1, AnsweredGood DEF n
  <1>14. Outcome(k, a, leftOut')
    BY <1>11, <1>13 DEF Outcome, Working, Placing
  <1>15. GoodCache(cache', leftOut')
    BY <1>2, <1>8, CacheMonotone DEF EmbedderInv
  <1> QED BY <1>2, <1>8, <1>12, <1>14, <1>15, StepByOutcome DEF EmbedderInv, Working

LEMMA FailStep ==
    ASSUME EmbedderInv, NEW c \in Callers, RequestFails(c)
    PROVE  StepOf(c)
  <1> DEFINE a == [NoCall EXCEPT !.pc = "error"]
  <1>1. /\ call[c].pc = "request" /\ call' = [call EXCEPT ![c] = a]
        /\ UNCHANGED <<cache, cacheSize, leftOut>>
    BY DEF RequestFails
  <1>2. a \in CallTypes /\ a.pc = "error" /\ a.uncached = <<>>
    BY EmptySeq DEF CallTypes, NoCall, Working
  <1> HIDE DEF a
  <1>3. Outcome(call[c], a, leftOut)
    BY <1>2 DEF Outcome, GoodCall, Working, Placing
  <1> QED BY <1>1, <1>3, StepByOutcome DEF EmbedderInv, Working

\* The fields of the call that Advanced returns.
LEMMA AdvancedFields ==
    ASSUME NEW c \in Callers, call[c] \in CallTypes, GoodCall(call[c], leftOut),
           call[c].pc \in Placing
    PROVE  Advanced(c) \in CallTypes /\ AdvancedTo(call[c], Advanced(c))
  <1> DEFINE k == call[c]
             start == k.start + BatchSize
  <1>1. k.k \in Nat /\ Len(k.answer) \in Nat /\ start \in Nat /\ Len(k.uncached) \in Nat
    <2>1. /\ k.k \in Nat /\ k.start \in Nat
          /\ k.answer \in Seq(Texts \cup {Empty}) /\ k.uncached \in Seq(Nat)
      BY DEF CallTypes
    <2>2. Len(k.answer) \in Nat /\ Len(k.uncached) \in Nat
      BY <2>1, LenProperties
    <2>3. start \in Nat
      BY <2>1, BatchSizeAssumption
    <2> QED BY <2>1, <2>2, <2>3
  <1>2. CASE k.k < Len(k.answer)
    <2> DEFINE n == k.k + 1
               a == [k EXCEPT !.pc = "check", !.k = n]
    <2>1. Advanced(c) = a /\ n \in Nat
      BY <1>1, <1>2 DEF Advanced
    <2> HIDE DEF n
    <2>2. /\ a \in CallTypes /\ a.pc = "check" /\ a.k = n /\ a.texts = k.texts
          /\ a.results = k.results /\ a.uncached = k.uncached /\ a.start = k.start
          /\ a.answer = k.answer
      BY <2>1 DEF CallTypes, Working, Placing
    <2> HIDE DEF a
    <2> QED BY <1>2, <2>1, <2>2 DEF AdvancedTo, n
  <1>3. CASE k.k >= Len(k.answer) /\ start < Len(k.uncached)
    <2> DEFINE a == [k EXCEPT !.pc = "request", !.start = start, !.answer = <<>>, !.k = 0]
    <2>1. Advanced(c) = a
      BY <1>1, <1>3 DEF Advanced
    <2>2. <<>> \in Seq(Texts \cup {Empty})
      BY EmptySeq
    <2> HIDE DEF start
    <2>3. /\ a \in CallTypes /\ a.pc = "request" /\ a.k = 0 /\ a.texts = k.texts
          /\ a.results = k.results /\ a.uncached = k.uncached /\ a.start = start
      BY <1>1, <2>2 DEF CallTypes, Working, Placing
    <2> HIDE DEF a
    <2> QED BY <1>3, <2>1, <2>3 DEF AdvancedTo, start
  <1>4. CASE k.k >= Len(k.answer) /\ start >= Len(k.uncached)
    <2> DEFINE a == [NoCall EXCEPT !.pc = "ok", !.results = k.results]
    <2>1. Advanced(c) = a
      BY <1>1, <1>4 DEF Advanced
    <2>2. /\ <<>> \in Seq(Texts \cup {Empty}) /\ <<>> \in Seq(Texts) /\ <<>> \in Seq(Nat)
          /\ k.results \in Seq(Texts \cup {Empty})
      BY EmptySeq DEF CallTypes
    <2>3. a \in CallTypes /\ a.pc = "ok" /\ a.results = k.results /\ a.uncached = <<>>
      BY <2>2 DEF CallTypes, NoCall, Working
    <2> HIDE DEF a
    <2> QED BY <1>4, <2>1, <2>3 DEF AdvancedTo
  <1> QED BY <1>1, <1>2, <1>3, <1>4

LEMMA CheckStep ==
    ASSUME EmbedderInv, NEW c \in Callers, Check(c)
    PROVE  StepOf(c)
  <1> DEFINE k == call[c]
             i == Index(c, k.k)
             v == k.answer[k.k]
             next == IF Full THEN Advanced(c) ELSE [k EXCEPT !.pc = "put"]
             a == [next EXCEPT !.results[i] = v]
             r == [k.results EXCEPT ![i] = v]
             b == [k EXCEPT !.pc = "put", !.results = r]
  <1>1. /\ k.pc = "check" /\ call' = [call EXCEPT ![c] = a]
        /\ UNCHANGED <<cache, cacheSize, leftOut>>
    BY DEF Check
  <1>2. k \in CallTypes /\ GoodCall(k, leftOut)
    BY DEF EmbedderInv
  <1>3. Advanced(c) \in CallTypes /\ AdvancedTo(k, Advanced(c))
    BY <1>1, <1>2, AdvancedFields DEF Placing
  <1>4. r \in Seq(Texts \cup {Empty})
    <2>1. i \in 1..Len(k.results) /\ v \in Texts \cup {Empty}
      BY <1>1, <1>2, AtHand DEF Index, Placing
    <2>2. k.results \in Seq(Texts \cup {Empty})
      BY <1>2 DEF CallTypes
    <2> HIDE DEF i, v, k
    <2> QED BY <2>1, <2>2, ExceptSeq
  <1> HIDE DEF r
  <1>5. /\ b \in CallTypes /\ b.pc = "put" /\ b.texts = k.texts /\ b.uncached = k.uncached
        /\ b.start = k.start /\ b.answer = k.answer /\ b.k = k.k /\ b.results = r
    BY <1>2, <1>4 DEF CallTypes, Working, Placing
  <1>6. GoodCall(b, leftOut)
    <2> HIDE DEF b
    <2>1. b.results = [k.results EXCEPT ![k.uncached[k.start + k.k]] = k.answer[k.k]]
      BY <1>5 DEF r, Index
    <2> QED BY <1>1, <1>2, <1>5, <2>1, PlacedGood
  <1>7. Outcome(k, a, leftOut)
    <2>1. CASE Full
      <3>1. a = [Advanced(c) EXCEPT !.results = [@ EXCEPT ![i] = v]]
        BY <2>1
      <3>2. Advanced(c).results = k.results
        BY <1>3 DEF AdvancedTo
      <3>3. /\ a \in CallTypes /\ a.pc = Advanced(c).pc /\ a.texts = Advanced(c).texts
            /\ a.uncached = Advanced(c).uncached /\ a.start = Advanced(c).start
            /\ a.answer = Advanced(c).answer /\ a.k = Advanced(c).k /\ a.results = r
        <4>1. a = [Advanced(c) EXCEPT !.results = r]
          BY <3>1, <3>2 DEF r
        <4> HIDE DEF a
        <4> QED BY <1>3, <1>4, <4>1 DEF CallTypes
      <3>4. AdvancedTo(b, a)
        <4> HIDE DEF a, b
        <4> QED BY <1>3, <1>5, <3>3 DEF AdvancedTo
      <3>5. Outcome(b, a, leftOut)
        <4> HIDE DEF a, b
        <4> QED BY <1>5, <1>6, <3>3, <3>4, AdvancedGood
      <3> HIDE DEF a, b
      <3> QED BY <1>5, <3>5 DEF Outcome
    <2>2. CASE ~Full
      <3>1. a = b
        BY <1>2, <2>2 DEF r, CallTypes
      <3> HIDE DEF a, b
      <3> QED BY <1>5, <1>6, <3>1 DEF Outcome, Working, Placing
    <2> QED BY <2>1, <2>2
  <1> QED BY <1>1, <1>7, StepByOutcome DEF EmbedderInv, Working, Placing

LEMMA PutStep ==
    ASSUME EmbedderInv, NEW c \in Callers, Put(c)
    PROVE  StepOf(c)
  <1> DEFINE k == call[c]
             text == TextOfBatch(c, k.k)
             a == [k EXCEPT !.pc = "read"]
  <1>1. /\ k.pc = "put" /\ call' = [call EXCEPT ![c] = a]
        /\ cache' = {pair \in cache : pair[1] # text} \cup {<<text, k.answer[k.k]>>}
        /\ UNCHANGED <<cacheSize, leftOut>>
    BY DEF Put
  <1>2. k \in CallTypes /\ GoodCall(k, leftOut)
    BY DEF EmbedderInv
  <1>3. text \in Texts /\ Sound(text, k.answer[k.k], leftOut)
    BY <1>1, <1>2, AtHand DEF TextOfBatch, Placing
  <1>4. GoodCache(cache', leftOut)
    BY <1>1, <1>3 DEF EmbedderInv, GoodCache
  <1>5. /\ a \in CallTypes /\ a.pc = "read" /\ a.texts = k.texts /\ a.uncached = k.uncached
        /\ a.start = k.start /\ a.answer = k.answer /\ a.k = k.k /\ a.results = k.results
    BY <1>2 DEF CallTypes, Working, Placing
  <1> HIDE DEF a
  <1>6. GoodCall(a, leftOut)
    BY <1>1, <1>2, <1>5 DEF GoodCall, GoodResults, GoodAnswer, SizeOfBatch, Rest, DoneTo, Working,
       Placing
  <1>7. Outcome(k, a, leftOut)
    BY <1>5, <1>6 DEF Outcome, Working, Placing
  <1> QED BY <1>1, <1>4, <1>7, StepByOutcome DEF EmbedderInv, Working, Placing

LEMMA SizeStep ==
    ASSUME EmbedderInv, NEW c \in Callers, ReadSize(c) \/ WriteSize(c)
    PROVE  StepOf(c)
  <1> DEFINE k == call[c]
  <1>1. k \in CallTypes /\ GoodCall(k, leftOut) /\ cacheSize \in Nat
        /\ UNCHANGED <<cache, leftOut>>
    BY DEF EmbedderInv, ReadSize, WriteSize
  <1>2. CASE ReadSize(c)
    <2> DEFINE a == [k EXCEPT !.pc = "write", !.size = cacheSize]
    <2>1. k.pc = "read" /\ call' = [call EXCEPT ![c] = a] /\ cacheSize' = cacheSize
      BY <1>2 DEF ReadSize, EmbedderInv
    <2>2. /\ a \in CallTypes /\ a.pc = "write" /\ a.texts = k.texts /\ a.uncached = k.uncached
          /\ a.start = k.start /\ a.answer = k.answer /\ a.k = k.k /\ a.results = k.results
      BY <1>1 DEF CallTypes, Working, Placing
    <2> HIDE DEF a
    <2>3. GoodCall(a, leftOut)
      BY <1>1, <2>1, <2>2 DEF GoodCall, GoodResults, GoodAnswer, SizeOfBatch, Rest, DoneTo,
         Working, Placing
    <2>4. Outcome(k, a, leftOut)
      BY <2>2, <2>3 DEF Outcome, Working, Placing
    <2> QED BY <1>1, <2>1, <2>4, StepByOutcome DEF EmbedderInv, Working, Placing
  <1>3. CASE WriteSize(c)
    <2> DEFINE a == [Advanced(c) EXCEPT !.size = 0]
    <2>1. k.pc = "write" /\ call' = [call EXCEPT ![c] = a] /\ cacheSize' = k.size + 1
      BY <1>3 DEF WriteSize
    <2>2. Advanced(c) \in CallTypes /\ AdvancedTo(k, Advanced(c))
      BY <1>1, <2>1, AdvancedFields DEF Placing
    <2>3. /\ a \in CallTypes /\ a.pc = Advanced(c).pc /\ a.texts = Advanced(c).texts
          /\ a.uncached = Advanced(c).uncached /\ a.start = Advanced(c).start
          /\ a.answer = Advanced(c).answer /\ a.k = Advanced(c).k
          /\ a.results = Advanced(c).results
      BY <2>2 DEF CallTypes
    <2> HIDE DEF a
    <2>4. AdvancedTo(k, a)
      BY <2>2, <2>3 DEF AdvancedTo
    <2>5. Outcome(k, a, leftOut)
      BY <1>1, <2>1, <2>3, <2>4, AdvancedGood
    <2>6. cacheSize' \in Nat
      BY <1>1, <2>1 DEF CallTypes
    <2> QED BY <1>1, <2>1, <2>5, <2>6, StepByOutcome DEF EmbedderInv, Working, Placing
  <1> QED BY <1>2, <1>3

LEMMA EmbedStepKeeps ==
    ASSUME EmbedderInv, NEW c \in Callers, EmbedStep(c)
    PROVE  StepOf(c)
  BY LookupStep, AnsweredStep, FailStep, CheckStep, PutStep, SizeStep DEF EmbedStep

----
(* The invariant of ingestion. *)

\* A call that was made for these texts.
Answering(texts, k, L) ==
    \/ k.pc \in Working /\ k.texts = texts
    \/ k.pc = "error"
    \/ k.pc = "ok" /\ AllSound(texts, k.results, L)

GoodRow(id, row) ==
    /\ row \in Rows
    /\ row.text = TextOf(id) /\ row.embedding = TextOf(id)
    /\ row.column = MetadataOf[id[1]].namespace

Stages == {"new", "embedding", "storing", "stored", "failed"}

LocalTypes ==
    /\ stage \in [Docs -> Stages]
    /\ done \in [Docs -> Nat]
    /\ DOMAIN embeddings = Docs
    /\ DOMAIN tx = Docs

\* The goroutine of d: it embeds, or has an open transaction with the first
\* chunks in it, or is out of both.
GoodDoc(d) ==
    /\ IF stage[d] = "embedding" THEN Answering(TextsOf[d], call[d], leftOut)
       ELSE call[d].pc = "idle"
    /\ IF stage[d] = "storing"
       THEN /\ AllSound(TextsOf[d], embeddings[d], leftOut)
            /\ done[d] \in 0..Len(TextsOf[d])
            /\ DOMAIN tx[d] = {<<d, i>> : i \in 1..done[d]}
            /\ \A id \in DOMAIN tx[d] : GoodRow(id, tx[d][id])
       ELSE done[d] = 0 /\ tx[d] = NoTx

GoodTable ==
    /\ rows \in [Ids -> Rows \cup {Absent}]
    /\ \A id \in Ids : rows[id] # Absent => GoodRow(id, rows[id])
    /\ refused \subseteq leftOut
    /\ removed \subseteq Ids

Asking == query.asked # Absent /\ query.found = Absent

QueryTypes ==
    [asked : Questions \cup {Absent}, expected : SUBSET Ids, allowed : SUBSET Ids,
     found : (SUBSET Ids) \cup {Absent}]

GoodQuery ==
    /\ query \in QueryTypes
    /\ IF Asking THEN Answering(<<query.asked.text>>, call[Querier], leftOut)
       ELSE call[Querier].pc = "idle"

IInv ==
    /\ EmbedderInv /\ LocalTypes /\ \A d \in Docs : GoodDoc(d)
    /\ GoodTable /\ AllOrNothing /\ StoredStays
    /\ GoodQuery

----
(* Chunks. *)

LEMMA TextsTypes ==
    ASSUME NEW d \in Docs
    PROVE  /\ TextsOf[d] \in Seq(Texts) /\ Len(TextsOf[d]) \in Nat
           /\ DOMAIN TextsOf[d] = 1..Len(TextsOf[d])
           /\ d \in Callers /\ d # Querier
  BY TextsOfAssumption, QuerierAssumption, LenProperties

LEMMA ChunkTypes ==
    ASSUME NEW d \in Docs
    PROVE  /\ ChunksOf(d) = {<<d, i>> : i \in 1..Len(TextsOf[d])}
           /\ ChunksOf(d) \subseteq Ids
           /\ \A id \in ChunksOf(d) : id[1] = d
           /\ \A i \in 1..Len(TextsOf[d]) :
                 <<d, i>> \in Ids /\ TextOf(<<d, i>>) = TextsOf[d][i] /\ TextsOf[d][i] \in Texts
           /\ MetadataOf[d] \in Metadatas /\ MetadataOf[d].namespace \in Namespaces
  <1>1. ChunksOf(d) = {<<d, i>> : i \in 1..Len(TextsOf[d])}
    BY TextsTypes DEF ChunksOf
  <1>2. ChunksOf(d) \subseteq Ids
    BY DEF Ids
  <1>3. \A i \in 1..Len(TextsOf[d]) : TextsOf[d][i] \in Texts
    BY TextsTypes, ElementOfSeq
  <1>4. MetadataOf[d] \in Metadatas /\ MetadataOf[d].namespace \in Namespaces
    BY DEF Metadatas, Namespaces
  <1> QED BY <1>1, <1>2, <1>3, <1>4 DEF TextOf

\* The documents' chunks are different.
LEMMA ChunksDisjoint ==
    ASSUME NEW d \in Docs, NEW e \in Docs, d # e
    PROVE  ChunksOf(d) \cap ChunksOf(e) = {}
  BY ChunkTypes

----
(* What a step leaves alone. *)

LEMMA DocFrame ==
    ASSUME NEW d \in Docs, GoodDoc(d), leftOut \subseteq leftOut',
           stage'[d] = stage[d], embeddings'[d] = embeddings[d], done'[d] = done[d],
           tx'[d] = tx[d], call'[d] = call[d]
    PROVE  GoodDoc(d)'
  BY DEF GoodDoc, Answering, AllSound, Sound

LEMMA QueryFrame ==
    ASSUME GoodQuery, leftOut \subseteq leftOut', query' = query, call'[Querier] = call[Querier]
    PROVE  GoodQuery'
  BY DEF GoodQuery, Asking, Answering, AllSound, Sound

LEMMA TableFrame ==
    ASSUME GoodTable, AllOrNothing, StoredStays, leftOut \subseteq leftOut',
           rows' = rows, removed' = removed, refused' \subseteq leftOut',
           \A d \in Docs : stage'[d] = "stored" => stage[d] = "stored"
    PROVE  (GoodTable /\ AllOrNothing /\ StoredStays)'
  BY DEF GoodTable, AllOrNothing, StoredStays

\* A call that is made, or forgotten.
LEMMA CallKeeps ==
    ASSUME EmbedderInv, NEW c \in Callers, NEW a \in CallTypes, call' = [call EXCEPT ![c] = a],
           GoodCall(a, leftOut), UNCHANGED <<cache, cacheSize, leftOut>>
    PROVE  /\ EmbedderInv' /\ call'[c] = a
           /\ \A d \in Callers \ {c} : call'[d] = call[d]
  BY DEF EmbedderInv

LEMMA EmbedKeeps ==
    ASSUME EmbedderInv, NEW c \in Callers, NEW texts \in Seq(Texts), Embed(c, texts)
    PROVE  /\ EmbedderInv' /\ leftOut' = leftOut /\ call[c].pc = "idle"
           /\ Answering(texts, call'[c], leftOut)
           /\ \A d \in Callers \ {c} : call'[d] = call[d]
  <1> DEFINE pc == IF texts = <<>> THEN "ok" ELSE "lookup"
             a == [NoCall EXCEPT !.pc = pc, !.texts = texts]
  <1>1. call' = [call EXCEPT ![c] = a] /\ call[c].pc = "idle" /\ UNCHANGED <<cache, cacheSize, leftOut>>
    BY DEF Embed
  <1>2. /\ <<>> \in Seq(Texts \cup {Empty}) /\ <<>> \in Seq(Nat) /\ Len(<<>>) = 0
        /\ texts # <<>> => Len(texts) > 0
        /\ pc \in Working \cup {"ok"}
    BY EmptySeq DEF Working
  <1>3. /\ a \in CallTypes /\ a.pc = pc /\ a.texts = texts /\ a.results = <<>> /\ a.uncached = <<>>
        /\ a.start = 0 /\ a.k = 0
    <2> HIDE DEF pc
    <2> QED BY <1>2 DEF CallTypes, NoCall
  <1> HIDE DEF a
  <1>4. GoodCall(a, leftOut)
    BY <1>2, <1>3 DEF GoodCall, GoodResults, Working, Placing
  <1>5. Answering(texts, a, leftOut)
    BY <1>2, <1>3 DEF Answering, AllSound, Working
  <1> QED BY <1>1, <1>3, <1>4, <1>5, CallKeeps

LEMMA ForgetKeeps ==
    ASSUME EmbedderInv, NEW c \in Callers, Forget(c), UNCHANGED <<cache, cacheSize, leftOut>>
    PROVE  /\ EmbedderInv' /\ call'[c].pc = "idle"
           /\ \A d \in Callers \ {c} : call'[d] = call[d]
  <1>1. NoCall \in CallTypes
    <2>1. <<>> \in Seq(Texts \cup {Empty}) /\ <<>> \in Seq(Texts) /\ <<>> \in Seq(Nat)
      BY EmptySeq
    <2> QED BY <2>1 DEF CallTypes, NoCall
  <1>2. NoCall.pc = "idle" /\ NoCall.uncached = <<>>
    BY DEF NoCall
  <1>3. GoodCall(NoCall, leftOut)
    BY <1>2 DEF GoodCall, Working, Placing
  <1> QED BY <1>1, <1>2, <1>3, CallKeeps DEF Forget

----
(* The steps. *)

LEMMA IngestKeeps ==
    ASSUME IInv, NEW d \in Docs, Ingest(d)
    PROVE  IInv'
  <1> USE DEF IInv
  <1>1. /\ stage[d] = "new" /\ Embed(d, TextsOf[d])
        /\ stage' = [stage EXCEPT ![d] = "embedding"]
        /\ UNCHANGED <<rows, tx, embeddings, done, refused, removed, query>>
    BY DEF Ingest, Goto, tableVars, others
  <1>2. /\ EmbedderInv' /\ leftOut' = leftOut
        /\ Answering(TextsOf[d], call'[d], leftOut)
        /\ \A e \in Callers \ {d} : call'[e] = call[e]
    BY <1>1, TextsTypes, EmbedKeeps
  <1>3. stage'[d] = "embedding" /\ \A e \in Docs \ {d} : stage'[e] = stage[e]
    BY <1>1 DEF LocalTypes
  <1>4. LocalTypes'
    BY <1>1 DEF LocalTypes, Stages
  <1>5. GoodDoc(d)'
    BY <1>1, <1>2, <1>3 DEF GoodDoc
  <1>6. ASSUME NEW e \in Docs \ {d} PROVE GoodDoc(e)'
    BY <1>1, <1>2, <1>3, TextsTypes, DocFrame
  <1>7. GoodQuery'
    BY <1>1, <1>2, QueryFrame, QuerierAssumption
  <1>8. (GoodTable /\ AllOrNothing /\ StoredStays)'
    BY <1>1, <1>2, <1>3, TableFrame DEF GoodTable
  <1> QED BY <1>2, <1>4, <1>5, <1>6, <1>7, <1>8

LEMMA EmbeddingKeeps ==
    ASSUME IInv, NEW c \in Callers, Embedding(c)
    PROVE  IInv'
  <1> USE DEF IInv
  <1>1. /\ StepOf(c)
        /\ UNCHANGED <<rows, tx, stage, embeddings, done, refused, removed, query>>
    BY EmbedStepKeeps DEF Embedding, tableVars, local, others
  <1>2. /\ EmbedderInv' /\ leftOut \subseteq leftOut' /\ call[c].pc \in Working
        /\ Outcome(call[c], call'[c], leftOut')
        /\ \A e \in Callers \ {c} : call'[e] = call[e]
    BY <1>1 DEF StepOf
  <1>3. LocalTypes'
    BY <1>1 DEF LocalTypes
  \* Whoever waits for the call goes on waiting for it.
  <1>4. ASSUME NEW texts, Answering(texts, call[c], leftOut)
        PROVE  Answering(texts, call'[c], leftOut')
    BY <1>2, <1>4 DEF Answering, Outcome, Working, Placing
  <1>5. ASSUME NEW d \in Docs PROVE GoodDoc(d)'
    <2>1. CASE d = c
      BY <1>1, <1>2, <1>4, <2>1 DEF GoodDoc, AllSound, Sound, Working, Placing
    <2>2. CASE d # c
      BY <1>1, <1>2, <2>2, TextsTypes, DocFrame
    <2> QED BY <2>1, <2>2
  <1>6. GoodQuery'
    <2>1. CASE c = Querier
      BY <1>1, <1>2, <1>4, <2>1 DEF GoodQuery, Asking, Working, Placing
    <2>2. CASE c # Querier
      BY <1>1, <1>2, <2>2, QueryFrame, QuerierAssumption
    <2> QED BY <2>1, <2>2
  <1>7. (GoodTable /\ AllOrNothing /\ StoredStays)'
    BY <1>1, <1>2, TableFrame DEF GoodTable
  <1> QED BY <1>2, <1>3, <1>5, <1>6, <1>7

LEMMA EmbeddedKeeps ==
    ASSUME IInv, NEW d \in Docs, Embedded(d)
    PROVE  IInv'
  <1> USE DEF IInv
  <1>1. /\ stage[d] = "embedding" /\ Forget(d) /\ call[d].pc \in {"ok", "error"}
        /\ UNCHANGED <<cache, cacheSize, leftOut, rows, tx, done, refused, removed, query>>
    BY DEF Embedded, Returned, tableVars, others
  <1>2. /\ EmbedderInv' /\ call'[d].pc = "idle"
        /\ \A e \in Callers \ {d} : call'[e] = call[e]
    BY <1>1, TextsTypes, ForgetKeeps
  <1>3. \/ /\ call[d].pc = "ok" /\ embeddings' = [embeddings EXCEPT ![d] = call[d].results]
           /\ stage' = [stage EXCEPT ![d] = "storing"]
        \/ embeddings' = embeddings /\ stage' = [stage EXCEPT ![d] = "failed"]
    BY DEF Embedded, Goto
  <1>4. LocalTypes'
    BY <1>1, <1>3 DEF LocalTypes, Stages
  <1>5. /\ \A e \in Docs \ {d} : stage'[e] = stage[e] /\ embeddings'[e] = embeddings[e]
        /\ stage'[d] \in {"storing", "failed"}
        /\ stage'[d] = "storing" => call[d].pc = "ok" /\ embeddings'[d] = call[d].results
    BY <1>3 DEF LocalTypes
  <1>6. GoodDoc(d)'
    <2>1. done[d] = 0 /\ tx[d] = NoTx /\ Answering(TextsOf[d], call[d], leftOut)
      BY <1>1 DEF GoodDoc
    <2>2. stage'[d] = "storing" => AllSound(TextsOf[d], embeddings'[d], leftOut)
      BY <1>5, <2>1 DEF Answering, Working, Placing
    <2>3. 0 \in 0..Len(TextsOf[d])
      BY TextsTypes
    <2>4. DOMAIN NoTx = {<<d, i>> : i \in 1..0} /\ DOMAIN NoTx = {}
      BY DEF NoTx
    <2> QED BY <1>1, <1>2, <1>5, <2>1, <2>2, <2>3, <2>4 DEF GoodDoc
  <1>7. ASSUME NEW e \in Docs \ {d} PROVE GoodDoc(e)'
    BY <1>1, <1>2, <1>5, TextsTypes, DocFrame
  <1>8. GoodQuery'
    BY <1>1, <1>2, QueryFrame, QuerierAssumption
  <1>9. (GoodTable /\ AllOrNothing /\ StoredStays)'
    BY <1>1, <1>5, TableFrame DEF GoodTable
  <1> QED BY <1>2, <1>4, <1>6, <1>7, <1>8, <1>9

LEMMA StoreChunkKeeps ==
    ASSUME IInv, NEW d \in Docs, StoreChunk(d)
    PROVE  IInv'
  <1> USE DEF IInv
  <1> DEFINE i == done[d] + 1
             id == <<d, i>>
             row == Written(id, TextsOf[d][i], embeddings[d][i], MetadataOf[d])
  <1>1. /\ stage[d] = "storing" /\ done[d] < Len(TextsOf[d])
        /\ embeddings[d][i] # Empty
        /\ tx' = [tx EXCEPT ![d] = [j \in DOMAIN @ \cup {id} |-> IF j = id THEN row ELSE @[j]]]
        /\ done' = [done EXCEPT ![d] = i]
        /\ UNCHANGED <<embedderVars, rows, stage, embeddings, refused, removed, query>>
    BY DEF StoreChunk, Exec, NextChunk, others
  <1>2. UNCHANGED <<cache, cacheSize, call, leftOut>>
    BY <1>1 DEF embedderVars
  <1>3. /\ done[d] \in Nat /\ i \in 1..Len(TextsOf[d]) /\ i \in Nat
        /\ AllSound(TextsOf[d], embeddings[d], leftOut)
        /\ DOMAIN tx[d] = {<<d, j>> : j \in 1..done[d]}
        /\ \A j \in DOMAIN tx[d] : GoodRow(j, tx[d][j])
    BY <1>1, TextsTypes DEF GoodDoc, LocalTypes
  <1>4. GoodRow(id, row)
    <2>1. /\ id \in Ids /\ TextOf(id) = TextsOf[d][i] /\ TextsOf[d][i] \in Texts
          /\ MetadataOf[d] \in Metadatas /\ MetadataOf[d].namespace \in Namespaces
      BY <1>3, ChunkTypes
    <2>2. embeddings[d][i] = TextsOf[d][i]
      BY <1>1, <1>3 DEF AllSound, Sound
    <2>3. rows[id] # Absent => rows[id].column = MetadataOf[d].namespace
      BY <2>1 DEF GoodTable, GoodRow
    <2> HIDE DEF i
    <2> QED BY <2>1, <2>2, <2>3 DEF GoodRow, Written, Rows
  <1> HIDE DEF row
  <1>5. /\ tx'[d] = [j \in DOMAIN tx[d] \cup {id} |-> IF j = id THEN row ELSE tx[d][j]]
        /\ \A e \in Docs \ {d} : tx'[e] = tx[e] /\ done'[e] = done[e]
        /\ done'[d] = i
    BY <1>1 DEF LocalTypes
  <1>6. DOMAIN tx'[d] = {<<d, j>> : j \in 1..i}
    <2>1. DOMAIN tx'[d] = DOMAIN tx[d] \cup {id}
      BY <1>5
    <2>2. 1..i = (1..done[d]) \cup {i}
      BY <1>3
    <2> QED BY <1>3, <2>1, <2>2
  <1>7. \A j \in DOMAIN tx'[d] : GoodRow(j, tx'[d][j])
    BY <1>3, <1>4, <1>5
  <1>8. LocalTypes'
    BY <1>1, <1>3 DEF LocalTypes
  <1>9. GoodDoc(d)'
    <2>1. i \in 0..Len(TextsOf[d])
      BY <1>3
    <2>2. call'[d].pc = "idle"
      BY <1>1, <1>2 DEF GoodDoc
    <2> HIDE DEF i
    <2> QED BY <1>1, <1>2, <1>3, <1>5, <1>6, <1>7, <2>1, <2>2 DEF GoodDoc
  <1>10. ASSUME NEW e \in Docs \ {d} PROVE GoodDoc(e)'
    BY <1>1, <1>2, <1>5, DocFrame
  <1>11. GoodQuery' /\ EmbedderInv'
    BY <1>1, <1>2, QueryFrame DEF EmbedderInv
  <1>12. (GoodTable /\ AllOrNothing /\ StoredStays)'
    BY <1>1, <1>2, TableFrame DEF GoodTable
  <1> QED BY <1>8, <1>9, <1>10, <1>11, <1>12

\* The transaction of d is over, and its goroutine at the end or where it can be
\* called again.
LEMMA LeaveKeeps ==
    ASSUME IInv, NEW d \in Docs, stage[d] = "storing",
           tx' = [tx EXCEPT ![d] = NoTx], Leave(d),
           stage' \in {[stage EXCEPT ![d] = s] : s \in {"stored", "failed"}},
           UNCHANGED <<embedderVars, query>>
    PROVE  /\ EmbedderInv' /\ LocalTypes' /\ (\A e \in Docs : GoodDoc(e)') /\ GoodQuery'
           /\ \A e \in Docs \ {d} : stage'[e] = stage[e]
  <1> USE DEF IInv
  <1>1. UNCHANGED <<cache, cacheSize, call, leftOut>>
    BY DEF embedderVars
  <1>2. /\ done' = [done EXCEPT ![d] = 0] /\ embeddings' = [embeddings EXCEPT ![d] = <<>>]
    BY DEF Leave
  <1>3. LocalTypes'
    BY <1>2 DEF LocalTypes, Stages
  <1>4. /\ done'[d] = 0 /\ tx'[d] = NoTx /\ stage'[d] \in {"stored", "failed"}
        /\ \A e \in Docs \ {d} : /\ stage'[e] = stage[e] /\ done'[e] = done[e]
                                 /\ tx'[e] = tx[e] /\ embeddings'[e] = embeddings[e]
    BY <1>2 DEF LocalTypes
  <1>5. GoodDoc(d)'
    <2>1. call[d].pc = "idle"
      BY DEF GoodDoc
    <2> QED BY <1>1, <1>4, <2>1 DEF GoodDoc
  <1>6. ASSUME NEW e \in Docs \ {d} PROVE GoodDoc(e)'
    BY <1>1, <1>4, DocFrame
  <1>7. GoodQuery' /\ EmbedderInv'
    BY <1>1, QueryFrame DEF EmbedderInv
  <1> QED BY <1>3, <1>4, <1>5, <1>6, <1>7

LEMMA FailKeeps ==
    ASSUME IInv, NEW d \in Docs, ChunkRefused(d) \/ DatabaseFails(d)
    PROVE  IInv'
  <1> USE DEF IInv
  <1>1. /\ stage[d] = "storing" /\ tx' = [tx EXCEPT ![d] = NoTx] /\ Leave(d)
        /\ stage' = [stage EXCEPT ![d] = "failed"]
        /\ UNCHANGED <<embedderVars, rows, query, removed>>
    BY DEF ChunkRefused, DatabaseFails, Fail, UpsertFails, Rollback, Goto, others
  <1>2. /\ EmbedderInv' /\ LocalTypes' /\ (\A e \in Docs : GoodDoc(e)') /\ GoodQuery'
        /\ \A e \in Docs \ {d} : stage'[e] = stage[e]
    BY <1>1, LeaveKeeps
  <1>3. refused' \subseteq leftOut
    <2>1. CASE ChunkRefused(d)
      <3> DEFINE i == done[d] + 1
      <3>1. /\ done[d] < Len(TextsOf[d]) /\ embeddings[d][i] = Empty
            /\ refused' = refused \cup {TextsOf[d][i]}
        BY <2>1 DEF ChunkRefused, NextChunk
      <3>2. i \in 1..Len(TextsOf[d]) /\ AllSound(TextsOf[d], embeddings[d], leftOut)
        BY <1>1, <3>1, TextsTypes DEF GoodDoc, LocalTypes
      <3>3. TextsOf[d][i] \in Texts
        BY <3>2, TextsTypes, ElementOfSeq
      <3>4. TextsOf[d][i] \in leftOut
        BY <3>1, <3>2, <3>3, EmptyAssumption DEF AllSound, Sound
      <3> QED BY <3>1, <3>4 DEF GoodTable
    <2>2. CASE DatabaseFails(d)
      BY <2>2 DEF DatabaseFails, GoodTable
    <2> QED BY <2>1, <2>2
  <1>4. leftOut' = leftOut
    BY <1>1 DEF embedderVars
  <1>5. \A e \in Docs : stage'[e] = "stored" => stage[e] = "stored"
    BY <1>1 DEF LocalTypes
  <1>6. (GoodTable /\ AllOrNothing /\ StoredStays)'
    BY <1>1, <1>3, <1>4, <1>5, TableFrame
  <1> QED BY <1>2, <1>6

LEMMA CommitKeeps ==
    ASSUME IInv, NEW d \in Docs, CommitChunks(d)
    PROVE  IInv'
  <1> USE DEF IInv
  <1>1. /\ stage[d] = "storing" /\ done[d] = Len(TextsOf[d])
        /\ tx' = [tx EXCEPT ![d] = NoTx] /\ Leave(d)
        /\ rows' = [id \in Ids |-> IF id \in DOMAIN tx[d] THEN tx[d][id] ELSE rows[id]]
        /\ stage' \in {[stage EXCEPT ![d] = s] : s \in {"stored", "failed"}}
        /\ UNCHANGED <<embedderVars, refused, query, removed>>
    BY DEF CommitChunks, Commit, others
  <1>2. /\ EmbedderInv' /\ LocalTypes' /\ (\A e \in Docs : GoodDoc(e)') /\ GoodQuery'
        /\ \A e \in Docs \ {d} : stage'[e] = stage[e]
    BY <1>1, LeaveKeeps
  <1>3. DOMAIN tx[d] = ChunksOf(d) /\ \A id \in ChunksOf(d) : GoodRow(id, tx[d][id])
    <2>1. DOMAIN tx[d] = {<<d, i>> : i \in 1..Len(TextsOf[d])} /\ \A id \in DOMAIN tx[d] : GoodRow(id, tx[d][id])
      BY <1>1 DEF GoodDoc
    <2> QED BY <2>1, ChunkTypes
  <1>4. /\ \A id \in ChunksOf(d) : rows'[id] = tx[d][id]
        /\ \A id \in Ids \ ChunksOf(d) : rows'[id] = rows[id]
    BY <1>1, <1>3, ChunkTypes
  <1>5. \A id \in ChunksOf(d) : /\ rows'[id] # Absent /\ rows'[id] \in Rows
                                /\ GoodRow(id, rows'[id])
    BY <1>3, <1>4, ChunkTypes, AbsentAssumption DEF GoodRow
  <1>6. GoodTable'
    <2>1. \A id \in Ids : rows'[id] \in Rows \cup {Absent} /\ (rows'[id] # Absent => GoodRow(id, rows'[id]))
      BY <1>4, <1>5 DEF GoodTable
    <2>2. rows' \in [Ids -> Rows \cup {Absent}]
      BY <1>1, <2>1
    <2> QED BY <1>1, <2>1, <2>2 DEF GoodTable, embedderVars
  <1>7. ASSUME NEW e \in Docs \ {d} PROVE \A id \in ChunksOf(e) : id \in Ids /\ rows'[id] = rows[id]
    BY <1>4, ChunkTypes, ChunksDisjoint
  <1>8. AllOrNothing'
    <2> SUFFICES ASSUME NEW e \in Docs,
                        {id \in ChunksOf(e) : rows'[id] # Absent} # {}
                 PROVE  ChunksOf(e) \ removed \subseteq {id \in ChunksOf(e) : rows'[id] # Absent}
      BY <1>1 DEF AllOrNothing
    <2>1. CASE e = d
      BY <1>5, <2>1
    <2>2. CASE e # d
      BY <1>7, <2>2 DEF AllOrNothing
    <2> QED BY <2>1, <2>2
  <1>9. StoredStays'
    <2> SUFFICES ASSUME NEW e \in Docs, stage'[e] = "stored", NEW id \in ChunksOf(e) \ removed
                 PROVE  rows'[id] # Absent
      BY <1>1 DEF StoredStays
    <2>1. CASE e = d
      BY <1>5, <2>1
    <2>2. CASE e # d
      BY <1>2, <1>7, <2>2 DEF StoredStays
    <2> QED BY <2>1, <2>2
  <1> QED BY <1>2, <1>6, <1>8, <1>9

----
(* The query. *)

\* Documents and table do not notice what the querier does.
LEMMA QuerierOnly ==
    ASSUME IInv, EmbedderInv', leftOut' = leftOut, GoodQuery',
           \A c \in Callers \ {Querier} : call'[c] = call[c],
           UNCHANGED <<tableVars, local, removed>>
    PROVE  IInv'
  <1> USE DEF IInv
  <1>1. UNCHANGED <<rows, tx, stage, embeddings, done, refused, removed>>
    BY DEF tableVars, local
  <1>2. LocalTypes'
    BY <1>1 DEF LocalTypes
  <1>3. ASSUME NEW d \in Docs PROVE GoodDoc(d)'
    BY <1>1, TextsTypes, DocFrame
  <1>4. (GoodTable /\ AllOrNothing /\ StoredStays)'
    BY <1>1, TableFrame DEF GoodTable
  <1> QED BY <1>2, <1>3, <1>4

LEMMA AskKeeps ==
    ASSUME IInv, NEW q \in Questions, Ask(q)
    PROVE  IInv'
  <1>1. /\ Embed(Querier, <<q.text>>) /\ UNCHANGED <<tableVars, local, removed>>
        /\ query' = [NoQuery EXCEPT !.asked = q, !.expected = Fitting(q)]
    BY DEF Ask
  <1>2. <<q.text>> \in Seq(Texts) /\ Querier \in Callers
    BY QuestionsAssumption, QuerierAssumption
  <1>3. /\ EmbedderInv' /\ leftOut' = leftOut
        /\ Answering(<<q.text>>, call'[Querier], leftOut)
        /\ \A c \in Callers \ {Querier} : call'[c] = call[c]
    BY <1>1, <1>2, EmbedKeeps DEF IInv
  <1>4. Fitting(q) \subseteq Ids /\ q # Absent
    BY AbsentAssumption DEF Fitting
  <1>5. GoodQuery'
    <2>1. query'.asked = q /\ query'.found = Absent /\ query' \in QueryTypes
      BY <1>1, <1>4 DEF NoQuery, QueryTypes
    <2> QED BY <1>3, <1>4, <2>1 DEF GoodQuery, Asking
  <1> QED BY <1>1, <1>3, <1>5, QuerierOnly

LEMMA NoQueryGood ==
    ASSUME query' = NoQuery, call'[Querier].pc = "idle"
    PROVE  GoodQuery'
  BY DEF GoodQuery, QueryTypes, Asking, NoQuery

LEMMA NoAnswerKeeps ==
    ASSUME IInv, NoAnswer
    PROVE  IInv'
  <1>1. /\ Forget(Querier) /\ query' = NoQuery
        /\ UNCHANGED <<cache, cacheSize, leftOut, tableVars, local, removed>>
    BY DEF NoAnswer
  <1>2. /\ EmbedderInv' /\ call'[Querier].pc = "idle"
        /\ \A c \in Callers \ {Querier} : call'[c] = call[c]
    BY <1>1, QuerierAssumption, ForgetKeeps DEF IInv
  <1> QED BY <1>1, <1>2, NoQueryGood, QuerierOnly

LEMMA SearchTypes ==
    ASSUME NEW embedding, NEW filter, NEW S \in Search(embedding, filter)
    PROVE  /\ S \subseteq Ids
           /\ \A id \in S : rows[id] # Absent /\ rows[id].embedding = embedding
  BY DEF Search, Nearest, Matching

LEMMA AnswerKeeps ==
    ASSUME IInv, Answer
    PROVE  IInv'
  <1>1. PICK S \in Search(call[Querier].results[1], query.asked.filter) :
           query' = [query EXCEPT !.found = S, !.allowed = Fitting(query.asked),
                                  !.expected = @ \cap Fitting(query.asked)]
    BY DEF Answer
  <1>2. /\ Forget(Querier) /\ UNCHANGED <<cache, cacheSize, leftOut, tableVars, local, removed>>
    BY DEF Answer
  <1>3. /\ EmbedderInv' /\ call'[Querier].pc = "idle"
        /\ \A c \in Callers \ {Querier} : call'[c] = call[c]
    BY <1>2, QuerierAssumption, ForgetKeeps DEF IInv
  <1>4. S \in SUBSET Ids /\ S # Absent
    BY SearchTypes, AbsentAssumption
  <1>5. GoodQuery'
    <2>1. query \in QueryTypes /\ Fitting(query.asked) \in SUBSET Ids
      BY DEF IInv, GoodQuery, Fitting
    <2>2. query'.found = S /\ query' \in QueryTypes
      BY <1>1, <1>4, <2>1 DEF QueryTypes
    <2> QED BY <1>3, <1>4, <2>2 DEF GoodQuery, Asking
  <1> QED BY <1>2, <1>3, <1>5, QuerierOnly

LEMMA ReadKeeps ==
    ASSUME IInv, Read
    PROVE  IInv'
  <1>1. /\ query.found # Absent /\ query' = NoQuery
        /\ UNCHANGED <<embedderVars, tableVars, local, removed>>
    BY DEF Read
  <1>2. UNCHANGED <<cache, cacheSize, call, leftOut>>
    BY <1>1 DEF embedderVars
  <1>3. EmbedderInv' /\ call'[Querier].pc = "idle"
    BY <1>1, <1>2 DEF IInv, EmbedderInv, GoodQuery, Asking
  <1> QED BY <1>1, <1>2, <1>3, NoQueryGood, QuerierOnly

----
(* Removals. *)

\* A row that no open transaction has updated may go, or get other metadata.
LEMMA TableOnly ==
    ASSUME IInv, UNCHANGED <<embedderVars, tx, local, query>>,
           (GoodTable /\ AllOrNothing /\ StoredStays)'
    PROVE  IInv'
  <1> USE DEF IInv
  <1>1. UNCHANGED <<cache, cacheSize, call, leftOut, tx, stage, embeddings, done>>
    BY DEF embedderVars, local
  <1>2. LocalTypes'
    BY <1>1 DEF LocalTypes
  <1>3. ASSUME NEW d \in Docs PROVE GoodDoc(d)'
    BY <1>1, DocFrame
  <1>4. GoodQuery' /\ EmbedderInv'
    BY <1>1, QueryFrame DEF EmbedderInv
  <1> QED BY <1>2, <1>3, <1>4

LEMMA DeleteKeeps ==
    ASSUME IInv, NEW S \in SUBSET Ids, NEW T \in SUBSET Ids, S \subseteq T,
           DeleteWhere(S), Other(T)
    PROVE  IInv'
  <1>1. /\ rows' = [id \in Ids |-> IF id \in S THEN Absent ELSE rows[id]]
        /\ removed' = removed \cup T
        /\ UNCHANGED <<embedderVars, tx, local, query>>
    BY DEF DeleteWhere, Other
  <1>2. UNCHANGED <<stage, refused, leftOut>>
    BY <1>1 DEF local, embedderVars
  <1>3. GoodTable'
    <2>1. /\ rows \in [Ids -> Rows \cup {Absent}]
          /\ \A id \in Ids : rows[id] # Absent => GoodRow(id, rows[id])
          /\ refused \subseteq leftOut /\ removed \subseteq Ids
      BY DEF IInv, GoodTable
    <2>2. rows' \in [Ids -> Rows \cup {Absent}]
      BY <1>1, <2>1
    <2>3. \A id \in Ids : rows'[id] # Absent => rows'[id] = rows[id]
      BY <1>1
    <2> QED BY <1>1, <1>2, <2>1, <2>2, <2>3 DEF GoodTable
  <1>4. \A d \in Docs : \A id \in ChunksOf(d) : id \in Ids
    BY ChunkTypes
  <1>5. \A id \in Ids : rows'[id] = Absent => rows[id] = Absent \/ id \in removed'
    BY <1>1
  <1>6. \A id \in Ids : rows'[id] # Absent => rows'[id] = rows[id]
    BY <1>1
  <1>7. AllOrNothing'
    <2> SUFFICES ASSUME NEW d \in Docs,
                        {id \in ChunksOf(d) : rows'[id] # Absent} # {},
                        NEW id \in ChunksOf(d) \ removed'
                 PROVE  rows'[id] # Absent
      BY DEF AllOrNothing
    <2>1. {i \in ChunksOf(d) : rows[i] # Absent} # {}
      BY <1>4, <1>6
    <2>2. ChunksOf(d) \ removed \subseteq {i \in ChunksOf(d) : rows[i] # Absent}
      BY <2>1 DEF IInv, AllOrNothing
    <2>3. id \notin removed
      BY <1>1
    <2> QED BY <1>4, <1>5, <2>2, <2>3
  <1>8. StoredStays'
    <2> SUFFICES ASSUME NEW d \in Docs, stage'[d] = "stored", NEW id \in ChunksOf(d) \ removed'
                 PROVE  rows'[id] # Absent
      BY DEF StoredStays
    <2>1. rows[id] # Absent
      BY <1>1, <1>2 DEF IInv, StoredStays
    <2> QED BY <1>4, <1>5, <1>6, <2>1
  <1> QED BY <1>1, <1>3, <1>7, <1>8, TableOnly

LEMMA AgainKeeps ==
    ASSUME IInv, NEW id \in Ids, NEW metadata \in Metadatas, UpsertAgain(id, metadata), Other({})
    PROVE  IInv'
  <1> DEFINE row == Written(id, rows[id].text, rows[id].embedding, metadata)
  <1>1. /\ rows[id] # Absent /\ rows' = [rows EXCEPT ![id] = row]
        /\ removed' = removed
        /\ UNCHANGED <<embedderVars, tx, local, query>>
    BY DEF UpsertAgain, Other
  <1>2. UNCHANGED <<stage, refused, leftOut>>
    BY <1>1 DEF local, embedderVars
  <1>3. /\ rows \in [Ids -> Rows \cup {Absent}]
        /\ \A i \in Ids : rows[i] # Absent => GoodRow(i, rows[i])
        /\ refused \subseteq leftOut /\ removed \subseteq Ids
    BY DEF IInv, GoodTable
  <1>4. GoodRow(id, row) /\ row \in Rows
    BY <1>1, <1>3 DEF GoodRow, Written, Rows
  <1> HIDE DEF row
  <1>5. /\ rows'[id] = row /\ rows'[id] # Absent
        /\ \A i \in Ids \ {id} : rows'[i] = rows[i]
    BY <1>1, <1>3, <1>4, AbsentAssumption
  <1>6. rows' \in [Ids -> Rows \cup {Absent}]
    BY <1>1, <1>3, <1>4
  <1>7. GoodTable'
    BY <1>1, <1>2, <1>3, <1>4, <1>5, <1>6 DEF GoodTable
  <1>8. \A i \in Ids : (rows'[i] = Absent) = (rows[i] = Absent)
    BY <1>1, <1>5
  <1>9. \A d \in Docs : ChunksOf(d) \subseteq Ids
    BY ChunkTypes
  <1>10. AllOrNothing'
    BY <1>1, <1>8, <1>9 DEF IInv, AllOrNothing
  <1>11. StoredStays'
    BY <1>1, <1>2, <1>8, <1>9 DEF IInv, StoredStays
  <1> QED BY <1>1, <1>7, <1>10, <1>11, TableOnly

LEMMA RemovalKeeps ==
    ASSUME IInv, Removal
    PROVE  IInv'
  <1>1. ASSUME NEW ns \in Namespaces, Clear(ns), Other(RowsOf(ns)) PROVE IInv'
    <2>1. RowsOf(ns) \in SUBSET Ids
      BY DEF RowsOf
    <2> QED BY <1>1, <2>1, DeleteKeeps DEF Clear
  <1>2. ASSUME NEW id \in Ids, Delete({id}), Other({id}) PROVE IInv'
    <2> DEFINE S == {i \in {id} : rows[i] # Absent}
    <2>1. S \in SUBSET Ids /\ {id} \in SUBSET Ids /\ S \subseteq {id} /\ DeleteWhere(S)
      BY <1>2 DEF Delete
    <2> HIDE DEF S
    <2> QED BY <1>2, <2>1, DeleteKeeps
  <1> QED BY <1>1, <1>2, AgainKeeps DEF Removal

----
(* The theorems. *)

LEMMA InitInvariant == Init => IInv
  <1> SUFFICES ASSUME Init PROVE IInv
    OBVIOUS
  <1> USE DEF Init, EmbedderInit, StoreInit
  <1>1. NoCall \in CallTypes /\ NoCall.pc = "idle" /\ NoCall.uncached = <<>>
    <2>1. <<>> \in Seq(Texts \cup {Empty}) /\ <<>> \in Seq(Texts) /\ <<>> \in Seq(Nat)
      BY EmptySeq
    <2> QED BY <2>1 DEF CallTypes, NoCall
  <1>2. \A c \in Callers : call[c] = NoCall
    OBVIOUS
  <1>3. EmbedderInv
    BY <1>1 DEF EmbedderInv, GoodCall, GoodCache, Working, Placing
  <1>4. LocalTypes
    BY DEF LocalTypes, Stages
  <1>5. \A d \in Docs : GoodDoc(d)
    BY <1>1, <1>2, QuerierAssumption DEF GoodDoc
  <1>6. GoodTable
    BY DEF GoodTable
  <1>7. \A d \in Docs : \A id \in ChunksOf(d) : rows[id] = Absent
    BY ChunkTypes
  <1>8. AllOrNothing /\ StoredStays
    BY <1>7 DEF AllOrNothing, StoredStays
  <1>9. GoodQuery
    BY <1>1, <1>2, QuerierAssumption DEF GoodQuery, QueryTypes, Asking, NoQuery
  <1> QED BY <1>3, <1>4, <1>5, <1>6, <1>8, <1>9 DEF IInv

LEMMA StepInvariant == IInv /\ [Next]_vars => IInv'
  <1> SUFFICES ASSUME IInv, [Next]_vars PROVE IInv'
    OBVIOUS
  <1>1. CASE UNCHANGED vars
    <2>1. UNCHANGED <<embedderVars, tableVars, local, removed, query>>
      BY <1>1 DEF vars, others
    <2>2. UNCHANGED <<cache, cacheSize, call, leftOut>>
      BY <2>1 DEF embedderVars
    <2>3. EmbedderInv' /\ GoodQuery'
      BY <2>1, <2>2, QueryFrame DEF IInv, EmbedderInv
    <2> QED BY <2>1, <2>2, <2>3, QuerierOnly
  <1>2. CASE Work
    BY <1>2, EmbeddingKeeps, EmbeddedKeeps, StoreChunkKeeps, FailKeeps, CommitKeeps DEF Work
  <1>3. CASE \E d \in Docs : Ingest(d)
    BY <1>3, IngestKeeps
  <1>4. CASE \E q \in Questions : Ask(q)
    BY <1>4, AskKeeps
  <1>5. CASE Done
    BY <1>1, <1>5 DEF Done
  <1> QED BY <1>1, <1>2, <1>3, <1>4, <1>5, NoAnswerKeeps, AnswerKeeps, ReadKeeps, RemovalKeeps
             DEF Next

THEOREM Invariance == Spec => []IInv
  BY InitInvariant, StepInvariant, PTL DEF Spec

LEMMA CountBounded ==
    ASSUME NEW ns
    PROVE  Count(ns) <= CountAll
  <1>1. RowsOf(ns) \subseteq {id \in Ids : rows[id] # Absent}
    BY DEF RowsOf
  <1>2. IsFiniteSet({id \in Ids : rows[id] # Absent})
    BY FiniteAssumption, FS_Subset
  <1> QED BY <1>1, <1>2, FS_Subset DEF Count, CountAll

LEMMA TypesFollow == IInv => TypeOK
  <1> SUFFICES ASSUME IInv PROVE TypeOK
    OBVIOUS
  <1> USE DEF IInv
  <1>1. cache \subseteq Texts \X (Texts \cup {Empty}) /\ cacheSize \in Nat /\ leftOut \subseteq Texts
    BY SoundTypes, SMTT(30) DEF EmbedderInv, GoodCache
  <1>2. ASSUME NEW c \in Callers
        PROVE  /\ call[c].pc \in {"idle", "lookup", "request", "check", "put",
                                  "read", "write", "ok", "error"}
               /\ Len(call[c].uncached) <= Len(call[c].texts)
               /\ call[c].pc = "ok" /\ c \in Docs => Len(call[c].results) = Len(TextsOf[c])
    <2>1. call[c] \in CallTypes /\ GoodCall(call[c], leftOut)
      BY DEF EmbedderInv
    <2>2. /\ call[c].pc \in Working \cup {"idle", "ok", "error"}
          /\ Len(call[c].texts) \in Nat /\ Len(call[c].results) \in Nat /\ Len(call[c].uncached) \in Nat
      BY <2>1, LenProperties DEF CallTypes
    <2>3. Len(call[c].uncached) <= Len(call[c].texts)
      <3>1. CASE call[c].pc \in Working
        BY <2>1, <2>2, <3>1 DEF GoodCall, GoodResults, Working, Placing
      <3>2. CASE call[c].pc \notin Working
        <4>1. Len(call[c].uncached) = 0
          BY <2>1, <3>2 DEF GoodCall
        <4> QED BY <2>2, <4>1
      <3> QED BY <3>1, <3>2
    <2>4. ASSUME call[c].pc = "ok", c \in Docs PROVE Len(call[c].results) = Len(TextsOf[c])
      BY <2>4 DEF GoodDoc, Answering, AllSound, Working, Placing
    <2> QED BY <2>2, <2>3, <2>4 DEF Working, Placing
  <1>3. /\ rows \in [Ids -> Rows \cup {Absent}]
        /\ \A id \in Ids : rows[id] # Absent => rows[id].text = TextOf(id)
        /\ refused \subseteq Texts /\ removed \subseteq Ids
    BY <1>1 DEF GoodTable, GoodRow
  <1>4. ASSUME NEW d \in Docs PROVE DOMAIN tx[d] \subseteq ChunksOf(d)
    <2>1. CASE stage[d] = "storing"
      <3>1. DOMAIN tx[d] = {<<d, i>> : i \in 1..done[d]} /\ done[d] \in 0..Len(TextsOf[d])
        BY <2>1 DEF GoodDoc
      <3>2. ChunksOf(d) = {<<d, i>> : i \in 1..Len(TextsOf[d])} /\ Len(TextsOf[d]) \in Nat
        BY ChunkTypes, TextsTypes
      <3>3. 1..done[d] \subseteq 1..Len(TextsOf[d])
        BY <3>1, <3>2
      <3> QED BY <3>1, <3>2, <3>3
    <2>2. CASE stage[d] # "storing"
      BY <2>2 DEF GoodDoc, NoTx
    <2> QED BY <2>1, <2>2
  <1>5. stage \in [Docs -> {"new", "embedding", "storing", "stored", "failed"}]
    BY DEF LocalTypes, Stages
  <1> QED BY <1>1, <1>2, <1>3, <1>4, <1>5, CountBounded DEF TypeOK

\* For every set of documents and texts, every batch size and cache bound, and
\* however many goroutines share the embedder: every row of the table has the
\* embedding of its own text, of every document all chunks are there or none,
\* and what was stored is there, but for what was removed.
THEOREM IngestionConsistent == Spec => []StoreConsistent
  <1>1. IInv => StoreConsistent
    <2> SUFFICES ASSUME IInv PROVE StoreConsistent
      OBVIOUS
    <2>1. TypeOK
      BY TypesFollow
    <2>2. EmbeddingIsItsOwn /\ RefusalExplained
      BY DEF IInv, GoodTable, GoodRow, EmbeddingIsItsOwn, RefusalExplained
    <2> QED BY <2>1, <2>2 DEF IInv, StoreConsistent
  <1> QED BY <1>1, Invariance, PTL

----
(* What a query finds. *)

\* What is searched for is the embedding of the question.
LEMMA AskedEmbedded ==
    ASSUME IInv, Answer
    PROVE  call[Querier].results[1] = query.asked.text
  <1> DEFINE text == query.asked.text
  <1>1. call[Querier].pc = "ok" /\ call[Querier].results[1] # Empty /\ query.asked # Absent
    BY DEF Answer
  <1>2. AllSound(<<text>>, call[Querier].results, leftOut)
    BY <1>1 DEF IInv, GoodQuery, Answering, Working, Placing
  <1>3. Len(<<text>>) = 1 /\ <<text>>[1] = text
    OBVIOUS
  <1>4. Sound(text, call[Querier].results[1], leftOut)
    BY <1>2, <1>3 DEF AllSound
  <1> QED BY <1>1, <1>4 DEF Sound

LEMMA EnoughFound ==
    ASSUME FiltersFit, IInv, Answer
    PROVE  QueryFindsStored'
  <1> DEFINE text == query.asked.text
             hits == {id \in Matching(query.asked.filter) : rows[id].embedding = text}
  <1>1. call[Querier].results[1] = text
    BY AskedEmbedded
  <1>2. PICK S \in Search(text, query.asked.filter) :
           query' = [query EXCEPT !.found = S, !.allowed = Fitting(query.asked),
                                  !.expected = @ \cap Fitting(query.asked)]
    BY <1>1 DEF Answer
  <1>3. /\ S \subseteq hits
        /\ Cardinality(S) = IF Cardinality(hits) < TopK THEN Cardinality(hits) ELSE TopK
    BY <1>2 DEF Search, Nearest
  <1>4. query \in QueryTypes /\ query.asked \in Questions
    BY DEF IInv, GoodQuery, QueryTypes, Answer
  \* The filter passes what the question is about, and the embedding is the text's.
  <1>5. hits = Fitting(query.asked)
    <2>1. ASSUME NEW id \in Ids, rows[id] # Absent
          PROVE  /\ rows[id].embedding = text <=> rows[id].text = text
                 /\ Matches(query.asked.filter, rows[id].metadata) <=>
                       rows[id].metadata \in query.asked.about
      <3>1. rows[id].embedding = rows[id].text /\ rows[id].metadata \in Metadatas
        BY <2>1 DEF IInv, GoodTable, GoodRow, Rows
      <3> HIDE DEF text
      <3> QED BY <1>4, <3>1 DEF FiltersFit
    <2> HIDE DEF text
    <2>2. \A id \in Ids : id \in hits <=> /\ rows[id] # Absent
                                          /\ rows[id].embedding = text
                                          /\ Matches(query.asked.filter, rows[id].metadata)
      BY DEF Matching
    <2>3. hits \subseteq Ids
      BY DEF Matching
    <2> HIDE DEF hits
    <2>4. \A id \in Ids : id \in Fitting(query.asked) <=> /\ rows[id] # Absent
                                                          /\ rows[id].text = text
                                                          /\ rows[id].metadata \in query.asked.about
      BY DEF Fitting, text
    <2>5. Fitting(query.asked) \subseteq Ids
      BY DEF Fitting
    <2> QED BY <2>1, <2>2, <2>3, <2>4, <2>5
  <1>6. IsFiniteSet(hits)
    BY <1>5, FiniteAssumption, FS_Subset DEF Fitting
  <1> HIDE DEF text, hits
  <1>7. S = hits \/ Cardinality(S) = TopK
    BY <1>3, <1>6, FS_Subset
  <1>8. /\ query'.found = S /\ query'.allowed = hits /\ query'.expected \subseteq hits
    BY <1>2, <1>4, <1>5 DEF QueryTypes
  <1> QED BY <1>3, <1>7, <1>8 DEF QueryFindsStored

\* If the filters fit what the questions are about, then for every set of
\* documents, whoever stores and removes meanwhile: a query finds what was there
\* all the time, unless there are more such rows than it asks for, and nothing but
\* chunks of the text it asks for whose metadata are of what it is about.
THEOREM QueriesFind ==
    ASSUME FiltersFit
    PROVE  Spec => []QueryFindsStored
  <1>1. Init => QueryFindsStored
    BY DEF Init, NoQuery, QueryFindsStored
  <1>2. IInv /\ QueryFindsStored /\ [Next]_vars => QueryFindsStored'
    <2> SUFFICES ASSUME IInv, QueryFindsStored, [Next]_vars PROVE QueryFindsStored'
      OBVIOUS
    <2>1. CASE query' = query
      BY <2>1 DEF QueryFindsStored
    <2>2. ASSUME NEW q \in Questions, Ask(q) PROVE QueryFindsStored'
      BY <2>2 DEF Ask, NoQuery, QueryFindsStored
    <2>3. CASE NoAnswer \/ Read
      BY <2>3 DEF NoAnswer, Read, NoQuery, QueryFindsStored
    <2>4. CASE Removal \/ Work \/ (\E d \in Docs : Ingest(d)) \/ Done \/ UNCHANGED vars
      <3>1. query' = query
        BY <2>4 DEF Removal, Other, Work, Ingest, Embedded, StoreChunk, ChunkRefused,
                    DatabaseFails, CommitChunks, Embedding, Done, vars, others
      <3> QED BY <3>1, <2>1
    <2> QED BY <2>2, <2>3, <2>4, EnoughFound DEF Next
  <1> QED BY <1>1, <1>2, Invariance, PTL DEF Spec

\* Of what the knowledge base ingests, each of its queries gets what it is named
\* for and nothing else: performance nothing, general search everything.
LEMMA KnowledgeBaseFits ==
    \A metadata \in Knowledge :
        /\ Matches(QuerySecurity, metadata) <=> metadata = IngestSecurityGuidelines
        /\ Matches(QueryIncidents, metadata) <=> metadata = IngestIncident
        /\ Matches(QueryRunbooks, metadata) <=> metadata = IngestRunbook
        /\ ~Matches(QueryPerformance, metadata)
        /\ Matches(QueryAll, metadata)
  BY DEF Knowledge, Matches, QuerySecurity, QueryIncidents, QueryRunbooks, QueryPerformance,
         QueryAll, IngestSecurityGuidelines, IngestBestPractices, IngestIncident, IngestRunbook

----
(* Ingestion implements the document store. *)

\* Both modules take Cardinality from FiniteSets.
LEMMA SameCardinality == \A S : Base!Cardinality(S) = Cardinality(S)
  BY Zenon DEF Base!Cardinality, Cardinality

\* What a transaction has written has the metadata of its document.
Labelled == \A d \in Docs : \A id \in DOMAIN tx[d] : tx[d][id].metadata = MetadataOf[d]

LEMMA LabelledStep ==
    ASSUME IInv, Labelled, [Next]_vars
    PROVE  Labelled'
  <1>1. DOMAIN tx = Docs
    BY DEF IInv, LocalTypes
  <1>2. CASE tx' = tx
    BY <1>2 DEF Labelled
  <1>3. ASSUME NEW d \in Docs, tx' = [tx EXCEPT ![d] = NoTx] PROVE Labelled'
    BY <1>1, <1>3 DEF Labelled, NoTx
  <1>4. ASSUME NEW d \in Docs, StoreChunk(d) PROVE Labelled'
    <2> DEFINE id == <<d, NextChunk(d)>>
               row == Written(id, TextsOf[d][NextChunk(d)], embeddings[d][NextChunk(d)], MetadataOf[d])
    <2>1. tx' = [tx EXCEPT ![d] = [i \in DOMAIN @ \cup {id} |-> IF i = id THEN row ELSE @[i]]]
      BY <1>4 DEF StoreChunk, Exec
    <2>2. row.metadata = MetadataOf[d]
      BY DEF Written
    <2> HIDE DEF row, id
    <2>3. /\ tx'[d] = [i \in DOMAIN tx[d] \cup {id} |-> IF i = id THEN row ELSE tx[d][i]]
          /\ \A e \in Docs \ {d} : tx'[e] = tx[e]
      BY <1>1, <2>1
    <2> QED BY <2>2, <2>3 DEF Labelled
  <1>5. ASSUME NEW d \in Docs, ChunkRefused(d) \/ DatabaseFails(d) \/ CommitChunks(d)
        PROVE  tx' = [tx EXCEPT ![d] = NoTx]
    BY <1>5 DEF ChunkRefused, DatabaseFails, CommitChunks, Fail, UpsertFails, Rollback, Commit
  <1>6. CASE Work
    <2>1. ASSUME NEW d \in Docs, Embedded(d) PROVE tx' = tx
      BY <2>1 DEF Embedded, tableVars
    <2>2. ASSUME NEW c \in Callers, Embedding(c) PROVE tx' = tx
      BY <2>2 DEF Embedding, tableVars
    <2> QED BY <1>2, <1>3, <1>4, <1>5, <1>6, <2>1, <2>2 DEF Work
  <1>7. CASE Removal
    BY <1>2, <1>7 DEF Removal, Clear, Delete, DeleteWhere, UpsertAgain
  <1>8. CASE \/ \E d \in Docs : Ingest(d)
             \/ \E q \in Questions : Ask(q)
             \/ NoAnswer \/ Answer \/ Read \/ Done \/ UNCHANGED vars
    BY <1>2, <1>8 DEF Ingest, Ask, NoAnswer, Answer, Read, Done, vars, tableVars
  <1> QED BY <1>6, <1>7, <1>8 DEF Next

\* If chunks stay in their namespaces, that is what their metadata say.
InNamespace ==
    \A id \in Ids : rows[id] # Absent =>
        rows[id].metadata.namespace = MetadataOf[id[1]].namespace

LEMMA InNamespaceStep ==
    ASSUME MayMove = FALSE, IInv, Labelled, InNamespace, [Next]_vars
    PROVE  InNamespace'
  <1>1. CASE rows' = rows
    BY <1>1 DEF InNamespace
  <1>2. ASSUME NEW d \in Docs, CommitChunks(d) PROVE InNamespace'
    <2>1. rows' = [id \in Ids |-> IF id \in DOMAIN tx[d] THEN tx[d][id] ELSE rows[id]]
      BY <1>2 DEF CommitChunks, Commit
    <2>2. \A id \in DOMAIN tx[d] : id \in ChunksOf(d)
      <3>1. DOMAIN tx[d] = {<<d, i>> : i \in 1..Len(TextsOf[d])}
        BY <1>2 DEF CommitChunks, IInv, GoodDoc
      <3> QED BY <3>1, ChunkTypes
    <2>3. \A id \in DOMAIN tx[d] : tx[d][id].metadata = MetadataOf[id[1]]
      BY <2>2, ChunkTypes DEF Labelled
    <2> QED BY <2>1, <2>3 DEF InNamespace
  <1>3. ASSUME NEW S, DeleteWhere(S) PROVE InNamespace'
    <2>1. rows' = [id \in Ids |-> IF id \in S THEN Absent ELSE rows[id]]
      BY <1>3 DEF DeleteWhere
    <2> QED BY <2>1 DEF InNamespace
  <1>4. ASSUME NEW id \in Ids, NEW metadata \in Metadatas, UpsertAgain(id, metadata),
               metadata.namespace = rows[id].metadata.namespace
        PROVE  InNamespace'
    <2> DEFINE row == Written(id, rows[id].text, rows[id].embedding, metadata)
    <2>1. rows[id] # Absent /\ rows' = [rows EXCEPT ![id] = row]
      BY <1>4 DEF UpsertAgain
    <2>2. row.metadata = metadata
      BY DEF Written
    <2> HIDE DEF row
    <2>3. rows'[id] = row /\ \A i \in Ids \ {id} : rows'[i] = rows[i]
      BY <2>1 DEF IInv, GoodTable
    <2> QED BY <1>4, <2>1, <2>2, <2>3 DEF InNamespace
  <1>5. CASE Work
    <2>1. ASSUME NEW d \in Docs, Embedded(d) \/ StoreChunk(d) \/ ChunkRefused(d) \/ DatabaseFails(d)
          PROVE  rows' = rows
      BY <2>1 DEF Embedded, StoreChunk, Exec, ChunkRefused, DatabaseFails, Fail, UpsertFails,
                  Rollback, tableVars
    <2>2. ASSUME NEW c \in Callers, Embedding(c) PROVE rows' = rows
      BY <2>2 DEF Embedding, tableVars
    <2> QED BY <1>1, <1>2, <1>5, <2>1, <2>2 DEF Work
  <1>6. CASE Removal
    BY <1>3, <1>4, <1>6 DEF Removal, Clear, Delete
  <1>7. CASE \/ \E d \in Docs : Ingest(d)
             \/ \E q \in Questions : Ask(q)
             \/ NoAnswer \/ Answer \/ Read \/ Done \/ UNCHANGED vars
    BY <1>1, <1>7 DEF Ingest, Ask, NoAnswer, Answer, Read, Done, vars, tableVars
  <1> QED BY <1>5, <1>6, <1>7 DEF Next

\* The column of a row, too, is the namespace it came in with.
LEMMA ColumnsAgree ==
    ASSUME IInv, InNamespace, NEW id \in Ids, rows[id] # Absent
    PROVE  rows[id].column = rows[id].metadata.namespace
  BY DEF IInv, GoodTable, GoodRow, InNamespace

LEMMA NamespacesStay ==
    ASSUME MayMove = FALSE
    PROVE  Spec => [](Labelled /\ InNamespace)
  <1>1. Init => Labelled /\ InNamespace
    BY DEF Init, StoreInit, NoTx, Labelled, InNamespace
  <1>2. IInv /\ Labelled /\ InNamespace /\ [Next]_vars => (Labelled /\ InNamespace)'
    BY LabelledStep, InNamespaceStep
  <1> QED BY <1>1, <1>2, Invariance, PTL DEF Spec

\* If no chunk is upserted again with another namespace, then, whoever stores and
\* removes: Count and Clear of a namespace are about the chunks that are in it.
THEOREM ColumnsStayExact ==
    ASSUME MayMove = FALSE
    PROVE  Spec => []ColumnsExact
  <1>1. IInv /\ InNamespace => ColumnsExact
    BY ColumnsAgree DEF ColumnsExact, RowsOf
  <1> QED BY <1>1, NamespacesStay, Invariance, PTL

\* The variables of the document store, and how they look through the mapping.
Contents == [id \in Ids |-> Shown(rows[id])]
Heard == [d \in Docs |-> IF stage[d] \in {"stored", "failed"} THEN stage[d] ELSE "nothing"]
Given == IF query.found = Absent THEN Absent
             ELSE [question |-> query.asked, found |-> query.found]

\* A row is there if and only if it can be seen.
LEMMA ShownTypes ==
    ASSUME IInv, NEW id \in Ids
    PROVE  /\ Contents[id] = Absent <=> rows[id] = Absent
           /\ rows[id] # Absent =>
                 /\ Contents[id].embedding = rows[id].embedding
                 /\ Contents[id].metadata = rows[id].metadata
                 /\ rows[id].metadata \in Metadatas
  BY AbsentAssumption DEF IInv, GoodTable, Contents, Shown, Rows

\* The goroutine of d leaves.
LEMMA HeardChanges ==
    ASSUME IInv, NEW d \in Docs, stage[d] \in {"embedding", "storing"},
           NEW s \in {"stored", "failed"}, stage' = [stage EXCEPT ![d] = s]
    PROVE  Heard[d] = "nothing" /\ Heard' = [Heard EXCEPT ![d] = s]
  BY DEF IInv, LocalTypes, Heard

LEMMA FailsOutside ==
    ASSUME IInv, NEW d \in Docs, stage[d] \in {"embedding", "storing"},
           stage' = [stage EXCEPT ![d] = "failed"], UNCHANGED <<rows, query>>
    PROVE  Base!Fail(d)
  <1>1. Heard[d] = "nothing" /\ Heard' = [Heard EXCEPT ![d] = "failed"]
    BY HeardChanges
  <1>2. Contents' = Contents /\ Given' = Given
    BY DEF Contents, Given
  <1> QED BY <1>1, <1>2 DEF Base!Fail, Base!Tell, Heard, Contents, Given

\* A commit puts the whole document in.
LEMMA CommitsOutside ==
    ASSUME IInv, Labelled, NEW d \in Docs, CommitChunks(d)
    PROVE  Base!Store(d)
  <1>1. /\ stage[d] = "storing" /\ done[d] = Len(TextsOf[d])
        /\ rows' = [id \in Ids |-> IF id \in DOMAIN tx[d] THEN tx[d][id] ELSE rows[id]]
        /\ stage' \in {[stage EXCEPT ![d] = s] : s \in {"stored", "failed"}}
        /\ query' = query
    BY DEF CommitChunks, Commit, others
  <1>2. DOMAIN tx[d] = ChunksOf(d) /\ \A id \in ChunksOf(d) : GoodRow(id, tx[d][id])
    <2>1. DOMAIN tx[d] = {<<d, i>> : i \in 1..Len(TextsOf[d])} /\ \A id \in DOMAIN tx[d] : GoodRow(id, tx[d][id])
      BY <1>1 DEF IInv, GoodDoc
    <2> QED BY <2>1, ChunkTypes
  <1>3. \A id \in ChunksOf(d) :
           Shown(tx[d][id]) = [embedding |-> TextOf(id), metadata |-> MetadataOf[id[1]]]
    BY <1>2, ChunkTypes, AbsentAssumption DEF Labelled, GoodRow, Shown
  <1>4. Contents' = [id \in Ids |-> IF id \in ChunksOf(d)
                                    THEN [embedding |-> TextOf(id), metadata |-> MetadataOf[id[1]]]
                                    ELSE Contents[id]]
    BY <1>1, <1>2, <1>3 DEF Contents
  <1>5. Heard[d] = "nothing"
        /\ (Heard' = [Heard EXCEPT ![d] = "stored"] \/ Heard' = [Heard EXCEPT ![d] = "failed"])
    BY <1>1, HeardChanges
  <1>6. Given' = Given
    BY <1>1 DEF Given
  <1> QED BY <1>4, <1>5, <1>6 DEF Base!Store, Base!Tell, Heard, Contents, Given

\* Rows go, one or those of a namespace.
LEMMA RemovesOutside ==
    ASSUME IInv, InNamespace, Removal
    PROVE  Base!Next
  <1> USE DEF Base!Next
  <1>1. /\ UNCHANGED <<stage, query>>
        /\ Heard' = Heard /\ Given' = Given
    BY DEF Removal, Other, local, Heard, Given
  <1>2. ASSUME NEW S, NEW T \in SUBSET Ids, DeleteWhere(T),
               \A id \in Ids : (id \in S /\ rows[id] # Absent) <=> id \in T
        PROVE  Base!Remove(S)
    <2>1. rows' = [id \in Ids |-> IF id \in T THEN Absent ELSE rows[id]]
      BY <1>2 DEF DeleteWhere
    <2>2. Contents' = [id \in Ids |-> IF id \in S THEN Absent ELSE Contents[id]]
      BY <1>2, <2>1 DEF Contents, Shown
    <2> QED BY <1>1, <2>2 DEF Base!Remove, Heard, Contents, Given
  <1>3. ASSUME NEW ns \in Namespaces, Clear(ns) PROVE Base!Next
    <2>1. PICK metadata \in Metadatas : metadata.namespace = ns
      BY DEF Namespaces
    <2>2. \A id \in Ids :
             id \in Base!Within(ns) <=> Contents[id] # Absent /\ Contents[id].metadata.namespace = ns
      BY DEF Base!Within, Contents
    <2>3. \A id \in Ids : (id \in Base!Within(ns) /\ rows[id] # Absent) <=> id \in RowsOf(ns)
      BY <2>2, ShownTypes, ColumnsAgree DEF RowsOf
    <2>4. RowsOf(ns) \in SUBSET Ids /\ DeleteWhere(RowsOf(ns))
      BY <1>3 DEF RowsOf, Clear
    <2>5. Base!Remove(Base!Within(ns))
      BY <1>2, <2>3, <2>4
    <2> QED BY <2>1, <2>5
  <1>4. ASSUME NEW id \in Ids, Delete({id}) PROVE Base!Next
    <2> DEFINE T == {i \in {id} : rows[i] # Absent}
    <2>1. T \in SUBSET Ids /\ DeleteWhere(T) /\ \A i \in Ids : (i \in {id} /\ rows[i] # Absent) <=> i \in T
      BY <1>4 DEF Delete
    <2> HIDE DEF T
    <2>2. Base!Remove({id})
      BY <1>2, <2>1
    <2> QED BY <2>2
  <1>5. ASSUME NEW id \in Ids, NEW metadata \in Metadatas, UpsertAgain(id, metadata) PROVE Base!Next
    <2> DEFINE row == Written(id, rows[id].text, rows[id].embedding, metadata)
    <2>1. rows[id] # Absent /\ rows' = [rows EXCEPT ![id] = row]
      BY <1>5 DEF UpsertAgain
    <2>2. row \in Rows /\ row.embedding = rows[id].embedding /\ row.metadata = metadata
      BY <2>1 DEF IInv, GoodTable, GoodRow, Written, Rows
    <2> HIDE DEF row
    <2>3. /\ rows'[id] = row /\ row # Absent
          /\ \A i \in Ids \ {id} : rows'[i] = rows[i]
      BY <2>1, <2>2, AbsentAssumption DEF IInv, GoodTable
    <2>4. Contents[id] # Absent /\ Contents[id].embedding = rows[id].embedding
      BY <2>1, ShownTypes
    <2>5. Shown(rows'[id]) = [embedding |-> Contents[id].embedding, metadata |-> metadata]
      BY <2>2, <2>3, <2>4 DEF Shown
    <2>6. Contents' = [Contents EXCEPT ![id] = [embedding |-> Contents[id].embedding, metadata |-> metadata]]
      BY <2>3, <2>5 DEF Contents
    <2>7. Base!Relabel(id, metadata)
      BY <1>1, <2>4, <2>6 DEF Base!Relabel, Heard, Contents, Given
    <2> QED BY <2>7
  <1> QED BY <1>3, <1>4, <1>5 DEF Removal

\* An answer is one of the table of this moment.
LEMMA AnswersOutside ==
    ASSUME IInv, Answer
    PROVE  Base!Next
  <1> DEFINE q == query.asked
             hits == {id \in Matching(q.filter) : rows[id].embedding = q.text}
  <1>1. call[Querier].results[1] = q.text
    BY AskedEmbedded
  <1>2. PICK S \in Search(q.text, q.filter) :
           query' = [query EXCEPT !.found = S, !.allowed = Fitting(query.asked),
                                  !.expected = @ \cap Fitting(query.asked)]
    BY <1>1 DEF Answer
  <1>3. /\ S \subseteq hits
        /\ Cardinality(S) = IF Cardinality(hits) < TopK THEN Cardinality(hits) ELSE TopK
    BY <1>2 DEF Search, Nearest
  <1>4. q \in Questions /\ query'.found = S /\ query'.asked = q /\ S # Absent
    <2>1. query \in QueryTypes /\ query.asked # Absent
      BY DEF IInv, GoodQuery, Answer
    <2>2. S # Absent
      BY <1>2, SearchTypes, AbsentAssumption
    <2> QED BY <1>2, <2>1, <2>2 DEF QueryTypes
  <1>5. hits = Base!Hits(q)
    <2> HIDE DEF q
    <2>1. \A id \in Ids :
             id \in Base!Hits(q) <=>
                /\ Contents[id] # Absent
                /\ Contents[id].embedding = q.text
                /\ Contents[id].metadata \in {metadata \in Metadatas : Matches(q.filter, metadata)}
      BY <1>4 DEF Base!Hits, Contents
    <2>2. Base!Hits(q) \subseteq Ids
      BY DEF Base!Hits
    <2>3. \A id \in Ids : id \in hits <=> /\ rows[id] # Absent
                                          /\ rows[id].embedding = q.text
                                          /\ Matches(q.filter, rows[id].metadata)
      BY DEF Matching
    <2>4. hits \subseteq Ids
      BY DEF Matching
    <2> HIDE DEF hits
    <2>5. \A id \in Ids : id \in hits <=> id \in Base!Hits(q)
      BY <2>1, <2>3, ShownTypes
    <2> QED BY <2>2, <2>4, <2>5
  <1>6. IsFiniteSet(hits) /\ Cardinality(hits) \in Nat
    <2>1. hits \subseteq Ids
      BY DEF Matching
    <2> QED BY <2>1, FiniteAssumption, FS_Subset, FS_CardinalityType
  <1> HIDE DEF hits
  <1>7. Cardinality(S) <= TopK /\ (S = hits \/ Cardinality(S) = TopK)
    BY <1>3, <1>6, FS_Subset, TopKAssumption
  <1>8. Given' = [question |-> q, found |-> S]
    BY <1>4 DEF Given
  <1>9. Contents' = Contents /\ Heard' = Heard
    BY DEF Answer, tableVars, local, Contents, Heard
  <1> HIDE DEF q
  <1>10. Base!Answer(q)
    BY <1>3, <1>5, <1>7, <1>8, <1>9, SameCardinality DEF Base!Answer, Heard, Contents, Given
  <1> QED BY <1>4, <1>10 DEF Base!Next

\* For every set of documents and texts, every batch size, cache bound and number
\* of goroutines, if no chunk is upserted again with another namespace: from
\* outside, ingesting and asking is putting documents into a store at once and
\* reading it at a single moment.
THEOREM IngestionImplementsDocumentStore ==
    ASSUME MayMove = FALSE
    PROVE  Spec => ImplementsDocumentStore
  <1>1. Init => Base!Init
    <2> SUFFICES ASSUME Init PROVE Base!Init
      OBVIOUS
    <2>1. /\ Contents = [id \in Ids |-> Absent] /\ Heard = [d \in Docs |-> "nothing"]
          /\ Given = Absent
      BY DEF Init, StoreInit, NoQuery, Contents, Heard, Given, Shown
    <2> QED BY <2>1 DEF Base!Init, Contents, Heard, Given
  <1>2. IInv /\ Labelled /\ InNamespace /\ [Next]_vars => [Base!Next]_(Base!baseVars)
    <2> SUFFICES ASSUME IInv, Labelled, InNamespace, [Next]_vars
                 PROVE  Base!Next \/ UNCHANGED Base!baseVars
      OBVIOUS
    <2>1. ASSUME UNCHANGED <<Contents, Heard, Given>> PROVE UNCHANGED Base!baseVars
      BY <2>1 DEF Base!baseVars, Contents, Heard, Given
    <2>2. ASSUME UNCHANGED <<rows, stage, query>> PROVE UNCHANGED Base!baseVars
      BY <2>1, <2>2 DEF Contents, Heard, Given
    <2>3. ASSUME NEW d \in Docs, Ingest(d) PROVE UNCHANGED Base!baseVars
      <3>1. Heard' = Heard
        BY <2>3 DEF Ingest, Goto, IInv, LocalTypes, Heard
      <3>2. UNCHANGED <<rows, query>>
        BY <2>3 DEF Ingest, tableVars, others
      <3> QED BY <2>1, <3>1, <3>2 DEF Contents, Given
    <2>4. ASSUME NEW d \in Docs, Embedded(d) PROVE Base!Next \/ UNCHANGED Base!baseVars
      <3>1. stage[d] = "embedding" /\ UNCHANGED <<rows, query>>
        BY <2>4 DEF Embedded, tableVars, others
      <3>2. CASE Goto(d, "storing")
        <4>1. Heard' = Heard
          BY <3>1, <3>2 DEF Goto, IInv, LocalTypes, Heard
        <4> QED BY <2>1, <3>1, <4>1 DEF Contents, Given
      <3>3. CASE Goto(d, "failed")
        <4>1. Base!Fail(d)
          BY <3>1, <3>3, FailsOutside DEF Goto
        <4> QED BY <4>1 DEF Base!Next
      <3> QED BY <2>4, <3>2, <3>3 DEF Embedded
    <2>5. ASSUME NEW d \in Docs, ChunkRefused(d) \/ DatabaseFails(d) PROVE Base!Next
      <3>1. /\ stage[d] = "storing" /\ stage' = [stage EXCEPT ![d] = "failed"]
            /\ UNCHANGED <<rows, query>>
        BY <2>5 DEF ChunkRefused, DatabaseFails, Fail, UpsertFails, Rollback, Goto, others
      <3>2. Base!Fail(d)
        BY <3>1, FailsOutside
      <3> QED BY <3>2 DEF Base!Next
    <2>6. ASSUME NEW d \in Docs, CommitChunks(d) PROVE Base!Next
      <3>1. Base!Store(d)
        BY <2>6, CommitsOutside
      <3> QED BY <3>1 DEF Base!Next
    <2>7. CASE Work
      <3>1. ASSUME NEW c \in Callers, Embedding(c) PROVE UNCHANGED <<rows, stage, query>>
        BY <3>1 DEF Embedding, tableVars, local, others
      <3>2. ASSUME NEW d \in Docs, StoreChunk(d) PROVE UNCHANGED <<rows, stage, query>>
        BY <3>2 DEF StoreChunk, Exec, others
      <3> QED BY <2>2, <2>4, <2>5, <2>6, <2>7, <3>1, <3>2 DEF Work
    <2>8. ASSUME NEW q \in Questions, Ask(q) PROVE UNCHANGED Base!baseVars
      <3>1. Given' = Given /\ UNCHANGED <<rows, stage>>
        BY <2>8 DEF Ask, NoQuery, tableVars, local, Given
      <3> QED BY <2>1, <3>1 DEF Contents, Heard
    <2>9. CASE NoAnswer \/ Read
      <3>1. Given' = Absent /\ UNCHANGED <<rows, stage>>
        BY <2>9 DEF NoAnswer, Read, NoQuery, tableVars, local, Given
      <3>2. Contents' = Contents /\ Heard' = Heard
        BY <3>1 DEF Contents, Heard
      <3>3. Base!Read
        BY <3>1, <3>2 DEF Base!Read, Contents, Heard, Given
      <3> QED BY <3>3 DEF Base!Next
    <2>10. CASE Done \/ UNCHANGED vars
      BY <2>2, <2>10 DEF Done, vars, tableVars, local, others
    <2> QED BY <2>3, <2>7, <2>8, <2>9, <2>10, RemovesOutside, AnswersOutside DEF Next
  <1> QED BY <1>1, <1>2, NamespacesStay, Invariance, PTL
          DEF Spec, ImplementsDocumentStore, Base!Spec

----
(* The bound of the cache. *)

Counting == {"read", "write"}

\* As long as no two callers have met in cacheEmbedding: the one that is there has
\* cached one text at most that is not counted yet, and there was room for it.
Counted ==
    /\ raced \in BOOLEAN /\ IsFiniteSet(cache)
    /\ \/ raced
       \/ /\ \A c, d \in Callers : call[c].pc \in Placing /\ call[d].pc \in Placing => c = d
          /\ cacheSize <= MaxCache /\ Cardinality(cache) <= MaxCache
          /\ (\A c \in Callers : call[c].pc \notin Counting) => Cardinality(cache) <= cacheSize
          /\ \A c \in Callers :
                /\ call[c].pc = "put" => cacheSize < MaxCache
                /\ call[c].pc \in Counting =>
                      Cardinality(cache) <= cacheSize + 1 /\ cacheSize < MaxCache
                /\ call[c].pc = "write" => call[c].size = cacheSize

\* A call that does nothing in cacheEmbedding.
LEMMA CountedFrame ==
    ASSUME EmbedderInv, Counted, UNCHANGED <<cache, cacheSize, raced>>,
           \A c \in Callers :
              \/ call'[c] = call[c]
              \/ call'[c].pc \notin Placing /\ call[c].pc \notin Counting
              \/ call'[c].pc = "check" /\ call[c].pc = "check"
    PROVE  Counted'
  BY DEF Counted, Counting, Placing

LEMMA CountedAnswered ==
    ASSUME EmbedderInv, Counted, NEW c \in Callers, Answered(c)
    PROVE  Counted'
  <1>1. /\ call[c].pc = "request" /\ UNCHANGED <<cache, cacheSize>>
        /\ raced' = (raced \/ \E d \in Callers \ {c} : InCache(d))
    BY DEF Answered
  <1>2. call'[c].pc = "check" /\ \A d \in Callers \ {c} : call'[d] = call[d]
    BY DEF Answered, EmbedderInv, CallTypes
  <1>3. \A d \in Callers : InCache(d) <=> call[d].pc \in Placing
    BY DEF InCache, Placing
  <1>4. raced' \in BOOLEAN
    BY <1>1
  <1>5. CASE raced'
    BY <1>1, <1>4, <1>5 DEF Counted
  <1>6. CASE ~raced'
    <2>1. ~raced /\ \A d \in Callers \ {c} : call[d].pc \notin Placing
      BY <1>1, <1>3, <1>6
    <2> QED BY <1>1, <1>2, <1>4, <1>6, <2>1 DEF Counted, Counting, Placing
  <1> QED BY <1>5, <1>6

LEMMA CountedCheck ==
    ASSUME EmbedderInv, Counted, NEW c \in Callers, Check(c)
    PROVE  Counted'
  <1> DEFINE next == IF Full THEN Advanced(c) ELSE [call[c] EXCEPT !.pc = "put"]
             i == Index(c, call[c].k)
             a == [next EXCEPT !.results[i] = call[c].answer[call[c].k]]
  <1>1. /\ call[c].pc = "check" /\ UNCHANGED <<cache, cacheSize, raced>>
        /\ call' = [call EXCEPT ![c] = a]
    BY DEF Check
  <1>2. call[c] \in CallTypes /\ GoodCall(call[c], leftOut) /\ cacheSize \in Nat
    BY DEF EmbedderInv
  <1>3. Advanced(c) \in CallTypes /\ Advanced(c).pc \in {"check", "request", "ok"}
    BY <1>1, <1>2, AdvancedFields DEF AdvancedTo, Placing
  <1>4. a.pc = IF Full THEN Advanced(c).pc ELSE "put"
    <2>1. next.pc = IF Full THEN Advanced(c).pc ELSE "put"
      BY <1>2 DEF CallTypes
    <2>2. "pc" \in DOMAIN next
      BY <1>2, <1>3 DEF CallTypes
    <2> HIDE DEF next
    <2> QED BY <2>1, <2>2
  <1> HIDE DEF a
  <1>5. call'[c] = a /\ \A d \in Callers \ {c} : call'[d] = call[d]
    BY <1>1 DEF EmbedderInv
  <1>6. CASE Full
    BY <1>1, <1>3, <1>4, <1>5, <1>6, CountedFrame DEF Counting, Placing
  <1>7. CASE ~Full
    <2>1. cacheSize < MaxCache /\ a.pc = "put"
      BY <1>2, <1>4, <1>7, MaxCacheAssumption DEF Full
    <2> QED BY <1>1, <1>5, <2>1 DEF Counted, Counting, Placing
  <1> QED BY <1>6, <1>7

LEMMA CountedPut ==
    ASSUME EmbedderInv, Counted, NEW c \in Callers, Put(c)
    PROVE  Counted'
  <1> DEFINE text == TextOfBatch(c, call[c].k)
             others_of == {pair \in cache : pair[1] # text}
             new == <<text, call[c].answer[call[c].k]>>
  <1>1. /\ call[c].pc = "put" /\ UNCHANGED <<cacheSize, raced>>
        /\ cache' = others_of \cup {new}
    BY DEF Put
  <1>2. call'[c].pc = "read" /\ \A d \in Callers \ {c} : call'[d] = call[d]
    BY DEF Put, EmbedderInv, CallTypes
  <1>3. IsFiniteSet(others_of) /\ Cardinality(others_of) <= Cardinality(cache)
    BY FS_Subset DEF Counted
  <1> HIDE DEF others_of, new
  <1>4. /\ IsFiniteSet(cache') /\ Cardinality(cache) \in Nat /\ Cardinality(cache') \in Nat
        /\ Cardinality(cache') <= Cardinality(cache) + 1
    <2>1. /\ IsFiniteSet(cache')
          /\ \/ Cardinality(cache') = Cardinality(others_of)
             \/ Cardinality(cache') = Cardinality(others_of) + 1
      BY <1>1, <1>3, FS_AddElement
    <2>2. Cardinality(cache) \in Nat /\ Cardinality(others_of) \in Nat /\ Cardinality(cache') \in Nat
      BY <1>3, <2>1, FS_CardinalityType DEF Counted
    <2> QED BY <1>3, <2>1, <2>2
  <1>5. cacheSize \in Nat
    BY DEF EmbedderInv
  <1>6. ASSUME ~raced
        PROVE  /\ Cardinality(cache) <= cacheSize /\ cacheSize < MaxCache
               /\ \A d \in Callers \ {c} : call[d].pc \notin Placing
    <2>1. \A d \in Callers \ {c} : call[d].pc \notin Placing
      BY <1>1, <1>6 DEF Counted, Placing
    <2> QED BY <1>1, <1>6, <2>1 DEF Counted, Placing, Counting
  <1>7. CASE raced
    BY <1>1, <1>4, <1>7 DEF Counted
  <1>8. CASE ~raced
    <2>1. Cardinality(cache') <= cacheSize' + 1 /\ cacheSize' < MaxCache /\ Cardinality(cache') <= MaxCache
      BY <1>1, <1>4, <1>5, <1>6, <1>8, MaxCacheAssumption
    <2> QED BY <1>1, <1>2, <1>4, <1>5, <1>6, <1>8, <2>1, MaxCacheAssumption
            DEF Counted, Counting, Placing
  <1> QED BY <1>7, <1>8

LEMMA CountedSize ==
    ASSUME EmbedderInv, Counted, NEW c \in Callers, ReadSize(c) \/ WriteSize(c)
    PROVE  Counted'
  <1>1. /\ call[c].pc \in Counting /\ UNCHANGED <<cache, raced>>
        /\ call[c] \in CallTypes /\ GoodCall(call[c], leftOut) /\ cacheSize \in Nat
    BY DEF ReadSize, WriteSize, EmbedderInv, Counting
  <1>2. ASSUME ~raced
        PROVE  \A d \in Callers \ {c} : call[d].pc \notin Placing
    BY <1>1, <1>2 DEF Counted, Placing, Counting
  <1>3. CASE ReadSize(c)
    <2>1. /\ call'[c].pc = "write" /\ call'[c].size = cacheSize /\ cacheSize' = cacheSize
          /\ \A d \in Callers \ {c} : call'[d] = call[d]
      BY <1>1, <1>3 DEF ReadSize, EmbedderInv, CallTypes
    <2> QED BY <1>1, <1>2, <2>1 DEF Counted, Counting, Placing
  <1>4. CASE WriteSize(c)
    <2> DEFINE a == [Advanced(c) EXCEPT !.size = 0]
    <2>1. call[c].pc = "write" /\ cacheSize' = call[c].size + 1 /\ call' = [call EXCEPT ![c] = a]
      BY <1>4 DEF WriteSize
    <2>2. Advanced(c) \in CallTypes /\ Advanced(c).pc \in {"check", "request", "ok"}
      BY <1>1, <2>1, AdvancedFields DEF AdvancedTo, Placing
    <2>3. a.pc \in {"check", "request", "ok"}
      BY <2>2 DEF CallTypes
    <2> HIDE DEF a
    <2>4. call'[c] = a /\ \A d \in Callers \ {c} : call'[d] = call[d]
      BY <2>1 DEF EmbedderInv
    <2>5. ASSUME ~raced
          PROVE  /\ cacheSize' = cacheSize + 1 /\ cacheSize' <= MaxCache
                 /\ Cardinality(cache) <= cacheSize' /\ Cardinality(cache) <= MaxCache
      <3>1. call[c].size = cacheSize /\ cacheSize < MaxCache /\ Cardinality(cache) <= cacheSize + 1
            /\ Cardinality(cache) <= MaxCache
        BY <2>1, <2>5 DEF Counted, Counting
      <3> QED BY <1>1, <2>1, <3>1, MaxCacheAssumption
    <2> QED BY <1>1, <1>2, <2>3, <2>4, <2>5 DEF Counted, Counting, Placing
  <1> QED BY <1>3, <1>4

LEMMA CountedStep ==
    ASSUME EmbedderInv, Counted, NEW c \in Callers, EmbedStep(c)
    PROVE  Counted'
  <1>1. CASE Lookup(c) \/ RequestFails(c)
    <2>1. UNCHANGED <<cache, cacheSize, raced>> /\ call[c].pc \notin Counting
      BY <1>1 DEF Lookup, RequestFails, Counting
    <2>2. call'[c].pc \notin Placing /\ \A d \in Callers \ {c} : call'[d] = call[d]
      <3>1. CASE Lookup(c)
        <4> DEFINE k == call[c]
                   i == Len(k.results) + 1
                   text == k.texts[i]
                   hit == text \in Cached
                   todo == IF hit THEN k.uncached ELSE Append(k.uncached, i)
                   found == IF hit THEN (CHOOSE pair \in cache : pair[1] = text)[2] ELSE Empty
                   results == Filled(k.results, found)
                   pc == IF i < Len(k.texts) THEN "lookup" ELSE IF todo = <<>> THEN "ok" ELSE "request"
        <4>1. call' = [call EXCEPT ![c] = [k EXCEPT !.results = results, !.uncached = todo, !.pc = pc]]
          BY <3>1 DEF Lookup
        <4>2. pc \in {"lookup", "ok", "request"}
          OBVIOUS
        <4> HIDE DEF results, todo, pc
        <4> QED BY <4>1, <4>2 DEF EmbedderInv, CallTypes, Placing
      <3>2. CASE RequestFails(c)
        BY <3>2 DEF RequestFails, EmbedderInv, Placing, NoCall
      <3> QED BY <1>1, <3>1, <3>2
    <2> QED BY <2>1, <2>2, CountedFrame
  <1> QED BY <1>1, CountedAnswered, CountedCheck, CountedPut, CountedSize DEF EmbedStep

\* For every number of callers, texts and every bound: until two callers meet in
\* cacheEmbedding, the cache keeps to its bound and its counter covers it.
THEOREM CacheKeepsToBound == Spec => []CacheBounded
  <1>1. Init => Counted
    <2> SUFFICES ASSUME Init PROVE Counted
      OBVIOUS
    <2>1. cache = {} /\ cacheSize = 0 /\ raced = FALSE /\ \A c \in Callers : call[c].pc = "idle"
      BY DEF Init, EmbedderInit, NoCall
    <2>2. raced \in BOOLEAN /\ IsFiniteSet(cache)
      BY <2>1, FS_EmptySet
    <2>3. cacheSize <= MaxCache /\ Cardinality(cache) <= MaxCache /\ Cardinality(cache) <= cacheSize
      BY <2>1, FS_EmptySet, MaxCacheAssumption
    <2>4. \A c \in Callers : call[c].pc \notin Placing \cup Counting
      BY <2>1 DEF Placing, Counting
    <2> QED BY <2>2, <2>3, <2>4 DEF Counted, Counting, Placing
  <1>2. IInv /\ Counted /\ [Next]_vars => Counted'
    <2> SUFFICES ASSUME IInv, Counted, [Next]_vars PROVE Counted'
      OBVIOUS
    <2>1. EmbedderInv
      BY DEF IInv
    <2>2. ASSUME NEW c \in Callers, Embedding(c) PROVE Counted'
      BY <2>1, <2>2, CountedStep DEF Embedding
    <2>3. ASSUME NEW c \in Callers, NEW texts, Embed(c, texts) PROVE Counted'
      <3>1. UNCHANGED <<cache, cacheSize, raced>> /\ call[c].pc = "idle"
        BY <2>3 DEF Embed
      <3>2. call'[c].pc \notin Placing /\ \A d \in Callers \ {c} : call'[d] = call[d]
        BY <2>1, <2>3 DEF Embed, EmbedderInv, NoCall, Placing
      <3> QED BY <2>1, <3>1, <3>2, CountedFrame DEF Counting
    <2>4. ASSUME NEW c \in Callers, Returned(c), Forget(c), UNCHANGED <<cache, cacheSize, raced>>
          PROVE  Counted'
      <3>1. call[c].pc \notin Counting
        BY <2>4 DEF Returned, Counting
      <3>2. call'[c].pc \notin Placing /\ \A d \in Callers \ {c} : call'[d] = call[d]
        BY <2>1, <2>4 DEF Forget, EmbedderInv, NoCall, Placing
      <3> QED BY <2>1, <2>4, <3>1, <3>2, CountedFrame
    <2>5. ASSUME UNCHANGED embedderVars PROVE Counted'
      BY <2>1, <2>5, CountedFrame DEF embedderVars
    <2>6. ASSUME NEW d \in Docs PROVE d \in Callers
      BY QuerierAssumption
    <2>7. CASE \E d \in Docs : Ingest(d)
      BY <2>3, <2>6, <2>7 DEF Ingest
    <2>8. CASE \E q \in Questions : Ask(q)
      BY <2>3, <2>8, QuerierAssumption DEF Ask
    <2>9. CASE Work
      <3>1. ASSUME NEW d \in Docs, Embedded(d) PROVE Counted'
        BY <2>4, <2>6, <3>1 DEF Embedded
      <3>2. ASSUME NEW d \in Docs, StoreChunk(d) \/ ChunkRefused(d) \/ DatabaseFails(d) \/ CommitChunks(d)
            PROVE  UNCHANGED embedderVars
        BY <3>2 DEF StoreChunk, ChunkRefused, DatabaseFails, CommitChunks
      <3> QED BY <2>2, <2>5, <2>9, <3>1, <3>2 DEF Work
    <2>10. CASE NoAnswer \/ Answer
      <3>1. Returned(Querier) /\ Forget(Querier) /\ UNCHANGED <<cache, cacheSize, raced>>
        <4>1. CASE NoAnswer
          BY <4>1 DEF NoAnswer
        <4>2. CASE Answer
          BY <4>2 DEF Answer, Returned
        <4> QED BY <2>10, <4>1, <4>2
      <3> QED BY <2>4, <3>1, QuerierAssumption
    <2>11. CASE Read \/ Removal \/ Done \/ UNCHANGED vars
      <3>1. UNCHANGED embedderVars
        BY <2>11 DEF Read, Removal, Other, Done, vars
      <3> QED BY <2>5, <3>1
    <2> QED BY <2>7, <2>8, <2>9, <2>10, <2>11 DEF Next
  <1>3. Counted => CacheBounded
    BY DEF Counted, CacheBounded, InCache, Counting, Placing
  <1> QED BY <1>1, <1>2, <1>3, Invariance, PTL DEF Spec
====
