---- MODULE HTTPEmbedder ----
(***************************************************************************)
(* HTTPEmbedder.Embed of internal/rag/embedder.go, called by concurrent    *)
(* goroutines that share its cache.  The embedding of a text is the text   *)
(* itself, so that one delivered in the wrong place is seen; Empty is the  *)
(* nil embedding of a text that the provider left out of a good answer.    *)
(*                                                                         *)
(* The cache is a sync.Map, its counter a plain int: cacheSize is compared,*)
(* read and written in separate steps, and increments get lost.            *)
(*                                                                         *)
(* external: the provider (ollama or OpenAI).  It answers a batch, in part *)
(* or in full, or fails it; the HTTP client's timeout is a failure.  It is *)
(* trusted to number what it sends within the batch: the code does not     *)
(* look, and would panic at any other index.                               *)
(***************************************************************************)
EXTENDS Naturals, Sequences, FiniteSets

CONSTANTS
    Callers,        \* goroutines that call Embed
    Texts,          \* the texts to embed
    BatchSize,      \* config.BatchSize, after the defaults
    MaxCache,       \* maxCache (10000 in the code)
    Empty           \* no embedding

ASSUME BatchSizeAssumption == BatchSize \in Nat \ {0}
ASSUME MaxCacheAssumption == MaxCache \in Nat
ASSUME EmptyAssumption == Empty \notin Texts

VARIABLES
    cache,          \* the cached texts with their embeddings: a set of pairs
    cacheSize,      \* what the counter says
    call,           \* the call of each caller
    raced,          \* auxiliary: two callers were in cacheEmbedding together
    leftOut         \* auxiliary: texts the provider has left out

embedderVars == <<cache, cacheSize, call, raced, leftOut>>

Cached == {pair[1] : pair \in cache}

\* pc: "idle", "lookup", "request", "check", "put", "read", "write", "ok", "error".
\* uncached: indices of the texts to ask for; start: those done; answer: the
\* current batch's embeddings; k: the one being cached; size: cacheSize as read.
NoCall == [pc |-> "idle", texts |-> <<>>, results |-> <<>>, uncached |-> <<>>,
           start |-> 0, answer |-> <<>>, k |-> 0, size |-> 0]

EmbedderInit ==
    /\ cache = {}
    /\ cacheSize = 0
    /\ call = [c \in Callers |-> NoCall]
    /\ raced = FALSE
    /\ leftOut = {}

InCache(c) == call[c].pc \in {"check", "put", "read", "write"}

----
\* Embed is called.  Without texts it returns at once.
Embed(c, texts) ==
    /\ call[c].pc = "idle"
    /\ call' = [call EXCEPT ![c] =
                   [NoCall EXCEPT !.pc = IF texts = <<>> THEN "ok" ELSE "lookup",
                                  !.texts = texts]]
    /\ UNCHANGED <<cache, cacheSize, raced, leftOut>>

\* Mutant: misses get no place in the results.
HitsOnly(results, found) == IF found = Empty THEN results ELSE Append(results, found)

Filled(results, found) == Append(results, found)

\* The next text is looked up; results fills up as the texts are gone through.
Lookup(c) ==
    /\ call[c].pc = "lookup"
    /\ LET i == Len(call[c].results) + 1
           text == call[c].texts[i]
           hit == text \in Cached
           todo == IF hit THEN call[c].uncached ELSE Append(call[c].uncached, i)
           found == IF hit THEN (CHOOSE pair \in cache : pair[1] = text)[2] ELSE Empty
       IN  call' = [call EXCEPT ![c] =
                      [@ EXCEPT !.results = Filled(call[c].results, found),
                                !.uncached = todo,
                                !.pc = IF i < Len(call[c].texts) THEN "lookup"
                                       ELSE IF todo = <<>> THEN "ok" ELSE "request"]]
    /\ UNCHANGED <<cache, cacheSize, raced, leftOut>>

\* Mutant: the offset of the batch is forgotten.
FirstBatchIndex(c, i) == call[c].uncached[i]

\* uncachedIndices[start+i].
Index(c, i) == call[c].uncached[call[c].start + i]

BatchOf(c) ==
    LET rest == Len(call[c].uncached) - call[c].start
    IN  1..(IF rest < BatchSize THEN rest ELSE BatchSize)

TextOfBatch(c, i) == call[c].texts[call[c].uncached[call[c].start + i]]

\* What data a batch may get: some of its positions in any order, and some twice.
OrdersOf(c) == UNION {[1..n -> BatchOf(c)] : n \in 0..Cardinality(BatchOf(c))}

\* Mutant: the data are taken as they arrive.
AsArrived(c, data) ==
    [i \in BatchOf(c) |-> IF i \in DOMAIN data THEN TextOfBatch(c, data[i]) ELSE Empty]

\* embeddings[data.Index] = data.Embedding: what comes twice is written twice.
Placed(c, data) ==
    [i \in BatchOf(c) |-> IF \E j \in DOMAIN data : data[j] = i THEN TextOfBatch(c, i) ELSE Empty]

\* embedOllama (one request for each text) or embedOpenAI (one for the batch): the
\* data answer some of the texts, those of embedOpenAI in any order.
Answered(c) ==
    /\ call[c].pc = "request"
    /\ \E data \in OrdersOf(c) :
          /\ call' = [call EXCEPT ![c] = [@ EXCEPT !.pc = "check", !.k = 1,
                                                  !.answer = Placed(c, data)]]
          /\ leftOut' = leftOut \cup
                {TextOfBatch(c, i) : i \in BatchOf(c) \ {data[j] : j \in DOMAIN data}}
    /\ raced' = (raced \/ \E d \in Callers \ {c} : InCache(d))
    /\ UNCHANGED <<cache, cacheSize>>

\* The batch fails, and the call with it; what earlier batches cached stays.
RequestFails(c) ==
    /\ call[c].pc = "request"
    /\ call' = [call EXCEPT ![c] = [NoCall EXCEPT !.pc = "error"]]
    /\ UNCHANGED <<cache, cacheSize, raced, leftOut>>

\* Mutant: start is never moved on.
SameBatchAgain(c) ==
    IF call[c].k < Len(call[c].answer)
    THEN [call[c] EXCEPT !.pc = "check", !.k = @ + 1]
    ELSE [call[c] EXCEPT !.pc = "request"]

\* On to the next embedding of the batch, to the next batch, or back to the caller.
Advanced(c) ==
    IF call[c].k < Len(call[c].answer)
    THEN [call[c] EXCEPT !.pc = "check", !.k = @ + 1]
    ELSE LET start == call[c].start + BatchSize
         IN  IF start < Len(call[c].uncached)
             THEN [call[c] EXCEPT !.pc = "request", !.start = start, !.answer = <<>>, !.k = 0]
             ELSE [NoCall EXCEPT !.pc = "ok", !.results = call[c].results]

\* Mutant: off by one.
FullBeyond == cacheSize > MaxCache

Full == cacheSize >= MaxCache

\* The result is put in its place; cacheEmbedding returns if the cache is full.
Check(c) ==
    /\ call[c].pc = "check"
    /\ LET i == Index(c, call[c].k)
           next == IF Full THEN Advanced(c) ELSE [call[c] EXCEPT !.pc = "put"]
       IN  call' = [call EXCEPT ![c] = [next EXCEPT !.results[i] = call[c].answer[call[c].k]]]
    /\ UNCHANGED <<cache, cacheSize, raced, leftOut>>

\* cache.Store(batch[i], embedding): also when the embedding is nil.
Put(c) ==
    /\ call[c].pc = "put"
    /\ LET text == TextOfBatch(c, call[c].k)
       IN  cache' = {pair \in cache : pair[1] # text} \cup {<<text, call[c].answer[call[c].k]>>}
    /\ call' = [call EXCEPT ![c].pc = "read"]
    /\ UNCHANGED <<cacheSize, raced, leftOut>>

\* cacheSize++, read and written.
ReadSize(c) ==
    /\ call[c].pc = "read"
    /\ call' = [call EXCEPT ![c].pc = "write", ![c].size = cacheSize]
    /\ UNCHANGED <<cache, cacheSize, raced, leftOut>>

WriteSize(c) ==
    /\ call[c].pc = "write"
    /\ cacheSize' = call[c].size + 1
    /\ call' = [call EXCEPT ![c] = [Advanced(c) EXCEPT !.size = 0]]
    /\ UNCHANGED <<cache, raced, leftOut>>

EmbedStep(c) ==
    \/ Lookup(c) \/ Answered(c) \/ RequestFails(c) \/ Check(c) \/ Put(c)
    \/ ReadSize(c) \/ WriteSize(c)

\* Embed returns: the caller has the results and goes on.
Returned(c) == call[c].pc \in {"ok", "error"}
Forget(c) == call' = [call EXCEPT ![c] = NoCall]
====
