# A TLA+ model of kubeanalysis

kubeanalysis analyses Kubernetes clusters: Temporal workflows collect the state of a
cluster, look for security and performance findings, ask a knowledge base and a language
model about them, and send alerts. This directory holds TLA+ modules of the parts whose
correctness depends on the order in which things happen, the TLC configurations that check
them on small instances, and proofs, checked by TLAPS, that the important results hold for
every value of the parameters. Paths below are relative to `src/`.

1. [The system](#the-system)
2. [Modules and code](#modules-and-code)
3. [What the runs check](#what-the-runs-check)
4. [Bounds](#bounds)
5. [Fairness](#fairness)
6. [What is proved](#what-is-proved)
7. [Where code and comments disagree](#where-code-and-comments-disagree)
8. [What is not modelled](#what-is-not-modelled)
9. [Plan](#plan)

To run a check: `tlc -config AnalysisWorkflow.cfg MCAnalysisWorkflow`; to check the proofs of
a module: `tlapm AnalysisWorkflow_proofs.tla`.

## The system

| component | state it keeps | operations | talks to |
|---|---|---|---|
| cluster analysis workflow (`internal/temporal/workflows.go`, `K8sAnalysisWorkflow`) | futures of its activities, cluster state, three reports, the result | collect; three pipelines in parallel; RAG; LLM; alert; store | activities through the Temporal service; a client starts and cancels it |
| event analysis workflow (same file) | the same on a smaller scale, plus the triage | triage; collect and analyse if needed; alert | as above |
| monitoring workflow (same file) | the interval loop; a child execution | check, run a child analysis, sleep | the analysis workflow, through the service |
| security and performance scan (same file) | futures of two or three activities | collect, analyse | activities; nothing starts them |
| activities (`activities.go`) | none, apart from the engine they are given | one per step of the workflows | RAG engine, LLM |
| worker and client (`worker.go`) | connection, worker | start, stop; start an analysis, an event analysis or a monitoring, cancel, get the result | the Temporal service |
| rate limiter (`internal/observability/ratelimit.go`) | map of token buckets, default bucket, cleanup goroutine | Allow, Wait, AllowKey, WaitKey, Close | HTTP middleware, metrics |
| HTTP server (`internal/server/server.go`) | running flag, hooks, two channels | Start, StartWithGracefulShutdown, Shutdown, Stop, Done | health manager, `http.Server` |
| health manager (`internal/observability/health.go`) | checkers, their last results, readiness flag | register, SetReady, CheckHealth, two probes | HTTP server, background loop |
| RAG engine (`internal/rag/engine.go`) | a vector store, an embedder, sources | ingest, query, delete, clear, count | store, embedder, splitter |
| in-memory vector store (`vectorstore.go`) | chunks by ID, IDs by namespace | Upsert, Search, Delete, Clear, Count | RAG engine |
| PostgreSQL vector store (`vectorstore_postgres.go`) | one table, a namespace column beside the metadata | Upsert in a transaction, Search with filters, Delete, Clear, Count | RAG engine |
| embedder (`embedder.go`) | a cache of embeddings and its counter, shared by all callers | Embed: look up, ask in batches, cache | the provider over HTTP |
| text splitters (`splitter.go`) | configuration | SplitText, Split with positions | RAG engine |
| knowledge base (`knowledge.go`) | none; constant documents | ingest four kinds of knowledge, query them with filters | RAG engine |
| collector (`internal/k8s/client.go`) | none | ten List calls, filter, convert; events | Kubernetes API |
| analyzers (`internal/analyzer`) | configuration | rules over cluster state, metrics and events | collector |
| LLM client and analyzer (`internal/llm`, `internal/analyzer/llm.go`) | none | prompt, ask, parse | LLM service |
| configuration, command line, metrics, logging | configuration values; counters | load; parse; count; print | everything |

The server, the rate limiter and the health manager are library code: the command line does
not use them yet. Their contracts are those of their exported functions, which are written
to be called by any number of goroutines, so they are modelled under exactly that
assumption.

### What is hard here

* **Activities are executed at least once.** An attempt may fail before or after its effect,
  its worker may die, or the service may give it up while it is still running; its result
  is then ignored but its effects are not. Sending an alert is not idempotent.
* **Cancellation comes at any moment**, between any two `Get`s of the workflow, and the code
  logs the errors it causes.
* **Three places count critical findings** (the decision of the workflow, the LLM activity,
  the alert activity), from different fields and with each report possibly missing.
* **Two retry policies in one workflow**: the event analysis replaces its activity options
  for the deep work, and with them the limit on the attempts.
* **A bucket is used after the limiter's lock is released**, while the cleanup loop may drop it.
* **A shutdown has many initiators** (a signal, `Stop`, another goroutine), and after the
  running flag everything interleaves: readiness, hooks, timeout, requests, a listener that
  gets to run late.
* **Ingestion holds no lock** between splitting a document and storing its chunks, can stop
  in the middle of a batch, and is retried with new chunk IDs. The store keeps two maps that
  must agree.
* **A shared cache in front of an unreliable provider.** Batches cover the texts the cache
  missed, answers arrive in any order and may leave texts out, and what they leave out is
  cached too. The counter of the cache is incremented without synchronisation.
* **A database that may fail at every statement**, and after the commit before the caller
  hears of it; an upsert of a chunk leaves its namespace column alone.
* **Executions, not calls.** A monitoring outlives its worker, its children and its callers;
  the IDs of executions hold the current second; a child outlives its parent for a moment.
* **The cluster changes while it is collected**, in ten calls one after the other, some
  filtered by the server, some by the client, some not at all.
* **Splits are merged, carried over and split again**, and the chunks are then searched for in
  the document they were rebuilt from.

`PROJECT.json` lists each of these, and the smaller ones, at its line of code, with the
properties that would catch it going wrong.

### What makes each component correct

* *Workflows*: alerts only for what is really in the cluster, at most as many as the retry
  policy allows, none missing when a completed analysis lists a critical finding; nothing
  starts after a cancellation; the execution closes.
* *Rate limiter*: a bucket never gives out more than burst plus rate times time; requests for
  a key share a bucket; a refused waiter lost its token to somebody; every call returns.
* *Server*: hooks run once per start; it drains unready; a nil result means drained; a stop
  leads to an end.
* *Store and engine*: the two maps agree; a stored document stays until removed; together
  they behave as one dictionary.
* *Monitoring*: a cluster is monitored once at a time, by one analysis at a time; only a
  cancellation ends it, and then it does end, with its analysis; nothing else stops it.
* *Ingestion*: every row of the table has the embedding of its own text, a document is there
  whole or not at all, and a query finds what is stored. Seen from outside, documents are stored at
  once and questions answered from the table of a single moment.
* *Collector and analyzers*: an offence that lasts is reported, and what is reported was so.
* *Splitters*: no letter is lost, no chunk joins what was apart, sizes are bounded, positions
  are where the chunks are.

## Modules and code

`PROJECT.json` maps every definition to the lines it models.

**`TemporalActivities`** is what the workflows rely on from the Temporal service: the life of
one activity as a record `[state, attempt]`, and its transitions (scheduled, started,
succeeded, retried or failed, cancelled). Temporal is not in the repository; this is taken
from how `workflows.go` uses it: the retry policies, activity timeouts, cancellable contexts.

**`ClusterAnalysis`** holds the activities of `activities.go` as pure operators. A cluster is
a set of nodes and a set of pods with the attributes the rules look at, a finding is the rule
that fired with its severity and its object; text is left out. Percentages are compared without
division, and a capacity of 0 behaves as the floating-point quotient does (NaN or +Inf).

**`AnalysisWorkflow`** is one execution of `K8sAnalysisWorkflow`. `pc` is the `Get` the code
waits for. Each action from `Start` to `StoreReturned` is what the code does between two
`Get`s: deterministic, so one step. `StartAttempt`, `CompleteAttempt`, `FailAttempt`,
`TimeOut` are attempts of an activity; `late` counts attempts of the alert that the service
has given up and that may still emit (`LateAttempt`), even after the workflow has closed. For
other activities a timeout is a `FailAttempt`, because a late attempt of theirs changes
nothing that anybody sees. `Cancel` is `Client.CancelWorkflow`. The retry policy names a
non-retryable error type, which no activity ever raises.

**`AnalysisContract`** says what an analysis promises to who started it: it decides once,
closes once, completes exactly if it has decided, and sends alerts only after a critical decision,
within a limit. `AnalysisWorkflow` implements it (`KeepsContract`); the mapping derives the
decision from the status and the reports.

**`EventWorkflow`** is `EventAnalysisWorkflow`, over the same two modules, with
`MaximumAttempts` as a function of the activity: 2 for triage and alert, unlimited (0) for
the deep work.

**`RateLimiter`** models `TokenBucket`, `RateLimiter`, the calls and the cleanup loop. A
bucket is an object in a heap (`bucket`), the map (`buckets`) refers to it, and a client may
hold a reference to a bucket that the map has lost. A mutex held over a whole operation
without calls to others makes that operation one step; where a lock is released and taken
again there is a step for each part (`Lookup`, `Create`, `Take`, `Measure`, `Wake`; `Visit`,
`Delete`). Tokens are counted in fractions so that the fractional refill is exact.

**`Server`** models the life cycle with any number of goroutines calling `Start`, `Shutdown`
and `Stop`, and one in `StartWithGracefulShutdown`. The mutex guards the running flag only,
so `BeginShutdown` is one step and the rest is one step per effect. `SetReady` waits for a
health check that holds the health manager's mutex. `ListenAndServe` runs in a goroutine
of its own, at any later time. `http.Server` is external: its `Shutdown` closes
the listener for ever and waits for requests or its context.

**`VectorStore`** is the promise of the interface of that name in `internal/rag/types.go`: a
dictionary from chunk IDs to namespaces, with counts. **`RagEngine`** is the engine over the in-memory store
with its two maps, and implements `VectorStore` under the mapping `content <- chunks`
(`ImplementsVectorStore`).

**`Monitoring`** is `ContinuousMonitoringWorkflow` together with the client and with the executions
the Temporal service keeps. An execution is a record with its ID, its status, its parent, and, for a
monitoring, where its code is (`check`, `child`, `sleep`). The service is external: at most one
running execution per ID, children terminated a little after their parent has closed, workflow code
only while a worker is up. An ID holds a prefix, a cluster and "now" or "past": only the current
second can be met again, so time needs no bound. A request also has a *kind*, which stands for the
type and the namespaces of an `AnalysisInput`; the code does not put it into the ID. `Start` is
`StartAnalysis` and `StartEventAnalysis`, which return the running execution if there is one, with
the kind that it was started with (`input`); `StartContinuousMonitoring` leaves a running monitoring
its configuration in the same way. `Pool` says where executions of each prefix are kept, and
`GetWorkflowResult` forgets those nobody looks at. What an analysis does is left to
`AnalysisWorkflow`: here it closes, well or not, or its 15 minutes are over.

**`HTTPEmbedder`**, **`PostgresStore`** and **`KnowledgeBase`** are the parts of **`Ingestion`**,
which composes the engine over them: goroutines ingest documents and one asks. In
`HTTPEmbedder` the embedding of a text is the text itself, so that one in the wrong place is
seen, and `Empty` is the nil embedding of a text the provider left out. `Lookup` goes
through the texts of a call, `Answered` takes an answer in any order and possibly
incomplete, and `Check`, `Put`, `ReadSize`, `WriteSize` are the four steps of
`cacheEmbedding`, because the map is a `sync.Map` and the counter a plain `int`. Once two
callers are in there together (`raced`), the lost increments are kept.
`PostgresStore` has the table (`rows`) and what each open transaction has written (`tx`);
PostgreSQL itself, external, is READ COMMITTED with row locks. `KnowledgeBase` holds the
metadata that the ingestions write and the filters that the queries use. In `Ingestion`,
`StoreChunk`, `ChunkRefused`, `DatabaseFails` and `CommitChunks` are `Upsert` in its
transaction; `Removal` is `Delete`, `Clear`, or an upsert of a stored chunk with other
metadata (`Relabels`), of another namespace only if `MayMove`; `Ask` to `Read` are
`QueryWithFilters`. The provider may leave texts out and send others twice, but is trusted to number
them within the batch: the code would panic at any other index (`embedder.go:246-247`).

**`DocumentStore`** is what those who ingest and ask may rely on, without embedder, batches, cache
and transactions: `Store` puts all chunks of a document in at once, each with the embedding of its
own text, `Answer` reads a single state, and chunks leave one by one or with the namespace that
their metadata say. A caller that is told of a success is right; one that is told of a failure may
be wrong, when the commit was not heard of. `Ingestion` implements it (`ImplementsDocumentStore`) as
long as `MayMove = FALSE`: the commit is `Store`, the search is `Answer`, everything before them is
not seen. What has been written in an open transaction and what is cached do not appear in it.

**`Collector`** makes the List calls of `CollectClusterState` one after the other (`Collect`,
`ListFails`) while `Change` replaces, adds and deletes objects between them, and reads the events.
`Convert` keeps what the analyzers look at; two pointers that it dereferences, the replicas of a
deployment and the protocol of a policy's port (`client.go:431`, `485`, `504`), are always set by
the API server, which is external. The objects have the attributes that **`Analyzers`** looks at,
which holds every rule of the security and the performance analyzer as an operator. A finding is a
rule, a severity and an object. What lasted (`steady`), what was ever there (`seen`) and what was
without a policy (`bare`) are auxiliary.

**`Splitter`** is both splitters and `Split`'s search for the chunks, one turn of a loop at a
time. The recursive one keeps its calls in `calls`, the innermost last: what a call has not split
yet, its good splits, and the large one it will hand on. `TakeSplit`, `EndSplits`, `MergeSplit`,
`EndMerge` and `Descend` are the loops of `splitTextRecursive` and `mergeSplits`, `TakeSentence` and
`EndSentences` those of the sentence splitter, `PlaceChunk` that of `Split`; the slice that panics is
an action (`Panic`). What is only cut out of the document is a span of positions. A text that is put
together again is a sequence of characters, each with the position it comes from (auxiliary), so
that what is lost, repeated or joined can be told.

The `MC…` modules give the instances that a configuration cannot write down; `…_proofs`
modules hold the theorems. Definitions marked "Mutant" in a comment are variants of the code
with a plausible mistake; nothing refers to them. They show which mistake each property
would find.

## What the runs check

| run | states | what it shows |
|---|---|---|
| `analysis` | 26 thousand | Every analysis type over four clusters. `AlertsSound`: no false alarm, judged by the cluster itself. `AlertsBounded`: at most `MaxAttempts` alerts, late attempts included. `CriticalNotMissed`: decision, list and alert count agree. `AlertMatchesSummary`: alert and executive summary never contradict each other. `NothingStartsOnceCancelled`, `Terminates`, and the contract. |
| `event` | 476 | `EventAlertsSound`; `CollectedCriticalAlerted`: what was collected is not lost on the way to the alert; `ClosesOrRetriesForever`: endless retries of the deep work are the only way not to close; `CancelEnds`: a cancellation ends those too. |
| `rate_limiter` | 101 thousand | `BucketBound` over the life of each bucket; `RefusedByAnother`; `SharedUntilDropped`: the double-check works; `CallsReturn`: no deadlock with the cleanup. |
| `server` | 43 thousand | `HooksRunOncePerStart`, `UnreadyWhileDraining`, `NilMeansDrained`, `StopEnds`, whatever hooks and requests do. |
| `rag_store` | 48 thousand | `IndexExact`, `StoredUntilRemoved`, and the refinement of `VectorStore`, as long as no chunk is moved. |
| `monitoring` | 162 thousand | `OneAtATime`: one monitoring of a cluster, one analysis by it, and no execution shared but by requests about the same cluster in the same second; they may be of different kinds, and what that leads to is [shown below](#where-code-and-comments-disagree). `EndsOnlyIfCancelled`. `MonitoringGoesOn`: it neither waits nor sleeps for ever, though analyses may never close and workers crash. `CancelEnds`: monitoring and analysis end once it is cancelled. |
| `ingestion` | 345 thousand | `StoreConsistent`: each row has the embedding of its own text, documents are there whole or not at all, what is stored stays until removed, a text is refused only after an incomplete answer. `CacheBounded`, until two callers meet in `cacheEmbedding`. `QueryFindsStored`: what was there all the time is found, and nothing that is not, at that moment, of what was asked about. The refinement of `DocumentStore`. `IngestionsEnd`. |
| `collector` | 111 thousand | `FindingsJustified`: NET-001 only for a namespace that had no policy at some moment, once each; pod findings in the namespaces asked for. `OffencesReported`: what lasts from the first list to the last is reported, and so is a repeated recent warning. |
| `splitter` | 246 thousand | `ChunksFaithful`, `SizeBound`: a chunk exceeds its size, which it does ([see below](#where-code-and-comments-disagree)), by the overlap and a separator at most. `PositionsExact`, for documents without repeated separators and configurations without overlap. |

Three more runs each check one sentence of a comment that the code does not keep: see
[below](#where-code-and-comments-disagree).

`CriticalNotMissed` leaves critical *predictions* out on purpose: they make the workflow run
the alert activity, which does not count them. Nothing in the repository says which of the
two is meant. `UnreadyWhileDraining` assumes that no `Start` was under way together with the
`Shutdown`: both set the flag after releasing the mutex, and the later one wins. The race itself is
therefore in the model, but no property speaks of it. `CallsReturn` sees a limiter mutex that is
not released, not a circle through a bucket's own mutex, which no operation holds while it calls out.

## Bounds

* `analysis`: `MaxAttempts = 3`, the code's value. The clusters fire each critical rule
  alone, high findings without critical ones, and none; one is what the simulated collector
  returns. The types are the four of `types.go` and an unknown one.
* `event`: `QuickAttempts = 2`, the code's value; one reason per row of the triage table.
* `rate_limiter`: two clients on one key, a burst of 1 and a token every two ticks: enough
  for two clients to race for one token, for a waiter to lose its token, for the cleanup to
  find a bucket full while a client holds it. `NumBuckets` is as many buckets as can be
  reachable when one is made, so allocation never blocks. Calls start up to `MaxTime = 1`;
  waiting goes on as long as it takes. Cleanup may start at any time, more often than the
  ticker allows; the properties do not depend on when.
* `server`: the runner, two more goroutines and one hook cover two Shutdowns against a Start,
  and a second start after a shutdown. `MaxRequests = 1`: the properties only ask whether
  there is a request.
* `rag_store`: two documents, three chunk IDs, two namespaces: a document of two chunks, its
  partial failure and retry, another document in the same or the other namespace. IDs are
  UUIDs, so each is given out once.
* `monitoring`: one cluster, two callers who ask for analyses of different kinds, and slots for a monitoring
  and its successor, for an analysis of each, and for two analyses of the callers: enough for a
  monitoring to be started again while the child of the last one is still to be terminated,
  for a caller to meet an execution of its own second, and for two executions of one name
  in different seconds. Steps, intervals, crashes and time are not bounded.
* `ingestion`: two documents that share a text, one of which has it twice and needs two batches of
  `BatchSize = 2`; a cache of one text, so that hits and misses mix and the bound is met; one
  question about that shared text, on performance, which the first document, stored by a caller,
  is about until its chunks are upserted again as a matter of security, and the other, an
  incident, is not; one removal; `TopK = 1` so that there are more rows than the question asks
  for. Failures are not bounded. `MayMove = FALSE`, here and in the theorems about namespaces:
  what happens otherwise is shown by `IngestionMove.cfg`.
* `collector`: one object or two of each kind, with a good and a bad variant where a rule tells
  them apart, five requests for namespaces, `MaxChanges = 2` changes between the lists: a
  policy is exchanged between two namespaces while pods are filtered by the client.
* `splitter`: every document of up to five pieces, a piece being a letter or a separator, and
  four longer ones, under six configurations with sizes of 2 to 4 and overlaps of 0 to 2, one
  of them capped by the constructor. A chunk of two merged pieces, an overlap carried over and
  a piece that is itself too large all occur at these sizes.

Of these bounds the theorems below depend on none; `MaxQueries` and `MaxRemovals` are
constants of theirs like all others.

## Fairness

* *Workflows*: workflow tasks run, some worker polls the queue, and an attempt ends one way
  or the other; the activity timeouts in the code guarantee the last. Nothing obliges an
  attempt to succeed, a late attempt to end, or a client to cancel.
* *Rate limiter*: goroutines run and time passes. Strong fairness for clients stands for Go's
  mutexes, which hand the lock to a waiter that has been starving. No context need be done.
* *Server*: goroutines run, the timer fires, a call of `Stop` wakes the runner, a health check
  ends (each has a context of 5 seconds; a checker that ignores it is outside the model).
  Hooks, requests and `ListenAndServe` get no fairness: they may hang.
* *Monitoring*: a worker that is down is started again, and in the end gets to every task:
  strong fairness of a monitoring's steps, because the worker may go down again and again but
  the service hands a task out until it is done. Timers of the service fire: the interval, and
  either the timeout of a child or the termination of an orphan. Nobody needs to start,
  cancel or look at anything, and no analysis needs to close by itself.
* *Ingestion*: as long as a goroutine can run, one does: requests end by the timeout of the
  HTTP client, statements by the database. Which one runs is open; nobody needs to ask or
  remove.
* Collector and splitter have safety properties only.

## What is proved

Each theorem holds for every value of the constants that satisfies the assumptions named in the
modules (`…Assumption`: sorts of the constants, that a marker like `Nil` or `Absent` is none of the
values it stands beside, that sets of objects are finite), which TLC evaluates on the instances.
What a theorem needs beyond them is in its own ASSUME: `MayMove = FALSE` for the in-memory store and
for the namespaces of the table, `Rate * WaitTime >= Token` for the lone waiter, `FiltersFit` for
queries.

**Alerts of an analysis** (`AnalysisWorkflow_proofs`). `AlertsBounded` is not inductive: an
alert may come from the running attempt, one still to start, or one given up. The invariant
`IInv` adds up alerts emitted, late attempts and attempts used, and says that
the alert is scheduled only where the decision was critical. From it: `AlertsAreBounded`, and
`WorkflowKeepsContract`, the refinement, action by action. `NothingStarts` shows that once
cancelled nothing is pending and nothing becomes so. `Data` ties each report to the collected
state and the requested type, which gives `TypeCorrect` and, with the fact that a positive
alert count comes from a real pod, `AlertsAreSound`. `Result` and `Alerted` relate list, summary
and alert: the list and the summary are compiled from the reports and stay, and an alert
activity that has succeeded has emitted what the reports count. From them
`AlertAndSummaryAgree` and, with the finiteness of a cluster's pods (a cardinality is positive
exactly if there is a critical finding), `NothingCriticalMissed`.

**Event workflow** (`EventWorkflow_proofs`). `IInv` has four parts: `Shape` (types, and
attempts counted below the limit), `Flow` (one activity at a time, in program order, deep work
only for events that call for it), `Reported` (reports are those of the collected state, and
both analyses are done before the alert) and `Account` (alerts emitted against attempts used).
From it `TypeCorrect`, `EventAlertsAreSound` and `CollectedIsAlerted`.

**Monitoring** (`Monitoring_proofs`), for any clusters, callers, requests and slots. That a cluster
is monitored once follows from `OneOfAnId` (an ID that can still be met has one execution) and
`Placed` (only monitorings have an ID without a second). That analyses do not overlap needs
`Family`: a child that is no orphan is the one its parent waits for. `Awaited` ties a caller to an
execution about what it asked about, started when it asked. Nothing is proved of the kind of the
analysis, because the code gives a caller another's (`AnswersItsRequest` is false). Each action
keeps all of these; `OnlyOneAtATime` and `OnlyCancelledMonitoringsEnd` follow.

**Ingestion** (`Ingestion_proofs`), for any documents, batch size, cache bound and number of
goroutines. A call of the embedder is good (`GoodCall`) if each result is the text's own
embedding, or nil because the provider left the text out, or its place is among those still to be
filled; the cache is good in the same sense. Every step of `Embed` keeps this, with batches that
begin and end anywhere in the uncached texts. With what is embedded, what the open transaction
holds and which rows are there, `IInv` is inductive and gives `IngestionConsistent`. With `Labelled`
(what a transaction has written has the metadata of its document) it gives
`IngestionImplementsDocumentStore`, action by action, and `ColumnsStayExact`: as long as no chunk is
upserted again with another namespace, a row's column is the namespace its metadata say
(`InNamespace`), so `Clear` removes what is in there; and the embedding searched for is the question's own,
so what is found is what the question asks for in the table of that moment.
`QueriesFind` adds that the rows that match are, of the text asked for, exactly those of what the
question is about, so that nothing else is found, and that the rows expected since the query began are
among them. Its hypothesis is that a filter lets pass what the question is about and nothing else;
`KnowledgeBaseFits` shows this equivalence for the filters of the knowledge base over all that it ingests.
`CacheKeepsToBound` needs to know where in `cacheEmbedding` the one caller is (`Counted`): between
the store and the counter's increment the cache may be one ahead of the counter, but only a
caller that has seen room gets there.

**Rate limiter** (`RateLimiter_proofs`). A bucket is *sound* if its tokens plus what it has
given out do not exceed burst plus rate times the age at its last refill; each operation on
a bucket keeps this (`RefillSound`, `AllowSound`), hence `BucketsBounded`. `RequestsShare`
adds that a client's bucket is the map's one until the key is dropped. `LoneWaiterServed`
follows a waiter: as long as nobody takes a token from its bucket, what is there plus what will be
earned until it wakes is a token. It needs `Rate * WaitTime >= Token`: the wait is rounded
down, and at a rate that does not divide a second a lone waiter can be refused. The
assumption is stated in the theorem; the run's rate satisfies it.

**Server** (`Server_proofs`). `HooksRunOnce` counts: starts are hooks' runs, plus shutdowns
on their way to the hooks, plus one if running. `DrainsUnready` needs that, without overlap,
nobody starts while somebody shuts down. `NilDrains` needs that the http server is down, and does
not listen, from `httpServer.Shutdown` on.

**Store** (`Rag_proofs`, for `MayMove = FALSE`). `IndexIsExact` rests on chunk IDs
being used once: no ID of a batch that is still to be stored is in the store, and no two
documents share one (`FreshBatches`). From it `CountIsCorrect`, `StoredStays` and the refinement
`EngineImplementsStore`; `TypeCorrect` is the type invariant, which
no run needs to check any more. Without the assumption the first
is false, as run `rag_move` shows.

**Collector and analyzers** (`Collector_proofs`), for any objects, requests and number of
changes. `Collected` says what a list is worth once it has been read: the conversion of some of
the kind's objects (`Covers`) that holds everything that lasted and is in scope, and nothing that was
never there; for policies, that a namespace without one in the list was without one at some moment.
It refers to what lasts (`steady`), and every later change only shrinks that. The rest are lemmas about
the rules: each rule of `Analyzers` is monotone, so that what the lasting objects offend against is
found in the larger state; NET-001, which is not, is reported by the first pod of its
namespace and by no other. From these `FindingsAreJustified` and `OffencesAreReported`.

**Splitters** (`Rag_proofs`), for every document and configuration. The invariant `SplitterInv`
follows the text that is still to come: what the calls hold, from the innermost outward, is a
sequence of spans in the document's order with no letter between one and the next (`CallsOK`), so
there is one position, the `Mark`, with everything before it done and everything behind it
still to be split. `Behind` says what done means: each letter before the mark is in a text or in the
one that is being built, and that one reaches from any of its positions up to the mark (`Reaches`),
which the overlap keeps because it is a suffix. Each text is bounded and has its letters in order
and without gaps (`TextOK`). From it `ChunksAreFaithful` and `SizeIsBounded`. `PositionsAreExact` needs more,
for regular documents: good splits of one call have exactly its separator between them
(`Adjacent`), because separators tried before do not occur any more (`Used`); hence a merged text is a
piece of the document, letter for letter (`Exact`), the search from the end of the last chunk
finds it, and finds it nowhere earlier, because nothing but separators is in between and a text begins
with a letter.

**Scores** (at the end of `AnalysisWorkflow_proofs`), for clusters of any size: scores are between 0
and 100, a high or critical finding is always visible in them, and a report rated LOW hides at
most one critical finding.

*Two notes on method.* Where the code looks for the first or the last of something, the proofs need
that a set of numbers has a least element: that is the well-foundedness of `<` on the naturals, with the
relation written out (`LeastOf`). What a loop computes is never proved by induction over its
input, which the provers cannot do, but as an invariant of a state machine that takes one turn of
the loop at a time; this is why `Splitter` has no recursive operator.

*Only model-checked*: liveness (`Terminates`, `ClosesOrRetriesForever`, `CancelEnds`,
`CallsReturn`, `StopEnds`, `MonitoringGoesOn`, `IngestionsEnd`), because liveness under fairness
is beyond the prover. Everything else that a passing run checks is proved.

## Where code and comments disagree

| run | sentence | what the code does |
|---|---|---|
| `rag_move` | "Count returns the number of chunks in the store." (`types.go:83`) | An upsert of a chunk in another namespace leaves it in the old index: a bug, `Clear` of the old namespace then deletes it from the new one. |
| `collector_status` | "ContainerState represents the state of a container." (`analyzer/types.go:94`) | The i-th container gets the i-th status, which the kubelet orders otherwise: a container that runs well is reported to be crash-looping in the place of another. |
| `splitter_panic` | "Split divides a document into chunks." (`splitter.go:62`) | A chunk rebuilt from trimmed or overlapping splits may not occur in the document; it is then placed at the offset, the offset may pass the end, and the next slice panics. |

Nine more configurations are kept for the same purpose; each stops with a counterexample:

| `tlc -config …` | sentence | what the code does |
|---|---|---|
| `AnalysisCancel.cfg MCAnalysisWorkflow` | "CancelWorkflow cancels a running workflow." (`worker.go:210`) | After the collection, cancellation errors are logged and the execution closes as completed, with nothing stored. |
| `EventAlert.cfg MCEventWorkflow` | "Send alert for critical events" (`workflows.go:264`) | The alert counts the reports, not the triage: an OOM-killed pod alone raises no alert. |
| `RateLimiterWait.cfg MCRateLimiter` | "WaitKey waits until a token is available for the key or context is cancelled." (`ratelimit.go:233`) | It waits once for the time of one token and gives up if somebody else took it. |
| `RateLimiterBucket.cfg MCRateLimiter` | "Each key gets its own bucket" (`ratelimit_test.go:106`) | Cleanup may drop a bucket that a request is about to use; the next request gets another, full one. |
| `ServerDone.cfg Server` | "Done returns a channel that's closed when the server is done." (`server.go:293`) | With a concurrent `Shutdown`, the runner's own returns at once, and the channel is closed while hooks run. |
| `MonitoringShare.cfg MCMonitoring` | "StartAnalysis starts a K8s analysis workflow." (`worker.go:147`) | The ID holds the cluster and the second, neither the type nor the namespaces: who asks for a security analysis in the second in which somebody started a full one joins that one, and gets its result. |
| `IngestionMove.cfg MCIngestion` | "Clear removes all chunks from the specified namespace." (`types.go:80`); "Count returns the number of chunks in the store." (`types.go:83`) | An upsert of a stored chunk updates the metadata and leaves the namespace column (`vectorstore_postgres.go:151-155`): a filter finds the chunk in its new namespace, while it is counted and cleared in the old one. This is the PostgreSQL twin of `rag_move`. |
| `SplitterSize.cfg MCSplitter` | "ChunkSize is the maximum size of each chunk in characters." (`splitter.go:12`) | The overlap is carried into the next chunk unchecked (`splitter.go:194-207`), and a sentence is never split: chunks exceed the size. `SizeBound` says by how much they can. |
| `CollectorScope.cfg MCCollector` | "Namespaces to analyze (empty for all)" (`config.go`) | Of several namespaces only the pods are filtered: deployments and service accounts of other namespaces are reported. |

One disagreement is plain from the code and needs no run: "Delete removes a document and its chunks
from the knowledge base." (`engine.go:246`), but the document's ID is passed on as the ID of a
chunk, chunks have IDs of their own, and nothing is deleted; a comment inside says as much
(`engine.go:248-249`). The models delete chunks by their own IDs.

Two more things met while modelling contradict no sentence and have no run:
`QueryPerformance` filters for a category that no ingestion writes, and finds nothing but what
a caller stored by hand; events of `events.k8s.io` count in their series, which the collector
does not read, so such an event never counts as repeated.

## What is not modelled

* Text and data that decide nothing: messages, recommendations, prompts, embeddings, scores
  of similarity search, JSON, HTTP routing, logging and metrics.
* Panics of a second `Close` or `Stop`, which end the process: the actions are guarded.
* `FetchRAGContext` and `StoreAnalysisResult` as data: one returns text that goes nowhere, the
  other stores nothing yet. Their futures are modelled like all others.
* Registration of hooks during a shutdown, and of rate-limited routes.
* *Scan workflows*: sequences of the activities of `ClusterAnalysis` that nothing starts.
* *The LLM client and analyzer*: HTTP and text; nothing of it keeps state, and what it returns
  decides nothing in the workflows. *Configuration*: a sequential function of file and environment.
  *Command line, metrics, logging*: parsing and printing; the signal handling around the worker
  depends on the Temporal SDK.
* Of the health manager, the results of components and the replies of the handlers: a reply may
  be stale when it is sent, which no property could forbid.
* Of the RAG components: `LocalEmbedder` (a hash, for tests), floating-point similarity (the
  nearest rows are those of the same text), the layout of the context text, the registry of
  sources, and texts of several bytes per character, which an overlap may cut in the middle of one.
* Of the collector, the rules of network policies, which no analyzer reads.
* A provider of embeddings that numbers its data beyond the batch, which would end the process.
* The history of a monitoring, which grows with every interval because the code never continues
  as new: the limit is the service's.

## Plan

Done, in this order, by importance: the analysis workflow with its contract and proofs; the
event workflow; the rate limiter; the server; the store and engine; the monitoring with client
and worker; the embedder, the PostgreSQL store and the knowledge base, composed in the ingestion;
the collector with the analyzers; the splitters; then the proofs of what the first runs had left,
of the monitoring, of the ingestion, of the collector with the analyzers, and of the splitters, whose
model was rewritten for it without recursion; and the document store that the ingestion implements.

What could follow: the handlers of the health manager, should something come to depend on
their replies.
