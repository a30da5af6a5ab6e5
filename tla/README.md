# Verification of BreakTheWaves

BreakTheWaves (BTW) is a generative search and recommendation engine in Go: three
services (search, recommend, async) over common packages. This directory holds TLA+
modules that model its core logic, the TLC configurations that check them on small
instances, and theorems that TLAPS proves for every instance. Paths below are relative
to the repository's `src/`; `PROJECT.json` maps every definition to its lines.

## 1. The system

BTW owns little authority of its own. Three outside systems meet in it:

* **RTW** (RideTheWind) owns articles, their revisions and the *builds* made of them. It
  grants a build to one attempt at a time under a *fence* (attempt, lease epoch,
  cancellation version) and accepts a result once.
* **DC** (DataCenter) owns technical jobs, leased to attempts under a fence of its own, and
  streams of events that a consumer reads from a cursor and acknowledges by ranges.
* **PostgreSQL, Milvus, ClickHouse, Kafka** store and carry what BTW computes.

The async service does the stateful work and is where the project starts. `docs/content.md`
and the `*_ACCEPTANCE.md` files beside the code state what it promises.

### Components

| Component | State | Operations | Talks to | Hard behaviour |
|---|---|---|---|---|
| Content ledger `async/…/content/store.go` | build rows with fence, chunks, lanes, result; tombstones; outbox | Claim, record chunks, record lane, commit READY, Cancel, Tombstone, bind profile | callers with fences; outbox is read by the dispatcher | overlapping attempts, repeated and late calls, expiring leases, invalidation at any time |
| Index worker and dispatch `app/index_worker*.go`, `build_fence.go`, `content/index_dispatch.go` | dispatch row with stage, claim, note of RTW's acceptance | run a job, claim a build, commit, scan, accept, complete, deliver, defer | RTW, DC, ledger | two authorities and a local row updated one after another, crashes in between, lost answers, stale scanners |
| User fact ledger `usermodel/facts.go`, `projection.go`, `receipt.go` | events, active facts, attributions, source watermarks, outbox, parked events, alias bindings | Append, ParkUnmapped, BindUnmapped, LinkImpression, ReconcilePending, CurrentReceipt | fact worker, projections | corrections before what they correct, rivals, circles, watermarks with gaps |
| User fact worker `app/fact_worker.go` | cursor at DC | read a batch, commit each fact, prove it, acknowledge | DC, fact ledger | at-least-once delivery, pending items, crash before the acknowledgement |
| Preparation `app/prepare_worker.go`, `content/prepare.go` | chunks in object storage, ledger | claim, chunk, upload, record | RTW, DC, ledger | the same fences; heartbeat during long work |
| Wiki compile worker `app/wiki_compile_worker*.go`, `content/wiki_compile_*.go` | candidate and manifest in the object store | claim, run a model session, store, accept, complete, heartbeat, acknowledge a cancellation | DC, RTW, object store, model provider | cancellation and supersession at any call, lost answers, result kept before the report |
| Features, ontology, serving `usermodel/features_store.go`, `ontology_store.go`, `serving.go` | snapshots at a watermark, serving pointer | build, activate, roll back | fact ledger | compare-and-set of the pointer, stale snapshots |
| Article sync `mqs/kafka`, `logic/kafka_handler.go` | offsets, retry topic | handle, retry with back-off, report | Kafka, tools | reordered versions, lost requeues |
| Index switch and indexer `artifact/`, `indexer/` | current and retained manifests | load, activate, expire; append documents | | roll-back of what is retained |
| Structure tree, warehouse, evaluation | files, ClickHouse tables | batch programs | | mostly arithmetic, hashing and SQL |
| Search `search/rpc/internal` | none between requests | plan, retrieve, fuse, cite, summarise | Milvus, model provider | validation of citations, deterministic fusion |
| Recommend `recommend/rpc/internal` | pools, asynchronous queues, profiles | recall, rank, rerank, refill, emit events | model provider, Kafka | queues that fill, workers that stop, duplicated refills |
| Common `common/cpu`, `cache`, `retrieval`, `clients`, `runtime` | goroutine pool, LRU cache | submit, release, get, put, fuse | | release while submitting, shared contexts |

`PROJECT.json` lists them one by one, each with what is modelled or why it is not.

### How the modelled parts meet

```
 RTW  <-- ClaimBuild, AcceptBuild --+                 DC streams
                                    |                    |  read / acknowledge a range
 DC jobs <- Claim, Complete -- index worker          fact worker
                                    | Claim, lanes,      | Append / Park, CurrentReceipt
                                    v commit READY       v
                             content ledger          fact ledger --> ontology, baseline, snapshot
                             (outbox, dispatch row)                       |  encode
                                                                       bundles, serving pointer
 DC jobs <-- wiki compile worker --> RTW compiles, object store           ^  approval by recommend

 Kafka events --> article sync, primary and retry --> PostgreSQL, Milvus, Neo4j --> results
```

### What makes each part correct

* *Content ledger*: evidence is written once, by the holder of the newest fence under a live
  lease; READY needs all evidence; the outbox says exactly what was decided; a withdrawn
  revision freezes every build made of it.
* *Index dispatch*: DC hears of a success only for the result committed locally and accepted by
  RTW; the row is delivered exactly then; no pending row is forgotten.
* *Fact ledger*: what is active, the attributions and the watermark follow from the accepted
  history alone, in whatever order facts came; a fact waits only for one that is missing;
  versions and the outbox are one gapless timeline.
* *Fact worker*: nothing is acknowledged that is not accepted; everything is delivered in the end.
* *Features and serving*: what is handed out as current is what would be computed from the facts
  and definitions there are now; a snapshot is of one state of the ledger; a baseline that was once
  accepted never stands in the way of a rebuild; a pointer does not go back.
* *Wiki compile*: DC, RTW and the object store share no transaction, yet a success in DC is the
  acceptance by RTW of what is stored, and the worker's report is true whichever answer was lost.
* *Article sync*: every event is answered unless a send failed, a failure is only published after
  every retry, and the stores in which the handling process deletes say the same once an event is handled.
* *Worker pool*: no call returns before its own tasks ended, and no recall waits for ever.
* *Pool refill*: one run per key at a time, no key marked busy that is not, every accepted query run.

## 2. The modules

| Module | Models | Proved about |
|---|---|---|
| `ContentLedger` | the transactions of `content.Store` on builds | in `ContentLedgerProofs` |
| `BuildOutcome` | abstract: a build is decided once and the decision is announced in that step | refined by `ContentLedger` |
| `IndexDispatch` | the index worker, the scanner, the dispatch row, RTW and DC as the worker sees them | in `IndexDispatchProofs` |
| `FactLedger` | the transactions of `usermodel.Store` on events | in `FactProofs` |
| `Timeline` | abstract: per subject, a version and the announcements of versions, extended together without gaps | refined by `FactLedger` |
| `FactDelivery` | the fact worker over `FactLedger`, the stream, crashes and lost calls | in `FactProofs` |
| `UserServing` | ontology, feature baseline and snapshot, bundles and the serving pointer, over the accepted facts | in `UserServingProofs` |
| `WikiCompile` | the wiki compile worker, call by call, with DC, RTW and the object store as it uses them | in `WikiCompileProofs` |
| `ArticleSync` | the two consumers of article events, their retries and the writes to five stores, of which a process may reach some only | in `ArticleSyncProofs` |
| `WorkerPool` | the goroutine pool and the calls that wait for their tasks in it: parallel recall and batches | in `WorkerPoolProofs` |
| `PoolRefill` | the dispatcher of refill jobs: queued, running and dirty keys, and its workers | in `PoolRefillProofs` |
| `MC…` | constants for TLC | |

Some modules define *faulty variants* of a step before the step itself: a plausible bug each, named
after what it does (`HoldsAnyClaim`, `ScriptCompletesFirst`). No specification uses them.
`PROJECT.json` says under `mutants` which property refuses which variant, when the variant takes
the place of the step.

### ContentLedger

The variables are the columns of `content_builds` (`state`, `input`, `fence`, `chunks`, `result`),
`content_build_lanes` (`lanes`), `content_outbox`, `content_tombstones` and
`content_chunk_profiles`, each a function of its key. One action is one transaction, because the
code takes the row lock (and the tombstones' advisory lock) before it decides: `InsertBuild` and
`ReclaimBuild` are the two ways through `Claim`; `RecordChunks`, `RecordLane` and `CommitReady` go
through the guard of `mutate` (`Held`: the fence of the caller is the fence of the row and no
revision is withdrawn; `Writable`: the build is open and the lease runs at the end of the
transaction). Calls that return an error change nothing and are steps that do not happen. Any
caller may call anything with any fence at any time: that covers repeated, reordered and late
calls of attempts that were superseded. `clock` is PostgreSQL's clock, advanced by `Tick`.
`writer` is a history variable: the fence of the last write of evidence, without its expiry.

### IndexDispatch

`ledger` is what the worker sees of the content ledger, `row` the dispatch row, `claimed` the
workers whose claim of the row has not run out, `rtw` and `dc` the authorities, `wire` the requests
sent and not yet answered, `loc[w]` the local variables and place of worker `w`. Every call that
crosses the process boundary ends a step, so the worker may crash, the lease may end and another
worker may act between any two. A request on the `wire` may be executed after its sender gave up
(its answer was lost, or it arrived late) and the sender reads the authority to find out, as the
code does. `live` and `ending` model leases: with `ClockMargin`, as in every run, the worker may
consider a lease over (250 ms early, by its clock) before DC does.

### FactLedger, Timeline, FactDelivery

`ledger[s]` holds one subject's rows: the events in the order of arrival with their status and the
version at which they were accepted, the active facts, links, contiguous watermark and outbox;
`parked` and `binding` are shared. `AppendTx` is the whole transaction of `Append`: a replay gives
its first receipt; a second payload under a key, a taken position or successor, or a circle is
refused; otherwise the event is stored, accepted if its predecessor is, and its dependents are
promoted one by one up to `ChainLimit`, each with a version, an outbox row, the revocation of
links and the watermark. A clash with the impression index anywhere in it refuses all of it.
The two loops of the code, over dependents and over what is pending, are recursive functions of the
number of turns: the module has no recursive operator, and the proofs can follow a loop turn by turn.
`FactDelivery` adds the stream, the cursor, and workers with the batch in their hands.

### UserServing

`log` is what this package needs of `FactLedger`: the accepted facts of one subject in the order of
their versions, with the times they happened, were observed and were recorded, a position in their
source and the fact they correct. The other variables are the rows of the projection, the baseline
the head points at, the snapshot, the bundles and the pointers. The procedures of `features_store.go`,
`ontology_store.go` and `serving.go` read in several short transactions, compute or call out, and
write in a last one that locks the subject and looks again; `task[w]` holds what worker `w` carries
from one to the next. A step is one transaction or call, and facts are accepted, definitions
published, approvals given and taken back and time passes between any two. `Ready` and `Served` are
what `ReadyFeatureSnapshot` and `ReadyServingBundle` decide. A value is represented by the set of facts
it is taken from, a vector by the snapshot it was encoded from. Facts may be dated in the future or
come long after they happened, so that a snapshot ends by itself when one of them comes to count or
leaves the window (`next`). The warehouse's generation is external: any one that
`validateFeatureCoverage` lets pass, computed from an earlier state of the ledger.

### WikiCompile

`ProcessClaim` is one path of 24 calls (`Script`); an attempt is at a place of it, or aside of it in
one of four recoveries (`side`): acknowledging a cancellation, reading the compile after a failed
acceptance, asking again, and reading the job after a failed completion. Every call may be refused,
fail, or be done and lose its answer, and the process may stop anywhere. The job in DC, the compile
in RTW and the object store change between any two calls: the job is cancelled, its lease ends, the
next attempt starts, a newer compile supersedes, a human edits the page, a source or the page is
withdrawn. An attempt stands for its worker, its attempt ID and its lease epoch, which the code always compares
together. The model's session and the factory of runs are one step. `excused` is a history variable: the
attempts which had passed their last look at a revision when it was withdrawn.

### ArticleSync

Both topics are read in order, each by one consumer, for the events of one article. `consumer[t]` is
the place in the handling of the message after `position[t]`, `committed[t]` the offset a restart goes
back to; without one it goes to the end of the topic, as the configuration says. The retry consumer
waits for a moment without primary jobs, which only counts those of its own process (`together`).
`Fail` puts the event on the retry topic or answers it.

`store` says of the rows of the article and of its chunks (PostgreSQL), the vectors of the text and of
the images (Milvus) and the graph (Neo4j) which events have rows in it; a store in disorder holds those of
several. To handle an event is the list `Work`, one step each: four deletions (the rows of chunks go
with the article's, `ON DELETE CASCADE`), for an upsert followed by five writes. A step may fail with or
without effect, the deletion of vectors also half way, in one of its two collections; a write over rows
that are still there may leave some of them. An upsert may be `bare`, of an article that has only a title,
and then has neither chunks nor images to write.

`StartWorkers` only warns when Milvus or Neo4j cannot be reached, and `DeleteArticleState` then passes over
that store without an error, as it does over a collection of images that is not configured (which the
writes default). `reach[t]` are the stores the process of `t` deletes in, found at its start: `Crash` is
the process stopping and its successor trying anew, `Rebalance` a partition that is taken and given back
(to another process it is a `Crash`). Without Milvus no text can be written either (`Possible`), without
Neo4j the graph is left out. `attempts`, `settled`, `passed`, `overlapped` and `lost` are history
variables: how often an event failed, which event was handled last to its end, which stores that handling
passed over, whether the consumers ever worked at once, and which events fell to a send that failed or to a
skipped offset.

### WorkerPool

The goroutines of the pool, the channel of tasks (as long as there are goroutines), the WaitGroup and
the closed flag, and any number of calls of `RecallParallel` and of the batch's `parallel`, each with
its own WaitGroup. `Submit` takes three steps, for another goroutine can come between the look at
`closed`, the `wg.Add` and the send, which waits while the channel is full; a caller that is refused
falls back, as a recall to a goroutine of its errgroup and as a batch to its own goroutine. `Release`
takes three as well. The owner of the pool may release it at any moment. Callers may cancel
(`cancelled`), as `g.Wait` does for them, but nothing depends on it: `runRecall` starts a recall under a
cancelled context all the same, and no wait is given up. A
send on a closed channel sets `panicked`, after which nothing happens: the process is gone.

### PoolRefill

`states` is the dispatcher's map, `queue` its channel, `worker` each goroutine with the copy of the
job it runs. A step is one critical section of the mutex, one receive, or the end of a run; the
sends are inside the critical section because they never wait. `waiting` is a history variable: what
callers were told is queued or merged, and has not been started since. Queries that more recent ones
push out of the fan-out are not waited for: the merge keeps the latest, as its test expects.

## 3. The runs

| Run | Question | States | Bounds |
|---|---|---|---|
| `ledger` | are overlapping attempts fenced, does READY have all its evidence, and does a withdrawal freeze every build that shares the revision? | 120 k | one build with 2 attempts, 2 epochs, 1 cancellation and 3 instants, or 2 builds with 2 versions of a tombstone and 2 hashes |
| `dispatch_safe` | is a success reported and delivered only when it is one, and do receipts survive re-attachment? | 1.5 M | 2 workers, 2 attempts of one job or of two, withdrawal by RTW and DC, early lease ends, 2 requests in flight |
| `dispatch_live` | is a pending READY settled? | 71 k | 1 worker, 2 attempts, early lease ends |
| `dispatch_margin` | is a success of both authorities delivered? (finding) | | as `dispatch_live` |
| `facts` | do projection, attributions, watermarks and outbox follow the history, whatever the order of arrival? Is only what is accepted acknowledged, and everything in the end? | 74 k | four catalogues of 3 to 7 envelopes, or 2 workers, 4 offsets in batches of up to 3, 1 fault and 2 facts by another route; both promotion limits 2 |
| `facts_blocked` | does the arrival of a predecessor promote? (finding) | | 4 envelopes |
| `serving` | is what is handed out as current what would be computed now, can a snapshot always be rebuilt, does a pointer never go back? | 289 k | 2 workers, 3 kinds of facts of which 2 are accepted, 2 specs, 2 definitions, 3 instants, 2 baselines, 3 decisions about a pair |
| `compile` | is a success in DC the acceptance in RTW, are reports true, and is what was withdrawn in time not completed? | 184 k | 2 attempts, 2 candidates |
| `sync` | is a failure final, do the stores agree, is every event answered? | 984 k | 2 events, 1 retry each, 1 restart |
| `pool` | does a call return only when its tasks ended, and a recall always? | 75 k | 2 goroutines, a recall and a batch of 3 tasks each, Release and cancellation at any moment |
| `pool_batch` | what a comment promises of a batch (finding) | | 1 goroutine, one call of 2 tasks |
| `refill` | is a key run once at a time, and every accepted query? | 46 k | 2 workers, 2 keys, 3 queries, 2 per job, queue of 1, 3 requests |

Some runs check the union of smaller instances rather than their product, by a state constraint or
a next-state relation that the MC module names. In `ledger`, `OneBuildOrOneAttempt`: behaviours of one
build with everything attempts can do, and of two builds by a single attempt with everything
withdrawals can do; the builds meet in nothing but the tombstones. In `dispatch_safe`, `TwoAttempts`:
two attempts and two requests in flight at most, and of three complications (an attempt of each of
two jobs, a withdrawal, a lease counted as over that is not) one at a time. `facts` (`OneCatalogue`): the
envelopes that arrive are all of the chain of four with a rival and a second payload, or of the
circle with taken positions, or of impressions and readings, or, for two subjects and an alias, of
three that come parked as well as directly; or nothing arrives but the stream and what comes beside
it (`MCNext` of `MCFactDelivery`). In `serving`, a behaviour is about snapshots with the
ontology, about snapshots with baselines, or about encoding and activation. `UserServing` itself narrows
what callers may ask for: a rebuild is for a time up to now (the code refuses only the zero time), and a
baseline is cut at one time for what happened and what was known, accepted for the present moment, with
the revision of the head or the next.

In `sync`, a behaviour has one of three themes (`MCArticleSync`). *Sends*: both consumers in one process that
reaches every store, any send may fail, a write that fails has no effect. *Restarts*: both in one
process, which starts again with other stores in its reach (from all of them to some, or back), with at
most one handling that fails, at any step and half done. *Apart*: two processes that overlap, either of which
starts again, and both reach every store; writes fail without effect, often enough for a final failure
of one event. Consumers at work at the same time take turns
(`TakeTurns`): one gives way to the other only before it begins, when its deletion is over, when the article
is put and its chunks are not, and at the end.

Why the bounds are enough: every guard of the ledger compares two fences, so two attempts and two
epochs show both orders of any pair, and a third lease instant separates "expired before" from
"expired during". In the dispatch a third actor would be the same as the second after a crash: a
worker keeps nothing but what it read. Facts refer to one predecessor, so a chain of four with a
rival at one place contains every pattern of "before", "after" and "instead". The promotion limit of
128 is taken as 2, so that a chain of waiting facts can exceed it and `ReconcilePending` has work;
`WaitsOnlyForMissing` therefore says that only a fact behind that many promoted ones may be left
waiting. In `serving`, three instants place a fact before, at and after a cutoff, and a window of two ends within
them; two facts are one that corrects the other, one behind a gap or one that comes late. In
`compile`, a second attempt is any later one, for every guard compares an attempt with one number. In
`sync`, one retry is the shortest chain of them, and two events are the older and the newer.
The calls of the pool have more tasks than the channel has room for, so that a sender waits
while Release comes; the refill queue of one fills with two keys, and three queries overflow a job of
two. Deadlock is not checked in these runs: builds end, attempts are used up, streams end, bounds of
time and calls are reached, and the calls of a pool return.

### Fairness

`dispatch_live` assumes that the worker process polls for ever (the loop in `cmd/worker/main.go`),
that DC and RTW answer requests in the end and that leases and claims run out with time. The calls
of a scan are strongly fair: a scan may be cut off by a crash any number of times, but not every
time at the same call. `dispatch_margin` has the same fairness, and its counterexample does not rest on
what fairness leaves open: in the end the scanner scans for ever and finds nothing. Nothing is assumed of the attempts, which may hang or crash.
The stream in `facts` assumes weak fairness of each worker's next step, of the stream's publication and
that a predecessor which comes by another route comes; the rival of a fact of the stream may come or
not, and when it comes first the stream stops for good (`Contested`), as the code intends. Faults are
bounded by `MaxFaults`.
`sync` assumes that each consumer goes on: sarama's session calls `ConsumeClaim` for ever, and no call of
a handler waits for ever. Restarts are bounded, and nothing is assumed of writes and sends, which
may all fail: an event is answered all the same, or counted as lost.
`pool` and `pool_batch` assume that goroutines are scheduled and tasks end (their contexts have
a deadline); nobody has to release the pool. `pool` asks it of the recalls only, because of the finding `pool_batch`.
`refill` assumes the same of the workers' loops, and
of a run that it ends, for its context has a timeout; the service may be stopped or not.

### Findings

* `facts_blocked` (`usermodel/facts.go:419`): the promotion of a waiting impression may clash with
  the unique index of active impressions, which aborts the transaction of the predecessor it waited
  for. `usermodel/README.md:8` says that the arrival of the predecessor promotes.
* `dispatch_margin` (`app/index_worker_dispatch.go:127`): a CompleteJob in flight may succeed after the
  scanner, whose margin makes the lease end 250 ms early, has moved the row to a stage nobody scans. The
  job is then finished, so no new attempt reopens the row, and the event stays undelivered, although
  both authorities confirmed it; `app/INDEX_DISPATCH_ACCEPTANCE.md:9` says that after a crash at any
  boundary it can still be scanned. Safety is not touched: `dispatch_safe` has the margin too.
* `pool_batch` (`common/cpu/batch.go:245`): the fallback of a batch defers its `wg.Done` to the end of
  the function that waits for it.

Seen while modelling, and without a run of their own:

* Pool (`common/cpu/pool.go:116`): Submit promises `ErrPoolReleased` after Release, but reads `closed` before
  it sends; a Release in between makes the send panic. `WorkerPool` contains it (`panicked`).
* Recall (`common/cpu/pool.go:299`): when every source went into the pool the errgroup is empty, `g.Wait`
  returns at once and cancels the context under which the sources then start. Line 256 says that sources
  which have not started are skipped when the context is cancelled; `runRecall` starts them.
* Pool metrics (`common/cpu/pool.go:151`): `Running` subtracts `len(tasks)` from itself, so it is always 0 and
  `Free` always the capacity, against their comments at lines 142 and 166. The model leaves them out.
* Features (`usermodel/features_store.go:90`): a correction takes its predecessor out of the values when
  the correction is eligible at the cutoff; in a chain of three whose middle one is not (it is dated
  later), the first counts again next to the last. The ontology reads the current projection instead,
  and drops a fact as soon as a correction dated in the future is accepted. The two therefore may
  disagree about the same cutoff; the model has both as they are.
* Serving (`usermodel/serving.go:278`): the pair is authorised before the transaction that moves the pointer,
  and nobody asks again. An approval that is taken back leaves the pointer served until it is disabled:
  `ServedIsCurrent` says that what is served is current, not that it is still approved.
* Wiki compile: a withdrawal between the last reading of a revision and CompleteJob is not seen
  (`WithdrawnIsNotCompleted` excuses just that). A worker that stops after the acceptance leaves the
  compile ACCEPTED, and every later attempt is refused at the ticket, so that the job fails although
  the page was accepted.
* Article sync: a retried upsert may be handled after a newer event and undo it, for no version is
  compared (`mqs/kafka/retry.go:83`); the wait for primary jobs is a check before an act and counts one
  process (`retry.go:167`), so the consumers may interleave on one article and the stores disagree; when the publication of a success fails
  in the primary consumer it is not repeated (`logic/kafka_handler.go:30`); a group without a
  committed offset skips what was published while it was away (`consumer.go:93`).
* Article sync without a store: a process that started without Milvus or Neo4j (`logic/kafka_handler.go:117`
  only warns) handles a deletion successfully and leaves the vectors or the graph as they were
  (`knowledge/doc_ingest/article_cleanup.go:31`); without Neo4j an upsert, too, succeeds with the graph of
  the older version. With the collection of images not configured the deletion skips it, while
  `insertImages` fills its default (`doc_ingest.tool.go:392`). No doc promises otherwise: `StoresAgree` is
  about the stores in which the process that answered deletes. The graph's `DeleteArticle` removes the nodes
  linked to the article, so that a node which a failed write left unlinked stays an orphan; the model
  counts what hangs on the article's node.

## 4. The proofs

### ContentLedgerProofs

For all sets of builds, inputs, revisions, attempts, references, hashes and profiles and all bounds,
from `RevisionsAssumption`, `BoundsAssumption` and `NoneAssumption` of `ContentLedger`: the type
invariant, every property that `ledger` checks, that READY was committed by the holder of the
fence (`ReadyByHolder`), that evidence is written once (`EvidenceIsWrittenOnce`), and that the ledger
implements `BuildOutcome`.

None of the invariants is inductive alone. The outbox can only be compared with the rows if a row
that is READY cannot be reclaimed or cancelled, and "READY by the holder" needs that the last writer
never is ahead of the fence. The inductive invariant `IInv` is the conjunction of `TypeOK`, `RowIsWhole`
(an absent build has no columns, an existing one has an input and a fence), `OutboxMatchesReady`,
`ReadyIsComplete` and `ReadyIsCommittedByHolder`. `TypeStep`, `OutboxStep`, `CompleteStep` and
`HolderStep` go through the actions one by one. The lemma `NewFenceCoversWriter` is the core of the
fencing argument: a fence that supersedes the row's also supersedes the last writer's. The action
properties are step formulas that follow from `IInv` and one action at a time; the refinement maps
the three terminal actions to the abstract decision and everything else to stuttering
(`SameDecision`).

### IndexDispatchProofs

For all sets of workers, every finite set of jobs, every number of attempts, and whether workers keep
a margin or not (`AttemptsAssumption`, and `RowAssumption`: NULL is not a row): the type invariant,
`SuccessIsAccepted`, `DeliveredIsConfirmed`, `RowPrecedesReady` and `ReceiptsAreKept`, that is all of
`dispatch_safe`. The argument is in three parts.

*What no step takes back* (`Keeps`): a READY ledger, a decision of RTW, the success of a job; fences
and attempt numbers only grow. Everything a worker or a request in flight relies on is of that
kind, so the inductive invariant can say what each of them has seen as if it still held: `Scanned` (a
scan past the look at RTW saw READY), `Worked` (an attempt past the attachment has a fence RTW
granted and the row carried), `Sent` (an accept in flight names the committed result under a fence
that the row has carried; a complete in flight follows RTW's acceptance). `OtherStays` and `SentStays` then settle
all steps of other actors at once, and each action is left to show what it does for its own worker.

*The services* (`Fenced` and the three invariants): when RTW is READY the row carries RTW's very fence.
It does because RTW accepts only under its newest fence, the request was sent for a fence the row
had, the row never goes back and never is ahead of RTW. That is why an attachment after READY finds
the same fence, keeps the note, and can reopen a delivered row only for another job.

*The fences are bounded* (`Counted`, `Alone`): an attempt asks RTW once. `Spent` are the attempts that can
no longer ask: leased, past the call, no request left in flight. A new fence always spends an
attempt that was not spent, so the epoch is at most the number of attempts. Without it the type of
the fence is not inductive.

### WikiCompileProofs

For every number of attempts (`CompileAssumption`: at least one) and every set of candidates: the
three properties of `compile`. What the services hold together is nowhere written down; it is kept
by where the attempts are. `IInv` says so: an attempt that is past a call of the script has left in
the services what that call does (`Behind`), a recovery belongs to one call (`Aside`), a report was
true when it was made (`Reported`), an attempt not yet claimed has no worker (`Unclaimed`), what was
accepted is stored (`Kept`), and DC has a result only from the attempt at the end of its script
(`Result`). The hard part is that other attempts and services change everything under an attempt:
`StepOf` says once what a step of `ProcessClaim` may do to its worker and to each service, and
`ServicesKeep` and `OthersKeep` show from it that what is behind another attempt stays. An acceptance
stays because it names its attempt and nothing replaces it.

### ArticleSyncProofs

For every number of retries (`SyncAssumption`: at least one), events and restarts: `TypeCorrect`,
`FailuresAreFinal` and `StoresAlwaysAgree`, the two invariants of `sync`. The type invariant carries
that a message has been retried as often as its count says and at most `MaxRetry` times; `Counted`
relates that to the failures of the event, over both topics and redeliveries, so that the answer
after the last retry follows. The agreement of the stores needs that one consumer works at a time
unless they have overlapped (`Exclusive`) and what the steps behind a working consumer have left in each
store its process deletes in (`Behind`, `Written`): such a store is empty from its deletion (`DeleteAt`) to
its write (`PutAt`), and after that holds the event alone. Before its deletion a store may hold anything,
which is why it does not matter what failed, what was cut off by a restart, or what a process without a
client of that store left there. `Moves` says that a step leaves a consumer where it is, or is a step of that
consumer, or its start anew (`StartsAgain`), which settles no event.

`NoneIsEverForgotten` says of every state what `EventsAreAnswered` needs of it: an event that is neither
answered nor broken, and of which no send failed, has a message past the position of one of the two
topics, or at it with the consumer not yet done. A failed message is sent to the next topic before it is
marked, so each step of a consumer keeps this; that the consumer gets to the message is left to TLC.

### FactProofs: the ledger

For all sets of subjects, aliases, envelopes and displays and all limits of the two loops
(`EnvelopeAssumption`, `LimitAssumption`; `NullAssumption` says that NULL is none of the keys): the type
invariant, every property of the ledger that `facts` checks, and the refinement of `Timeline`.

A transaction accepts a fact, then its dependents one by one; in between the rows, the projection
and the outbox do not agree. `Good(l, A, B)` says what holds of a ledger where `A` counts as accepted and `B` as
stored, and `AcceptKeeps` takes it through one acceptance, which is where everything happens: the fact
takes the place of the one it corrects, gets the next version and the next row of the outbox, its
impression revokes the links to the older one, and the watermark moves over the gap it closes. Between
transactions `Sound` holds: a key is one envelope, a correction is accepted after what it corrects, what
is active is what no accepted fact corrects, links lead to active impressions, the outbox has one row
for each version in order, the watermark is the longest prefix accepted. The inductive invariant `Inv` is
`Sound` for every subject with `ParkedOK`, `BindingOK` and `BoundWhereItsAliasIs`. `Kept` says what no step
takes back: stored envelopes, first receipts, acceptances, rows of the outbox. It is what makes the
receipts and the refinement true over time.

The library's induction theorems cannot be used, for they take a predicate. Both loops are bounded
and functions of the turn, so `Iterates` (a loop of n turns exists and is the function the module
defines) and `Stays` (what the first turn has and every turn keeps, all have) are derived from the least
element of a set of numbers instead, which `WFMin` gives. The refinement needs that the announcements
of a subject are as many as its version: `OutboxCounts` is the bijection, and `KeptIsPrefix` that a later
outbox begins with the earlier one.

*Chains* (`ChainsAreAccepted` and `WaitsOnlyForMissing`) are about facts any number of steps apart, and
have the invariant `ChainsOK` of their own, beside `Inv`. Three parts of it (`Chained`) say what the indexes
and the check of `appendTx` are for: no set of facts supersedes only one another (`NoCircle`), no fact has
two successors (`OneSuccessor`), and a fact that waits has waited since it arrived (`WaitsSinceArrival`). The
check follows a chain upwards by a loop of as many turns as there are rows; that is enough because
every turn but the last adds a row, so that `LineageIs` the least set closed under following
`supersedes`. A new circle would lead from the predecessor of the new fact up to a fact that supersedes
it, which is what the check looks for (`ChainedGrows`). The fourth part, `Patient`, is about the limit of the
promotions: a fact that waits although its predecessor is accepted comes after `ChainLimit` promoted
facts in a row. As no fact has two successors, what is promoted in a transaction is one chain and each
turn of the loop makes it longer by one (`TurnCounts`), so a loop that is cut off has counted to its limit
(`Counted`). A clash with the impression index, found in any turn, is not forgotten by the later ones
(`ResolveKeepsClash`): else a transaction could commit a chain it had only half promoted.

### FactProofs: the delivery

For every stream of such envelopes, all numbers of workers, faults and other routes and all sizes of a
batch (`DeliveryAssumption`): a behaviour of the delivery is one of the ledger (`DeliveryUsesTheLedger`),
so that everything proved of the ledger holds under delivery, and what is acknowledged is accepted
(`AcknowledgedIsAlwaysAccepted`). `DeliveryInv` says it of the workers as well: whatever a worker has behind it
in the batch in its hands is accepted, from the cursor it read to where it stands. Another worker may
acknowledge, the cursor may move and the subject's ledger may change meanwhile; as acceptance is `Kept`,
nothing of that matters.

### UserServingProofs

For all sets of workers, kinds of facts, specs, windows and pairs and all bounds, from
`ServingAssumption` (time has at least one instant, and `Never` is a number after all of them) and
`NullAssumption` (NULL is not a row of the baseline): every property that `serving` checks.

A reader of a snapshot decides from its row alone whether it is current, and what the row says was
computed from rows read in other transactions, some of them replaced since. The inductive invariant
`IInv` says of everything stored what it is a function of. A projection shows the edges of the first
`state` facts at every moment until its `next` (`EdgesLast`); a snapshot tells, from its cutoff until its
`next`, what those facts and its definition determine (`TellsAt`) and is of one state (`OneState`); a baseline
that was accepted contains every fact that counted at its cutoff and lies below its watermark
(`Covers`); a bundle is a snapshot with its pair; a pointer names a bundle and an approval that was given.
`CallsOK` says it of what each call has read so far. That is inductive because the sources only grow:
`SourcesOnlyGrow` and `KnownStays` show that facts, definitions, times and revisions of grants are only
added to, and so everything that was read stays a fact about a prefix; `RowsStay` settles with it the
calls that a step does not concern.

What is left are three arguments about time. `ProjectionLasts` and `ValuesStay`: before the soonest of all
the moments at which a fact begins to count or leaves the window, the same facts are in it, so that
`next` really is the end of what a row says. `MergeIsOK` joins them with the facts that will come to count only
later, because of the times they are dated or recorded at. `CoversOn`: below the watermark of a baseline
every position was taken and counted at its cutoff, and no position is taken twice; so a fact that
comes later lies above the watermark or has none, the baseline goes on covering, and
`CoversMeansMerges` that the merge with any later state of the ledger succeeds. `ReadyIsFresh`
then compares the row with the ledger as `ReadyFeatureSnapshot` does: same state, same definition and
before `next` is the same values.

### PoolRefillProofs

For all sets of keys, queries and workers and all sizes of the channel and of a job
(`RefillAssumption`; `EntryAssumption` says that a missing entry is not an entry): `TypeCorrect` and
`MarksAreAlwaysTrue`. The first needs what merging returns for any two sequences (`MergeGivesJob`):
every query once, and at most `QueryFanout`, because of a finite set of positions those with fewer
than m greater ones are at most m (`TheLastFew`), and the kept positions can be numbered
(`RanksAreNumbers`). `MarksAreTrue` counts places, which no step lets one reason about directly; the
inductive invariant `IInv` says the same of single entries of the channel and single workers:
a key in the channel or received is marked queued and is in that place only, a running worker's
key is marked running and has that worker only, every mark has its place, and no key has both.
That a received key is still queued when its run starts is a consequence: the early return of
`runKey` for a key that is not queued is never taken.

`AcceptedIsAlwaysHeld` is what `EveryJobRuns` needs of every state: the queries accepted for a key since
its last run began are exactly the job of the key, and the key is in the channel, received, or running
with `dirty` set. `Awaited` says it by the marks, `IInv` gives each mark its place. The step that could
break it is a merge into a running job: it sets `dirty` if and only if it changed the job.

### WorkerPoolProofs

For every number of goroutines, any calls of any number of tasks, cancelled or not, and a Release at any
moment (`PoolAssumption`): `ReturnsComplete`, and the type invariant, which says that no WaitGroup is
counted below zero. A WaitGroup is a number, and what it counts is spread over the channel, the
goroutines and the callers on their way into the pool; `Counted` says which tasks these are. The pool's is exactly
the number of tasks announced, queued or held (`Pending`); a call's is at least the number of its own
that are open (`Open`), and not equal to it, because the Done of a shard that ran in its caller comes later
than its end. `Placed` and `Once` keep the counts right: a task is in one place and its status follows from
it. From them a wait that sees zero sees an empty set, and the rest of the tasks have ended in the
errgroup or in the caller.

`WaitsAreAlwaysOwed` is what `EveryRecallReturns` needs of every state: nobody waits for a count that
nothing will lower. For a recall the count is exact (`Exact`): its tasks in the channel, held by a
goroutine, or on their way there after its Add; when all are sent off, those in the pool are what is left,
so a refused Submit must have taken its Add back. A batch has no such promise (see `pool_batch`
under Findings).

### Only model-checked

Every safety invariant and every action property of the runs that pass is stated by a theorem. The
liveness properties are not, because the proof system has no rule for `ENABLED` and so none for
fairness: `PendingIsSettled` of `dispatch_live`, `EverythingIsDelivered` of `facts`, `EventsAreAnswered` of `sync`, `EveryRecallReturns` of `pool` and `EveryJobRuns` of `refill` stay with
TLC. Of the last three the part that is about every state is proved (`NoneIsEverForgotten`,
`WaitsAreAlwaysOwed`, `AcceptedIsAlwaysHeld`): what they wait for is there to be handled, for all values of
the constants. That it is handled in the end rests on fairness and is model-checked. So is what the
runs that expect a violation show.

## 5. The plan

Done: `ContentLedger`, `IndexDispatch`, `FactLedger` with `Timeline`, `FactDelivery`, `UserServing`, `WikiCompile`,
`ArticleSync`, `WorkerPool` and `PoolRefill`, each with its proofs.

What would come next, of the code that is not modelled: the
asynchronous emitters of recommend (`event/domain/async.go`), whose Emit and Close race as Submit and
Release of the pool do and whose Start adds workers each time although its comment says otherwise, the
switch of a whole-document index, and the caches.

### Not modelled

* *Preparation*: one straight pass of claim, chunk, upload and record; its writes go through the
  ledger's fences, which `ContentLedger` models for any caller. *Reconciliation* changes no state.
* *Covered snapshots*: a second way to a snapshot, off by default. *Authority binders*: lookups before a
  fact is committed, which `FactDelivery` takes as the subject of the fact.
* *Search* keeps nothing between requests; fusion and the validation of citations are pure functions
  over floating-point scores. *Ranking*, *structure tree* and *quality evaluation* are floating-point
  arithmetic, which TLC cannot evaluate.
* *Compile stages* (`compile/`) are a pure library no service imports yet.
* *Agent graphs* and *model providers* are libraries and services that promise nothing to state.
* *Warehouse sources*: SQL, hashing and files. *Clients*, *API services* and *wire formats*: generated
  or direct translation; what the services answer is external in the modules that use them.
* *Worker process*: start-up and the polling loop, whose part is the fairness assumed above.

`PROJECT.json` lists these components one by one.
