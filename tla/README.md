# Verification of Norvii

Norvii answers questions about corpora of official documents with cited evidence. A Go API owns
the PostgreSQL schema and the public HTTP contract, Python workers ingest documents, a Python agent
answers, a Go worker runs evaluations, and a web client presents the result. This directory holds
TLA+ models of the parts in which several processes share rows, streams or objects, the TLC runs
that check them on small instances, and proofs that TLAPS checks for all instances. Paths below are
relative to the repository.

| Module | Models |
|---|---|
| `SourceLifecycle` | what the Go domain package promises about the life of a source |
| `IngestionQueue` | the leased work queue between the API and the ingestion workers; implements `SourceLifecycle` |
| `SnapshotRelease` | snapshots, the active evidence release, graph releases, the release coordinator and builder |
| `IngestionRelease` | composes the two: workers whose claims go through the release before they complete |
| `EvaluationRuns` | the ledger of an evaluation run and its leased cases |
| `EvaluationScoring` | from an agent's answer to metrics, aggregates of a run and the comparison of two |
| `EvaluationResults` | composes the two: the ledger with the metrics and aggregates its transactions write, and its readers |
| `EvaluationAssets` | what the import command accepts as a dataset |
| `PublicationLifecycle` | what the domain package promises about the publication of a dataset |
| `EvaluationDatasets` | datasets from import to runs, and their catalog; implements `PublicationLifecycle` |
| `OpeningSuggestions` | composes datasets with the active snapshot: the questions an empty chat offers |
| `ChatProtocol` | the order of the events that the public contract gives a chat turn |
| `GroundedChat` | the threads of the agent and the retrievers they share |
| `ChatTurn` | composes agent, API and browser into one turn; implements `ChatProtocol` |
| `MC…` | symmetry sets and instances for TLC of the module it extends; each `.cfg` gives the constants |
| `…Proofs` | lemmas, inductive invariant and theorems about the module it extends |

`PROJECT.json` lists the components, the runs, the source lines of every definition, one plausible
bug per property (a definition marked *Mutant* in its module, under which TLC refutes that property),
the hazards and the theorems.

## 1. Inventory

### Source registration and lifecycle (Go, `apps/api/internal/source`)
State: the rows of `sources` (status, version, failure category, latest ready document).
Operations: create (with a pending work row), retry of a failed source, reprocess of a ready one.
Interaction: the rows of `ingestion_work` it inserts. Hard: the status is written by three commands
here and by four transactions of the workers, none of which tests all the tables it must agree with.
Correct when a source follows the domain's state machine and is never left in a state that no
worker takes up and no command accepts.

### Ingestion work queue (PostgreSQL, `apps/ingestion/.../publication/postgres/repository.py`)
State: `ingestion_work` (status, lease token, deadline, requested_at), `processing_attempts`,
`document_versions`, `sources`. Operations: claim (with recovery of expired leases), publish,
complete, fail, renew (without a caller). Hard: leases that expire during a long build, a clock read
before the transaction it guards, recovery by another worker, fairness of the queue. Correct when a
worker that lost its lease changes nothing, the tables agree, and every pending row is reached.

### Ingestion worker and processor (Python, `apps/ingestion/.../orchestration`)
State: the process and its claim. Operations: poll, claim, acquire, extract, chunk, embed, publish,
release, complete, or fail. Hard: a failure in the failure path, a crash between any two
transactions, an exception outside the try block that ends the process.

### Snapshots and evidence release (Go, `apps/api/internal/snapshot`)
State: `corpus_snapshots`, the row of `corpus_snapshot_releases` (active snapshot, version).
Operations: publish (curator), stage and activate (worker, curator), initialize (command).
Hard: a candidate is staged against one release and activated minutes later. Correct when no
activation undoes another and a version stands for one snapshot.

### Graph release coordinator, builder and projection (Python, `apps/ingestion/.../release`, `.../graph_projection`)
State: `graph_releases` in PostgreSQL, the projection in Neo4j, the coordinator's progress.
Operations: stage, look for a ready release, record building, replace the projection, record ready
or failed, activate. Hard: three stores' transactions with crashes, lost answers and a second
builder between them; a republished document changes the manifest, so that one snapshot gets several
graph releases, of which Neo4j keeps the newest. Correct when a snapshot that PostgreSQL calls ready
has a complete projection in Neo4j, and what is queried is ready.

### Evaluation datasets, publication, preflight (Go, `apps/api/internal/evaluation`)
State: dataset revisions with their cases, evidence and starters; the binding of each source alias
to a corpus source; the append-only publications; a review, a start and an inspection in progress.
Operations: import a file, bind an alias, review a dataset, start a run after a preflight, inspect
the catalog. Hard: the publication state is the row with the latest `reviewed_at`, a time read
before the lock; preflight and catalog read in separate queries what others move. Correct when a
dataset that was ever available is complete and bound, its state follows the review lifecycle, and
a run finds the evidence of all its cases.

### Evaluation run ledger and worker (Go, `apps/api/internal/evaluation`)
State: `evaluation_run`, `evaluation_run_case` (state, lease, attempts), the batch of each worker.
Operations: create, claim a batch, complete, release for retry, finalize. Hard: two workers on one
run, results after the lease, the count of open cases under READ COMMITTED, a completion refused by
the store. Correct when results are final, an ended run is the tally of its cases, attempts are
bounded and a run whose cases are all terminal ends.

### Evaluation scoring, comparison and inspection (Go, `apps/api/internal/evaluation`)
State: `evaluation_run_metric`, of cases and of the run. Operations: validate a response of the
agent, materialize it, score it, write the metrics with the case, aggregate them with the last case,
read a run, compare two. Hard: the aggregates are computed before the transaction of the last case
commits; a reader takes the run in one query and its cases in later ones; numbers are summed twice,
for the run and for comparisons. Correct when scores are parts of their wholes, every terminal case
has its metrics, and the aggregates are those of all cases.

### Opening suggestions (Go, `apps/api/internal/suggestions`)
State: sets of questions projected from a dataset onto a snapshot. Operations: publish, read. Hard:
a publication checks active snapshot, dataset and evidence in separate queries, and only part of it
again in the transaction that writes. Correct when what is shown has its evidence in the active snapshot.

### Chat gateway (Go), grounded chat (Python), web client (TypeScript)
State: one turn in each of three processes, two event streams, the attributes of the retrievers that
all threads of the agent share. Operations: submit, accept or refuse, ask, retrieve, generate,
validate, stream, relay, show, abort. Hard: the agent streams the text of an answer before it says
whether the answer is valid; connections break, readers leave, providers hang; threads
overwrite each other's descriptions. Correct when a turn ends in one terminal event, shows nothing
that was not validated, and describes its own search.

### The rest
Catalog and documents are single guarded statements and reads; acquisition, extraction and chunking
are functions from bytes to artifacts; the MCP tools are reads; platform, migrations, scripts and
prototypes keep no state of the application's own.

### How the parts interact
The API inserts a work row and forgets it. A worker claims the row, publishes a document version,
calls the API to stage a candidate snapshot, builds its graph in Neo4j, records it in PostgreSQL,
calls the API to activate the candidate, and completes the row: six transactions over two stores
with HTTP in between. Readers use whatever snapshot the release row names: a chat turn resolves it
once, before it calls the agent; opening suggestions are shown for it. Datasets are bound to the
sources of a corpus, runs to a dataset and a snapshot; from then on a run takes its cases from the
ledger alone, which its workers share and its readers watch.

## 2. Models

### IngestionQueue
One action is one committed transaction, or one step of a worker between two transactions. A
transaction that rolls back changes no row and is not an action; what the worker does next is.

| Code | Action or definition |
|---|---|
| `sources`, `document_versions`, `ingestion_work`, `processing_attempts` | `source`, `documents`, `work`, `attempts` |
| order of `requested_at` among pending rows | `ahead` |
| a worker process and the claim in its hands | `worker` |
| `Create`, `Retry`, `Reprocess` / `queueLifecycle` | `CreateSource`, `Retry`, `Reprocess` / `QueueLifecycle` |
| `claim`, `_recover_expired` | `Claim`, `RecoveredSource`, `RecoveredWork`, `RecoveredAttempts`, `RecoveredAhead` |
| `_lock_lease` | `HoldsLease` |
| `process`: stages, `publish`, release, `complete` | `FinishStages`, `Publish`, `Release`, `Complete` |
| an exception of a stage; no lease; `fail`; an exception of `fail` | `StageError`, `LeaseUnavailable`, `Fail`, `Abandon` |
| time; end and start of a process | `Tick`, `Crash`, `Restart` |

What is abstracted:
- A lease token is the worker process that claimed the row. A process holds one claim and forgets
  its token when it gives up or dies, so two live tokens never have one owner.
- A completed row of `ingestion_work` is never read again; its identity is reused as `free`. This
  keeps the model finite without a bound on the number of commands.
- Time is the number of units left in each lease, from the claim down to -1, when it is past. All
  processes read one clock. `inTime` is the clock value a process read before its transaction, so
  it may be out of date when the transaction runs, as in the code.
- `Claim` takes a row without older pending rows. With `SKIP LOCKED` a claim may take a younger row
  while another transaction holds the oldest; the holder then leases that one or rolls back.
- A transaction that PostgreSQL aborts, for a deadlock of the locks or a lost connection, changes
  no row; during a stage it is `StageError`, during `fail` it is `Abandon`. A commit whose
  answer is lost is the action followed by `Crash`.
- The limit of 20 sources and the optimistic version of a source only disable commands.
- An origin may have any content of `Documents` when it is fetched; the pipeline version is fixed.

### SourceLifecycle
Transitions of one source, each with the status it tests and the fields it keeps, translated from
`apps/api/internal/source/domain`. `ImplementsLifecycle` says that the queue, whose SQL overwrites
statuses it does not test, takes no other transition. The mapping is the identity on `source`. An
expired lease may be recovered and claimed in one transaction, so `Expire` also allows
processing to processing.

### SnapshotRelease

| Code | Action or definition |
|---|---|
| `corpus_snapshots`, `corpus_snapshot_releases`, `graph_releases`, Neo4j | `snapshots`, `release`, `graph`, `projected` |
| semantic extraction runs that were added to a document which existed | `artifacts` |
| `Publish`, `Initialize` | `Publish`, `Initialize` |
| `Stage`, `Activate` of a worker | `Stage`, `Activate` |
| `Activate` of a curator | `Choose` |
| `_insert_missing_semantic_extraction` of a publication | `Republish` |
| `build`: inputs and id; look-up; `building`; `ready`; error path | `Load`; `Reuse`, `Miss`; `RecordBuilding`; `RecordReady`; `RecordFailed` |
| `_replace_release_transaction`: its first read; its commit | `BeginReplace`; `ReplaceRelease`, `Superseded`, `Projected` |
| a stale or refused answer, a lost call, the end of the process | `Crash` |

What is abstracted:
- A snapshot is its manifest, the document it holds of each source; the key of the table is the
  hash of the manifest. Every candidate is valid: its documents are published, its chunks ready.
- The id of a graph release is a digest of snapshot and manifest. A manifest is the set of
  extractions that have added artifacts to the members when the builder reads them, beyond what each
  document got when it was created. So a snapshot has several graph releases, and the activation
  accepts any that is ready (`GraphReady`), as `requireReadyGraphRelease` does.
- A replacement in Neo4j deletes the releases of the snapshot that its transaction read at its
  beginning, its own among them, and writes the new one. Two transactions that overlap may therefore
  leave two releases of a snapshot. The row of a deleted release stays *ready* in PostgreSQL:
  `ReadyIsProjected` says that a snapshot with a ready row has some release in Neo4j, which is what
  retrieval asks for, and not that each ready row has its own.
- The lock on the release row makes each transaction of the API one step. While there is no row to
  lock, the keys of the two tables make the later of two transactions fail.
- `MaxVersion` bounds the moves of the release; it is the only bound in a guard.
- `IngestionSpec` is the module without curators and initialization, for the one run that shows what
  ingestion does by itself.

### IngestionRelease
The actions of `IngestionQueue` and, through `Corpus == INSTANCE SnapshotRelease`, those of
`SnapshotRelease`, with one more variable that says what a process knows of its claim.

| Code | Action or definition |
|---|---|
| the claim in a worker's hands; how far `publish()` of its coordinator is | `attempt` |
| `claim`; the other steps of a worker | `Take`; `Carry` |
| `publish` of a document that exists, with an extraction that adds to it | `Enrich` |
| `publish`: stage, build, activate | `Stage`, `Build`, `Activate` |
| its two `except` clauses; a refused, failed or lost call | `Caught`; `GiveUp`, or `Activate` with the outcome *failed* |
| the stage `graph_release` returned; raised | `Succeeded`; `Raised` |
| the end of a process, with its coordinator | `Dies` |

What is abstracted:
- All sources belong to one corpus. Its curators and its initialization do nothing here; what they do
  to a release is in `SnapshotRelease`, which this module implements.
- The source of a claim is kept in `attempt` as in the claim object: the row may be settled
  and used for another source while a worker without its lease goes on.
- The lease does not keep a worker from staging, building or activating, nor does the release look
  at the queue, because in the code neither does.

### EvaluationAssets and EvaluationDatasets
`EvaluationAssets` is the chain of validators of the importer, the domain package and the store, as
predicates of an asset in the order in which they reject; `Accepted` is their conjunction. The
other module has the state.

| Code | Action or definition |
|---|---|
| `evaluation_dataset_revision` and its rows | `imported`; the content of a revision is the constant `Asset` |
| non-null `corpus_source_id`, `evaluation_dataset_publication`, `evaluation_run` | `bindings`, `publications`, `runs` |
| `time.Now` of a review | `clock`, `Now` |
| `StoreDataset`, `BindSource` | `Import`, `BindSource` |
| `Review` up to the lock; `AppendPublication` with its trigger | `ReviewBegins`; `AppendPublication`, `MayFollow`, `PublicationTrigger` |
| `Start`: latest publication, preflight, `CreateEvaluationRun` | `CheckPublication`, `CheckCompatibility`, `CreateRun` |
| `GetDatasetCatalog`: review, then sources and starters | `InspectReview`, `InspectSources` |

What is abstracted:
- A revision is identified by a hash of its content, so a revision is its content; the import of a
  different file under a name that exists is refused and is not modelled.
- No two reviews read the same time. `MaxClock` bounds the readings.
- A first publication may be given any state, as in `AppendPublication`, which asks for a
  transition only when there is a previous record.
- The publication, binding and suggestion services have no caller in the repository's commands yet,
  and the port through which suggestions read the catalog has no adapter: it is modelled as what
  the tables hold.
- A rejected preflight ends the call and changes nothing. Nothing is checked again when the run is
  created: a dataset withdrawn after the preflight still gets its run, which
  `specs/012-evaluation-datasets/data-model.md:59` ("only `available` data can start a run") does not foresee. `RunsAreResolvable` asks for what
  cannot move, the bindings and an `available` record, of such a run.
- A withdrawal whose time was read before that of an `available` record which commits first is
  appended and has no effect. The states it leads through are ones the lifecycle allows.

### PublicationLifecycle
The transitions of `ValidatePublicationTransition` on one state per dataset. The mapping takes, of
the publications of each dataset, the state of the record with the latest time. Records may be
appended in another order than that of their times; a record that is overtaken is a stutter.

### OpeningSuggestions

| Code | Action or definition |
|---|---|
| active snapshot of the release row | `active`, `Activate` |
| `corpus_opening_suggestion_set` with its items | `sets` |
| `Publish`: active snapshot; publication; starters and evidence | `Begins`; `FindsAvailable`; `FindsResolved`, `Projectable` |
| `AppendProjection`: begin; locks, key, triggers, commit | `BeginsAppend`; `AppendProjection`, `ReleaseStands`, `Unprojected`, `SetTrigger` |
| `Read` and the handler | `LatestSet`, `Shown` |

A set stands for its items. `created_at` is the time the transaction began, so the latest set is not
the last one to commit. The release is reduced to what `SnapshotRelease` allows a curator: any
published snapshot may become the active one.

### EvaluationRuns

| Code | Action or definition |
|---|---|
| `evaluation_run`, `evaluation_run_case` | `run`, `cases` |
| a worker, its batch, its open transaction | `worker` |
| `Claim` | `Claim`, `Claimable`, `Batch`, `LeasedRow` |
| `Complete`, `ReleaseForRetry` up to the commit, and the commit | `Complete`, `ReleaseForRetry` (`Settle`), `Commit` |
| `finalizeRunIfTerminal`, `terminalRunState` | `Verdict`, `Open`, `terminalRunState` |
| a result without metrics; `ErrLeaseLost`; any other error or the end of the process | `RefuseUnscored`, `LeaseLost`, `Abort` |
| `lease_expires_at` passes | `Expire` |

What is abstracted:
- A settling transaction has two steps. In the first it locks its case and counts open cases in
  what has been committed, in the second it commits. A case locked that way is skipped by claims.
- One run: the ledger reads and writes no row of another run, except that a batch may mix runs.
- Attempts are counted up to `MaxAttempts + 1`, which is as far as any comparison reaches.
- Answers and metric values are left to `EvaluationResults`; here a result has an outcome and has its
  metrics or not. The outcomes are a constant: the runs that hold offer all the store accepts or
  refuses, the finding only what the repository's own processor yields.

### EvaluationScoring and EvaluationResults

| Code | Action or definition |
|---|---|
| `Client.Execute` and its validators; `MaterializeCaseResult` | `Execute`, `validEvidenceOrdering`, …; `MaterializeCaseResult` |
| `ScoreCaseV1`; `aggregateMetricValue`; the deltas of a comparison | `ScoreCaseV1`; `aggregateMetricValue`, `Aggregates`; `JointlyScored`, `MetricDelta`, `ComparisonTotals` |
| metrics of cases and of the run in `evaluation_run_metric` | `metrics`, `aggregates` |
| rows of an open transaction | `writing` |
| `Complete`, `ReleaseForRetry`, their commit, their abort with all they write | `CompleteResult`, `ReleaseResult`, `CommitResult`, `AbortResult` |
| what writes no metrics | `OtherStep` |
| `GetEvaluationRun`, `ComparisonRun`: the run; the later queries | `ReadRun`, `ReadLedger` |

What is abstracted:
- A location of evidence is a unit of a snapshot; an answer is the sequence of numbers its `[n]`
  markers name; one latency stands for three measurements.
- `ScoreCaseV1` has no caller in production: the processor returns answers without metrics, which
  `Complete` refuses (`RefuseUnscored`). Results that are
  accepted are modelled as scored with it, as the store asks of a processor.
- The comparison key is taken to agree; `Earlier` is the ledger of another run with that key.

### GroundedChat and ChatTurn

| Code | Action or definition |
|---|---|
| a request thread of the agent; attributes of the retrievers | `agent`; `shared` |
| `HybridRetriever.search`, `StrategyRetriever.search` | `Search`: `Clear`, `SearchVectors`, `SearchGraph`, `SkipGraph`, `CopyPath`, `Select` |
| `EvaluationExecutor.execute` | `Execute`: `Search`, `Leave` |
| `_retrieve`, `_generate`, `_validate`; an exception | `Describe`, `Generate`, `Validate`; `Raise` |
| `_stream_graph` | `AgentWrites`, `AgentEnds` |
| `Handler.stream`, `Service.Ask` | `Refuse`, `Accept`, `FailsToAsk`, `WriteEvent`, `Return` |
| `Client.Ask`, `handleEvent`, the timeout and the context of the request | `AsksAgent`, `handleEvent`, `EndOfStream`, `StreamError`, `Timeout`, `Cancelled` |
| `useNorviiChatRuntime`, `chat.ts` | `Submit`, `Receive`, `Fallback`, `Abort` |
| the TCP connections | `Stream`, `Cut` |

What is abstracted:
- An event is its type, and one `delta` stands for the text of an answer. Of the evidence only
  matters whether there is any, of an answer whether it cites it.
- A stream that breaks may lose what was written and not yet read. Since the agent's stream is
  delimited by the end of its connection, an agent that dies can look like one that ended.
- The event `cancelled` is only written when the request was cancelled, to a connection that is
  gone; it is left out of `ChatTurn` and allowed by `ChatProtocol`.
- Errors of graph search and planner end inside the hybrid retriever (`SkipGraph`), so the handler
  of `StrategyUnavailableError` in `grounded_chat.py:223` is not reached by the repository's retrievers.
- The token counts of model and planner (`last_usage`) are shared between threads like the
  attributes that are modelled; they are left out.
- The threads that execute evaluation cases (`Executions`, `Execute`, `Leave`) run the same search on
  the same retriever (`transport/__main__.py:43`, `evaluation/execution.py:186`) and so write the
  attributes that a question reads. They take steps in `AgentSpec`, which the run `chat_inspection`
  and the theorems on the inspection are about. `ChatTurn` has no step for them: what they change,
  `shared`, is read by no property of that module and decides no step of it but the value of
  `described`.

### ChatProtocol
Which event may follow which on the stream to the browser: the order in which
`specs/005-grounded-rag-chat/contracts/chat-http.md:28` lists the events of a turn, one `started`, the
`evidence` before the text and at most once, one terminal event with nothing after it. The mapping is the last
event written to the stream.

It is the order and not the contract. The contract gives *every* turn one `evidence` event; the handler
writes it only for an answer that completes (`chat/http/handler.go:95-103`), so a turn that ends in
`error`, `abstained` or `cancelled` has none. That is a divergence of the code from its contract, plain
from those lines (section 3). `EndsAtOnce` lets turns end so; `After` also lets them end
in any way after the evidence, as the contract says.

## 3. Runs

| Run | Instance | Shows |
|---|---|---|
| `ingestion_safety` | 2 sources, 2 rows, 2 workers, 2 contents, lease 1 | tables agree, lost leases are inert, the queue implements the lifecycle |
| `ingestion_liveness` | 2 sources, 2 rows, 1 worker, 1 content, lease 2, fairness | every pending row is claimed, no lease stays expired |
| `release_safety` | 2 sources, 1 document or none each, 1 later extraction, 2 coordinators, 3 moves, 2 graph releases | no lost update, a version names one snapshot, a ready snapshot is projected |
| `ingestion_release` | 1 source, 1 row, 2 workers, 2 contents, 1 later extraction, lease 1, 3 moves, 2 graph releases and extractions | coordinators work on their workers' claims, snapshots hold what was published, nothing is ready before it was released |
| `release_overtaken` | 2 workers, 2 contents, 2 moves | *violated*: a worker without its lease puts its older document back |
| `release_rebuilt` | 1 source, 1 document, 2 coordinators, 1 move, ingestion alone | *violated*: the graph that is queried is building again |
| `evaluation_datasets` | 2 datasets and every asset one field away from them, 2 snapshots, 2 reviewers, 1 start, 1 inspector, 3 readings of the clock | imported cases are paired, available datasets are servable, runs resolve, the catalog does not mislead, reviews implement the lifecycle |
| `suggestions` | 2 datasets, 2 snapshots, 2 publishers, 1 reviewer, 3 readings of the clock | sets are covered for ever, projected only onto the active snapshot, and what is shown has its evidence there |
| `evaluation_safety` | 3 cases, 2 workers, batches of 2, 2 attempts, 3 kinds of answers while running, all short ones and abstentions for the scores, 1 reader, an earlier run | results are final and scored, the ended run is the tally of its cases, an attempt past the limit needs an expired lease, readers that see the end see all of it, both sums of a metric agree |
| `evaluation_lastcase` | 2 cases, 2 workers, batches of 1 | *violated*: all cases terminal, the run still running |
| `chat_turn` | 1 turn, all breaks, timeouts and cancellations, fairness | the events are in the contract's order, nothing unvalidated is shown, every question gets an end |
| `chat_inspection` | 1 question, 1 evaluation case | *violated*: an answer carries the assertion path that the search of the case left |

Why the bounds are enough to show what can go wrong:
- Ingestion: two workers let one hold a row that another recovered, two sources and rows let one
  transaction recover two leases and claim one of them, two contents make a republished document
  differ from the first. A lease of one unit has an instant inside, the deadline itself and an
  instant after it, which is where `<` and `>=` of the code differ.
- Release: two sources are needed for a lost update (two workers replace different members), two
  coordinators for two builders of one candidate, three moves for a first release, one away from it
  and one back between a `Stage` and its `Activate`. One document per source suffices because
  its absence is the second value of a member. One extraction gives a snapshot a second manifest, so
  that two builders replace each other's graph releases. `FewBuilds` is a constraint of the run, not a
  guard: a state with more than `MaxBuilds` = 2 rows of graph releases is checked and not continued. Two
  releases of one snapshot, or one of each of two, are within it.
- Ingestion with release: one worker goes on without its lease while the other publishes different
  content of the same source, activates and completes; three moves let both activate and one of
  them again. A later extraction changes the manifest while a graph is built; rows of graph releases and
  that extraction together are at most two (`FewBuilds`). With one row the lost claim and the new one are about one row. Two sources are out
  of reach together with two workers; their members do not meet except in the version, which
  `release_safety` has, and the proofs are for any number.
- Datasets: three readings of the clock give a record, a second one, and one between them that
  commits last, by two reviewers. Of the datasets one may become available and one lacks its
  starters; the misprints meet each validator alone. Of the snapshots one covers the good dataset.
- Suggestions: two publishers project the same dataset at once while the snapshot moves, and one
  reviewer withdraws it in between.
- Evaluation: three cases and batches of two leave a case for the second worker while the first has
  a batch with a rest; two attempts separate a retry from the last attempt. One reader meets every
  step between its two reads. The short answers have up to two markers and two locations, which
  is enough for a repeated, a missing and a misplaced one.
- Chat: turns and evaluation cases meet only in the attributes of the retrievers, which no property of
  `chat_turn` reads; `chat_inspection` needs two threads, and a question and a case show that a
  question may be disturbed by work that no reader asked for. Two questions do the same.

Workers, coordinators, contents, reviewers and publishers are interchangeable and are symmetry sets
of the safety runs, as are the sources of `release_safety`. Cases are not: they are claimed in order. The liveness runs use no symmetry. `MaxVersion` and `MaxClock` are the only bounds in guards.
Deadlock is checked except for evaluation runs and chat turns, which end.

**Fairness** is assumed of two modules. Ingestion: time passes (`Tick`); some idle worker claims
while there is work, because the loop of `worker.py` polls; a live worker finishes what it began,
because its HTTP and database calls have time limits and every exception leads to `fail`; a stopped
worker is started again, which the operator does with the repository's local scripts. Nothing
makes a stage succeed, a lease last or a worker stay alive: `PendingIsClaimed` and
`ExpiredIsRecovered` hold although a source may be requeued for ever. Chat: the runs of
browser and API proceed and the timeout of the API's HTTP client passes (`client.go:31`). Nothing
is assumed of the agent, whose providers may never answer.

### What the documents say and the code does not do
- `QueriedGraphIsReady`: `specs/008-graphrag-hybrid-retrieval/data-model.md:41` lets retrieval query
  ready graph releases alone. Two workers stage the same candidate, as when one recovers the lease that the
  other has outlived; the second looks for the graph release before the first has recorded it as ready and,
  after the first has activated the snapshot, records it as building again (`builder.py:233`). Retrieval goes by the node in
  Neo4j, which the first build marked ready, and keeps querying it, also if the second build then fails.
- `ReadyIsActive`: `release/coordinator.py:53` guarantees that a successful ingestion exposes its
  document; a worker that lost its lease stages against the new version and replaces it.
- `LastCaseEndsRun`: `apps/api/internal/evaluation/postgres/runs.go:79` persists the aggregates once
  every case is terminal; two transactions that settle the last two cases each see the other open.
- `InspectionIsScoped`: `specs/006-citation-inspection/spec.md:129` scopes inspection data to the
  answer and its corpus; the threads of the agent leave the description of their search in
  attributes that they share (`hybrid.py:215`) and read them after it. In the run a question that made no
  graph search of its own completes with the path that the hybrid search of an evaluation case left.

Divergences that are plain from the lines and have no run:
- `specs/005-grounded-rag-chat/contracts/chat-http.md:28` gives every turn one `evidence` event; the handler
  writes none when the turn ends in `error`, `abstained` or `cancelled` (`chat/http/handler.go:95-98`).
- `specs/004-corpus-catalog/spec.md:158` bounds processing attempts and forbids retrying for ever;
  the recovery of an expired lease requeues its row without counting (`publication/postgres/repository.py:253`).
- `docs/modules/go-api.md:83` allows three attempts of an evaluation case; a claim of an expired lease
  compares nothing (`runs.go:201`). `RetriesAreBounded` says that this is the only way past the limit.
- `specs/005-grounded-rag-chat/quickstart.md:43` keeps the prior ready document as the latest evidence of
  a source whose attempt failed; the snapshot is activated before the row is completed, and an
  answer that is lost or a completion that fails takes nothing back (`processor.py:252`).
- `specs/008-graphrag-hybrid-retrieval/spec.md:119` keeps a revision unavailable until its graph is
  validated; `Activate` asks for a graph release (`snapshot/postgres/repository.go:219`), `Publish`
  (`:107`) and `Initialize` (`:250`) do not.

## 4. Proofs

The theorems hold for all values of the constants under the named assumptions of each module
(leases of at least one unit, a bound on the moves that is a number, `None` outside the other sets and no verdict of a run,
a finite set of numbers for the cases, not empty, a positive limit and batch, outcomes the store knows,
answers and expectations that are finite, an earlier run whose rows are sound). None of the other
sets needs to be finite. `EarlierAssumption` is what every run guarantees of its own ledger
(`LedgersAreSound`), so a comparison assumes no more of the earlier run than is proved of it.

**IngestionQueueProofs.** The invariant is the type invariant, `OneActiveWork`, `LeaseAgreement`,
`NoStrandedSource`, `ReadyIsPublished` and one more fact. `CarriesPublished`: the document a worker
carries from publication to completion is among the documents of the source of its row, if it still
holds the lease. Without it `ReadyIsPublished` is not preserved by `Complete`; without the condition
on the lease it is not true, for a row may be recycled for another source while the worker that lost
it still carries a document of the first. The rows part is preserved by every step of a worker that changes no row,
so the proof treats in detail only `Enqueue`, `Publish`, `Settle`, `Tick` and `Claim`; for `Claim`,
`RecoveryFacts` first states what recovery alone leaves behind. `LostLeaseIsInert` and the
refinement `Implementation` follow from the invariant and three lemmas on how each kind of step
changes `source` and `documents`.

**SnapshotReleaseProofs.** `CandidateIsCurrent` is not inductive by itself: a coordinator could
expect a version that does not exist yet and be overtaken by it. `ExpectedIsPast` says that the
version expected is at most the present one, so every move makes all candidates stale at once.
`ProjectionStands` says that while a coordinator is past its Neo4j transaction its snapshot has a projection, its own or that
of a builder which deleted it, for `ReadyIsProjected`; both are about snapshots, since a
builder with another manifest may delete what this one has written (`ReplacedFacts`); `NoRowNoSnapshot` that a corpus without a release row has the empty snapshot,
for the step that inserts the first row. `NoLostUpdate` and `VersionNamesSnapshot` are action
properties from that invariant.

`SingleBuildsKeepTheGraph` isolates the overlap in the trace of `release_rebuilt`, the taking back of a ready
graph: if no two coordinators are at once past their look for the same graph release (`BuildsAreApart`), the
active snapshot keeps a ready graph release until another becomes active (`ReadyGraphIsKept`), also while
republished documents give it further releases. The invariant is that a graph release under build is
not ready (`BuildsUnready`); only builders write graphs (`GraphWriters`). One coordinator keeps it therefore
(`OneCoordinatorKeepsTheGraph`). It is not the whole of `QueriedGraphIsReady`: a curator may make
a snapshot active whose graph is still being built.

**IngestionReleaseProofs.** `ReleaseRefinesQueue` and `ReleaseRefinesCorpus`: each part of the
composition takes only its own steps, so the theorems above hold of both. The invariant is that of
the two parts with `ClaimsInv`, which ties them together: as long as a worker holds its lease, the
source of its row is the one it claimed; the document it carries was published for that source and
stays published when the lease is gone (`DocumentsLast`); once activated, a snapshot holds it, and
snapshots are never deleted; a busy coordinator has the source and document of its worker and its candidate
holds them. `SnapshotsArePublished` then needs no lease at all. `ReadyWasReleased` does: only the
holder of a lease completes a row (`ReadyIsCompleted`), and for the holder row and claim agree.

`LeasedReleasesAreActive`: if no lease is lost while its worker's coordinator is busy
(`ReleasedUnderLease`), the ready document of a ready source is active. `HoldersAreActive` says that
the document of a worker that was told of its activation stays active while it holds the lease: only
an activation moves the release, by one member (`ActivationMoves`, from `CandidateIsCurrent`), and two
holders work for two sources (`HoldersAreApart`). That leases may be lost there is the divergence
`ReadyIsActive`. `OneWorkerIsActive` needs no such hypothesis: a lone worker may outlive its lease, but nobody
recovers it (`LoneClaimsAreHeld`).

**EvaluationDatasetsProofs.** First of assets. `AcceptedIsPaired`: whatever passes the validators
consists of reciprocal pairs. The validators look from each case to the one it names and at the
number of ranks; that the pairs do not overlap and that their ranks are 1 to *n* is derived, the
latter by counting. `StartersCover`: complete starters offer every rank in every language. Then of the
datasets: `DInv` adds to the types `BindingsAreUnique` (an alias has one
source), `TimesAreUnique` (of records and reviews under way), `StartsAreChecked` and
`InspectedIsBound`: what a call read earlier still holds of the bindings, which are only added to
and never changed. Hence `AvailableIsServable`, `RunsAreResolvable` and `InspectionIsConsistent` in
spite of separate queries. For the refinement `DatasetRefinement`, unique times make the latest
record one record (`LatestExists`), so an appended one either becomes it, after a transition that
was validated against it under the lock, or leaves the state alone.

**OpeningSuggestionsProofs.** `SInv` adds `CallsAreChecked` (evidence found resolved stays resolved)
and `LatestSetExists`. `SetsAreCovered` and `ShownIsCovered` rest on the coverage of a dataset by a
snapshot being permanent, since bindings, cases and snapshots never change; the re-check of the
active snapshot under its lock is needed only for `ProjectionsFollowTheRelease`.

**EvaluationRunsProofs.** `CommitsHold` says what is known between the first step of a settling
transaction and its commit: the case is still leased by that worker, the row to be written is
terminal or pending, and a verdict counted with all other cases terminal stays right, since
terminal cases never change. This is the reason why a count made before the commit
is sound for the state of an ended run, though not for ending it (`LastCaseEndsRun`).
`LedgerIsFinal` and `LeaseEndsByHolder` follow. For `RetriesAreBounded`, `AttemptsLeft`: what is pending,
or about to be written as pending, has an attempt left, and a row about to be written has the
attempts of the row it replaces, which nobody claims while it is locked.

`SerialCommitsEndTheRun`: if no two settling transactions of a run are open at once
(`CommitsAreApart`), its last case ends it; an open transaction that leaves the run alone has seen a
case that is still open when it commits (`LeavesOpen`), because claims keep open cases open and no
other transaction commits. `OneWorkerEndsTheRun` is the case of one worker. `StrandedRunsStay` is
the other side: once the overlap has left a run without an open case, no step of the
system ends it.

**EvaluationResultsProofs.** `ResultsRefineRuns` shows that the ledger with its metrics is a ledger
of `EvaluationRuns`, so the theorems above hold of it. `RInv` adds `LedgerRows` (a terminal case has
all its metrics, another none), `WritingRows` (an open transaction that has a verdict holds the
aggregates of the ledger it will commit: all other cases are terminal, so the rows it saw cannot
change), `QueuedIsUntouched` and `ReadersAreRight`. `Soundness` is arithmetic: cardinalities of
finite sets and their parts, for all answers and expectations.

`Comparisons` is about sums over any number of cases. A sum is a fold, and the induction theorems
of the library that take a predicate are out of reach of the provers; `SetInduction` states induction over
the subsets of a finite set with a set in place of the predicate, from the well-foundedness of their
strict inclusion. With it `TotalIsSum` shows that the fold obeys its defining equation,
and `TotalsOrdered` and `TotalIsPositive` that sums keep the order and sign of their terms. `SummedScore` is then
what a component adds up to on either side. `ComparisonAgrees` and `ComparisonAdds` are
the two parts of `ComparisonsAreSound`; the rows they add are sound by `LedgersAreSound`, which
follows from what is stored with a terminal case (`RowIsScored`).

**ChatTurnProofs.** What the browser is shown is traced back through both streams. `Upstream`: an event
of the agent, written or still to write, is one that the status of its thread stands for (`Sound`),
and the text of an answer is the third event, so that it is relayed once at most. `Relaying`: the API
keeps a completed event only of a validated answer, and each event it will write may follow the one
before. `Downstream`: whatever of an answer was written is vouched for by the validation of the agent
(`Vouched`), and what is next may follow what was written last. None of the three is inductive alone:
the API must go on being right about an agent that it no longer listens to, which holds because a
status is taken once (`Unspoken`). `Validation` and the refinement `Refinement` follow, the latter for any
interleaving of breaks, timeouts and cancellations. `Refinement` is about the order of the events and not
about the presence of the evidence, as `ChatProtocol` is.

`SearchesApartAreScoped` is about `AgentSpec`, in which evaluation cases are executed beside the questions: if no
thread of either kind searches while another is between the beginning of its search and its description
(`SearchesAreApart`), an answer describes its own graph search or none. `FindsItsOwn` says what a
thread will find in each attribute it reads next: cleared, or written by its own search. To keep
questions apart would not suffice, for the run has only one.

**The divergences and the proofs.** The four violated properties are shown by their counterexamples, and for each there is
a theorem that names the overlap it takes: two transactions of one run, two builds of one graph release, a
release that outlives its lease, two searches. The hypotheses are properties of
behaviours that the code allows and does not enforce; each is met by
one process of its kind, or one thread of the agent at a time (`OneThreadIsScoped`), which is stated as a
theorem of its own without them.

Only model-checked: the liveness properties (`PendingIsClaimed`, `ExpiredIsRecovered`, `TurnsEnd`),
which need fairness and `ENABLED`.

## 5. Plan

Done, in the order in which the system depends on them: the ingestion queue and the snapshot
release, and the two composed; the evaluation ledger; datasets, publication and preflight; opening suggestions; scoring,
aggregates, comparison and the readers of a run; the chat turn. Each has its type invariant, safety
properties, a refinement where the code has a promise to keep, and proofs.

Left:
1. **Readers of graph releases.** The agent that reads, of the releases of a snapshot in Neo4j, the ready one
   with the smallest id, and the readiness endpoint that reads the latest row.
2. **Rank fusion** of the two searches as a function.

Not modelled: catalog and documents (single statements guarded by a version, and reads); the HTTP
surface of sources, snapshots and evaluations (mapping without state); acquisition, extraction,
chunking, prompts and providers (data and external services); the MCP tools (reads); platform,
migrations and scripts (no state of the application's own); presentation; locks and their order (the
database resolves a deadlock by an abort, which the models have).
