# Memory Evolutionary Agents in TLA+

The program watches directories of notes, runs an extraction workflow on every
new or changed file and stores what it extracts as memories (Postgres), vector
points (Qdrant) and notes (Obsidian), with an ontology that people review and a
chat endpoint over the result. Two processes share its work and one SQLite
file: the *worker* (`worker.py`), a loop, and the *API* (`api.py`), a pool of
request threads that may start the same operations.

Paths below are relative to `src/src/memory_evolutionary_agents/`.

## 1. Inventory

| Component | State it keeps | Operations | Hard part | Correct when |
|---|---|---|---|---|
| Stage policy `phase6/policy.py` | none | `assert_transition` | none by itself: it judges a stage read earlier | no timeline leaves the table |
| File progress and retries `phase6/service.py`, `phase6/persistence.py` | `file_stage_events` (append only), stage and status in `file_processing_runs`, one row per file run in `file_retry_queue` | `transition`, `queue_retry`, `manual_retry`, `begin_retry`, `settle_retry`, `fail_retry` | three tables, one transaction each, two writing processes | tables agree, attempts are bounded, nothing is lost or reopened |
| Worker loop `worker.py` | none across cycles | retry pass, then a run, then its files | any exception no handler names ends it | it survives what the API may do |
| Ingestion `phase2/service.py` | memory, chunks, points, note of a file | `execute_for_run`, `execute_file_run` | failure between any two stores, retryable or not | completed means stored; every file ends |
| Scheduler, runs and scanner `scheduler.py`, `repositories.py`, `scanner.py` | `ingestion_runs`, fingerprints in `ingested_files` | `run_cycle`, `start_run`, `upsert_file_discovery`, `finish_run` | a lock in one process, a select before an insert across two, a stop inside a cycle | one run at a time, each change ingested once |
| Workflow runner `phase2/workflow_runner.py`, `handlers.py`, `workflow_handlers.py` | none | `run_workflow`: normalize, chunk, embed, extract | a timeout that waits, a file read twice, vectors of two sizes | what it makes of a file is a function of its content |
| Memory stores `phase2/service.py`, `adapters.py`, `persistence.py` | points (Qdrant), notes (vault), memories and chunk rows (Postgres) | upsert, `write_summary`, `persist_memory`, `persist_chunk` | three stores and no transaction; points and notes that files share | rows name what is there, points belong to a file that had them |
| Ontology `phase3/` | terms, tags, relations, proposals and their trail | `evolve`, `approve`, `reject`, `merge`, alias resolution | reviewers and ingestion at once, chains of merges | every new name is reviewed, a proposal is decided once, aliases resolve |
| Retrieval and chat `phase4/` | none | validation, vector search, link walk, ranking, synthesis | two stores read one after the other, cyclic links, four tests of one filter | what is cited contains what was found, the walk ends, the tests agree |
| Progress stream `phase6/service.py`, `api.py` | a bounded queue per subscriber | `publish`, `subscribe`, `unsubscribe` | full queue, threads | publishing never disturbs ingestion |
| Telemetry, pricing, status `phase5/` | usage events | `record_event`, cost, freshness, job health | boundary dates | reference definitions |
| Onboarding `onboarding.py`, `security.py` | a flag, connector settings | start, test, save, complete | gate of the API and the worker | no ingestion before completion |
| Source registry `source_registry.py` | watched directories | create, patch, list | none by itself | |
| Container, settings, migrations, workflow YAML, dashboard | wiring and user interface | | | |

The worker calls the retry pass, the scheduler and the ingestion service in
that order, in one thread. A request may call the scheduler and the ingestion
service (`POST /jobs/scan`) or the retry queue (`POST /files/{id}/retry`) at any
time. Between them there is the database and nothing else: `Database.connection()`
is one SQLite transaction, every repository method opens its own, and no value
read in one is protected until it is used in the next. The lock of the scheduler
lives in one process. The ingestion service calls the file progress service for
every stage, the workflow runner once per file, and then `evolve` of the ontology,
Qdrant, the vault and Postgres, each a call of its own that may raise. Requests
decide proposals (`POST /ontology/proposals/{id}/approve`, `reject`, `merge`) and
ask questions (`POST /chat/query`) beside all that; a question reads Qdrant,
Postgres and the vault, one after the other.

`PROJECT.json` lists the hazards found in the code, each at its line, with the
properties that would catch it going wrong. A hazard without a property has a note that
says why: the code is modelled, but what it does there is not what a property could ask
for, or nothing in the repository says what it should be. Several properties except
exactly such a case by name; the exception is then the hazard, and the property says that
there is no other.

## 2. Modules

| Module | Models | Used by |
|---|---|---|
| `StagePolicy` | the table of allowed transitions and `assert_transition` | `FileProgress` |
| `FileProgress` | the retry pass of the worker, a run (scan, execution), manual retries and scans by request threads, over the timeline, the processing row and the retry queue; faults and restarts | `MCFileProgress`, the proof modules |
| `FileLifecycle` | what is promised of one file run, without threads, queue or database | refined by `FileProgress` |
| `MCFileProgress` | instances for TLC | five runs |
| `FileProgressProofs` | theorems about every file run | `FileOwnershipProofs` |
| `FileOwnershipProofs` | theorems about the file runs nobody retries by hand, and about queue and policy as long as nothing crashes | `FileSerialProofs` |
| `FileSerialProofs` | theorems about operations that do not overlap: the budget of every file run, the refinement | |
| `IngestionRuns` | the scheduler's cycle in two processes, fingerprints, the reading and storing of files that are edited meanwhile, stops | `MCIngestionRuns`, the proof modules |
| `MCIngestionRuns` | instances for TLC | three runs |
| `IngestionRunsProofs` | theorems that hold whatever overlaps, and about runs, and executions of a file, that do not | |
| `OntologyReview` | `evolve` beside reviewers who approve, reject and merge, and the aliases a filter is resolved through | `MCOntologyReview`, `OntologyReviewProofs` |
| `ProposalDecision` | what is promised of one proposal | refined by `OntologyReview` |
| `OntologyReviewProofs` | theorems about the queue, the records, the trail, the aliases and the refinement | |
| `MemoryStore` | what an ingestion makes of a file and writes to Qdrant, the vault and Postgres | `ChatQuery` |
| `ChatFilters` | the validation of a filter and the tests of a record | `ChatQuery`, `LinkWalk` |
| `ChatQuery` | the vector search of a query beside the ingestion: composes `MemoryStore` and `ChatFilters` | `MCChatQuery`, `ChatQueryProofs` |
| `ChatQueryProofs` | theorems about the stores and what is cited | |
| `Subsequences` | what a loop, a comprehension or a dict keeps of a list | `MemoryStore`, `ChatQuery`, `LinkWalk` |
| `LinkWalk` | one query from its hits to its answer: link walk, ranking, synthesis | `MCLinkWalk`, `LinkWalkProofs` |
| `LinkWalkProofs` | theorems about the walk, the ranking and the filters | |
| `OrderLemmas` | induction, finite strict orders, subsequences | `OntologyReviewProofs`, `ChatQueryProofs`, `LinkWalkProofs` |
| `MCOntologyReview`, `MCChatQuery`, `MCLinkWalk` | instances for TLC | a run each, `MCLinkWalk` two |

### FileProgress

State. `event[f]` is the newest row of `file_stage_events` of a file run (from
and to), `row[f]` stage and status in `file_processing_runs`, `retry[f]` its row
in `file_retry_queue` with `due` for `next_attempt_at <= now`, `memory` the files
whose memory is in the canonical store. Each thread (the worker, the clients of
the API) has a position `pc`, the operation it is in (`mode`), the file in hand
(`cur`), the transition it performs (`goal`), what it read and will still use
(`seen`, `tally`) and the rest of the list it loops over (`todo`). `executions`,
`touched`, `requests` and `faults` are history.

Actions. One action is one transaction and the code up to the next one.

| Code | Actions |
|---|---|
| `transition` | `ReadStage` or `Refuse`, `AppendEvent`, `StoreRow` |
| `queue_retry` | `CountAttempts`, `Enqueue`, then a transition |
| `_process_due_retries` | `BeginCycle`, and per row `BeginRetry`, a transition, `Fetch`, the execution, `SettleReadsRow`, `SettleReadsItem`, `SettleMarks`; `FailRetry` in the except clause; `BeginScan` after the last |
| `run_cycle`, `execute_for_run` | `Discover`, `DiscoverError`, `ListRun`, `NextFile`, `EndRun` |
| `_execute_single_file` | `Record`, transitions, `WorkflowSucceeds`, `WorkflowFails` (retryable or not), `RecordFails` |
| API | `TriggerScan`, `ManualRetry` |
| environment | `Crash`, `Restart`, `BackoffElapses` |

An exception that leaves an operation ends the worker (`pc = "killed"` when the
policy refused a transition, `"crashed"` otherwise) and answers a request with
an error. `Crash` also stands for the errors no handler names (`sqlite3.Error`,
`psycopg.Error`, a `start_run()` that refuses because another run is running).

Abstractions. A file run is discovered once; the scan picks new file runs, how it compares
fingerprints is the subject of `IngestionRuns`. The workflow and all its stores are one step
that stores the memory or not, before it fails or not (`MemoryStore` has the steps). Two
scans may overlap here although `start_run()` usually prevents it, so the safety results
hold with and without that guard. Error texts, durations and list queries are left out.
`BackoffElapses` assumes that the thread which has just written a retry row performs the
three transactions that follow within the backoff, 30 seconds or more; without that
assumption the worker could pick up the row before its retry_queued event is written.

### IngestionRuns

State. `disk` is the version of each file, a number that every edit increments; it
stands for the content, and a fingerprint for the version it was computed from.
`runs` and `last` are `ingestion_runs`, `fingerprint` the column
`last_fingerprint` of `ingested_files`, `rows` the status of
`file_processing_runs` with the version that caused each row, `memory` the versions
of a file in `canonical_memories` (unique per content) and `note` the version its
note was made from. `lock` is the scheduler's lock, one per process. Each thread has
a position and the values its code holds between two statements: the run, the
snapshots still to be recorded, the fingerprint it selected, the file run in hand,
the text it read, the rest of its list.

| Code | Actions |
|---|---|
| `run_cycle`, `start_run` | `StartRun` (lock and select) or `Refused`, `InsertRun` |
| `scan_source` | `Scan` |
| `upsert_file_discovery` | `FindFile` (select), then `QueueFile`, `SkipFile` or `Collide` (UNIQUE) |
| `finish_run` and the finally clause | `FinishRun` |
| `_process_due_retries` | `BeginCycle` |
| `execute_for_run` | `ListRun`, `EndFiles` |
| `_execute_single_file` | `ReadFile`, `WriteSummary`, `PersistMemory`, `Complete`, `Fail` |
| API | `TriggerScan`, `ApiStops` |
| environment | `Edit`, `Raise`, `Restart` |

A select is a step of its own because sqlite3 opens a transaction at the first
write and not before; what follows the select up to the commit is one step. An
exception releases the lock, ends the worker or answers the request, and leaves the
row of the run as it is (`Unwind`).

Abstractions. One source; its files have different names, so each has a note of its
own. A scan and an edit are atomic to each other (the scanner computes status and
hash one after the other; a fingerprint of both halves only makes the next scan see
one more change). A scan finds any subset of the files: sources that are paused or
missing, files that cannot be read, the deadline and a stop request have no other
effect. A run ends "completed" or "failed", which nobody distinguishes here. The
retry queue is the set of file runs that are `retry_queued`; its own rows are in
`FileProgress`. Points and chunks are the subject of `MemoryStore`.

### OntologyReview

State. `registry` has status and `merged_into` of each row of `ontology_terms` and
`taxonomy_tags` (a normalized name is unique in its table and stands for the id), `spelling`
the name each row has now, `proposals` the same of each row of `schema_proposals` by its
idempotency key (content hash and name), `audit` the rows of `schema_proposal_state_events`,
`relations` and `memory` the edges and the names stored with each content. A thread of the
ingestion holds what it has read of the registry (`snap` the status, `names` the spelling)
and the names still to do; a reviewer holds a proposal, a verdict and the status it read. A
name is a pair of its normalized form and its spelling. The upsert of a candidate without a
match gives the row the spelling of the candidate (`SET name = EXCLUDED.name`), whatever it
had before; a memory gets the spelling that was read or registered; a filter is resolved to
the spelling the row has now (`Answer`), and compared with the stored ones as they are
spelled (`Found`). `respelled` remembers the names a row no longer has.

| Code | Actions |
|---|---|
| `evolve` | `ReadTerms`, `ReadTags`, then per name `Reuse`, or `Register` and `Propose`; `Relate` per edge |
| `_persist_memory_record` | `StoreMemory` |
| `approve_proposal`, `reject_proposal`, `merge_proposal` | `OpenReview` (read and check of the status), `DecideRecord`, `ReadAgain`, `DecideProposal` |
| `resolve_filter_aliases`, the condition sent to Qdrant | `Resolve`, `Answer`, `Found` |
| environment | `IngestFails`, `ReviewFails` |

Abstractions. `Spellings` are the ways to write a normalized name, and the matcher takes
names of one normalized form for the same; a score over the threshold is a pair of the
constant `Similar`, and which of several similar records wins is left
open. A reviewer may name any row of the right table as the target of a merge, the
record itself included, because the code checks no more than the foreign key does;
a target that does not exist is refused by it and changes nothing but what
`ReviewFails` leaves. Notes, actors, confidences and context are left out.

### MemoryStore and ChatQuery

State. `disk` is the content of each file, `points` the payload of each point by chunk
id, `notes` for whom the note of each name was written, `memories` and `chunks` the
rows of Postgres by (file, content hash), `recent` their order by `updated_at`. A
content is a short sequence of letters that stands for its own hash. Each thread of
the ingestion has an attempt `att[t]`: the file, the hash it computed when it read the
file, the text the workflow made chunks of, what was extracted, and the size of its
vectors. `chat` is the query in hand.

| Code | Actions |
|---|---|
| `_read_file` | `Read` |
| `run_workflow`, `normalize_file`, `chunk_document`, `embed_chunks`, `extract` | `RunWorkflow` or `TimeOut` |
| `_upsert_qdrant_points` | `UpsertPoints`, or `Fail` when the vectors do not fit |
| `_write_obsidian_summary` | `WriteNote` |
| `persist_memory`, `persist_chunk` | `PersistMemory`, `PersistChunk` per chunk, `Complete` |
| `VectorRetrievalService.retrieve` | `Ask`, `Search`, `SearchRefused` (another size), `List` |
| environment | `Interrupt` (an error of any call, or a stop), `Edit` |

Abstractions. The models answer anything (`Extracted`), the same content something
else each time, and all points of a file have a vector of the model or all a
deterministic one of 32 dimensions. A query meets any `TopK` of the points its filter
accepts, whatever is nearest. The collection exists and has a fixed size. Which
attempts there are, retries and their order are the subject of `FileProgress` and
`IngestionRuns`; here any thread may attempt any file at any time. `Opaque` contents
stand for two things the handlers take for no text: white space, which
`normalize_file` answers by reading the file again, and texts they mistake for an
unresolved binding of the workflow.

### ChatFilters and LinkWalk

A query of `LinkWalk` starts from any hits of the vector search and runs alone, over
stores that stand still: its steps are those of `query()`. `Validate` cleans or
refuses the request, `Seed` ranks the hits, builds the link graph and finds the notes
to start from, `PopFirst` is one turn of the loop of `walk`, `RankLinkWalk` scores the
rows of the notes that were met, `Synthesize` merges and cites. The graph is built from
what the notes link to by stem or relative path, the last file of a stem taking the
name; links to nothing, to the note itself and to a note it already links to are dropped
(`Links`, with `KeptOnce` of `Subsequences`). The rows of the project are counted before
labels and dates are looked at (`Listed`). The vault, the rows, the requests and the hits
are constants, and the named assumptions of the module say what they are.

`path` says how the path of the vault is configured. Note paths are stored below it as it
is written, and seeds and rows are compared with resolved paths. Under a `"canonical"`
path (absolute, without symbolic links and `..`) both agree. Under a `"linked"` one a
seed is resolved to its note (`_resolve_seed`), but a stored path never equals that of a
candidate, so the walk meets notes and finds no row. Under a `"relative"` one like the
default `./obsidian-vault` a stored path is looked up below the vault once more and no
seed is a note. (A relative path that names the working directory or starts with `..`
may resolve by luck and is then `"linked"`.) `VectorResultsAreWalked` asks for what
src/plan/PHASE_4_TODO.md:43 promises, "Chat combines both retrieval strategies every
request"; the run `relative_vault` shows that it fails under the default. With
`VaultPaths = {"canonical"}` the same instance satisfies it.

`SeedFails` is the end of a query by an error of the chat service itself: a negative score,
which Qdrant may return and `RetrievalResultRecord` refuses, and, once there is a seed, a
markdown file that cannot be read or decoded or that a link leads out of the vault to
(`~readable`). No handler of the API names these errors. The errors of Postgres, Qdrant,
the embedding service and the pricing of telemetry end a query as well; they change
nothing and are left out here, and `ChatQuery` has no scores, so that its `List` always
succeeds.

Scores are multiples of 1/60, so that 1 / (1 + depth) is exact for the depths of the
instance; the lexical score is a constant of each memory. `ChatFilters` holds the four tests one filter is put to: validation, the
condition sent to Qdrant, the test of rows and the test of payloads.

## 3. Runs

Deadlock is not checked in any run: a stopped worker with no operator, and no
requests left, is a state in which the system really stops; so is an answered query,
and a registry with no ingestion and no review left.

| Run | Instance | Question | Result |
|---|---|---|---|
| `overlap` | 2 file runs, worker and 1 client, 2 attempts, 1 request, 1 fault, symmetry over files | what holds whatever interleaves | holds |
| `serial` | 2 file runs, worker and 1 client, 3 attempts, 1 request, 1 fault, operations do not overlap, fairness | budget of every file run, the life cycle, termination | holds |
| `terminal_reopened` | 1 file run, overlap, 1 request | does a terminal stage stay the last one | violated |
| `worker_killed` | 1 file run, no overlap, 1 request | does the worker survive a manual retry | violated |
| `stranded_file` | 1 file run, 1 fault, worker always restarted | does a failed file run move on | violated |
| `runs` | 1 file, worker and 2 clients, 2 runs, 2 edits, 2 faults, symmetry over clients | what of runs, fingerprints, memories and notes survives overlap and stops | holds |
| `two_runs` | 1 file, worker and 2 clients, 2 runs, no fault | is there one running run at a time | violated |
| `wedged` | worker only, 1 fault, worker always restarted | does the schedule go on | violated |
| `ontology` | 3 terms (one similar to another) and a tag, 2 spellings, 3 extractions, 2 contents, 1 ingestion and 2 reviewers, 2 calls of evolve, 2 reviews, 1 fault, symmetry over reviewers and contents | what queue, records, trail and aliases say of each other | holds |
| `chat` | 2 files of one note name, 3 contents that share chunks (one opaque), 2 threads, 2 attempts, 1 edit, 1 fault, 1 query, symmetry over threads and files | what the stores say of each other, what is cited | holds |
| `linkwalk` | 4 notes, 48 vaults, 6 memories, 18 requests, 5 hit lists, three kinds of vault path, readable or not | walk, ranking and filters against their definitions, how a query ends | holds |
| `relative_vault` | the instance of `linkwalk` under a relative vault path | does the link walk start at the notes of the vector results | violated |

Properties of the passing runs:

* `CompletedIsPersisted`: reported completed, in either table, only when the
  memory is stored. For every file run.
* `RetryStageHasItem`: a timeline that waits for a retry has its row in the queue.
  For every file run.
* `UntouchedTimeline`, `UntouchedBudget`: a file run nobody retried by hand has an
  unbroken legal timeline and at most `max_attempts` executions, although scans,
  crashes and retries of other files run beside it. The restriction is needed:
  `transition` is not atomic and `attempt_count` is read and written in two
  transactions, so with a manual retry both fail (`terminal_reopened` shows the
  first).
* `QueueMatchesTimeline`: without crashes, the queue, the row and the timeline of
  such a file run agree whenever no thread works on it.
* `KilledOnlyWhenProvoked`: the policy never refuses a transition of the worker
  unless an operator retried a file or something crashed.
* `ExecutionBudget`, `ImplementsLifecycle`: with operations one after the other,
  the budget holds for manual retries too, and `FileProgress` implements
  `FileLifecycle` (at most `MaxTries` tries, one end, a good end only when
  stored).
* `QueuedFilesSettle`: without operators and crashes, whatever a scan queues ends
  completed or poisoned.

* `OneRunPerProcess`: a process never has two running runs; the stop of one leaves
  a running row that keeps it from another.
* `NoOrphanedRun`: without stops, and while `start_run` keeps runs apart, a running
  row has a thread that will end it. The second condition is needed: two scans of
  one new file race into UNIQUE, and the loser leaves its run running.
* `SeenIsQueued`: the fingerprint that makes later scans skip a version is never
  stored without a file run queued for that version, through races and stops.
* `CompletedIsCurrent`: a completed file run has a memory at least as new as the
  change that queued it, although the file is read long after its scan.
* `ChangeQueuedOnce`: while runs are apart, a version is queued by one run only.
* `NoteNeverGoesBack`: the note of a file goes back to an older version only when two
  threads executed file runs of that file at the same time. The condition is needed:
  nothing keeps a retry of the worker and the run of a request apart.

* `ReviewQueueComplete`: every provisional record has a provisional proposal, or a
  thread about to write it. Two exceptions are the code's own: a record registered
  again under a key that was decided meanwhile, and one whose thread ended before its
  proposal. Nothing repairs them: later ingestions match the record and propose nothing.
* `DecisionsAgree`: a decided record has a proposal decided just so, unless two
  reviewers had it in hand at once or a decision was cut short between the two
  transactions.
* `AuditExplains`, `ImplementsDecision`: the trail ends with the status of its
  proposal, and a proposal that is not contested is proposed once and decided once.
* `TaggedIsFound`: a memory is found by any name it is stored with as long as that is
  the name of its row, unless the record was merged. Memories of one record are stored
  with names of several notes and of old reads of the registry, and Qdrant compares
  spellings, so what is stored must be the name of a row and not of a note (the mutant).
  Both exceptions are the code's own: a registration that overwrites the name of a row,
  as when a rejected name comes back in another spelling, and a merge rewrite neither
  memories nor points, and nothing finds these memories by that name again.
* `AliasesEnd`: without a merge that closes a cycle, resolution ends at a record that
  is not merged, however reviews interleave. In a table of more than eleven records a
  chain may be longer than the ten hops the code follows; section 4 has what holds then.
* `RowsAreBacked`: a memory row names points that exist, its note exists, and once an
  attempt on a content has completed, row and chunk rows are exactly those of the
  content, whatever attempts were cut short, repeated or run beside it.
* `PointsBelong`: a point leads to a file that had its chunk, and a completed content
  keeps its points unless another file had the same chunk: ids are shared, and the
  last writer owns the payload.
* `CitedChunkIsOfMemory`: a cited chunk is in the memory it is cited for, unless the
  file was ingested with two contents: points of older contents stay, and a file
  leads to its oldest listed memory.
* `SearchFitsCollection`: a search fails only on vectors of a model that do not fit.
* `WalkIsBounded`: the walk has met each note within the depth once, at its distance,
  against a recursive definition of distance, on every graph and under every vault path.
* `EveryQueryEnds`: the walk ends on every graph, and a query is refused or answered
  unless the score of a hit is negative or a file of the vault cannot be read.
* `AnswerRanked`: the answer has each memory once with its better score, and leaves
  out nothing that ranks above what it keeps. The rows of the link walk are a set: their
  order in Postgres is not exercised, and of one memory there is one row.
* `FiltersAgree`: what the link walk adds passes the test the rows passed, as long as dates
  can be parsed and those of one year have one form (compact ISO dates pass validation, and
  compare wrongly as texts with extended ones of their year); Qdrant is asked for no less
  than the later test keeps, as long as words are spelled the same everywhere (Qdrant's
  match is case-exact, the later test is not).

Bounds of `FileProgress`. Two file runs are what it takes for one file to be in hand while the
other is in a list, in a queue or in the hands of another thread; threads meet in
pairs only, because they share nothing but rows of one file run. One request is
one second writer; one fault is one stop at every possible point (a second one
only finds a state the first left behind). With 2 attempts the second failure
poisons, so requeueing and exhaustion both occur; the serial run uses 3 so that a
retry is requeued too.

Bounds of `IngestionRuns`. Files share nothing but the run and the loop, so one file
races with itself; two clients make two threads of one process and, with the
worker, threads of two processes. Two runs overlap or follow one another, two edits
make a new and a changed file, and two faults stop either
process twice or both once. Three runs with one fault were also checked once (5.8
million states) and showed nothing else; the proofs have no bounds.

Bounds of `OntologyReview`. Two reviews are two reviewers of one proposal, or one after
the other; two calls of evolve propose, and then meet what was decided, of the same or
another content with the same names, or register a rejected name again in another
spelling; merges of two records make a chain and a cycle. One thread of the ingestion is
what fits the time (813 thousand states); the registry it reads is still old when it is
used, because reviewers act in between, and the theorems hold for any number of threads.
Bounds of `ChatQuery`. Two files of one note name and contents of which one is the
beginning of another share points and notes; two attempts race or follow each other
around one edit, one fault ends either before any write, and one query falls between
any two steps. Bounds of `LinkWalk`. Four notes hold cycles, diamonds, repeated, dead and
ambiguous links, and more links than the fanout; depths 0 to 3 and fanouts 1 and 2 cut
the walk at every place, and one of the hits has a negative score.

Fairness. `FairSpec` lets the worker's loop go on (`run_forever` has no condition
but the stop request), lets a thread that has begun an operation finish it, and
lets time pass a backoff. A scan may discover for ever, requests need not come.
`RestartedSpec` adds an operator who always starts a stopped worker again; it is
used by the run that shows that this does not help. The one of `IngestionRuns` is the
same: every thread goes on and the worker is always started again. `LinkWalk` is one
request in a thread of its own that waits for nobody: it goes on (`WF_vars(Next)`).

Findings. Six runs find what the project's plan documents promise and the code
does not do; `PROJECT.json` quotes the promise and says what the run shows.

## 4. Proofs

`FileProgressProofs` proves, for every set of file runs, any number of request
threads, every `max_attempts` and any number of requests and faults, from the
assumptions on the constants stated in `FileProgress`:

* `TypeCorrect`: the types, and what the position of a thread says of its locals
  (`Control`). It is the frame of the other proofs: that a thread in a transaction
  has a file in hand and a goal is what makes the updates well defined, and that
  only the retry pass is ever in a transition to retrying is what the others need.
* `CompletedPersisted`: the invariant is not inductive, because completed is
  appended by a thread whose right to do so is in its position. `Persisted` adds
  that a thread on its way through the two closing transitions has its file in
  `memory`.
* `RetryQueued`: likewise, `Enqueued` adds that a thread on its way to retry_queued
  or retrying, and every entry of a list of due retries, has its row.

`FileOwnershipProofs` proves, from the same assumptions:

* `BudgetHolds`: a file run nobody retried by hand starts its workflow at most
  `max_attempts` times.
* `TimelineLegal`: its timeline is unbroken and every step of it is allowed.

Neither property is inductive. `transition` reads, checks and appends in three
transactions, so what makes the append right is that nobody else appends in
between; `queue_retry` counts and writes in two, so what makes the count right is
that nobody else counts. `IInv` therefore says, of every file run outside
`touched`, that it is `Owned`:

* `Ownership`: at most one thread has it in hand or in the list it loops over; it
  is in the list of a run only without a retry row, and of a retry pass only with
  a queued one; a thread that has it in hand while it is queued is one that has
  just queued it.
* `Spending`: its executions are at most one more than its attempts, and whoever
  is about to execute it has an attempt left.
* `Checked`: the stage a thread has read is still the latest when it appends.

Two frame lemmas carry the proof: `KeepsOwned` (a thread that holds on to the file
run, or lets go of it, disturbs nothing) and `ChangesOwned` (what the one thread
that owns it must show when it changes its records). Each action then owes only
the hypotheses of one of the two. `IInv` itself was checked by TLC on the `overlap`
instance before it was proved.

The second part of the module proves, on top of `IInv`:

* `QueueMatches`: `QueueMatchesTimeline`. It speaks of file runs no thread has in hand;
  `Settled` adds what is true while one has: `Stage` says which stage is the latest at
  each position of the thread, `Item` which status its retry row has, and `Found` that a
  file in the list of a run was discovered and no more.
* `WorkerKeepsTheTable`: `KilledOnlyWhenProvoked`. By `Stage`, every transition starts at
  its `Source`, from which the policy allows it (`SourcesLegal`), so only a file run that
  was touched, or a crash, can lead to a refusal.

`FileSerialProofs` proves, under `~Overlap`, for manual retries and crashes too:

* `SerialBudget`: `ExecutionBudget`. `IInv` says nothing of a file run an operator
  retried, so `SInv` starts again from `Alone`, one thread at work, and says of every file
  run that it is `Sound`: what it has spent (`Spent`) and what the thread may rely on
  (`Handled`, `InList`).
* `SerialLifecycle`: `ImplementsLifecycle`. What a transition shows follows from the stage
  it was checked against (`Legal`), but for the start of a workflow, which the policy
  allows from workflow_started too: `Point` says that it starts from discovered or
  retrying, so that each execution is one `Start`.

Both invariants were checked by TLC on the instances of `overlap` and `serial` first.

Every invariant is the usual three facts (initially, step by step, implies the
property), one lemma per group of actions.

`IngestionRunsProofs` proves, for every set of files and of request threads and any
number of runs, edits and faults, from the assumptions stated in `IngestionRuns`:

* `RunsExclusive`. Not inductive, because the insert does not look: `Exclusive` adds
  that a thread is inside its cycle exactly when it holds the lock of its process,
  and that whoever is about to insert has seen that its process has no running run.
* `SeenQueued`. A file run queued for the stored version must not be overwritten:
  `Unrecorded` says that the rows a scanning thread has yet to write do not exist,
  that runs beyond `last` have none, and that two scanning threads have two runs.
* `CompletedCurrent`. `Current` carries the order of versions through the steps: the
  cause of a row and a snapshot are not newer than the file, the text that was read
  is at least as new as the cause, and at the end the memory is.

The second part of the module proves, from that invariant:

* `QueuedOnce` and `NoOrphans`, by `Serial`: a scanning thread has a running run, so
  while runs are apart it is alone, what it selected is still stored, what it scanned
  is not older than what is stored, and nothing newer was ever queued.
* `NoteForward`, by `Noting`: whoever executes a file that is not contended is alone
  with it and has read a text at least as new as its note.

Every property of the run `runs` is proved.

`OntologyReviewProofs` proves, for every set of terms, tags, contents, extractions and
similar names, any number of threads and any bounds, from the assumptions stated in
`OntologyReview`:

* `TypeCorrect`, with `Control`: what the position of a thread says of the proposal, the
  verdict or the candidate it holds.
* `TrailExplains`. Not inductive: what makes the one event of a proposal right is that
  nobody else decides it, so `Alone` adds that a proposal that is not contested is in
  the hands of one reviewer, for whom it is still provisional.
* `QueueComplete`, by `Queued(r)`: a provisional record that was neither orphaned nor
  registered again has a proposal, written or about to be, that nobody has decided and
  nobody is halfway through deciding.
* `DecisionsMatch`, by `Agrees`: a reviewer between the two transactions of a decision
  nobody else makes has written the record and keeps its verdict.
* `DecidedOnce`: `ImplementsDecision`, with `outcome` disputed once two reviewers had the
  proposal in hand; every step is a `Propose`, a `Decide` or a stutter.
* `TaggedAlwaysFound`, by `Spelled` and `Aliased`. `Spelled` says that every name a thread
  has read or mapped and every name that is stored is, or was, the name of its row
  (`IsOrWas`); it needs `Named`, that a row which is read, proposed or reviewed has a name
  at all. `Aliased`: only a merge gives a record a target, the merge is remembered, and
  resolution leads past no record that has none. So a name that still is that of its row
  is what a filter by it is resolved to, until the record is merged.
* `AliasesAlwaysEndOrAreLong`, in tables of any size: without a merge that closes a cycle
  (`looped`), an alias resolves to a record that is not merged or the eleven records the
  loop reads are all different. `NoCycle` says that no chain of merges of that length comes
  back to where it started. A decision that closed one would change a record on it; turned
  so that it starts at the target of the merge (`CycleTurned`), the cycle is what `Hops`
  follows from there, which is what `looped` records.
* `AliasesAlwaysEnd`: so in tables of at most eleven records (`FewRecords`) resolution
  ends, because eleven merged records and their target are one too many (pigeonhole).
  With more records `AliasesEnd` is false: a chain of eleven merges resolves to a record
  that is merged.

`ChatQueryProofs` proves, for every set of files, contents and records, every size of
chunks, vectors and lists, any number of threads, attempts, edits and faults, from the
assumptions stated in `MemoryStore` and, on the limits of a query, in `ChatQuery`:

* `RowsBacked`, by `Backed`: a thread past a write has what it wrote, because points,
  notes and rows are never deleted and a row only changes to one of the same content.
* `PointsOwned`, by `Owned`: `Holds(f, text)` says that the points of a text lead to its
  file but those another file had as well. A thread has it from its upsert on, and an
  upsert of another thread takes a point only for a file that had its chunk.
* `ChunksCited`, by `Cited`: a hit carries a chunk that was read from the file of its
  payload, a result leads to a memory of that file, and every row is made from one text.
  With one text per file, chunk and memory meet.
* `SearchFits`, by `Adapted`.
* `TypeCorrect`: the `Shapes` of the stores and `QueryTyped`, with `Listing` (the list of the
  memories by `updated_at` has each row once, so moving a row to its front is no loss),
  `Written` (points are finitely many) and `Limited` (a search finds at most `TopK` of them
  and is repeated once).

`OrderLemmas` holds what the proofs about lists and chains rest on. A theorem of induction
that takes a predicate cannot be cited, so `Least` and `Induction` speak of sets of
numbers; they follow from the library's theorem that strict inclusion of finite sets is
well-founded, by way of the initial segments of the numbers. `Iterated` gives the values of
a recursive function, `Ranks` says that the elements of a finite strict order have the
ranks 0, 1, ..., and `AtPlaces`, `AtRange` and `AtOnce` say which elements of a list `At`
takes, in which order, and when none twice.

`LinkWalkProofs` proves, for every vault, set of memories, request and answer of the
vector search, from the assumptions stated in `LinkWalk`:

* `WalkTyped` and `TypeAlwaysOK`: `Typed` has the types, `Phased` what the position says of
  queue, results and answer. Seeds, links and neighbors are notes of the vault.
* `AnswerIsRanked`. `Ahead` is a strict order of results with different memories
  (`AheadStrict`, which is arithmetic of fractions), of each memory `BestOfEach` leaves one
  result (`BestResults`), so that by `Ranks` the sorted list has each result at its rank
  (`SortedResults`). That no score is negative is the guard of `Seed`. `Found` says of both
  lists that they have a memory once and that their scores are normalized; `Answered` has
  the property.
* `FiltersAlwaysAgree`, by `Found`: a result of the link walk passed the test of the payloads
  and of the rows; what is left is that the tests agree (`RowsOfComparableDates`: the texts of
  dates order as their days do where a year has one form; `SearchKeepsNoLess`).
* `WalkIsAlwaysBounded`, by `WalkInv`: the queue is in order of depth and spans two depths at
  most (`QueueInOrder`), each entry is within its depth of the seeds (`QueueWithin`), each
  candidate is at its distance (`AtItsDistance`) and met once (`MetOnce`), and what a met
  note leads to is met or queued at no greater depth (`NothingLost`). `Within` is a
  recursive function; `WithinSets` shows by induction that it is what its definition says,
  which tlapm does not do by itself.

Every invariant, action property and refinement of the passing runs is proved, `AliasesEnd`
for the tables it is true of. Only model-checked are `QueuedFilesSettle` and
`EveryQueryEnds`: liveness under fairness, whose proofs need ENABLED, is beyond the
prover. The six properties the code violates are, of course, refuted by TLC only.

## 5. Not modelled, and plan

* Progress stream: `publish` runs in a thread of the API's pool on queues of the event
  loop. The publisher, its bound of 100 and `QueueFull` inside `transition()` are listed as
  hazards; to the file runs a raising `publish` is one of the exceptions of `Crash`.
* Telemetry, pricing, status: arithmetic over rows; a telemetry call that raises is among
  the failures of the callers.
* Onboarding and connector settings: one row and one request at a time. The gate is taken
  as open.
* Source registry: `IngestionRuns` lets a scan find any subset of the files instead.
* The handlers of phase 3 and 4 and their workflows: nothing in the program calls them.
* Errors of Postgres, of Qdrant (out of reach, no collection), of the embedding service and
  of the pricing of telemetry during a query: the query fails with the error and changes
  nothing. `LinkWalk` has the errors that the data itself causes.
* A file run that is poisoned without a retry row (`WorkflowFails`, not retryable) is in no
  dead-letter list, although src/plan/PHASE_6_TODO.md:38 says "Add dead-letter visibility
  for persistent failures." The model has the state; that it is reached is plain from the
  code, and no run asks for it.
* Container, settings, migrations, dashboard: wiring and user interface.

What would come next: `ProgressStream` (publisher, bounded queues, a slow reader), and the
operations of telemetry as reference definitions.
