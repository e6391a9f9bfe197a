# TLA+ verification of the financial RAG assistant

This directory models the parts of the assistant whose correctness depends on the order in which
things happen: the worker pool that runs durable tasks, the life of a document between upload and
deletion, the conversation runtime, the planning, execution and reliability layers of the agent, and
around them the answer graph, retrieval, the tool server, settings, usage and billing, the request
gate, worker health, chunking, the public knowledge, backups and adapter training. TLC checks the
models on small instances; TLAPS proves the safety properties of the worker pool, documents,
sessions, plans, the reliability layer, answers, retrieval, chunking, tools, settings, bills, the
gate, worker health, public knowledge, backups and training for every value of the constants.

Contents: 1 inventory, 2 modules and how they follow the code, 3 runs, 4 fairness, 5 proofs,
6 findings, 7 what is not modelled, 8 plan, 9 how to run.

## 1. Inventory of the system

The program is a FastAPI service with a pool of worker processes. It keeps its state in PostgreSQL,
Redis, a vector store (Chroma) and a directory of uploaded files. **No transaction spans two of
these stores**, and no lock spans two processes: what keeps them consistent is the order of the
writes and the checks between them, and that is what the models are about.

| Part | State | Operations | Talks to | What is hard |
|---|---|---|---|---|
| task repository (`tasks/repository.py`, `tasks/retry.py`, `models/task.py`) | `tasks` rows: status, retry_count, started_at | create, claim, update, recover stale | PostgreSQL | unguarded updates; select and update of recovery are apart |
| task broker (`tasks/broker.py`, `tasks/queue.py`) | Redis stream, consumer group, pending entries | publish, consume, ack, claim pending, retry | Redis | lost replies, redelivery while a task still runs |
| worker pool (`tasks/worker.py`, `workers/`) | threads, handler processes, backlog, interval gates | fetch, execute, time out, retry, recover, stop | repository, broker, handlers | crash anywhere, deadlines, several processes |
| task handlers (`tasks/agent_tasks.py`, `tasks/knowledge_tasks.py`) | none of their own | run the agent, ingest a document | repository, documents, vector store, usage | failure after the SUCCESS write |
| worker heartbeat (`tasks/heartbeat.py`) | a node row, a health file | send, write, clear, check freshness | PostgreSQL, file system | a fresh file of a dead worker, a reused pid |
| upload (`api/routers/upload.py`) | `documents` rows, upload directories | check duplicate and quota, insert, store, commit | PostgreSQL, files, tasks | quota read before the insert |
| document deletion (`api/routers/knowledge.py`) | the same | guard, stage, delete vectors, delete row, clean | PostgreSQL, files, vector store | the guard's answer is stale when it is used |
| vector store (`storage/chroma_store.py`) | chunks with content-derived ids | upsert, delete by document, search | Chroma | ids shared by equal files |
| session runtime (`services/agent_runtime/runtime.py`) | session row, messages | run_agent | cache, graph, repository | four places, no transaction |
| session deletion (`api/routers/agent_sessions.py`, `cache/session.py`, `checkpointing.py`) | answer cache, checkpoints | delete checkpoint, keys, rows | Redis, PostgreSQL | requests in flight |
| agent graph (`services/agent_runtime/graph.py`) | checkpointed channels | plan, execute, finalize nodes | agent runtime | a turn starts from what a failed one left |
| agent runtime pipeline (`agent/agent_runtime.py`) | per-call | plan, execute, reason, report | planning, execution, reliability | fallbacks of each stage |
| plan execution (`agent/execution/`, `agent/execution_engine.py`) | step status, shared evidence | sequential, parallel | tools | completion order of parallel steps |
| planning and intent (`agent/planning/`, `core/intent_analyzer.py`, `agent/query_planner.py`) | none | analyse, plan | - | text matching |
| reliability (`agent/reliability/`) | breaker, limiter and health state, executor | gate, retry, time out, fall back | agent runtime | threads that outlive their caller |
| memory, metrics, tracing (`agent/memory`, `agent/metrics`, `agent/tracing`) | in-process registries | record | pipeline | - |
| tools and MCP (`agent/tools`, `mcp/`) | phase of a connection, allowlist | handshake, list, call; the agent's tool step | retrieval, metrics | order of checks, calls out of sequence |
| LLM routing and providers (`llm/`) | routing policy | route, call, retry | HTTP | whose key, which fallback, which errors are retried |
| retrieval (`retrieval/`, `core/retrieval_tool_adapter.py`) | - (reads the store) | search scopes, score words, filter, fuse | vector store | the store changes between the reads; filters after the cut |
| LLM settings (`services/llm_settings_service.py`, `api/routers/settings.py`) | encrypted rows, key file, revision | put, set default, delete, resolve | session cache key | read-then-write transactions, two processes making the key |
| usage, plans and billing (`services/usage_service.py`, `services/plan_service.py`, `billing/`) | usage and billing rows | check limit, record, bill, sum | PostgreSQL, task handlers | three transactions after SUCCESS, retried |
| auth and middleware (`auth/`, `middleware/`) | request windows of a process | limit, authenticate, authorise | users | the edge of a window |
| backup and restore (`scripts/`) | artifacts, sidecars, the volume | dump, publish, clean up, restore | PostgreSQL, Chroma volume | kills between any two steps, cleanup beside publication |
| PDF loading (`document_loader.py`) | - | read or OCR, split, pack, merge, deduplicate | ingestion, bootstrap | limits and overlaps |
| public knowledge (`docker/bootstrap_knowledge.py`, `api/routers/refresh.py`, `scripts/migrate_vector_tenant.py`) | public and legacy vectors | bootstrap, refresh, migrate | vector store, PDF directory | delete before upsert, overlapping refreshes |
| adapter training (`training/`) | output directory | validate, train, gate, record evidence | corpus file | the adapter is saved before the gate |
| embedding, observability, evaluation, migrations, web client | - | - | - | numeric, batch, I/O or presentation |

What makes the modelled parts correct:

* **Tasks.** One live thread works on a task at a time; every attempt is paid for by a creation, a
  charged retry or a recovery; a live thread's row is never recovered; every task comes to rest; every
  message is eventually acknowledged; a polling client sees only legal moves.
* **Documents.** No chunk of a deleted document is searchable; an indexed document keeps its chunks; a
  task that will run finds its file; the quota is overshot by the requests in flight at most; a
  document does not stay "processing".
* **Sessions.** A deleted conversation does not come back; a delete that failed half-way can be
  repeated and leaves nothing unreachable; a cached answer is only given in its context; a stored turn
  stays, question before answer.
* **Plans.** Concurrent requests do not disturb each other's step ids; evidence is that of the
  retrievals that succeeded, in plan order, whatever the threads' timing; a step is skipped exactly
  when a dependency did not complete; every request ends; planned retrievals are run.
* **Reliability.** A half-open breaker lets one call through; a success is that of the call's own
  output, or of what its fallback policy puts in its place; every caller gets an answer even when the
  provider hangs.
* **Answers.** What a turn returns was written in that turn; a model is asked only where the strategy
  wants one, with the user's own key if he has one, and never again after an error of the key, the
  quota or the model; after another only if it is, or for two adapters sounds, transient.
* **Retrieval and chunks.** A retrieval shows a tenant only what is his or public, and filters do not
  hide the last match; a chunk has text of its own page, and no text is lost on the way to the index.
* **Tools.** A tool runs only after the handshake, if allowed, with declared arguments, for the
  server's tenant; every request has exactly one answer.
* **Settings, usage, gate, health.** A settings revision stands for one configuration; a task is
  billed once if it ends in SUCCESS and its error path worked; a burst is bounded; the health check
  vouches for the living only.
* **Operations.** A reported backup can be restored until it expires; an interrupted restore can be
  repeated; the public vectors are those of the release or, after an interrupted refresh, none; a
  manifest that promotes an adapter is earned.

## 2. Modules

| Module | Models | Used by |
|---|---|---|
| `TaskRepository` | the `tasks` table and its transactions | `TaskWorker` |
| `TaskBroker` | the Redis stream and its consumer group | `TaskWorker` |
| `TaskWorker` | the worker pool composed with both, the API's create and publish, the handlers' writes | `MCTaskWorker`, proofs |
| `TaskLifecycle` | abstract: what a client polling a task may see | refined by `TaskWorker` and `DocumentLifecycle` |
| `DocumentLifecycle` | upload, ingestion and deletion of documents | `MCDocumentLifecycle` |
| `SessionRuntime` | `run_agent` and the deletion of a session | - |
| `QueryPlanning` | from a classified question to a complexity, a plan and a strategy (operators) | `PlanExecution`, `AnswerPipeline` |
| `PlanExecution` | the shared planner, the strategy handlers and the retrieval pool | `MCPlanExecution`, `MCAgent` |
| `ReliabilityPipeline` | the six reliability mechanisms around a call | `MCAgent` |
| `AnswerPipeline` | the graph's nodes over a thread's checkpoint, routing, workflow, `run_rag`, the model call and its retries | `MCPlatform` |
| `Retrieval` | one retrieval: scopes, two channels, fusion, tool result, evidence | `MCPlatform` |
| `DocumentChunking` | from a PDF's blocks to the chunks that are indexed | `MCPlatform` |
| `ToolServer` | the MCP connection, the tool engine and the agent's tool step | `MCPlatform` |
| `LLMSettings` | provider settings, their encryption key and revision | `MCPlatform` |
| `ChatUsage` | plans, quotas, usage and billing rows around a chat | `MCPlatform` |
| `RequestGate` | the request limiter and the authentication of a route | `MCPlatform` |
| `WorkerHealth` | heartbeat row, health file and health check | `MCPlatform` |
| `PublicKnowledge` | bootstrap, refresh and tenant migration of the vector store | `MCPlatform` |
| `BackupRestore` | the backup directory and the programs that work on it | `MCPlatform` |
| `AdapterTraining` | LoRA runs, the evaluation gate and the evidence they leave | `MCPlatform` |
| `MCTaskWorker`, `MCDocumentLifecycle`, `MCPlanExecution`, `MCAgent`, `MCPlatform` | instances for TLC | runs |
| `TaskWorkerProofs` | proofs about `TaskWorker` and that it implements `TaskLifecycle` | - |
| `DocumentProofs` | proofs about `DocumentLifecycle` | - |
| `SessionProofs` | proofs about `SessionRuntime` | - |
| `PlanProofs` | proofs about `PlanExecution` with the rules of `QueryPlanning`, `ReliabilityPipeline`, and both side by side (`MCAgent`) | - |
| `OperationsProofs` | proofs about `WorkerHealth`, `RequestGate` and `BackupRestore` | - |
| `ChunkProofs` | proofs about `DocumentChunking` | - |
| `ServiceProofs` | proofs about `AdapterTraining`, `PublicKnowledge`, `LLMSettings` and `ChatUsage` | - |
| `PlatformProofs` | proofs about `AnswerPipeline`, `ToolServer` and `Retrieval`, and all components of `MCPlatform` side by side | - |

### TaskRepository

`status`, `retry` and `age` are the columns `status`, `retry_count` and the time since `started_at`;
`claims` and `recovered` only count. Each operator is one committed transaction. `ClaimRow` is
`claim_task`: under `FOR UPDATE SKIP LOCKED` the select and the update are one step. `UpdateStatus`
has no guard, because `update_task` has none. `StaleTasks` and `ResetRows` are the SELECT and the
UPDATE of `recover_stale_tasks`; they are separate operators because `TaskWorker` takes them in
separate steps: in the code no row lock is held in between and the UPDATE does not look at the
status again.

### TaskBroker

`stream` is every message ever added, `delivered` the group's cursor, `pel` the pending entries,
`idle` those that have been pending for the minimum idle time. `Reclaimable` keeps the order of the
code: XPENDING is asked for the first `ReclaimCount` entries and only those are filtered by
idle time, so an entry further back is not reached.

### TaskWorker

A thread's `pc` follows `_run_thread`, `_fetch_task` and `_execute_task`: `top` (loop head and
recovery gate), `recover`, `fetch`, `poll`/`recheck` (the database poll claims first and executes
with `already_claimed`), `lookup`/`claim` (a message's row is read, then claimed), `lock` (claimed,
no process yet), `run`, `kill`, `fail`, `check`, `requeue`, `publish`, `ack`. The handler process is
`stage`: `body` (before its last write), `tail` (after SUCCESS: usage, billing, document status),
`exit`. A process that has been told to terminate may still write until it is dead.

Faults, at most `MaxFaults`: publishing fails, a database call raises, Redis fails or its reply is
lost after the entry was assigned (`FetchLost`), a worker is killed or told to stop, the first ping
of a new process fails and its broker is off for life. Handlers fail, hang and die for free.

Time is a `Tick` of the unit of MAX_TASK_RUNTIME. `Delay` bounds how long a live thread takes for the
start of the process, for its termination and for the FAILED write; the assumption
`3 * Delay <= Grace` says that STALE_RECOVERY_GRACE_SECONDS is at least their sum.

Two constants name circumstances the code does not control:

* `SerialRecovery`: no two recoveries overlap. The code does not ensure it (section 6); it holds when
  there is one worker with one thread, and is likely otherwise, since recovery takes milliseconds
  and runs once a minute.
* `OrphansSurvive`: a handler process may outlive its killed worker. Handler processes are not
  daemons, so it may happen when only the worker is killed; in the container all die together.

### TaskLifecycle

The abstract specification. A SUCCESS is not final (a step after it may fail the task), a FAILED
task becomes PENDING only after a retry was charged, PENDING is only left by a claim. It is an
INSTANCE in `TaskWorker` (`LifecycleSpec`) and, with a task per document, in `DocumentLifecycle`
(`TasksFollow`), so the document model stands on what the pool model shows.

### DocumentLifecycle

`doc`, `content` and `nextId` are the table; `files` is where a document's directory is (at home or
renamed by a delete); `vec[c]` is the document whose id the chunks of content `c` carry (chunk ids
are derived from the content). Uploads step through duplicate check, quota, flush, file and commit;
the row is visible to others only after the commit, and the unique index makes a concurrent insert
of the same file wait. An ingestion steps through `process_document_task` one write at a time, with
a kill possible before each; the worker then writes FAILED, charges and requeues in three steps. A
delete steps through guard, staging, vectors, row and cleanup with every failure path.

A delete is let through whenever the row's status and the task's allow it, so also while a worker
still has the task in hand: between a FAILED write and the retry, or between "indexed" and the end of
the process. The history variable `race` records that (`admitted`) and whether the worker then put the
task back (`retried`, `Raced`). Deletes beside the end of an attempt do no harm; a raced retry does
(section 6), and the properties say that it is the only way chunks are orphaned and files missed.

### SessionRuntime

One thread of one user. `session` and `messages` are the rows, `cache` the answers in Redis, `graph`
the durable checkpoints and `local` the process-local ones used while PostgreSQL is unreachable.
A request steps through history, settings, cache lookup, find, create and add of the question,
graph, find, create and add of the answer, save. `get_or_create_session` is two steps, a SELECT and
an INSERT against the unique index, and `_record_message` swallows what it raises (`lost`). A delete
removes checkpoint, keys (scan, then delete) and rows in that order.

Deletes run beside requests and beside each other. Six history variables, which no action reads, say
whom a successful delete concerns: `ended` (requests that were over when it began), `evicted` (those
of a delete in a process that has a Redis client; one whose client was given up at start-up reports
success at once, place `blind`), `erased` (requests that had begun), `banned` (the three when a request
began), `before` (of the delete in hand) and `lost`. What the code promises for `ended` and `evicted`
is a theorem; for `erased`, which includes requests in flight, it is refuted (section 6). The
process-local checkpoints are not among what a delete removes where PostgreSQL is configured.

### QueryPlanning and PlanExecution

A question is what text matching leaves of it: task type, number of companies, number of years, and
whether it spells out a financial calculation. `Score`, `Level`, `StepTypes`, `DependsOn` and
`Strategy` are the rules of the complexity analyser, the planner and the strategies; factors are
tenths and weights hundredths, so that the comparisons with the thresholds are exact integers.

`PlanExecution` is one request per client. `PlanBegin`, `PlanStep`, `PlanEnd` are `QueryPlanner.plan`
with its lock and its shared counter. Then the handler of the strategy runs the plan: `RagStep` and
`SequentialStep` in order, `ToolStep` only planned tool calls, `RoundBegin`, `TakeRetrieval`,
`FinishRetrieval`, `MergeBatch` and `RoundStep` the rounds of `execute_parallel_retrievals`, whose
threads take steps in order of submission and finish in any order. A step completes or fails;
`Outcomes` says which a registered handler can do. No handler is registered for REASONING steps
(`core_engine.py:226-232`), so the second step of every single-company plan is FAILED; no output
depends on it.

### ReliabilityPipeline

A caller goes through health check and limiter on its own thread, then submits the rest to the
executor and waits at most `Deadline` ticks; the executor has one thread for the process and runs
retry around breaker around fallback around the execution. A job whose caller gave up stays queued
or running. Nothing has a lock, so a check, its answer, and the limiter's read, assignment and append
are separate steps. `core_engine.py` builds the runtime without a reliability engine, so this
describes what a composition root gets that passes one.

`MCAgent` puts plan execution and reliability, which share no state, into one run; `part` says which
one moves. `MCPlatform` does the same for the eleven modules below.

### AnswerPipeline

One thread of the agent, turn after turn. A channel of `chan`, the thread's checkpoint, carries the
turn that wrote it, so that a value left by an earlier turn is seen wherever it goes. A turn steps
through `PlanNode`, then inside the execute node `RouteRequest` (`ModelRouter.route` with the user's
configurations or the deployment's), `RunWorkflow`, `Dispatch` (what the strategy's handler may leave
of the plan), `Answer` (the branches of `run_rag`) and, if it asks a model, `Call` with the retry rule
of the provider's adapter (an error is its status and the phrases found in its text: OpenAI, Claude
and Doubao go by the first, DeepSeek and Gemini search the second, where `Mentions` is what it may say
beside the status); then `ExecuteNode` and `FinalizeNode` write their channels. `Die` is a
process that dies between any two of them. A question's plan and strategy come from `QueryPlanning`.

### Retrieval

`VectorScope` reads one tenant scope at a time, `LexicalScope` the corpus, `Fuse` filters,
deduplicates and ranks; `ToolExecute` and `EvidenceFromToolOutput` are the tool around it and the
evidence made of its output. `StoreChange` adds or removes a chunk between any two of them, and each
channel may fail. The distance and the BM25 score belong to a chunk, as integers.

### DocumentChunking

A text is a sequence of characters that know their block and position, so that "nothing is lost and
nothing is from another page" can be said. `ParsePage` chooses between the text layer and OCR and
judges OCR blocks by their counts, `ChunkPage` finds headings, splits and packs with overlap,
`MergeStep` merges small neighbours, `LoadEnd` deduplicates.

### ToolServer

`ServeLine` is one line of standard input through `handle_message`: the three phases of a connection,
the error of every malformed message, and for `tools/call` allowlist, schema, contract and engine,
with a world in which the retriever answers or raises. `AgentToolStep` is the other way to the engine.
A JSON value is its type, size and items.

### LLMSettings

`KeyCreate`, `KeyWrite` and `KeyLoad` are the creation of the key file, which two servers may attempt
at once; `SettingsBegin` and `SettingsCommit` the read and the write of a request, between which
another server's may come; `RuntimeSettings` what a chat resolves, with its revision (`handed`).

### ChatUsage

A request checks the quota, runs on the route or as a task, records usage and is billed. SUCCESS, the
usage row and the billing row are three transactions: an error of the second is swallowed, one of the
third goes to the handler's except clause, a deadline or a dead process stops the handler anywhere
(`kills`), also between its bill and the end of its process (`exit`). The error path can fail too: the
FAILED of the except clause (`ExceptClause`), that of the worker (`WorkerMarks`), the charge and
PENDING (`WorkerReaps`). A failed attempt is charged a retry; a row left RUNNING is recovered without a
charge; a SUCCESS nobody could overwrite stays, and its request is `adrift`. A database error is one
whose transaction was rolled back. The days are those of one month, the dashboard's filter.

### RequestGate

The limiter is switched on (`RATE_LIMIT_ENABLED`, the default). One action per request that is refused
(429) or passes on to the route's dependency, which answers 401, 403 or runs the handler. The counters
have no lock and need none: there is no `await` between their read and their write. Every API process
has its own.

### WorkerHealth

Worker processes follow each other in one container. A heartbeat is sent to the database, then the
file is written, then the thread waits; stopping removes the file; a kill leaves it, and
`OtherProcess` gives its pid to somebody else. `Healthy` is `read_worker_health`. The maximal age is
assumed to leave room for a heartbeat and its delays, as the default does; the environment may set any
positive number.

### PublicKnowledge

`Bootstrap` decides on the sources and profiles it finds whether to rebuild, `RefreshRequest` always
does; both go through load, delete and add, and several may overlap. A delete or an upsert may fail
with nothing done, or be done and its reply lost: the caller goes on as if it had failed. `Release`
changes the shipped PDFs or the profile, `MigrateScan` and `MigrateRow` are the tenant script, workers
store and delete private vectors meanwhile. A PDF is one chunk, identified by its content.

### BackupRestore

Jobs share one directory. A backup goes through partial file, dump, rename, sidecar and report, then
the cleanup scans and removes sidecar and artifact in two steps; the offline volume snapshot and its
restore stop the writers, verify, remove and extract. A dump of a store that is written meanwhile is
`Torn` unless it is a consistent one (`pg_dump`). `KillJob` may come between any two steps, `Damage`
flips an artifact's content.

### AdapterTraining

Runs follow each other on one output directory: corpus contract, packages, baseline evaluation,
training, final evaluation, adapter, tokenizer, gate, manifest and card, one step each; a run may fail
or die at any of them, with the adapter or the tokenizer half overwritten too, and the corpus file may
be edited while it runs. The version and the size limit of the corpus file, and the scan of its own
texts, are left out: they refuse more corpora in the same way.

## 3. Runs

All bounds are constants of the `.cfg` files. Deadlock is checked for the worker pool, where
`Tick` and `Restart` must always be possible in the end; document and session requests really end,
so there it is not.

| Run | Instance | Shows |
|---|---|---|
| `pool` | 2 processes x 1 thread, 1 task, 1 retry, 1 fault, XPENDING sees one entry (388 747 states) | `TypeOK`, `OneHolder`, `AttemptsAccounted`, `LifecycleSpec`, `Settles`, `Drains` |
| `crash` | 1 process x 2 threads, 2 faults, orphans survive | `NeverStaleWhileHeld` (`OneHolder` and `AttemptsAccounted` are proved for these constants too) |
| `recovery_race` | overlapping recoveries | violates `OneHolder` |
| `retry_lost` | 1 thread, 1 fault | violates `FailedOnlyWhenExhausted` |
| `documents` | 2 documents, 2 contents, 2 uploads, 1 delete after another, quota 1, 1 retry, 1 fault (3 287 820 states, symmetric) | `TypeOK`, `NoOrphanVectors`, `IndexedSearchable`, `ActiveHasFile`, `QuotaOvershoot`, `TasksFollow` |
| `document_delete_race` | 1 document, delete inside the retry window | violates `NoOrphansAtAll` |
| `document_stuck` | 1 document, fair workers, no fault | violates `ProcessingEnds` |
| `sessions` | 2 requests, 2 questions, 2 deletes beside them, 1 fault (4 123 518 states, symmetric) | `TypeOK`, `NoRevival`, `NothingLeftBehind`, `CacheInContext`, `TurnKept` |
| `session_overlap` | 2 requests, 1 delete in flight with them | violates `DeletedForGood` |
| `agent` | 2 requests over ten kinds of question; 2 calls, every fallback policy (84 802 states) | `AgentTypeOK`, `PlanWellFormed`, `EvidenceInPlanOrder`, `SkippedTruthfully`, `PlansEnd`; `OneProbe`, `SuccessExplained`, `CallsAnswered` |
| `platform` | eleven components side by side (2 136 057 states) | `RetainedRestorable`, `RestoreSafe`, `BilledOnce`, `RevisionIdentifies`, `HealthTruthful`, `BoundedBurst`, `RetrievalSound`, `ToolGoverned`, `TurnIsolated`, `CallsJustified`, `ChunksFaithful`, `KnowledgeKept`, `PromotionEarned`, `PlatformTypeOK` |
| `planned_retrieval` | 1 request, all questions with up to 4 companies and 3 years | violates `PlannedRetrievalRuns` |

Why the bounds are enough. *One task*: tasks share only the stream and the threads, and the proofs
of section 5 cover any number; one task reaches every conflict over a row, and its retries and
redeliveries put several messages in the stream. *One retry*: a first attempt, a charged one and the
exhausted budget. *Runtime 1, grace 3, delay 1*: the smallest values that make the assumption tight,
so an off-by-one in the cutoff is seen. *One or two faults*: each fault alone, and in `crash` a kill
during the aftermath of another. *Two contents, two documents, quota 1*: equal files, different
files and a full quota. *Two requests, two questions, two deletes, history limit 2*: a request beside
or after each stage of another one and of both deletes, equal and different questions; the proofs
cover any number. *Ten kinds of question*: every shape of plan under every strategy, with up to three
retrievals at once. *Two calls, one request per window, threshold 2, two retries*: the limiter
refuses and is raced, one call opens the breaker by itself and retries into the open and the
half-open one while the other call is queued behind it. Requests that are alike, and
document contents, which are only compared, are declared symmetric for documents and sessions; the
other models use no symmetry. One delete at a time for documents; the proofs cover any number.

In `platform`, each component with the smallest instance in which its cases happen. *Backups*: one
scheduled job and one operator, two days with one day of retention, one write and one fault, so a copy
is torn, expires, or is cleaned up while another is made (two scheduled jobs at once, whose cleanups
overlap, are beyond the run's time). *Chat*: two tasks and one route request, a
limit of one or two a day or none, a midnight under the first, one retry, two faults. *Settings*: two
servers, two providers, three writes. *Health*: two pids, an interval of one and an age of three ticks. *Gate*: one caller (callers
share nothing), two requests in a window, three windows. *Retrieval*: every subset of six chunks in
three tenants, with twins in text, one change or failure. *Tools*: three of 22 kinds of line,
which is a handshake and a call, in every order. *Answers*: two turns over six kinds of
question, with and without user settings, and every outcome of the provider. *Chunking*: all pages of
up to three and all pairs of pages of up to two out of six blocks, with sizes on both sides of every
limit, and pages that are read by OCR. *Knowledge*: three PDFs, three contents, two refreshers, one
release, one failure. *Training*: two runs, seven corpora, five configurations, losses on both sides
of the gate.

Every property of a passing run has a mutant: a changed definition, next to the original, with a
fault a programmer could have made (a dropped guard, `<=` for `<`, a retry not charged, an
acknowledgement forgotten, a filter without the document id, an error not reported), under which TLC
finds the property violated.

## 4. Fairness

`TaskWorker!Fairness`: weak fairness of every thread's own steps (the operating system schedules
threads, and every blocking call in them has a timeout), of the API's publish, of time, of the
restart of a dead worker (`restart: unless-stopped` in the compose file) and of the end of a
stopping process (`stop` joins its threads with a timeout). Nothing is assumed of clients, of
handlers, which may hang for ever, or of orphans. `Drains` is stated for the case that in the end
some worker has a working broker: with all of them off nobody can acknowledge anything.
`PlanFairness`: a request that was begun goes on, and retrievals return or raise (an assumption on
the vector store, since the handlers wait for it without a deadline); `RelFairness`: callers are
scheduled, the health check's function returns and time passes; nothing is assumed of the provider
and therefore nothing of the executor's thread. `DocumentLifecycle!FairSpec`: weak fairness of the
workers. `SessionRuntime` and the modules of `platform` have no liveness property and state no
fairness: their requests and programs end by themselves or are killed.

## 5. Proofs

TLAPS checks every proof below for all values of the constants that satisfy the assumptions named in
the modules: any number of tasks, threads, documents, requests, callers, pids, faults and so on. The
bounds that keep TLC's instances finite (`MaxFaults`, `LastTick`, `MaxRuns`, ...) are constants
like any other, so the theorems hold however large they are.

| Module | Theorem | States | Needs |
|---|---|---|---|
| `TaskWorkerProofs` | `TypeCorrect` | `Spec => [](TypeOK /\ InHand)` | - |
| | `Invariant` | `Spec => []IInv` | `SerialRecovery` |
| | `Exclusive` | `Spec => []OneHolder` | `SerialRecovery` |
| | `Accounted` | `Spec => []AttemptsAccounted` | `SerialRecovery` |
| | `GraceSuffices` | `Spec => []NeverStaleWhileHeld` | `SerialRecovery` |
| | `Refinement` | `Spec => Lifecycle!Spec` | `SerialRecovery`, `~OrphansSurvive` |
| `DocumentProofs` | `TypeCorrect` | `Spec => []TypeOK` | - |
| | `DocumentTasksFollow` | `Spec => TasksFollow`, a refinement | - |
| | `QuotaBounded` | `Spec => []QuotaOvershoot` | - |
| | `NothingOrphaned` | `Spec => []NoOrphanVectors` | - |
| | `IndexedKept` | `Spec => []IndexedSearchable` | - |
| | `FilesKept` | `Spec => []ActiveHasFile` | - |
| `ChunkProofs` | `ChunkTypes` | `ChunkSpec => []ChunkTypeOK` | - |
| | `ChunksAttributed` | `ChunkSpec => [](Attributed /\ (stage = "done" => ContentsDiffer))` | - |
| | `ChunksAreFaithful` | `ChunkSpec => []ChunksFaithful` | `SensibleSizes` |
| `SessionProofs` | `SessionTypeCorrect` | `Spec => []TypeOK` | - |
| | `AnswersInContext` | `Spec => []CacheInContext` | - |
| | `TurnsKept` | `Spec => []TurnKept` | - |
| | `DeletedStaysDeleted` | `Spec => []NoRevival` | - |
| | `DeleteComplete` | `Spec => []NothingLeftBehind` | - |
| `PlanProofs` | `PlanTypeCorrect` | `PlanSpec => []PlanTypeOK` | - |
| | `PlansWellFormed` | `PlanSpec => []PlanWellFormed` | - |
| | `EvidenceOrdered` | `PlanSpec => []EvidenceInPlanOrder` | - |
| | `SkipsTruthful` | `PlanSpec => []SkippedTruthfully` | - |
| | `RelTypeCorrect` | `RelSpec => []RelTypeOK` | - |
| | `ProbesAlone` | `RelSpec => []OneProbe` | - |
| | `SuccessEarned` | `RelSpec => []SuccessExplained` | - |
| | `AgentIsSafe` | `AgentSpec => []AgentTypeOK /\ ...`, all invariants of `agent` | - |
| `OperationsProofs` | `HealthIsTruthful` | `HealthSpec => []HealthTruthful` | - |
| | `BurstBounded` | `GateSpec => []BoundedBurst` | - |
| | `BackupsKept` | `BackupSpec => []RetainedRestorable` | - |
| | `RestoresSafe` | `BackupSpec => []RestoreSafe` | - |
| | `HealthTypes`, `GateTypes`, `BackupTypes` | `HealthSpec => []HealthTypeOK`, ... | - |
| `ServiceProofs` | `PromotionsEarned` | `TrainingSpec => []PromotionEarned` | - |
| | `KnowledgeIsKept` | `KnowledgeSpec => []KnowledgeKept` | - |
| | `RevisionsIdentify` | `SettingsSpec => []RevisionIdentifies` | - |
| | `BillsAddUp` | `ChatSpec => []BilledOnce` | - |
| | `TrainingTypes`, `KnowledgeTypes`, `ChatTypes`, `SettingsTypes` | `TrainingSpec => []TrainingTypeOK`, ... | - |
| `PlatformProofs` | `TurnsIsolated` | `AnswerSpec => []TurnIsolated` | - |
| | `CallsAreJustified` | `AnswerSpec => []CallsJustified` | - |
| | `ToolsGoverned` | `ToolSpec => []ToolGoverned` | - |
| | `RetrievalIsSound` | `RetrievalSpec => []RetrievalSound` | - |
| | `AnswerTypes`, `ToolTypes`, `RetrievalTypes` | `AnswerSpec => []AnswerTypeOK`, ... | - |
| | `PlatformIsSafe` | `PlatformSpec => []PlatformTypeOK /\ ...`, all invariants of `platform` | `SensibleSizes` |

The last column names circumstances the code does not ensure. `SerialRecovery` is needed: the run
`recovery_race` shows that the property fails without it (section 6). `~OrphansSurvive` and
`SensibleSizes` are properties of the deployment: where handler processes die with their worker, and
settings that leave room for the smallest indexed chunk and for a heading. The theorems say that
nothing else is missing. Passing runs use the same values (TLC evaluates `SensibleSizes` in
`platform`), so the hypotheses are satisfied by behaviours in which everything happens.

### The worker pool

`OneHolder` is not inductive: whether a second thread may claim a held row depends on why the row is
not PENDING. `IInv` adds:

* `InHand`: past the fetch a thread has a task, so writes through `cur` are writes to a row;
* `HeldRows`: a held row is RUNNING, SUCCESS or FAILED, hence not claimable, and while it is RUNNING
  its age is at most what the limits of the steps since the claim explain (`AgeOnArrival`);
* `InTime`: live threads are within their limits; with `HeldRows` and `3 * Delay <= Grace` a held row
  is never stale (`HeldNotStale`), which is why recovery cannot take it;
* `Scanned`: what a recovery has selected and not yet reset is held by nobody and cannot be claimed;
  this needs `OneRecovery`, since another recovery could release it in between;
* `Credit`: a row that can be claimed has a claim to its credit, and so has the row a thread is
  about to put back; this gives `AttemptsAccounted`;
* `OrphansAllowed`: orphans exist only where they can.

The proof has one lemma per group of actions (`LoopSafe`, `FetchSafe`, `ExecuteSafe`, `HandlerSafe`,
`OrphanSafe`, `ProcessSafe`, `ClientSafe`, `TickSafe`, `RaiseSafe`), on top of what each
repository and broker operator preserves (`RepoOps`, `BrokerOps`) and of four lemmas on how the
holder relation changes (`LetGo`, `GoOn`, `TakeRow`, `WriteOutcome`). The refinement adds `Tracked`
(what a thread's place says of the status of its row) and shows for every action which abstract
action, or stutter, it is.

### Documents

Two layers. `BInv` holds whatever deletes do: `Rows` (a row, its content and its id go together),
`Flushed` (an upload past its flush owns the row it will commit), `Unique` (the unique index),
`Tracked` (what an ingestion's place says of the status of its task) and `Requested` (a delete works
on a document that was committed). It gives the refinement, action by action. `QuotaOvershoot` is
inductive beside it: its left side grows only when a request passes the check while the count is
below the limit, and cardinalities of finite sets do the rest. `IInv` adds, each for documents that
are not raced, `Working` (a handler works on an existing document and has stored its chunks before it
writes SUCCESS, and no raced retry of the same content overwrites them), `Deleting` (what a delete works
on, and what it has deleted, is `Dormant`: nobody works for its task, or its attempt is over up to the
worker's aftermath and the delete is known as admitted) and `Filed` (a task that is not dormant has its
file). The argument for `NoOrphanVectors` is that the guard's answer goes stale in one way only: a
handler that would still write keeps its document "processing" (`Working`), so past the guard only the
aftermath of an attempt is left (`Admission`), and the one step of the aftermath that wakes the task is
the requeue, which makes it raced (`Ending`).

### Sessions

`BaseInv`: `Known` (messages are those of requests that had begun, a question once asked stays, and
what a delete concerns is over), `Keyed` (an answer is cached under the key of the request that
computed it and given to requests with the same key), `Roles` and `Turns` (how much of a turn is in
the transcript at which place of the request) and `Unbroken` (without faults and deletes a session
stays, and every request finds it when it stores its answer). Equal keys mean equal questions and
histories that read alike, which is `CacheInContext`. `SafeInv` adds `Forgotten` (a request is banned
only from what was deleted before it began), `Progress` (what a delete has removed, up to its place,
of the requests that were over when it began) and the two properties. The argument is that a request
which is over writes nothing more: whatever is new in a store while a delete runs belongs to a request
in flight (`RequestWrites`), so what the delete has removed stays removed, and an answer overwritten
after the scan is no longer that of an old request.

### Plans

`PlanInv` is `Shaped` (types of the shared state), `Planning` (a client that plans holds the lock,
and the counter is where its steps are) and, per client, `WellFormed`, `Waiting` (nothing runs
before the plan is complete), `Rounds` (a round is made of ready steps and holds all the retrievals
left; a batch is all the retrievals there are), `Accounted` (the handler's dictionary has what
completed, but for results not merged yet), `Justified` (a step ran on what it depends on, or was
skipped for want of it), `Ordered` (steps are decided in plan order, and the evidence lists the
merged retrievals that completed, each once, ascending) and `Finished`. The rules of `QueryPlanning`
enter through lemmas on the steps a plan has and on their dependencies. `EvidenceInPlanOrder` for
the parallel strategy needs that retrievals have no dependencies and so all fall into one batch,
which is sorted as it is merged.

### Reliability, answers, tools

`RelInv`: `Queued` and `Submitted` (a call is queued once, after it was admitted), `OneThread` (at
most one job is past its start), `Retrying` (the loop sleeps only before an attempt that is left),
`Outcome` (what a reported success stands for, by the fallback policy, and that before it there is
neither output nor fallback). A half-open probe is a job past its start, so it is
alone.

`AnswerInv` follows a turn through its locals: `Routed` (the provider and key were chosen by the
rule, of the user's configurations if he has any), `Worked`, `Executed` (what strategy and plan leave
to the answer), `Asking` (a pending call and its attempts), `Reported`, and `Checkpoint` (what
the last node reads was written by this turn's execute node). `RouteFinds`
shows by well-foundedness that the least index of an available provider exists; `OnlyRetrieves`,
`StrategyIs` and `WorkflowIs` say what the rules of `QueryPlanning` can return; `RetriesRepeatable`
what the adapters try again, from the order of their tests and the status in the text.

`ToolInv`: `Handshake` relates the phase of the connection to the lines received so far,
`RunsGoverned` and `SuccessReal` speak of each run of a tool at the line that caused it,
`AnswersMatch` counts requests and answers. `ContractRefuses`, `RefusalIs` and `HandleIs` are what
`handle_message` returns for each kind of line; `ShookKept` says that a handshake stays one when
lines are appended.

### Health, gate, backups

`HealthInv`: `Vouched` (a signal, written or about to be, follows a heartbeat the database took at
most a lag ago), `Beating` (a running worker's thread is never late), `Signed` (undisturbed, every
heartbeat has left its signal). `GateInv`: `Unseen` (no window, no admission), `InWindows` (how many were
let through since the window began, and since a window's length before that) and `Burst`, the
property; a stretch of a window's length meets at most two windows. `BackupInv`: `Copies` (a sidecar
vouches for one consistent copy), and for every job `Made` (what it has done to the file it makes, of
today and under its own name), `Restoring` (the artifact it works from), `Finished` (what it made and
has not reported verifies), and that everything on a cleanup's list has expired. Reported files, and
the artifact of an interrupted restore, are kept because no job unlinks what has not expired and a
running job's names are its own.

### Training, public knowledge, settings, bills

`TrainingInv`: `Progress` says at each step of a run what it has measured and written, `Earned` what a
manifest in the directory stands for. `KnowledgeInv`: `Shelf` (a vector belongs to the tenant its id
is made for, and no private or legacy one is lost), `Informed` (a rebuild has loaded the present
release, and when it is going to add, the public vectors are among those it loaded), `Quiet` (the
bootstrap runs before the API is up, refreshes after), and `AllOrNothing`: when the API is up the
public vectors are those of the `*.pdf` files of the release, or of all its PDFs, or a refresh has
left a gap and there are none. It holds because a delete takes every public vector and an upsert
stores a whole release or nothing, so overlapping refreshes and lost replies only move between the
three. `SettingsInv`: `KeyShared` (servers that loaded a key loaded the file's), `Tidy` (row ids and
revisions were given out, once each), `Constrained` (one row per provider, one default) and
`Recorded`: there is a function from revision numbers to credentials with which everything ever handed
out is computed from its revision. The property compares revisions of different times, so without that
witness, which the proof extends at each commit, nothing relates an old revision to the present rows.

`ChatInv`: `ChatTyped` (a bill has the price of its task), `Staged` (what the handler's place says
of the task) and `Counting`: outside `exit` and `done` a request has at most as many bills as it met
kills, and a request that met none has its bill exactly from the write of the row on, until it is
`done`: the error path is entered without a bill and leads to a requeue, FAILED or `adrift`. `BillsFair`
alone is not inductive, since it says nothing of a task between its bill and the end of its process,
where a deadline makes it run, and be billed, again. For the total, `Counting` makes the bills of a
settled table without kills correspond one to one to the tasks that ended in SUCCESS, and two sums
over corresponding sets of equal terms are equal (`SumRenamed`).

### Retrieval

`RetrievalInv`: `RetrievalTyped`; `Scoping` (the scopes left to read are the tenant's and, if it is
wanted, the public one), `Isolated` (whatever a channel or the result holds is visible to the tenant
and passes the filters), `CorpusScoped` (while the store stands still, a visible chunk is in the lexical
corpus or in a scope left to read, and after the search a match was found) and `Result` (what the
output is worth once it is there). The lemmas are about the operators: sorting by a relation
that is total on the set, deduplication by key, cutting at k, and the fusion, which lists each key
once, best first. That order is total because two keys of equal score and equal rank in both channels
are the same key; so if the lexical channel has an entry, the result is not empty.

### Chunks

`ChunkInv` is `ChunkShape` and, if `SensibleSizes`, `ChunkCare`. `ChunkShape`: the pages still to be
chunked are the last ones of the document, with their offset, and as parsed (`Waiting`); every chunk
is made of text of one page (`AnyChunk`, `PageChunk`); the headings in force are blocks of the
document; the merging loop is within the chunks of its page (`Loop`); in the end no content is there
twice (`Different`). `ChunkCare`: every character of a block of the text layer that is long enough to
be indexed is in a chunk that will not be dropped (`Saved`, up to the page that is done), or, while a
page is being merged, in one the loop has not come to (`LoopCare`: before the index of the loop every
chunk is large enough, `LargeBefore`; what is behind it is as packed, `Covered`); and how long a chunk can
have become at, before and behind the index (`WithinLimits`, with `PieceBound` for a packed piece with its
overlap, `TwoBound` and `FullBound` for one and two neighbours more). Merging forward and then,
for the last chunk, backward is why two neighbours is the most there can be.

What a page's chunks are is proved operator by operator, from the characters up: `Strip` and `Content`,
sentences, pieces of a long sentence (`SplitLongText`), packing with overlap (`Pack`), headings
(`AddParagraph`, `AddChunk`), merging (`MergeTwo`) and deduplication. `Attributed` and
`ContentsDiffer` need no hypothesis on the settings (`ChunksAttributed`).

### Loops over data

Packing, fusing and adding up are folds. The library's induction theorems cannot be used with the
installed backends (they take an operator as a parameter), so a fold is reasoned about as a loop: its
defining recursive function gives a trace, the sequence of its intermediate values, and a property of
every value is proved by the least counterexample: the set of indices where it fails, if not empty, has
a smallest element, its predecessor satisfies the property, and the step lemma gives the contradiction.
Sums over sets go the same way along the chain of subsets the fold removes one element at a time.

### Assumptions on constants

Besides types, the proofs use that the sets the code keeps apart by construction are disjoint:
vector ids start with `public_` or `tenant_` and legacy ones with neither (`KnowledgeAssumption`), a
server's key is none of the markers for a missing key file (`SettingsAssumption`), a client, request
or content is not the value that stands for none, a pid is positive (`HealthAssumption`), the
bootstrap is not a refresh request. `MaxAge >= BeatInterval + 2 * Lag` is the code's `max(60, 3 *
HEARTBEAT_INTERVAL)` with a lag of at most an interval; `3 * Delay <= Grace` is discussed with
`TaskWorker`. A chunk's id determines the chunk and the store is finite (`RetrievalAssumption`; the
score of a channel is an integer and its weight is not negative, and not both are zero, as the
settings' validation says). A block has sentences, none of them empty, and blocks with the same text
look alike (`ChunkAssumption`); the overlap is less than the chunk size, and what is dropped (40
characters) is less than what is merged (140). `SensibleSizes`, the hypothesis of
`ChunksAreFaithful` (and, through it, of `PlatformIsSafe`; `MCPlatform` assumes it) only, asks that
CHUNK_SIZE (1000 by default) is at least what is indexed and at least the longest heading; below the
first, every piece of a text may be dropped as too small, below the second, a heading in front of a
piece exceeds the bound. `Registered` is any sequence of the five providers, `Sources` any non-empty
lists of the scheduled dumps. TLC evaluates all of them on the runs.

### Components side by side

`AgentIsSafe` and `PlatformIsSafe` are about the specifications the runs `agent` and `platform` check.
A step of the composition is a step of one component and stutters for the others (`SideBySide`,
`PlatformSteps`), so a behaviour of it is a behaviour of every component, and the components' theorems
apply. `PlatformSpec` is stricter than the components side by side: the ones that do not move keep one
initial state, which the theorems do not need. The type theorems are mostly part of the component's
invariant. Where a bound is not, a small invariant of its own is added to it: `AnswerCounted` (no
channel is of a turn to come), `Connected`, `KnowledgeCounted`, `Budgeted` (a retry is taken only
while the budget lasts) and `SettingsFiled` (rows and pending transactions name known providers and
models, whatever the transaction read before others committed).

### Only model-checked

* Liveness: `Settles`, `Drains`, `PlansEnd`, `CallsAnswered`. Reasoning under fairness and about
  ENABLED is outside what the installed backends do.

Every invariant of the passing runs, and both refinements, are theorems. Texts are compared as
the model has them: the normalisation of `_normalize_content` (compatibility forms and case) is not
modelled, so two texts that differ only in these are two contents here and one in the code, and the
proof of `NothingLost` is about texts that differ in more.

## 6. Findings

* **Overlapping recoveries give a task to two workers** (`recovery_race`). `recover_stale_tasks`
  selects without a lock and updates later without a second look; `_last_recovery` is checked and set
  without a lock too. A locked select (`FOR UPDATE SKIP LOCKED`) or `WHERE status = 'running' AND
  started_at < cutoff` in the update would make `SerialRecovery` true by construction.
* **Retries left are lost** (`retry_lost`). FAILED, the charge and PENDING are three transactions; a
  crash in between leaves a FAILED task with retries, which nothing picks up.
* **A deleted document can keep its chunks** (`document_delete_race`). Between the FAILED write and
  the PENDING write a task that will run again is neither pending nor running, and the guard of the
  delete lets the request through. The retry can also take over the chunk ids of the same file
  uploaded again.
* **A document can stay "processing" for ever** (`document_stuck`), when the handler is killed on its
  last attempt or between SUCCESS and "indexed". It then can be neither deleted nor uploaded again.
* **A deleted conversation can come back** (`session_overlap`) through a request that was in flight.
  Of requests that were over when the delete began nothing comes back (`NoRevival`).
* **Some questions lose their retrieval** (`planned_retrieval`). A document question of HIGH
  complexity (three companies, or two and a year) and a comparison with fewer than two entities
  match no strategy; the fallback answers without evidence, although the plan has retrievals.

Observations that no run states: where PostgreSQL is configured a delete leaves the process-local
checkpoints of the thread (`checkpointing.py:179-197`), which a turn writes when PostgreSQL cannot be
opened and the next such turn starts from (`TurnIsolated` says that their channels do not reach its
answer); a fallback that stands in for a failed execution, and a
disabled fallback policy, which does not call the execution at all (`fallback_reliability.py:78-86`),
report success without an output (`SuccessExplained` says that nothing else does), and
`agent_runtime.py:402` then reads the first element of an empty list; the
parallel strategy counts years as entities, so the size of its pool may exceed the retrievals.
The reliability limiter rebuilds its list of timestamps without a lock, and an entry appended in
between is lost (the model has the race; no document promises an exact limit).

What the platform modules show about the code, where its documents say nothing else:

* Public knowledge. The bootstrap expects `*.pdf` in lower case (`docker/bootstrap_knowledge.py:25`)
  and the loader takes any case (`document_loader.py:344`). So a `.PDF` file that a release adds is
  not missed by the bootstrap, which finds the sources current, and is indexed only when a refresh is
  requested; once it is indexed, every later start finds a mismatch, rebuilds, finds it again, and the
  container does not come up. "The exact PDF sources" of `docker/bootstrap_knowledge.py:4-6` are the
  lower-case ones; `KnowledgeKept` therefore admits both sets. Two PDFs of equal content have equal
  ids, and the upsert refuses them after the delete. A PDF changed in place is judged current. A store
  that cannot be read looks empty. Between delete and upsert there are no public vectors, and a
  failure leaves it so until the next refresh or start: `KnowledgeKept` says that it is then none,
  never a part of a release. The migration's tenant is the string `default`, which no integer query
  matches.
* Retrieval. One chunk whose metadata names no source makes the whole retrieval fail.
* Training. The adapter is saved before the gate, so a refused or broken run's adapter lies beside an
  earlier run's manifest, which `PromotionEarned` allows in so many words; the manifest's checksum is
  that of the corpus file at the end of the run; the corpus is loaded twice; split counts leave out
  records without an explicit split.
* Routing. Questions other than chats go to the first registered provider that is available, not to
  the user's default.
* Chunks. After packing and merging a chunk may be longer than `CHUNK_SIZE`; `ChunksFaithful` states
  the bound that holds.
* Answers. DeepSeek and Gemini tell a transient error by its text: a permanent one that mentions "500"
  or "connection" is tried again, and a timeout that is worded "timed out" is not. DeepSeek's client
  is created without `max_retries=0`, so its SDK repeats requests below the adapter's own attempts.
* Gate. Up to twice the quota passes where two windows meet.
* Usage. A handler killed between its SUCCESS and its billing row leaves an answer that is not billed,
  or a retry that is billed again; `BilledOnce` allows one bill per kill. And when the billing row,
  the FAILED of the except clause and the FAILED of the worker all fail, SUCCESS stays visible and is
  free, with nobody killed and the message unacknowledged; `BilledOnce` says that this is the only
  way.

PROJECT.json quotes, for each finding, the line of the repository that promises otherwise.

## 7. Not modelled

Every component is listed in PROJECT.json with its status. Left out for good: embedding and scoring
(numeric), PDF and OCR libraries and the providers' HTTP APIs with the retries inside their SDKs
(external), the web clients (presentation), logging, metrics, tracing and memory registries (nothing
depends on them), evaluation (offline programs that compute scores), schema migrations (generated),
registration, login and token formats. Inside the modelled components: the reads of listing routes;
`delete_task`, which has no caller; trimming of the stream at 10 000 entries; expiry of cached answers
(it only removes entries); `DEBUG_MODE`, a constant False, with which `run_rag` returns its prompt;
the text of questions, answers and reports; the identity the limiter derives from a header or an
address; the reasoning and report strategies, which are an outcome; a stream entry without a task id,
or with one that has no row, which the worker acknowledges (`worker.py:173`, `worker.py:286`; the
publisher writes neither and no caller deletes rows); the keys of `LLM_CREDENTIAL_ENCRYPTION_KEYS`,
which take precedence over the key file (`llm_settings_service.py:109`) and with which a server may
well find a credential it cannot decrypt; a system clock that is set back (`heartbeat.py:96`); the rate
limiter switched off. The clause of `ChunksFaithful` that no text is lost is about pages with a text
layer: of a page that OCR reads, the filter drops blocks on purpose.

## 8. Plan

The models and the proofs are complete along the plan: every safety property of a passing run is a
theorem. What could be added: the liveness properties, if a
prover for them is at hand, and the parts of the repository that section 7 leaves out.

## 9. How to run

    tlc -workers 2 -config TaskWorker.cfg MCTaskWorker
    tlapm TaskWorkerProofs.tla

and likewise `tlapm` on `DocumentProofs`, `ChunkProofs`, `SessionProofs`, `PlanProofs`,
`OperationsProofs`, `ServiceProofs` and `PlatformProofs`.

PROJECT.json lists the module and the configuration of every run, the lines of the source every
definition models ("map"), the mutants, the hazards and the theorems.
