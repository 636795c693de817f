# Verification of the ALM platform

TLA+ models, TLC runs and TLAPS proofs for the AI Legacy Modernization platform:
a FastAPI backend that takes a source archive or a repository URL, runs a pipeline
of analysis agents over it and lets a reviewer work through smells, a refactoring
plan and generated patches in a Vue frontend. Paths below are relative to the
repository; `app/` is `backend/app/`.

## 1. Inventory

| Component | Code | State it keeps | Operations | What makes it correct |
|---|---|---|---|---|
| message queue | `app/services/queue/rabbitmq.py` | `alm.analyze`, `alm.dead-letter`, one unacknowledged delivery per worker | connect, publish, consume | no published job is lost; every delivery is settled; retries are bounded |
| pipeline worker | `app/workers/pipeline_worker.py` | the handler's session | `_handle_message`, `main` | a crash or a lost channel costs no job |
| analysis service | `app/services/analysis.py`, `app/models/job.py`, `app/core/database.py` | the row of the job, and a copy of it in each run's session | `run`, `_update_status`, the agent dispatchers | one run owns the row; errors reach it; a stop is honoured; a deleted job stays deleted |
| job API | `app/api/v1/analyze.py`, `app/schemas/job.py` | the request's transaction, background tasks | submit, submit from URL, stop, delete, list, get, logs | an accepted job is picked up |
| agents | `app/agents/*.py` | rows of nodes, edges, smells, plans, tasks, patches, validations; job log | one `run` each; `emit_progress` | the rows of a stage are whole and belong to one run; log numbers are unique |
| patch, plan, smell, validation APIs | `app/api/v1/{patches,plan,smells,validate}.py` | statuses of patches, tasks, smells | apply, revert, generate, push; approve, reject, reorder, regenerate; dismiss; revalidate | a patch is applied once, statuses agree with files |
| graph API | `app/api/v1/graph.py` | none | queries, subgraph, path search | answers agree with the rows |
| report | `app/api/v1/report.py`, `app/agents/validator.py` | the job's report row and its copies in Redis; verdicts on patches | `get_report`, exports, list; one validation per run | the numbers of a report fit together; a stored report is final; a refused verdict costs only itself |
| response cache | `app/core/cache.py` | Redis keys | get, set, invalidate | no stale answer after an invalidation |
| authentication | `app/core/security.py`, `app/api/v1/admin.py` | API keys, row locks of open requests | verify, create, generate, revoke | a revocation holds; a key given out is stored; only admins make admins |
| model settings | `app/api/v1/settings.py`, `app/services/llm/base.py`, `app/core/config.py` | an override in memory, rows of `app_settings`, a cached answer | GET and PATCH `/settings/llm`, choice of a provider | the page shows what is used |
| VCS | `app/services/vcs.py`, `app/api/v1/vcs.py` | clones, branches, providers | clone, push | - |
| LLM providers, source adapters, Java parser | `app/services/llm`, `app/adapters`, `java-parser-service` | none | one call, one answer | pure |
| command line | `app/cli.py` | one session per command | analyze, status, plan, report, api-keys | what it prints as created exists |
| frontend | `frontend/src` | Pinia stores, poll timers | fetch, submit, poll | a late answer does not replace a newer one |
| infrastructure | `infra`, Dockerfiles | - | - | - |

How they interact. The API publishes one message per job to RabbitMQ, or starts a
background task in its own process when the broker is away. Workers consume the
queue with `prefetch_count=1` and manual acknowledgement and drive
`AnalysisService.run`; the background task drives the same function. API, workers
and tasks share the PostgreSQL row of the job and nothing else: there are no locks
and no row versions. The frontend polls.

Where it is hard: the row is read at the start of a run and written from that copy
minutes later; the message leaves before the row is committed; requests read, decide
and write without a lock; one database session lives through a whole run and may be
rolled back or broken on the way; processes and channels die between any two steps;
messages are delivered again. `PROJECT.json` lists each of these hazards at its line.

## 2. Modules

| Module | Stands for |
|---|---|
| `Broker` | the queue as the code uses it: a bag of messages, deliveries, the dead-letter queue |
| `QueueConsumer` | `RabbitMQService.consume` with an arbitrary handler |
| `JobPipeline` | the API's submit, stop and delete, the workers, the background tasks and `AnalysisService.run`, over `Broker` |
| `JobLifecycle` | abstract: what a client that polls a job may see |
| `CodeGraph` | the mapper, the smell detector and `get_subgraph` on one job's nodes, edges and smells |
| `ReportStore` | the validator, and `get_report`, the exports and `list_reports` on one job's report |
| `KeyStore` | API keys, the requests they let in, `api-keys create` of the command line |
| `LlmSettings` | GET and PATCH `/settings/llm`, and the model a generation gets |
| `PlanReview` | the planner's transactions, `update_task` and `regenerate_plan` |
| `PatchReview` | extends `PlanReview`: generation, apply, revert and push of patches |
| `JobLog` | `emit_progress`, the `job_logs` table and the pages that poll it |
| `AppendLog` | abstract: a log to which entries are only appended |
| `ResponseCache` | Redis in front of the read endpoints, and the browser's own cache |
| `MC...` | instances for TLC |
| `...Proofs` | theorems and proofs (section 5); `PatchReviewProofs` is about `PlanReview` too, `CachedAnswerProofs` about `LlmSettings` and `ResponseCache` |

### `JobPipeline`

`row` is the committed `jobs` table, cut down to `status`, `current_stage` and
`error_stage`. `req` is the progress of the submit request; its row is flushed first,
the message published next, and the commit of `get_db` comes last. `stopping` holds
the stop requests between their read and their write. A run is a control point `pc`
(`load`, then `enter` and `work` once per stage, `handle` for the except clause, then
`retry`, `ack` or `reject` in the consumer), the job `on`, the stage `at`, the
session's `copy` of the row and the state `sess` of the session. The session matters:

* `clean`: the copy is as loaded or last written, `_get_job` returns that very object
  (identity map, `expire_on_commit=False`), and a commit writes only the columns that
  differ from the copy (`Updated`);
* `expired`: an agent rolled back; reading an attribute in a coroutine reloads it or
  raises `MissingGreenlet`;
* `broken`: a statement failed without a rollback and every later one fails too.

The agents are abstracted to what they do to that session and how they end. A run
is driven by a worker or by the background task of the job's request. `EnterCancelled`
leaves by `asyncio.CancelledError`, which is no `Exception`: no handler catches it, and
the worker's message is rejected. The learner branch of `run` (`analysis.py:101-108`)
is left out because no job can reach it: `JobConfig` has `extra="forbid"` and no field
`eager_embeddings`, so the submit the comment at `analysis.py:100` suggests is a 422.

`dropped` is a history variable: the jobs a run of which ended before its first
commit. `faults` counts failures, bounded by `MaxFaults`; the theorems do not depend
on the bound.

### `QueueConsumer`

`phase` is the position of each worker's callback inside `message.process()`, `body`
the message it decoded, which survives a lost channel. `RetryOrBury` is the whole
except clause. `completed` is history.

### `CodeGraph`

A run of the mapper parses everything first (`Parse`), then inserts nodes, then edges,
one transaction per chunk (`InsertChunk`); a chunk that fails is inserted row by row
(`InsertRow`), and what is counted is written to the job at the end (`UpdateCounts`).
The detector reads nodes and edges back in two statements (`LoadNodes`, `FindSmells`)
and stores smells in the same way, in one chunk. `Refused` is the database: a row whose
job or whose end nodes do not exist, or a text PostgreSQL cannot hold. `Parsed` and
`Reported` are what adapters yield per batch of 50 files: Python parses the batch; the
Java adapter ignores it and sends the whole repository each time, and drops an edge
when an end is unknown, so that only `CONTAINS` edges remain of those modelled. `Found`
is all rules but the one for cyclic dependencies, which follows `IMPORTS` and
`DEPENDS_ON` edges between modules or files; no adapter yields one. Rules that look at
a single node (large classes, long methods, use of JDBC) are the constant `Flagged`;
those that read edges are written out.

Rows that wait are sets: the rows of the next chunk are some of those that wait, and of
a chunk that failed any row is next. Which ones the code takes first is the order of the
parser's output; no property depends on it, and the theorems hold for every choice. TLC
evaluates one choice.

`query` is one `get_subgraph` request, two statements per hop, at READ COMMITTED;
`before` keeps the edges it started with, for the property only. `RunStops` is a worker
that dies, or a pipeline that fails: its rows stay.

### `PlanReview` and `PatchReview`

A reviewer's `update_task` is a read with its checks (`DecisionRead`) and a commit of
one row by id; `regenerate_plan` reads the latest version and inserts the next one.
The planner commits a plan, its tasks (some of which may be skipped row by row) and the
order in separate transactions. `made` is what the planner generated. `PatchReview` adds
patches, `jobs.patch_count`, requests to generate, mark and push, and the remote
repository, where a branch maps each file to the patch it was written from. Whether a
text of the language model is usable is a choice.

### `JobLog`

`call` is an `emit_progress` call between its `MAX(seq)` and its insert, which is
refused when the number is taken (`UNIQUE (job_id, seq)`) or the job is gone. A page
may have several polls under way, because the interval does not wait for an answer.

### `ResponseCache`

The content of an answer is abstracted to the number of committed changes it shows.
A GET goes through the browser's cache, Redis, and the database (`ReadRows`), and its
answer is stored in Redis and then in the browser as it comes back. A change drops
Redis entries before or after its commit, depending on the handler (`CommitsFirst`),
may be rolled back (`Abort`), and bustCache runs when its answer arrives. `Busts`
follows the substring test of `bustCache` on the URLs of `endpoints.ts`: an upload, POST
`/analyze`, is left with an empty string and drops everything (`client.ts:118`).

### `ReportStore`

`req` is one request per client, statement by statement, because each statement of
`_build_report_json` sees what others have committed by then: `data` is what it has read
so far. `stored` is the job's row in `reports`, `own` says that the request has inserted
it and not committed, which makes other inserts wait. A report is named by the request
that drew its id. `redis` is written before `get_db` commits (`Publish`, then `Commit`).
The validator (`run`) reads the pending patches, judges each (`Verdicts`, where `Shape`
is what its checks tell apart) and saves all verdicts in one statement, or row by row
when that fails.

### `KeyStore`

`verify_api_key` writes `last_used_at` in the request's own transaction, so `lock` says
which request holds the row of a key until it ends or commits early. `LookUp` decides on
the row as it is; `Touch` and `Mark` wait for a row; `Deadlocked` is PostgreSQL's
detector, which ends one of several requests that wait in a circle. A raw key is `shown`
with the answer, after the commit; the command line prints it (`printed`) although its
session closes without one. `answered`, `late` are history: revocations that were
answered, and requests that began after that.

### `LlmSettings`

Between two awaits a handler is one step, because one event loop runs all requests of
the API process. `override` is `_runtime_llm_override`, `row` the two rows of
`app_settings`, `cache` the answer kept for 30 seconds. A PATCH changes the override
before its first await, stores its rows one commit each, drops the cached answer and
then does what a GET does, in its own session (`own`). `Restart` loses the override and
the requests. `seen` is history: what was in force since a request began. Names of
models are not empty (`SettingsAssumption`); section 4 says what an empty one does. The
provider is Ollama or another (`"remote"`); which one the environment configures is the
constant `ConfigProvider`. `Misleading` compares the cached answer with what
`get_llm_provider` would choose: the provider, and the model if it is Ollama's.

### Definitions that are not code

Each module with code keeps, before the definition it varies, an operator whose
comment begins with "Variant of": a plausible mistake in that definition, used to
confirm that a property notices it (section 3).

## 3. Runs

`reports`, `keys` and `settings` check for deadlock. The others set `CHECK_DEADLOCK
FALSE`: when every request is made, every message settled and every id used, the system
rests. Each type invariant is proved; a run repeats it where one of its conjuncts says
more than a type (foreign keys, cascades, locks).

| Run | Instance | Result |
|---|---|---|
| `pipeline` | 1 job, 2 workers, all kinds of failure, 2 of them | `PendingIsAccountedFor`, `NeverResurrected`, `CancelSticks`, `ResultStays` hold |
| `settles` | 2 jobs, 1 worker, 3 recoverable failures, fair | `RunOwnsJob`, `FailureNamesStage`, `DeadLetterIsStopped`, `ActiveJobSettles` hold, and `JobPipeline` implements `JobLifecycle` |
| `consumer` | 2 jobs, 2 workers, 4 failures, fair | `NothingIsLost`, `EveryMessageIsSettled` hold |
| `mapping` | 2 runs of a job of 4 entities in 2 batches, chunks of 3, 1 entity that may be refused, 2 kinds of subgraph request | `TypeOK`, `CountsAreBacked`, `OnlyRefusedIsLost`, `DetectorSeesOwnGraph`, `SubgraphIsBall` hold |
| `plan` | 3 plans, 2 tasks, 2 reviewers | `StaleCheckIsHarmless`, `NoVersionGap`, `OrderCoversTasks` hold |
| `patches` | 2 patches of 1 file, 2 clients that mark, 2 that push to 1 branch | `PatchTypeOK`, `StaleMarkIsHarmless`, `PatchCountIsBacked`, `ReportedBranchExists` hold |
| `joblog` | 4 calls, 1 page with 2 polls, pages of 2 entries | `SeqHasNoGap`, `NothingSkipped` hold, and `JobLog` implements `AppendLog` |
| `caches` | 2 browsers, 1 endpoint, 2 kinds of change, 2 changes, fair | `AnswersAreCommitted`, `StalenessEnds` hold |
| `reports` | 2 clients, 2 patches, 1 smell, 1 validation, 1 change, 1 failure, fair | `TypeOK`, `ReportIsCoherent`, `StoredReportIsFinal`, `RefusedVerdictCostsItself`, `StaleCopiesEnd` hold |
| `keys` | 2 keys, 2 clients, 1 failure, fair | `TypeOK`, `RevocationHolds`, `ShownKeyIsStored`, `OnlyAdminsMakeAdmins`, `EveryRequestEnds` hold |
| `settings` | 2 requests at a time, 2 bodies, 2 models, fair | `AnswerIsRecent`, `ShownModelIsUsed` hold |
| `stop_docs` | 1 job, 1 worker, no failure | `StopIsHonoured` is violated |

Bounds of the pipeline. One job suffices for the properties of `pipeline`, which are
about one row; what two jobs share is a worker, and that is in `settles`. Two workers and the background task give three runs of one job at a time.
A job that fails, is delivered again after a crash and fails in another stage takes
three failures. Two failures allow every pair: a crash and a lost channel, a lost
confirmation and a crash of the API, a rollback and a database error. `MaxRetries` is
the code's 3.

`settles` needs its restriction to recoverable failures (an agent that
raises or rolls back, a handler that raises, a worker that dies). With a lost channel, or a lost confirmation, the
broker's copy of the message starts a second run of a job that is already running, and
the two overwrite each other's stage. Expiry of a message (`ttl`) and a broker that is
down while a message is published again dead-letter jobs that could still run. After a
database error the run cannot write how it ended, and when the API process dies nothing
takes its background tasks up again; these are in `pipeline`.

Bounds of the others. In `mapping` a chunk is smaller than the rows of a run, the
refused entity shares its chunk with rows that are stored and may have an edge on either
side, and the
limits of the rules are the smallest that let one method or one call reach them; the
code's 500, 50, 10, 5 and 3 change only how many rows it takes. Requests go two hops out of the class and
one hop both ways from the method. In `plan` three plans let two requests and a planner
run number plans at once. In `patches` the two patches are of one task, whose plan may
be replaced. In `joblog` three calls can collide on one number and a page needs two
answers, which may overtake each other. In `caches` two versions above the first tell
a stale answer from a fresh one. In `reports` one
change is enough, because a request reads each table once and a second change can only
follow what it has read or precede it; the first of the two clients only asks for the
JSON, the second also exports and lists. In `keys` two keys are the smallest circle of
admins that revoke each other, and two clients the smallest that closes it. In
`settings` the configured provider is not Ollama, as in `config.py:44`. One body chooses
Ollama with a model and writes both rows; the other is what the page saves, two models
and no provider, and writes one row. So an Ollama answer can be cached when a restart
takes the override away, a refused PATCH can change the model under a cached answer, and
an answer can be stored after the PATCH that made it stale; two values of the embedding
model let the override and the row disagree. A PATCH that writes no row is in the module
and in the proofs, not in this run.
`MaxVersion`, `MaxFaults`, `MaxChanges`, `MaxFailures` and the finite sets of ids are
the only bounds.

Properties are stated as far as the code keeps them, and some hazards go further: a job
dropped before its row is visible, lost with the API process or expired in the queue is
named by `PendingIsAccountedFor`, not prevented; `ResultStays` leaves out a stop or a
message that is still under way; versions may be equal (`NoVersionGap`), the order may
hold skipped tasks (`OrderCoversTasks`), a count may fall behind (`PatchCountIsBacked`),
and a rejected push is not noticed (`ReportedBranchExists`). `PROJECT.json` says so at
each hazard.

Every property of a passing run has a mutant in `PROJECT.json`, with which TLC refutes
it.

Fairness. asyncio runs every ready task, and RabbitMQ delivers to every idle
consumer, so `FairSpec` of the pipeline has weak fairness of each submit request, each
stop request's second step, each run's own steps and each worker's consumer. Failures,
the arrival of a stop or a delete, and redelivery get none. In `ResponseCache` requests
end, because the client gives up after its timeout, and entries expire, because both
caches keep a lifetime; nobody is obliged to ask or to change anything. `ReportStore`
and `LlmSettings` have the same: a request under way goes on, what Redis holds expires.
In `KeyStore` requests that wait for a row need strong fairness of `Touch` and `Mark`:
PostgreSQL serves those who wait for a row in turn, so that none is passed over for ever
by requests that come later.

## 4. Disagreements between code and documentation

Shown by a run:

* `StopIsHonoured` (`analyze.py:610`): the pipeline tests a copy of the status that
  was read before the stop, so a running job is never stopped at a stage boundary; it
  goes on, overwrites `cancelled` and completes. Only a run that starts later, or that
  reloads its copy after a rollback, sees the stop.

Met while reading, without a run:

* `analyze.py:448`, "worker picks it up": the message is published before the
  row is committed; a fast worker finds no row, acknowledges, and the job is pending for
  ever (`dropped` in `JobPipeline`).
* `base.py:5`, agents are to be idempotent: nodes, edges and smells of a job that is run
  again are inserted next to those of the first run. (Within one run a Java repository of
  more than 50 files is inserted once per batch, `java.py:50`.)
* `analyze.py:211`, "Errors are caught and written back": after a database error the
  except clause (`analysis.py:144`) uses the broken session and raises itself; the job
  stays in its stage (`FlushFails` or `WorkRaises`, then `HandleLost` in `JobPipeline`).
* `rabbitmq.py:9`, "after max 3 retries": `publish` resets the count, so the bound is
  never reached; this is `RetryFieldIsZero`, and it is proved.
* `vcs.py:141`, "write patched_content for each patch file, commit, and push": of two
  patches of one file one is written, and a rejected push (`vcs.py:178`) is not noticed.
* `client.ts:50`, "so stale data is never served": a decision on a task leaves the
  browser's `/plan/j`, and applying a patch leaves `/patches/j`, for up to five minutes
  (`Busts`). `client.ts:11`: requests in flight are not shared, for nothing is
  ever put into `_inFlight`.
* `db-schema.md:331` gives plans a unique `(job_id, version)`; the model class has none
  and `planner.py:118` always inserts version 1. `db-schema.md:335`: `priority_order`
  also lists ids of tasks that were skipped (`planner.py:181`). A plan made by
  `regenerate_plan` stays empty: nothing fills it.
* A language model that answers with a diff leaves the content unchanged
  (`transformer.py:441`), and it is pushed as a patch (`patches.py:522`).
* `rerun_validation` (`validate.py:174`) answers "queued" and queues nothing.
* `job_log.py:17`, "One row per emit_progress() call": a call that loses the race for a
  number stores nothing.
* `JobProgressView.vue:392`, "Active job polling continues": not when the page had
  watched another job before. A late answer to a poll of that job (`analysis.ts:123`)
  becomes the active job, and when it is complete stops the timer, which by then is the
  new job's; a late page of its log (`analysis.ts:144`) joins the new job's, and its seq
  hides the new job's entries below it.
* `java.py:26` speaks of a ZIP upload; the service reads the shared directory.
  README's "10+ methods, Medium" for god classes is more than 10, and high.
* `_detect_cyclic_dependencies` (`smell_detector.py`) follows edges that no adapter
  yields (`python_ast.py:165`), so `circular_dependency_count` is always 0. The list of
  smells is ordered by the name of the severity, not by its weight (`smells.py:230`).

Reports:

* `report.py:73`, "report for a completed job", and `report.py:318`: the status is not
  looked at. A report asked for while the job runs is stored and returned ever after.
* A request whose insert is refused answers with, and caches, an id that is not stored
  (`report.py:434`; `InsertRefused`, `Publish`).
* The score's "100 = all patches pass" is reached by more than twenty patches of which
  one fails, because the penalty is truncated. `patches_validated` is the number of
  patches generated.

Keys and the command line:

* `alm analyze` and `alm api-keys create` close their session without a commit
  (`cli.py`): the job or the key they print does not exist (`CliCreate`).
* `security.py:107` calls the write of `last_used_at` best effort, in the background. It
  is neither: a failed write leaves a session that refuses the next statement
  (`TouchFails`, `Broken`), and requests with one key wait for each other.
* An installation whose first key was generated (`admin.py:229`) never has an admin:
  this is `NoAdminLeft`. Two revocations at one time both answer 204.

Settings:

* "No restart required": a PATCH never reaches the worker process, which has an override
  of its own. "The next GET reflects the new configuration immediately" fails when an
  answer made before is stored after the PATCH has dropped the cached one; that ends
  after 30 seconds (`ShownModelIsUsed`).
* A PATCH answered 500, because two rows of one key collide, has changed the override.
  Two PATCHes can leave the override and the row with different embedding models.
* After a restart the page shows the stored embedding model, which the provider does not
  use. It shows an Ollama model for the other providers too, and for an empty name it
  shows the configured model while the provider is given the empty name.

## 5. Theorems

For all values of the constants that satisfy the modules' assumptions, which TLC
evaluates on the runs. What they ask for: the sorts are disjoint from `None`
(`PlanAssumption`, `SortAssumption`, `SettingsAssumption`), constants are of the
enumerated kinds (`BrokerAssumption`, `PipelineAssumption`, `ConsumerAssumption`,
`EndpointsAssumption`, `ChangesAssumption`, `KindsAssumption`, `SubsetsAssumption`,
`ShapeAssumption`), limits are numbers (`LimitAssumption`, `BoundAssumption`,
`BoundsAssumption`), and a repository, its patches and the runs of a job are finite
(`GraphAssumption`, `PatchAssumption`, `FiniteAssumption`), without which a count of rows
means nothing. `GraphAssumption` also has the depth of a request, 1 to 5, which
`SubgraphRequest` enforces, and no link of an entity to itself, which the mapper drops.

| Theorem | Statement |
|---|---|
| `JobPipelineProofs!TypeCorrect` | `Spec => []TypeOK` |
| `JobPipelineProofs!DeletedStaysDeleted` | `Spec => NeverResurrected` |
| `JobPipelineProofs!StopIsFinal` | `Spec => CancelSticks` |
| `JobPipelineProofs!QuietResultStays` | `Spec => ResultStays` |
| `JobPipelineProofs!PendingAccounted` | `Spec => []PendingIsAccountedFor` |
| `JobPipelineProofs!RunsOwnTheirJobs` | under `Exclusive`, `Spec => []RunOwnsJob` |
| `JobPipelineProofs!FailuresNameTheirStage` | under `Exclusive`, `Spec => []FailureNamesStage` |
| `JobPipelineProofs!DeadLettersAreStopped` | under `Exclusive`, with no message that expires and a broker that is up, `Spec => []DeadLetterIsStopped` |
| `JobPipelineProofs!PipelineImplementsLifecycle` | under `Exclusive`, `Spec => ImplementsLifecycle` |
| `QueueConsumerProofs!ConsumerTypeCorrect` | `Spec => []TypeOK` |
| `QueueConsumerProofs!RetryFieldStaysZero` | `Spec => []RetryFieldIsZero` |
| `QueueConsumerProofs!NoMessageIsLost` | `Spec => []NothingIsLost` |
| `PatchReviewProofs!PlanTypeCorrect` | `Spec => []TypeOK` |
| `PatchReviewProofs!StaleChecksAreHarmless` | `Spec => []StaleCheckIsHarmless` |
| `PatchReviewProofs!VersionsHaveNoGap` | `Spec => []NoVersionGap` |
| `PatchReviewProofs!OrdersCoverTasks` | `Spec => []OrderCoversTasks` |
| `PatchReviewProofs!PatchesKeepPlanRules` | `ReviewSpec => Spec` |
| `PatchReviewProofs!PatchTypeCorrect` | `ReviewSpec => []PatchTypeOK` |
| `PatchReviewProofs!StaleMarksAreHarmless` | `ReviewSpec => []StaleMarkIsHarmless` |
| `PatchReviewProofs!PatchCountsAreBacked` | `ReviewSpec => []PatchCountIsBacked` |
| `PatchReviewProofs!ReportedBranchesExist` | `ReviewSpec => []ReportedBranchExists` |
| `JobLogProofs!LogTypeCorrect` | `Spec => []TypeOK` |
| `JobLogProofs!SeqsHaveNoGap` | `Spec => []SeqHasNoGap` |
| `JobLogProofs!PollsSkipNothing` | `Spec => []NothingSkipped` |
| `JobLogProofs!TableIsAppendLog` | `Spec => ImplementsAppendLog` |
| `CodeGraphProofs!GraphTypeCorrect` | `Spec => []TypeOK` |
| `CodeGraphProofs!CountsStayBacked` | `Spec => []CountsAreBacked` |
| `CodeGraphProofs!OnlyRefusedRowsAreLost` | `Spec => []OnlyRefusedIsLost` |
| `CodeGraphProofs!DetectorsSeeTheirGraph` | `Spec => []DetectorSeesOwnGraph` |
| `CodeGraphProofs!SubgraphsAreBalls` | `Spec => []SubgraphIsBall` |
| `ReportStoreProofs!ReportTypeCorrect` | `Spec => []TypeOK` |
| `ReportStoreProofs!ReportsAreCoherent` | `Spec => []ReportIsCoherent` |
| `ReportStoreProofs!StoredReportsAreFinal` | `Spec => []StoredReportIsFinal` |
| `ReportStoreProofs!RefusedVerdictsCostThemselves` | `Spec => []RefusedVerdictCostsItself` |
| `KeyStoreProofs!KeyStoreTypeCorrect` | `Spec => []TypeOK` |
| `KeyStoreProofs!RevocationsHold` | `Spec => []RevocationHolds` |
| `KeyStoreProofs!ShownKeysAreStored` | `Spec => []ShownKeyIsStored` |
| `KeyStoreProofs!AdminsMakeAdmins` | `Spec => OnlyAdminsMakeAdmins` |
| `CachedAnswerProofs!SettingsTypeCorrect` | `Spec => []TypeOK` |
| `CachedAnswerProofs!AnswersAreRecent` | `Spec => []AnswerIsRecent` |
| `CachedAnswerProofs!CachesHoldCommittedAnswers` | `CacheSpec => [](CacheTypeOK /\ AnswersAreCommitted)` |

`Exclusive`. That one run owns a job is not true whatever fails. `Exclusive` names what
must not happen: that the broker gives a message again while its handler goes on (a lost
channel), that a request publishes a message and then runs the job itself (a lost
confirmation), and, when several workers share the queue, that handlers fail and workers
die. The last was found by the attempt to prove without it: a consumer publishes the
retry before it acknowledges the message (`rabbitmq.py:200`), a worker that dies in between leaves
two messages of one job, and two workers then run it side by side. With one worker the
two are run one after the other. The run `settles` has one worker and both failures.

### Inductive invariants

* `TypeInv` adds to `TypeOK` what the bookkeeping of a run guarantees (`RunOk`: an
  idle run is on no job and its worker holds nothing, the stage fits the control
  point) and that a job has neither row nor task before its request has committed
  (`RequestInv`). The action properties follow from it, by cases on the step.
* `PendingInv` for `PendingIsAccountedFor`. A held delivery alone would be too weak:
  the run of that delivery may already be past the point where it answers for the
  job. The invariant therefore asks for a delivery whose run has not reached `ack`,
  says that a worker's delivery is about the job it works on (`DeliveryInv`), and
  that a run which has entered a stage has put the row past `pending`
  (`PastPending`).
* `TokenInv`: with several workers a job has one message or one delivery that may still
  lead to a run (`SingleMessage`), and while it has either, its request runs nothing. So
  runs exclude each other (`RunsExclude`). `StepInv` builds on that: the copy in the
  session of a live run is what the row holds but for a stop (`InStep`), and a failed
  row names the stage it is in (`FailOk`).
* `DeadInv`: a job whose message is rejected is stopped or deleted, and what runs of it
  are still to come find it so before they enter a stage (`Stopped`).
* `RetryInv` (no message, decoded body or delivery was ever retried) and `LossInv`
  (each published job is completed, dead-lettered, waiting, or with a worker that has
  not begun to acknowledge) for the consumer.
* `DecisionInv`: no task is ever `applied`, and a decision under way is an approval or
  a rejection; from either of those statuses the table leads back to the other, which
  is why a stale check does no harm. `GapInv`: the version below the one a
  regeneration is about to insert exists. `OrderInv`: tasks come from what the planner
  generated, and an order is that whole set.
* `PatchInv`: a row of a patch is about a task. `MarkInv` is to patches what
  `DecisionInv` is to tasks. `CountInv`: a count that a request still holds is backed,
  because rows only come until they all go with the job. `PushInv`: what a push has
  picked was stored and keeps its content, so a push with something to write has made its
  branch or found it.
* `LogInv`: the rows are finite, numbered without a gap, and a call about to insert
  holds a number that is at most the next one (`InTurn`). `SeenInv` adds that an answer
  on its way holds the rows that follow the number it was asked with (`PollInv`), and
  that number is one the page already has.
* `GraphInv` says for each run, as long as the job exists, what has become of its own
  part of the graph, stage by stage: which of its rows are stored and which wait
  (`NodesFit`, `EdgesFit`, `SmellsFit`), and that it has counted no more than it has
  stored (`CountFit`). Two facts keep other runs out: every row names the run that wrote
  it, and no edge leads from one run's part into another's, so that the rules find in the
  whole graph, of a run's nodes, what they find in its part (`FoundIsLocal`).
* `QueryInv` adds the walk of a request (`Walked`): after `h` hops everything that was
  within `h` hops at the start is visited, nothing is that is not within `h` hops now, and
  behind the frontier no old edge leads out. Edges are only added while the job exists,
  and balls grow with the edges (`BallFacts`). A ball is a recursive function; no
  induction is needed because a request goes five hops at most (`BallGrows`).
* `ReportInv`: `RunInv` follows the verdicts of a validation until they are stored or
  refused, and keeps the times of the verdicts on a patch apart; `RequestInv` says that
  what a request has read fits together, that one insert is under way at a time and only
  while nothing is stored, and that what a request found stays until the job goes.
* `KeyInv`: a revoked key stays revoked, a request that began after the answer gets no
  further than the look-up, a new key is aimed at by one request, and whoever is inside
  an operation of an admin got in with an admin's rights.
* `CacheInv`: versions only grow, and everything copied was copied from one.
* `RecentInv` for `AnswerIsRecent`: whatever a request has gathered, has loaded or has
  stored itself was in force since it began. A PATCH reads back its own row, so what it
  stores must be in force when it is stored, and an override must be ahead of the row
  whenever it is read.

### Refinements

`PipelineImplementsLifecycle`: `LifeInv` says that a run which has entered a stage is the
one its copy and, but for a stop, its row name, and enters the one after it next. By
`RunsExclude` at most one run of a job has entered a stage, so the progress a client
sees (`ProgressOf`) is that run's. A step of it is an abstract step or a stutter; a crash
of the API, which ends many runs and requests at once, is `AbandonMany`.

`TableIsAppendLog`: the rows in the order of `seq` are the abstract log. A committed
insert has the number after all others (`LogInv`), so it is an append; `DeleteJob` is
the abstract deletion; everything else is a stutter.

### Only model-checked

Liveness: `ActiveJobSettles`, `EveryMessageIsSettled`, `StalenessEnds`,
`StaleCopiesEnd`, `EveryRequestEnds`, `ShownModelIsUsed`. TLAPS 1.4.5 proves no liveness
under fairness. Every other property of a passing run is stated by a theorem, and that
of `stop_docs` is false.

## 6. Not modelled, and the plan

Not modelled: uploading, extraction and cloning (before a job exists), parsing of
source text, LLM calls, rendering, deployment, and the learner, which cannot be reached
(`JobConfig` forbids the flag it asks for). The database is modelled at READ COMMITTED
by one atomic step per commit; only `KeyStore` and `ReportStore` have the locks between
a write and its commit as state. `JobLog` has one job, so an answer for a job the page
has left, and `clearLogs`, are not in it. Deletion of a job is not in `ResponseCache`.
`CodeGraph` has one language per job and neither statistics by type nor enrichment by a model. The layout of
Markdown and PDF reports is left out; `app/services/report.py` has no caller but its
tests.

Next, in this order:

1. `JobWatch`: `stores/analysis.ts` and the views that poll a job: the timer, stop,
   late answers for a job the page has left; composed with `JobLog`'s page.
2. Pure algorithms against reference definitions, in one run: graph metrics and paths,
   the planner's order.
3. `Intake`: uploading, extraction and cloning in `analyze.py` and `vcs.py`, what a
   failure leaves behind, and the language detector.
4. Proofs: that two workers share a job only through the one window `Exclusive` names
   (a weaker hypothesis than it is now), and lemmas that both count properties could share.
