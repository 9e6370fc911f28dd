# Extrio in TLA+

Specifications of Extrio's control: what its API, its workers, its offline commands
and its scripts do to the rows and files they share, in which order, and what remains
true when they are slow, are cancelled, die, or do it twice. The backend's source is
`src/backend/src/extrio/`; paths below are relative to it unless they begin with
`docs/` or `scripts/`.

- [1 The system](#1-the-system)
- [2 The modules](#2-the-modules)
- [3 What TLC checks](#3-what-tlc-checks)
- [4 What is proved](#4-what-is-proved)
- [5 Where code and documents disagree](#5-where-code-and-documents-disagree)
- [6 What is left out](#6-what-is-left-out)
- [7 Plan](#7-plan)

## 1 The system

Extrio collects structured items from web sources. A FastAPI control plane (`app.py`,
with dispatch loops for schedules and recovery), any number of worker processes
(`worker.py`) and an MCP server (`mcp_server.py`, a process of its own) share one SQL
database through `store.py`: it is queue, lock and message channel. They also share
the files of the instance: keys, the keyring, and the raw pages of runs. SQLite
serialises transactions (`BEGIN IMMEDIATE`); on PostgreSQL they lock the rows they
decide on. Every module therefore takes one committed transaction as one atomic step,
and what happens between two transactions as steps of its own; a file is written in
as many steps as a crash can tell apart.

| component | state | operations | hard | correct when |
|---|---|---|---|---|
| job queue, leases, fencing (`job_control.py`, `store.claim_job`, `worker.py`) | `operations`, `jobs`; the claim in a worker's memory | create, claim, renew, progress, commit, fail, cancel, exhaust | late workers, crashes, cancellation against commit | one owner, one end, one result, a cancellation that holds, everything ends |
| AI runs (`store.*_ai_*`) | `ai_runs`, `ai_attempts`, `model_invocations` | start and close attempts, phases, review status, calls | writes outside the fence | one history with its operation, one candidate under review, every call billed |
| exploration (`explorer.py`, `adaptive_compile.py`, `model_gateway.py`) | a session in memory, the calls booked in the AI run | discover, compile, repair, validate | loops around a model that may answer anything; a lost worker | budgets hold, the candidate is proven, it ends |
| runs (`app.create_run_operation`, `runtime.py`, `coverage.py`) | `runs`, checkpoint, progress | list pages, details, finalize | lists that move, limits in the middle of a page | a checkpoint hides nothing |
| items (`harvest.py`, `store.save_items`, views) | `items`, deliveries enqueued | classify, commit, page, export | runs within a minute, cursors under commits | revisions count, the feed is complete, walks are exact |
| webhook delivery (`delivery.py`) | `sinks`, `deliveries` | enqueue, claim, check, POST, finalize, redeliver | POST outside any transaction | bounded requests, true outcomes |
| schedules (`store.claim_due_schedules`, `app.dispatch_schedule_occurrence`) | schedules, occurrences | claim due, dispatch, skip, pause | crash between claim and dispatch | one run or one skip for each occurrence |
| bounded recovery (`bounded_recovery.py`) | batches, budgets | authorise, tick, judge, cancel | waits, deadline and cancellation against runs | budget, exclusivity, waits, an end |
| sources and collections (`collector_lifecycle.py`, `collection_workflows.py`, `collector_history.py`) | collector row, versions, migrations, owners of history | define, edit, explore, publish, migrate, reassign, archive, delete | whole rows written back, snapshots restored | the rule fits the source, history keeps its owner |
| keys (`integrity.py`, `credentials.py`, `maintenance.py`, `cli.py`, `instance_guard.py`) | key files, keyring, trust rows, the lock, backups | make, rotate, retire, back up, restore | crashes between files and rows | secrets stay readable, keys fail closed |
| accounts (`auth.py`, `store.*auth*`) | users, sessions | setup, log in, edit | check and change in different transactions | an administrator remains |
| field suggestions (`field_suggestions.py`) | rows with lease and attempt | ask, claim, answer, apply | an answer after the lease | the latest claim answers, all end |
| idempotent commands (`app.replay`, `remember`, `mcp_server.py`) | receipts | every write | crash between row and receipt | one effect for each key |
| database upgrade (`store.initialize`, `store_backfills.py`) | scripts, batches, marker, lock | migrate | dies at any step, several at once | what serves is whole |
| raw pages (`local_evidence.py`) | directories, manifests, digests | write, commit, prune, show | overtaken workers, pruning, a reader in between | what is shown is so |
| source catalogs (`scripts/tender_sources/`) | a ledger file | run, resume | killed between two writes | budgets, refusals and results hold |

The hazards of each, at the line where they bite, are listed in `PROJECT.json`, each with
the properties that would catch it.

## 2 The modules

A module that models a component is named for it. Components that share no row are
checked together as a sum: a module beginning with `MC` has a variable `part`, fixed in
the initial state, that says which one moves. This is a way to spend one run on
several of them and says nothing about their interaction; where components do
interact, they are in one module (a run's items and deliveries in `Items`, recovery with
workers, engineers and the source in `BoundedRecovery`, processes, offline commands and
restores in `InstanceKeys`).

| module | models | checked in |
|---|---|---|
| `OperationLifecycle` | the promise: what a client that polls an operation sees | `JobControl` refines it |
| `JobControl`, `JobControlProofs` | the queue, the fence, the worker loop and the commands that feed them; theorems | `MCJobControl` |
| `WebhookDelivery`, `WebhookDeliveryProofs` | sinks, deliveries and their dispatchers; theorems | `MCServices`, `MCWebhookDelivery` |
| `Schedules` | schedules, occurrences, the loops of the control planes, the automatic pause | `MCDispatch`, `MCSchedules` |
| `BoundedRecovery`, `BoundedRecoveryProofs` | recovery batches, the guard on a host, runs and the clock; theorems | `MCDispatch` |
| `CatalogRun` | the catalog runner and its ledger | `MCDispatch` |
| `Commands` | commands under a key, receipts, rows of collections, sources and sinks | `MCDispatch` |
| `DispatchProofs` | theorems about schedules, catalogs and commands, and about `MCDispatch` as a whole | |
| `Accounts` | users, sessions and requests in the middle | `MCServices` |
| `FieldSuggestions` | suggestions, their claims and answers | `MCServices` |
| `Exploration`, `ExplorationProofs` | one AI run: discovery, compilation, repair, budget; theorems | `MCServices` |
| `ServicesProofs` | theorems about accounts and suggestions, and about `MCServices` as a whole | |
| `Coverage`, `CoverageProofs` | windows, checkpoints and continued traversals of a changing list; theorems about it and about `Items` | `MCCoverage` |
| `Items` | rows of items, entities, deliveries enqueued, views and exports | `MCCoverage` |
| `InstanceKeys` | the instance lock, signing keys, keyring, backup, restore, loss | `MCRecords` |
| `SourceManagement` | one source, its collections, rules, migrations and the owners of history | `MCRecords` |
| `Upgrade` | the migration of a database of an earlier release | `MCRecords` |
| `LocalEvidence` | the raw pages of a run, pruning and a reader | `MCRecords` |
| `AiActivity` | phases, attempts and model calls of one exploration | `MCRecords` |
| `RecordsProofs` | theorems about the five modules of `MCRecords` and about it as a whole | |

How state and actions correspond to the code follows for each; `PROJECT.json` maps every
definition to its lines. A definition introduced by a comment "Fault in X" is not part of the
model: it is X with a plausible mistake, kept to see that a property would notice.

### JobControl

An operation and its job are created together and share an id. `operation`, `job`,
`aiRun`, `run` and `collector` are the rows; `payload` is the part of the job row that
never changes; `worker` is what each process holds in memory; `resultOf` is a history
variable, the claim whose result was committed.

| action | code |
|---|---|
| `CreateExplore`, `CreateRun` (through `CreateCommand`) | `app._start_exploration`, `_start_repair`, `create_run_operation` and `store.create_async_command` |
| `RequestCancel` | `job_control.request_cancel`: a job nobody holds is ended at once |
| `Publish` | `store.publish_rule_bundle` |
| `Archive`, `Restore` | `collector_lifecycle.lifecycle_command` |
| `Claim`, `ClaimEnds` | the branches of `store.claim_job` |
| `ExpireLease` | the clock passes `lease_until` |
| `Begin`, `Prepare`, `StartAttempt`, `MarkRunning`, `Progress`, `CommitExplore`, `CommitRun` | the transactions of `Worker.process` and `_process_owned`, in their order |
| `Raise`, `CancelSeen`, `LeaseLost`, `Fail`, `Abandon` | exceptions, `owned_transaction`'s two refusals, `Worker.fail`, and a process that stops |

`Fenced` and `Owned` are `owned_transaction`. `FinishResources` is the one place where an
operation ends without a result. A renewal that finds nothing wrong changes nothing
that is compared, so it is a stuttering step; one that finds something is `LeaseLost`
or `CancelSeen`. Time is what the code compares: a lease is live or expired, and any
live lease may expire at any moment (`ExpireLease`), which stands for every stall of a
worker.

### WebhookDelivery

`sink` and `delivery` are rows; `dispatcher` is the claim a worker process holds.
`posts`, `accepted`, `target` and `disturbed` are history: requests sent and taken in,
sink versions sent to, and deliveries whose exchange was interfered with. A `round`
counts manual redeliveries (`redelivery` events), a `cycle` counts the claims of a
round (`cycle_attempts`). The request itself (`Post`) lies outside of any transaction,
between `CheckLease` and `Finalize`; its verdict is one of the three of `_deliver`, and
a request that failed may have been taken in all the same.

### Schedules

`collector`, `schedule`, `occurrence` and `runs` are rows; `planner` is the list that one
control plane read and works through; `checks` counts the failed runs whose worker has not yet
made the pause check. `renewed` is history: whether an engineer has switched the schedule
on since the latest run.

| action | code |
|---|---|
| `EditSchedule`, `SetLifecycle`, `Redefine` | `store.save_schedule`, `lifecycle_command`, `definition_command`; the last two through `disable_schedule` |
| `Publish`, `Explore` | what puts a rule in service and takes it out, reduced to that |
| `StartRun` | `app._start_run` |
| `ClaimDue`, `ListPending`, `Dispatch`, `Restart` | one poll of `app.schedule_dispatch_loop`: the transaction that claims, the read outside of any, one transaction for each occurrence; and a poll that breaks off |
| `EndRun`, `PauseCheck`, `LoseCheck` | the end of a run at a worker (`worker.py:417-449`, `535-598`), the check that follows it, and a worker that dies in between |
| `ExhaustRun` | `store.claim_job` on a job whose claims are used up |

`occurrenceKey` is the hash of schedule, revision and scheduled time; here it is these three.
A cron expression is any next instant. A run that ends as anything but `failed`
is `other`, since the pause check tells nothing else apart. A poll that finds nothing due, and one
that finds nothing pending, is a stuttering step.

### BoundedRecovery

`rows` are collectors with their progress and checkpoint, `runs` runs with their operation and job,
`batches` the recovery batches by the run they were created for; `sent` is history.

| action | code |
|---|---|
| `StartBatch`, `RequestStop` | `bounded_recovery.py`'s creation and cancellation of a batch |
| `TickRunning`, `TickCooling` | one batch in a tick of the loop: judging the run that ended, or dispatching the next attempt |
| `CreateRun` with `CanCreateRun` | `create_async_command` behind `guard_source_work` |
| `ClaimRun`, `LoseWorker`, `AbortRun`, `EndRun` | the worker, reduced to the ways of ending a batch tells apart |
| `ChangeContext`, `RetireKey`, `SwitchSchedule`, `Tock` | what engineers change meanwhile; the clock |

### CatalogRun

`manifest` is the input, `ledger` the file, `memory` the runner while it lives, `row` the task of each
catalog row. `Start` reads the ledger, and closes what it finds open, `Persist` replaces the file, `Enter`, `Send`, `Respond`,
`Refuse`, `Break` and `Finish` are the course of a row under its host's lock, `Exhaust` and `Spent` the
limits of the batch, `Cancel` and `Crash` the two ways it is cut short. A request is booked
and the ledger written before it leaves (`Send`).

### Commands

`collections`, `sources`, `sinks` and `receipts` are rows, `handler` is what a process has reached in a
request, `answers` is history. A command on a collection makes its change and its receipt in one
transaction (`Execute`) or replays a receipt (`Replay`); the others look for a receipt (`Begin`); `Check`, `Create` and `CreateSink` make rows one
transaction each; `Remember` writes the receipt in another; `Crash` lies anywhere between. The
`agent` command is the MCP server's, which keeps no receipt.

### Accounts, FieldSuggestions

In `Accounts` a request is authorised from its session when it arrives (`AskCreate`, `AskUpdate`,
`Verify`) and changes rows later (`Create`, `Update`, `SetPassword`, `CreateSession`), with other requests
in between. In `FieldSuggestions`, `Ask`, `Claim`, `Answer` and `Apply` are the four
transactions, `Die` and `Expire` what happens to workers.

### Exploration

`session` is the `AdaptiveSession` in the memory of each claim's worker, `evidence` the calls booked in the AI
run. `Ask` books a call, in a transaction of the claim (`adaptive_compile.py:185`, `worker.py:218`); `Call` is the
request that follows, before which nobody looks at the claim again (`adaptive_compile.py:187`), so that a cancellation or a
lost lease may come in between; the history `late` counts the calls a claim makes after it is `Lost`. An answer is unusable, fails, reads on, or proposes a plan
(`AnswerUnusable`, `AnswerFails`, `AnswerRead`, `AnswerProposal`); `JudgeDiscovery` and `JudgeRule` are
the validations, which turn a plan into a candidate, issues or the end; `Commit`, `Abort`, `Fail`, `GiveUp` and
`Crash` end a claim. What a plan says is what it fixes for later answers (`Fixed`: mode and list
stage without its pagination, or the old contract in a repair) and which issues its samples show.
Time and token limits are `Abort` at any moment.

### Coverage

`source` is the list, `collector` the row with its checkpoint, `run` the active run; `kept` and `backlog` are the rows of items
as far as coverage tells them apart. `CreateRun` reads and creates, `ReadCollector` and `CreateLateRun` are the same with time
in between; `ReadPage`, `FetchDetails`, `LoseDetails`, `RateLimited` are the runtime, `Commit` and `RefuseCommit` the worker's
transaction. `Publish`, `Withdraw`, `NextDay` move the source and the calendar; `PublishRule` and `ChangePolicy` invalidate progress.
The history `skipped` holds the days that the look-back asks for and the initial window of a run does not reach (`Skips`):
a policy may have a window shorter than its look-back, and a slow command begins its window later than it would have.

### Items

`items` are rows in the order they were written, `events` the deliveries enqueued, `reader` one walk. `Start`, `Reprocess`,
`Fetch`, `Commit`, `Collide`, `Cancel` are a run and its ends; `Commit` classifies each page against the latest accepted
row of its entity (`Previous`, `Classified`), replaces the run's rows and enqueues. `Open`, `Read`, `Export` are the
list endpoints with their cursors. `InOrder` lists a finite set of rows by their number, for every `ORDER BY` and
enumeration that the model needs: it is a function of the set, where a fold over a sequence could not be reasoned about.

### InstanceKeys

`file` is what is on disk, `db` the database, `archive` and `dump` backups, `process` what API, workers and MCP server have
loaded, `command` and `restore` the offline commands under way, each step of which may be its last (`EndCommand`,
`CrashRestore`). `Start` takes the lock shared and loads or makes keys; `StoreSecret`, `BeginPublish`, `Publish`, `CreateRun`,
`ExecuteRun`, `CommitRun` use them; `BeginRotate`/`Reencrypt` rotate the keyring; `SetStatus` retires or trusts a key;
`Install*` are the copies a full restore makes one after another. A restore of the database alone takes no lock and writes no marker: `BeginCopy`,
`EndCopy` and `UndoCopy` are its beginning, end and exception, between which everything else may happen; `file.copy` is what a copy has left where the
database should be, a kill can leave it empty or in part (`Remains`). SQLite opens an empty file as an empty database and refuses a
part of one (`Opens`). `Lose*` are losses of files or of the database.

### SourceManagement

`source` is the collector row, `versions` and `rules` what was frozen and published, `history` the operations with
their run or AI run and owners, `edit` what `update_candidate_rule` has read of the row. `Begin`, `CommitExploration`,
`CommitRun`, `FailJob` are the worker, and a generation that comes up for review supersedes the older ones
(`UnderReview`); `ReadForEdit`, `WriteEdit` the edit by hand with what can come between; the
rest are commands. A command is given the digest of a plan; a stale one changes nothing, so an action is a command
whose plan is still true.

### Upgrade

`legacy` is what the earlier release left, with an active or an archived source, `db` the database, `gate` the holder of the initialization lock, `proc` each
process with the scripts it found missing and the last id of its batches. `RunScript` is a script with its record
in one transaction; `WithCollections`, `WithPolicy`, `WithSchedule`, `WithFields`, `WithAiRuns`, `WithOwners` are what a batch
completes, `Mark` the marker; `Stop` is the end of a process at any step, which frees the lock.

### LocalEvidence

`row` is the run's row (directory, digest), `disk` a directory for each claim, `try` the claims' workers. `Fetch` writes a page,
`Finish` and `BreakOff` the manifest, `Commit` the digest in the run's result under the lease. `Prune` removes the
files of a manifest past its days one by one; `Ask`, `LookAtManifest`, `LookAtFile`, `Conclude` are
`evidence_status`, step by step.

### AiActivity

`operation.activity` and `aiRun.activity` are the two copies of the history of phases, `attempts` and `invocations` rows.
`Report`, `Succeed`, `Fail` and `RequestCancel` advance or end both histories (`Advanced`, `Finished` are `advance_activity`)
under the lease; `StartAttempt` and `RecordInvocation` ask for nothing. An entry also
carries the claim that wrote it, which the code does not keep.

## 3 What TLC checks

| run | parts and instance | shows |
|---|---|---|
| `JobControlSafety` | 2 collectors, 2 operations, 2 workers, 2 claims, 1 archive or restore | `SingleOwner`, `FencedCommit`, `CancelHonoured`, `JobFollowsOperation`, `AttemptsBounded`, `TerminalStable`: late workers, cancellations and exhausted claims |
| `JobControlCollector` | 1 collector, 2 operations, 2 workers, 2 claims, 1 archive or restore, fair | `OneTaskPerCollector`, `JobContextStable`, `OneCandidateUnderReview`; `KeepsPromise`: `FairSpec` implements `OperationLifecycle!Spec` |
| `Services` | 1 delivery, 2 dispatchers, 2 attempts, 1 redelivery, 2 faults; 2 users, 2 clients; 2 suggestions, 2 workers; an exploration of 4 calls and 2 claims | `RequestsJustified`, `OutcomeTruthful`, `OutcomeFenced` of deliveries; `AccountsSound`; `CandidateProven`, `LateCallsBounded`; `AllEnd`: deliveries, suggestions and explorations end |
| `Dispatch` | 1 schedule, 2 control planes, 2 instants, 2 edits, 1 restart; 2 collectors on a host, a batch of up to 2 attempts beside 2 ordinary runs, 1 change, cancellation or lost worker; 3 catalog rows over 2 invocations; 10 commands, 2 processes, 1 crash | `NoDoubleRun`, `NoRevival`; `BudgetsHold`, `SourcesRespected` of batches and catalogs; `CommandsSound`; `EventuallyDecided` of occurrences and batches |
| `Coverage` | up to 5 records on pages of 2, 2 pages and 1 detail a run, 1 fault, an initial window and a look-back of 1 day, commands slow by a day; 2 collectors, 3 runs, 2 claims, a reader of one row at a time | `CheckpointCovers`, `NewRecordsCovered`; `RevisionsChain`, `FeedComplete`, `WalkExact` |
| `Records` | 2 collections, 2 definitions, 1 field version beside none, 3 jobs, 1 edit, 2 management commands; 2 scripts, 2 operations in batches of 1, 2 processes; 2 claims that read 2 pages; 2 claims of an exploration of 2 phases, 4 calls; 2 key IDs, 2 offline commands, 1 loss | `RuleFits`, `MigrationAgrees`, `HistoryAttributed`; `UpgradeSound`; `TrailTruthful`: pages, phases, end and bill of an execution; `InstanceSound`, `KeysSound` |
| `JobControlAiRun`, `WebhookDeliveryRedelivered`, `SchedulesPause`, `DispatchRetry`, `CoverageDuplicates`, `RecordsPublished` | as their configurations say | the disagreements of section 5 |

Each run also checks the type invariants of its parts (`TypeOK`, `AllTypesOK`). A property of a sum is the
conjunction of the properties of its parts, which their modules state one by one.

What the properties say, in short:

- *Jobs.* At most one worker passes the fence of a job; a result is committed once, by the latest
  claim; an accepted cancellation is what the operation ends with; operation, job and run are over together and nothing
  that is over changes; a collector's `activeOperationId` is its only work.
- *Deliveries.* A round sends at most its attempts, counted by claims; a row says "delivered" only if the
  receiver took it in in that round; an outcome is recorded by the latest claim while its lease lasts.
- *Schedules.* An occurrence has one run if it was dispatched and none otherwise, however many planners find
  it; no claimed occurrence starts a run of a schedule that was edited, paused or archived since.
- *Recovery and catalogs.* Requests were reserved or booked before they left, over lost workers and resumed
  ledgers; the host is left to the batch; the wait a source asked for is kept; a refused host is left alone.
- *Commands.* A key stands for one effect, a URL for one source, a deleted collection leaves nothing behind.
- *Exploration.* The calls of all claims stay within the budget, discovery leaves compilation its part; a candidate
  is what was validated last, without an issue, with the list stage that was proven. A worker that was overtaken or cancelled
  between booking a call and making it makes that call, and no other.
- *Coverage.* What a checkpoint hides was handled: every record of the list within the window it
  was built from is persisted as the policy asks, or will be in the next window, but for days that an initial window fell short of.
- *Items.* Revisions count the values an entity had; who takes the deliveries in order has the latest; a walk
  or export returns what was there all along, once.
- *Keys.* A stored credential can be decrypted unless its keyring was lost; a lost key is not replaced while something
  depends on it; nothing runs on half of a restore; no run is committed under a key that is not trusted.
- *Sources.* The rule fits the definition, collection and version of today; what was done for a collection stays its own.
- *Upgrade.* What serves finds what one undisturbed migration leaves.
- *Trail.* A committed snapshot stays, its reader is told neither more nor less; operation and AI run tell one history,
  written by claims in their order, and every recorded call is billed once.

**Why the bounds are enough.** The rules about a job, a suggestion, a run's rows, its pages and its phases compare one claim with the latest one: two workers and two
claims give an overtaken worker, its successor, and a job whose claims are used up. The rules
about a collector relate consecutive operations. Two attempts in a round separate the retry from the last failure, and
a redelivery lets an answer of the first round arrive in the second; two faults are a crash or an
error on top of a late dispatcher. Two control planes are the two readers of one occurrence; two
instants with two edits give an occurrence of an old revision beside one of the current. A batch of
two attempts has a first, which is judged and continued, and a last; a third collector would be barred as the second is.
Three catalog rows give two on one host and one on another. Two pages of two and
a limit of one detail cut every page in the middle and every traversal over several runs; five records let one page
move while it is read. With a window of one day, a look-back of one and a command that waits over midnight, an initial window does fall short:
without `skipped` the run finds a checkpoint that hides a record. Three runs are two of one collector within a minute and one between them. Two key IDs are
the one in use and the one that replaces it; a command beside a backup is what a restore can put back. Two collections and
definitions are the one of before and the one of now, a field version stands beside having none (`RecordsPublished` takes
two of them), and three jobs are a candidate, its successor and a run. Collectors and workers of `JobControlSafety` are
interchangeable, no property names one of them. A reader in `Items` begins once there is more than a page to read and every run has
read its pages; what is judged or removed meanwhile still interleaves with it. A horizon of 4 lets a batch with the lifetime 3 reach its deadline
after a wait. Two operations in batches of one put rows that have to be judged together into different batches. Where a bound stops
a part (`MaxRevision`, `MaxTime`, `MaxManual`, `MaxRestarts`, `MaxVersion`, `MaxRedelivery`, `MaxFaults`,
`MaxOrdinary`, `MaxChanges`, `MaxCrashes`, `MaxInvocations`, `MaxCommands`, `MaxLosses`, `MaxJobs`, `MaxEdits`, `MaxReads`, `MaxMinutes`, `MaxDay`,
`MaxPublished`, `MaxSlow`, `MaxEntries`, `MaxCalls` in `AiActivity`, and the numbers of operations, deliveries, runs and rows), the bounded
system stops, hence `CHECK_DEADLOCK FALSE`; a part at
rest beside the one that moves stops too.

**Fairness.** A worker that stays alive goes on: each transaction of `_process_owned` follows
the one before it, and exploration and runs have time limits (`worker.py:227-239`,
`332-338`), so `Proceed(w)` is weakly fair; `_serve_jobs` polls, so some worker takes a
job when one can be taken (`TakeJob`); the clock passes the lease of a job that no
process holds (`LeaseRunsOut`). While a worker is alive its lease is renewed every
`min(0.5, lease/3)` seconds, so no fairness makes it expire, though it may. Progress reports,
crashes and all commands need never happen. A worker may crash again and again: the claims
of a job are limited, so the job still ends. The same holds of deliveries, suggestions and explorations, where workers poll
(`worker.py:525`, `643`) and a POST times out after 10 s, against a lease of 120 s; what an exploration's model answers is not
constrained, it ends by its calls and its counters. `schedule_dispatch_loop` polls for as long as its process lives and goes through its list
without waiting, so `ListPending(p) \/ Dispatch(p)` is weakly fair for each control plane, of which
`MaxRestarts` polls may break off. A batch ends because the loop ticks, the clock goes on and workers serve the queue
(`BoundedRecovery!Fairness`). `NewRecordsCovered` assumes that runs are started again and again, by a schedule or by hand, and carried
out; nothing is assumed of the source. Catalogs, commands, accounts, keys, items, sources, the upgrade, raw pages and
activity are checked for safety only: nobody owes them another try.

## 4 What is proved

Every invariant and every action property that a passing run checks is a theorem, for any collectors, workers, dispatchers, control
planes, sources, pages, records, commands, scripts and keys, and for any bounds, under the assumptions below; TLC checks the same
properties on the instances of section 3. Each module finds an inductive invariant, shows that every action keeps it (one lemma or step for each
action, and under it one for each conjunct it can disturb) and concludes the properties from it. Where the parts of a
sum are proved about, a last section shows that a behaviour of the sum is one of each of its parts.

| module | proves | assumes |
|---|---|---|
| `JobControlProofs` | `TypeOK`, `SingleOwner`, `CancelHonoured`, `JobFollowsOperation`, `OneTaskPerCollector`, `JobContextStable`, `AttemptsBounded`, `OneCandidateUnderReview`; the action properties `TerminalStable`, `FencedCommit`; `Spec => Lifecycle!Safety` | operation ids are positive naturals, a job may be claimed at least once, the bound on revisions is a natural number, `NoCollector` is no collector |
| `WebhookDeliveryProofs` | `TypeOK`, `RequestsJustified`, `OutcomeTruthful`; the action property `OutcomeFenced` | at least one attempt and one version, natural bounds, the null values are no values (`LimitAssumption`, `NullAssumption`) |
| `ExplorationProofs` | `CandidateProven`, `CallsBudgeted`, `LateCallsBounded` | `ExplorationAssumption`: natural bounds, the contract to repair is one that can be fixed |
| `ServicesProofs` | of `MCServices`: `AccountsSound`, `CandidateProven`, `LateCallsBounded`, `AllTypesOK` | `ServicesAssumption`: that of exploration, at least one password, attempt and revision, natural bounds, `Nobody` is no user |
| `BoundedRecoveryProofs` | `BudgetHonoured`, `HostReserved`, `WaitHonoured` | `RecoveryAssumption`: at least one run and one attempt, natural times, a list of cool-downs that is not empty |
| `DispatchProofs` | `NoDoubleRun`, `NoRevival` of schedules; of `MCDispatch`: `BudgetsHold`, `CommandsSound`, `AllTypesOK`; the action property `SourcesRespected` | for schedules natural bounds, a threshold and a revision of at least 1, `Manual` is no occurrence (`BoundAssumption`, `OriginAssumption`); the assumptions of recovery, of catalogs (`CatalogAssumption`: natural limits, finitely many rows) and of commands (`CommandsAssumption`: natural bounds, `Idle` is no command) |
| `RecordsProofs` | `RuleFits`, `MigrationAgrees`, `HistoryAttributed` of sources; of `MCRecords`: `UpgradeSound`, `TrailTruthful`, `InstanceSound`, `AllTypesOK`; the action property `KeysSound` | for sources: `Home` and `First` exist, natural bounds, `None` is no value (`ManagementAssumption`, `NoneAssumption`); for the others `RecordsAssumption` and `UpgradeAssumption`: natural bounds, a key to begin with, null values that are no values |
| `CoverageProofs` | of `Coverage`: `TypeOK`, `CheckpointCovers`; of `MCCoverage`: `RevisionsChain`, `FeedComplete`, `WalkExact`, `AllTypesOK` | natural bounds and limits of at least 1, a first list that is newest first (`LimitAssumption`, `FirstAssumption`, `NoneAssumption`), keys and values that are numbers (`PagesAssumption`); any initial window and look-back |

What a module assumes of its own constants it `ASSUME`s. Modules that are instantiated under other names state theirs as a
definition, and the sum that instantiates them `ASSUME`s it; TLC evaluates all of them in the runs.

None of the properties is inductive by itself. What has to be added, and why:

- `IInv` of `JobControl`: what is absent has left no trace (`Absent`); a worker that holds a job holds a claim number no larger
  than the job's (`Holding`), and no two workers hold the same number (`TokensDiffer`), which is why the attempt number works as a
  fence; a job has a lease exactly while it is processing (`Leases`). `KeepsSafetyPromise`: under the refinement mapping at the end
  of `JobControl` every step is a step of `OperationLifecycle` or leaves it unchanged.
- `ClaimsPay`: the claims of workers which have yet to call `start_ai_attempt`, together with the attempts that were started, are no more than the
  claims of the job. So `AttemptsBounded` holds although that call does not ask for the lease. `Review`: nothing under way is under
  review, and a collector has exactly one AI run under review while it shows it or explores beside it (`previousStatus`), otherwise none.
- `WInv` of `WebhookDelivery`: whoever holds the token has the latest claim (`Latest`), no two dispatchers the same one (`ClaimsDiffer`), and
  the requests of a round with the claims that may still send one are no more than the claims given out (`RequestsCounted`). As long as
  nothing interferes, one dispatcher at most works on a delivery, under its lease (`Alone`), hence it is taken in once (`TakenOnce`) and given up
  only after a request (`Tried`).
- `SInv` of `Schedules`: the runs of a collector that came from an occurrence are one if it was dispatched, otherwise none (`Receipts`); only the newest run
  of a collector can be live (`OneAtATime`); a schedule that is on has a revision left for switching it off (`Switchable`).
- `MInv` of `SourceManagement`: the candidate of a source is for the version it has or migrates to, the rule for the one it has (`Candidates`);
  a migration can be taken back to what it says (`Migrations`); while an exploration is under way the context it compiles for
  is the source's of now (`Jobs`), and an edit under way is of the row as it still is (`Edits`); an entry of the history is
  owned by the collection it was made for or by none, and that one is there (`Entries`, `Owners`); the latest generation under review is of the
  collection the candidate is for (`Latest`).
- `XInv` of `Exploration`: a session belongs to a claim that was given out and fits its point in the loops (`Sessions`); the calls that were
  booked are the calls that were made, and the latest claim knows all of them (`Budget`); a candidate ended the job (`Verdict`); a claim has made no late call, or one and is
  lost for good, so that it cannot book another (`LateOnce`).
- `RInv` of `BoundedRecovery`: runs and batches know each other, and a collector has at most `MaxAttempts + 1` runs for each ordinary one (`Links`, `RunCount`), which
  bounds the identifiers; what a batch has sent and what its run may still send was reserved (`Budget`); a run under way is the one its batch waits for
  (`Host`); each wait that the source asked for is over or the batch waits for it, also when the deadline cancels the run under way (`Waiting`).
- `CatalogInv` of `CatalogRun`: the ledger is what the runner remembers, and counts what was sent (`LedgerFits`); a row that is read stands in
  it, has no result and is alone on its host (`RowsTaken`); a host that refused is closed, or the row that met the refusal still
  stands open in the ledger, so that the next invocation closes it (`HostsClosed`). That is why a runner killed
  between the refusal and its next write does not send to the host again.
- `CommandsInv` of `Commands`: a process serves a command that creates, and each of its results is a refusal or a source it made for that url
  (`Serving`, `ResultsMade`), so a source that a retry finds is the one it asked for; what was remembered of a command on a collection is
  what was answered (`Remembering`), it made one collection exactly if it was answered (`MadeOnce`), and a revision is one more
  than the changes clients were told of (`Counted`); a url has one source that is not deleted (`OneSource`).
- `AccountsInv` of `Accounts`: a request is under way only if there is an account (`Founded`), which keeps the first setup from happening twice.
- `EvidenceInv` of `LocalEvidence`: a directory holds what its claim wrote, until its days are over (`DirectoryFits`); the row has a digest exactly
  if the job succeeded, and names the directory of that claim (`SnapshotRow`); what a reader has read of a row with a digest is the row of now
  (`ReaderFits`), so that it may look at one file after another.
- `ActivityInv` of `AiActivity`: both histories are one, their last phase is open exactly while the exploration goes on, and they are written
  by claims in their order (`Tells`); the attempts are those of the claims that began one (`WorkersFit`), and end with the operation (`JobFits`).
- `KeysInv` of `InstanceKeys`: offline commands, restores and what a broken restore left keep every process down (`LocksHold`); whatever is encrypted, in the
  database, its snapshot or the backup, is so under keys of the keyring there or of one that was lost (`RingsFit`); what
  a restore has installed is what it would take away (`RestoreFits`); a run is executed by one worker, under a key still trusted (`WorkFits`).
- `UpgradeInv` of `Upgrade`: each row is what the earlier release left or what the migration makes of it (`RowsFit`), and what lies behind a process in
  the sequence of stages, and up to the last id of its batch, is done (`StagesFit`). So no matter where a process died and who goes on, the
  marker stands for the result of an undisturbed migration.
- `CoverageInv` of `Coverage`: a record is settled if it is handled, older than the window, or so young that the next window holds it (`Settled`). What
  lies behind a run in the list is settled by what it found (`ListingSound`), except in front of the anchor it is still looking for; progress hands
  this on (`Continues`), a whole list gives a checkpoint that covers (`Covers`), and the window of a run leaves out nothing the checkpoint answers for (`Linked`),
  but records of skipped days, which count as handled (`Excused`); a window reaches back over the look-back or the days between are skipped (`Reaches`),
  and they are forgotten only with the checkpoint (`ChangePolicy`).
  All of it is said of the run, of the collector's row, and of the row that a slow command has read and not yet used (`RowsSound`,
  `RunFounded`, `ResultSound`), since the list moves under each of them (`Follows`).
- `ItemsInv` of `Items`: an item says what there is to say after the accepted rows of its entity (`Revises`). The rows do (`RowsChained`), and so does the batch of a
  live run (`BatchesFresh`), though other runs commit while it waits, because a collector has one live run (`RunsAlone`) and an overtaken
  claim cannot commit. Rows of a collector are in the order of their minutes (`RowsKept`), so the latest is the last written whatever the ids; the
  deliveries are the deliverable rows, in order (`EventsExact`), as many for each entity as its revision says (`RowsCounted`). A
  reader has returned each row it began with or will, since rows are only added (`ReaderOnWay`).

Only model-checked:

- liveness: the fairness part of `KeepsPromise` (its safety part is `KeepsSafetyPromise`), `AllEnd`, `EventuallyDecided` and `NewRecordsCovered`, since
  it rests on `ENABLED`, which tlapm does not reach;
- the violations of section 5, which are counterexamples.

## 5 Where code and documents disagree

1. `JobControlAiRun`. `store.start_ai_attempt` (called at `worker.py:215`) asks neither for the lease
   nor for the operation. A worker that stalls longer than its lease between its first renewal and
   this call, while the client cancels, sets the cancelled AI run back to `running`. Its operation
   and job are over, so nothing ends it, and `active_blockers` refuses each later command on the collector.
   `store.py:1771` keeps "the live Operation and durable AiRun phase history aligned". (The histories of phases
   do stay the same, as `TrailTruthful` shows; it is the status that does not.)
2. `WebhookDeliveryRedelivered`. `store.redeliver_delivery` puts a delivered delivery back to `pending`;
   `docs/releases/v0.2-acceptance.md:272` asks for the redelivery to be recorded on its own, without putting the state back.
3. `SchedulesPause`. `store.claim_job` ends a run whose claims are used up as `failed`, but only
   `worker.py:449` and `worker.py:598` call `maybe_pause_schedule_after_failures`. After three failed runs in a row, the last of
   which ended this way, the schedule stays on; a source that kills its worker each time is never paused.
   `docs/releases/v0.2-acceptance.md:294` asks for the pause after three `Failed` in a row. The
   instance has no restarts between a run's end and its check: that such a restart loses the check
   (`LoseCheck`) is a second way to the same state.
4. `DispatchRetry`. `create_sink` makes its row in one transaction and remembers the receipt in another
   (`app.py:2836`, `2845`). A retry after a crash in between makes a second sink, which receives every
   later item too. `docs/contracts/api-contract.md:93` promises the same logical result. Sources made the same way are
   kept apart by their URL (`CommandsSound`).
5. `CoverageDuplicates`. Two pages of one run that show the same identity get one primary key (`harvest.py:868`): the
   run fails with all that was read in it. `docs/domain-model.md:276` and `docs/runtime-contract.md:173` say such candidates are
   merged, or rejected as `ITEM_IDENTITY_CONFLICT`.
6. `RecordsPublished`. `_publish_latest_ai_run` books the published rule on the latest AI run that waits for review. After a
   cancelled migration, which puts the earlier candidate back, that is the migration's, not the one that generated
   the rule; `docs/product-contract.md:119` speaks of the corresponding candidate.

Met on the way, without a document that says otherwise: what a call used beyond its reservation is lost with a worker
that crashes before it settles; `ModelRepairNotApplicableError` is a `ModelCompileError`, so the compile loop retries it
without a call and ends as `MODEL_NO_PROGRESS`; the `else` of the discovery loop is never reached; the 24 h window
for misfires of `docs/architecture/ADR-002` has no counterpart, an occurrence is dispatched however late; a torn key or
keyring file is refused until an operator removes it; a restored old backup makes a key trusted again;
the phase in which an exploration was cancelled or timed out is recorded as succeeded (`store.py:99`).

## 6 What is left out

**Not modelled.** What is left of the backend after these modules is not control but data, presentation or I/O, in which
TLC would find only what the model puts in. Of `harvest.py`, `explorer.py`, `model_gateway.py`, `html_structure` and the PDF
code: how a field is read from a page, how structure is recognised, prompts, and how an answer becomes a rule
plan; a page is what it shows, an answer is any answer. Of `app.py` and `store.py`: validation of request bodies, views,
filters, facets, page numbers, the overview and metrics, the shape of responses. `reporting`, `doctor`, metrics, the worker
heartbeat (nothing in the control flow depends on it but the end of a worker, which is a crash here), evidence bundles (a ZIP of committed
rows), settings, JSON contracts, connections and SQL dialects, DNS pinning and TLS, the demo site, the wording of the
command line, benchmarks and release scripts. The web front end is a client of the HTTP API without durable state.
The audit chain is left out: an event is appended in the transaction of each change and decides nothing.

Abstractions of single modules:

- `JobControl`: what a commit writes (it is in `Coverage`, `Items` and `SourceManagement`), the schedule that archiving
  disables (`Schedules`), the refusal of commands on a reserved source (`BoundedRecovery`), metrics and
  error texts. `claim_job`'s branch for a job whose operation is already terminal is not an
  action: `JobFollowsOperation` shows that no such job exists.
- `WebhookDelivery`: signing, headers and payloads; back-off durations (a failed delivery becomes due at
  some time); the dead letter for a missing item, since no code deletes the items of a committed run. One delivery in the run.
- `Schedules`: why a run is refused beyond the collector's own state (`Dispatch` may skip an occurrence at any time), the limit of 100 on
  the list of a poll, source reassignment, `lastTriggeredAt`.
- `BoundedRecovery`: all collectors share a host; explorations are source work like runs; a tick is one batch; a wait is lost if its run was
  cancelled before it was judged, as in the code; receipts of its commands.
- `CatalogRun`: bytes and seconds are spent at any moment; a TLS retry or redirect is the same fetch again; a disk that fails in the last
  write; rows and hosts up to their order.
- `Commands`: tenant and actor as part of a receipt's scope, updates of sinks, restoring a collection. Sinks and sources are served in separate behaviours.
- `Accounts`: the roles other than administrator are one; the login limit. A disabled account's unused session lives again when it is
  enabled; a `PATCH` of role and password is two transactions.
- `FieldSuggestions`: the limit of five an hour, the fields themselves.
- `Exploration`: samples and pages as what they prove, the evidence revision as a flag.
- `Coverage`: the query pager and single-page collectors, dates in the future, removals while a run reads, a list whose first page alone is
  read in the observed mode (it never finishes), traversals whose page has disappeared (`Stranded`). A slow command uses what it read at
  most `MaxSlow` days ago. `store.py:1165` accepts any window
  from 1 and any look-back from 0 to 90 days, so an initial window can reach back less far than the look-back of the day on which
  the command read its row, and the checkpoint that is built up from it then lies before days that nobody has read. `CheckpointCovers`
  excepts exactly these days (`skipped`). With a window of 1, a look-back of 1 and a command that waits over midnight TLC finds the record that such a
  checkpoint hides; without a wait it found none with a window of 1 and a look-back of 2, since the days before the window are
  older than what the checkpoint answers for. With the defaults, 30 and 3 days (`store.py:28`), it takes a command that waits for weeks.
- `Items`: reassignment, sinks switched on later, fetching a title again, caps of bytes and rows, page-number paging. Observation times are minutes of the wall
  clock, as in the code. An entity may be returned twice by a walk over entities when it changes meanwhile: the view is live.
- `InstanceKeys`: losses while an offline command runs; a full backup is atomic, since it holds the lock to its end. A restore of the database
  alone is not; what is left out of it is a process that opens the file in the instant between its creation and its first bytes, and
  on PostgreSQL it is one transaction (`--single-transaction`), of which a kill leaves nothing. Storing a credential validates what is stored and
  encrypts in one step (`StoreSecret`), so that a loss of the keyring between the two is excluded. Artifacts are one file; a collector is one rule and its newest run.
- `SourceManagement`: one source; field contents; policy and checkpoint resets are in `Coverage`; plans and receipts are guards.
- `Upgrade`: one collector; operations stand for every table whose rows get new fields; processes of the earlier release, and of a newer one, beside the migration.
- `LocalEvidence`: one reader at any moment, writes of one file; exploration samples. Directories without a manifest are never pruned, as the documents say.
- `AiActivity`: times, metrics and token counts; on PostgreSQL a late model call can be overwritten when another exploration of the source
  marks the older AI run as superseded, since it reads that row without locking it (`store.py:1535`).

## 7 Plan

Done: the inventory, the modules above, a proof of every safety property that a passing run checks. What remains to be done beside this code:

1. The liveness properties, once the prover reaches `ENABLED`; until then larger instances of `EventuallyDecided` and `AllEnd`.
2. A refinement for the walk by cursor and the feed, as `OperationLifecycle` is one for jobs: the abstract reader returns a snapshot.
3. Interaction where section 2 says there is none today: a change of the code that lets two parts share a row takes them out of the
   sum and into one module.
