# guru-core in TLA+

This directory holds a formal model of guru-core: TLA+ modules translated from
the source, configurations that model-check them with TLC, and theorems about
them that TLAPS, the TLA+ proof system, checks. `PROJECT.json` is the
machine-readable index: for every definition the source lines it stands for, for
every run what it checks, for every property a mutation of the code that breaks
it.

## The system

guru-core reads what a user uploads, scores six "Role Models" against it
(Station 1), turns the one the user settles on into a plan (Station 2), and a
quarter later holds the plan against what it predicted (Station 3). Three
deployables share one PostgreSQL and one Redis: the **API** (HTTP and a worker),
the **Engine** (a worker) and the **Catalog** (HTTP). They never call each other.
Work crosses the job queue (ARQ on Redis), state crosses the database, and the
client polls the database through the API.

Two facts shape everything that can go wrong:

* **Every repository call is a transaction of its own.** A use case is a sequence
  of such calls, with nothing that ties them together: no lock, no outer
  transaction, no version column. Anything else may happen between two of them.
* **Jobs are delivered at least once.** A worker that stops leaves its job to be
  delivered again; a handler that raises or reaches `job_timeout` fails the job
  for good, and the timeout arrives as `CancelledError`, which `except Exception`
  does not see. The worst case of three model calls (`config/llm.yaml`, 240 s
  each) is longer than ARQ's default timeout of 300 s.

### Inventory

| Component | State it keeps | Operations | Interacts with | What makes it correct |
|---|---|---|---|---|
| Job queue (`packages/queue`) | a job's place in Redis, its deliveries | enqueue, deliver, retry, time out | every worker | at-least-once, one worker at a time, a bounded number of deliveries |
| Direction run (`run_direction.py`, `direction.py`) | `direction_runs`, `reports`, `fit_verdicts` | start, run, poll | queue, Profile, Catalogue, model | one run in flight; evidence cites Reports of its run; ready is complete; runs end |
| Hypotheses (`hypotheses.py`) | `direction_hypotheses`, append-only | create, list | plans, queue | versions 0, 1, 2...; each has its plan |
| Plans (`plans.py`, `generate_plan.py`) | `plans`, milestones, tasks, slots | generate, start, archive, tick | queue, hypotheses, Scheduler | a shown plan is whole; it is started or put away; generation ends |
| Calendar export (`exports.py`) | `plan_exports`, `schedule_slots.external_ref/synced_at`, Google's calendars | request, push, unexport, status | queue, Google, plans, tasks | every task's last status reaches the calendar; one event for each task |
| Check-ins (`checkins.py`) | `checkins`, task statuses | submit, list | plans, export | a day has one check-in; every tick is pushed |
| Reconciliation (`reconciliations.py`, `reconcile.py`) | `reconciliations` | start, compare, decide | queue, hypotheses, plans | one open review, answered once; `revise` appends exactly one version |
| Intake (`presign_import.py`, `complete_import.py`, `parse_import.py`, `import_google_calendar.py`) | `imports`, `documents`, stored blobs | presign, complete, parse, import | queue, storage, Google | one Document for an import; a parsed import stays parsed |
| Profile and questions (`build_profile.py`, `questions.py`) | `profiles`, `question_answers`, `quotas` | build, answer | queue, imports, model | the Profile reflects the last upload |
| Google tokens (`google_access_token.py`, `*_integration.py`) | `oauth_connections`, cached access token | get, connect, disconnect | Google, cache | no token after a disconnect; a new grant is not revoked by an old answer |
| Login (`login_with_google.py`) | `users` | get or create | Google | one user for an account |
| Scheduler (`engine/domain/scheduler.py`, `quota.py`, `capacity.py`) | none, pure | place tasks, cut to the quota | GeneratePlan | no overlap, in its week and window, the quota kept, nothing lost |
| Diff, metrics, comparison (`engine/domain`) | none, pure | diff, compare, count | Reconcile, RunDirection | agree with their definition |
| Catalog (`services/catalog`, `catalog.py`) | `role_models` | upsert, seed, retire, author, list | Station 1 | a shipped shape stays shipped; a user's is the user's alone |
| Repositories (`packages/repo`) | the 20 tables; the same rows in memory | every method of the ports | every use case | both implementations answer alike |
| Rate limiter (`middleware.py`, `packages/cache`) | a counter in the cache | count, refuse | every request | no caller exceeds its budget |
| LLM client (`packages/llm`) | none | complete, validate, retry | Engine | no answer that breaks a rule is used |
| Storage, importers, config, logging, HTTP, containers | files | I/O and wiring | all | not modelled |

The hard behaviours are interleavings of requests with each other and with the
workers (check-then-act, torn reads, lost updates), deliveries repeated after a
crash, timeouts that skip the error path, and a use case that ends between two
of its writes. `PROJECT.json` lists each at its line under `hazards`.

## The modules

| Module | Models | Used by |
|---|---|---|
| `JobQueue` | ARQ as the use cases see it | `DirectionRun`, `PlanLifecycle`, `CalendarExport`, `Review`, `Intake` |
| `RunPromise` | abstract specification: what Station 1 promises a client | (instance) `DirectionRun` |
| `DirectionRun` | Station 1: requests, the `direction.run` handler, polling clients | `MCDirectionRun`, `DirectionRunProofs` |
| `PlanPromise` | abstract specification: what Station 2 promises a user | (instance) `PlanLifecycle` |
| `PlanLifecycle` | Station 2: appends, `plan.generate`, status requests | `MCPlanLifecycle`, `PlanLifecycleProofs` |
| `CalendarExport` | a plan's tasks on Google Calendar: export, removal, changes of tasks, `export.push` | its run, `CalendarExportProofs` |
| `Review` | Station 3: opening, computing and answering reviews | its run, `ReviewProofs` |
| `Intake` | uploads, `import.parse`, calendar pulls, answers, `profile.build` | its run, `IntakeProofs` |
| `Comparison` | the arithmetic of Station 3: diff, compare, classify | `Scheduling`, `Measuring` |
| `Scheduling` | `plan.generate`'s arithmetic: placing tasks, the quota, the retry | `Quarter` |
| `Measuring` | coverage, window and metrics of the uploads | `Quarter` |
| `Quarter` | the composition: a plan scheduled, ticked off, compared; the uploads measured | `MCQuarter` |
| `Accounts` | login, sessions, budget, the Google connection and its token cache | `MCAccounts`, `AccountsProofs` |
| `Schema` | the tables, their keys and foreign keys | both stores |
| `PostgresStore`, `MemoryStore` | the repositories, method by method | `Views`, `Stores` |
| `Views` | the read-only use cases | `Stores` |
| `Stores` | both stores driven by the same calls | its runs |
| `DirectionRunProofs`, `PlanLifecycleProofs`, `CalendarExportProofs`, `ReviewProofs`, `IntakeProofs`, `AccountsProofs`, `QuarterProofs`, `StoresProofs` | the theorems about each component | |

### JobQueue

`job[j]`, `tries[j]` and `at[j]` are a job's state in Redis, its deliveries so far
and the step its handler stands at. A module that extends `JobQueue` gives jobs a
handler: the steps between `"load"` and `"return"` or `"raise"`. `Faults` names what the
environment may do, so that a configuration says which failures it is about:

* `"crash"`: the worker stops between two steps; the job is queued again
  (`Stopped`), and given up once it has been delivered `MaxTries` times;
* `"timeout"`: the handler is cancelled at any step and the job is over (`TimedOut`);
* `"lost_enqueue"`: a request ends after a commit and before the call that follows;
* `"raise"`, `"raise_unhandled"`: a call inside, or outside, a handler's `try` raises.

ARQ is external. Two of its guarantees are taken as given: no two workers hold one
job at a time (the in-progress key outlives the timeout), and a crash loses no
queued job (Redis itself does not fail).

### DirectionRun and RunPromise

`created`, `status`, `written`, `reports` and `verdicts` are the rows; run ids are
numbered by `created_at`. `profile` and `catalogue` are what other components
write and may change at any step. `stored` and `listed` are the handler's local variables
that live across an `await`. A Report is abstracted to the dimension it is about,
a verdict to its Role Model and the dimensions its five evidence items cite: that
is what the rules (`verdict_violations`, `missing_dimensions`) speak of. The model's answer is
any answer the rules let through, or the fallback. One action is one transaction; the two
reads of `StartDirectionRun` are one action since only the second races.

| Action | Code |
|---|---|
| `StartChecked`, `StartCreates`, `StartEnqueues` | `StartDirectionRun.__call__` |
| `LoadRun`, `BeginAnalyzing`, `BeginRecommending`, `Finish` | `RunDirection.__call__` |
| `Analyze`, `SetReadouts`, `StoreReports` | `RunDirection._analyze` |
| `ListCatalogue`, `StoreVerdicts` | `RunDirection._recommend` |
| `HandlerRaises`, `Fail` | its `except` clause and `_fail` |
| `ReadRun`, `ReadReports`, `ReadVerdicts` | `GetDirectionRun.__call__` |

`RunPromise` knows no jobs, transactions or readers half way: a run is begun, concluded once with all it found, or
given up, and a client who asks is told `ready` with everything or is told that the run is not ready. `KeepsPromise`
is its specification under the mapping `Promise`: a run that is not ready has concluded nothing, whatever rows it has
written; a client is told something at its third read, if its first said `ready`.

### PlanLifecycle and PlanPromise

A hypothesis row, its plan and the plan's job share a number (`plans.hypothesis_id`
is unique). `tree` and `baseline` name the delivery that computed the tasks
and `structure.baseline_schedule`: two deliveries ask the model, the
calendar and the clock again, so their results differ. `writer` is a request
that appends (CreateHypothesis, or DecideReconciliation with `revise`, which
ends right after the append), `mover` a `PUT /v1/plans/{id}/status`.
`AppendCollides` is the unique index on `(user_id, version)`.

`PlanPromise` knows no jobs, requests or failures: rows grow by one, a plan is
opened, proposed whole or failed, started, put away. `KeepsPromise` is its
specification with `proposal` read off `tree` and `baseline` of a proposed plan;
a tree that is written but not yet proposed is not shown.

### CalendarExport

`task` and `slot` are the columns the push reads and writes, `export` the
`plan_exports` row, `calendars` and `events` what Google holds. `client` is an
API call: each makes its steps once, and the push it enqueues has its name. `push`
is what a handler carries across its `await`s: the calendar, the rows it read, its
reading of the clock. Times are readings of one clock: only `completed_at > synced_at` is
ever asked. An event is its calendar, its task and the number of the copy, and shows
a status; the texts are left out.

| Action | Code |
|---|---|
| `RequestReads`, `RequestUpserts`, `RequestEnqueues` | `RequestExport` |
| `SetStatuses`, `MarkDirty`, `enqueue_incremental_export` | `UpdateTaskStatus`, `SubmitCheckin` |
| `UnexportReads`, `DeleteCalendar`, `ForgetEvent`, `DeleteRecord` | `UnexportPlan` |
| `LoadPlan`, `CreateCalendar`, `ReadRecord`, `ListRows`, `ReadClock`, `RecordSynced` | `PushExport._run` |
| `SyncEvent`, `mark_synced` | `PushExport._sync` |
| `PushRaises`, `NotAtGoogle`, `FailReads`, `FailWrites` | its `except` clauses and `_fail` |

`Patient` is an assumption about the user: the export is asked for, or removed, only
while no push and no other such call is under way, and nothing changes during a
removal. Nothing in the code enforces it; without it `OneEventEach`,
`RecordedCalendarIsWhole` and `RemovedIsForgotten` fail, as the hazard at
`exports.py` line 171 says: two requests, or a full push that is repeated, make two
calendars; a removal during a push is undone by it. Changes of tasks may always overlap with
pushes. `overtaken` is a history variable: the tasks that changed while a push held an
older copy of their row.

### Review

`review[r]` is a `reconciliations` row: the hypothesis it is of, its status, what it
`found` and the answer. A comparison is abstracted to the direction run it measured
and whether that run had its reports: `_shares_now` takes the latest run, finished
or not (`measured`, `Outside`). `from[h]` is what the hypothesis `h` quotes in its
`evidence_snapshot`. `opener` and `decider` are requests between two of their
transactions, `holds` the comparison a handler has computed and not yet stored.

| Action | Code |
|---|---|
| `OpenChecks`, `OpenCreates`, `OpenEnqueues` | `StartReconciliation` |
| `LoadReview`, `Compares`, `Complete`, `Fail`, `Breaks` | `Reconcile` |
| `DecideReads`, `DecideWrites`, `AppendNumbers`, `AppendInserts`, `AppendCollides` | `DecideReconciliation` |
| `OpenLoses`, `DeciderDies` | a request that ends between two transactions |

### Intake

`status` and `documents` are `imports` and `documents`; `profile` is the imports and
the answer the Profile was read from. `complete`, `pull` and `answering` are requests
between two transactions, `builder` a `profile.build` between its reads and its
`upsert`. Build jobs are all alike (they carry the user), so they are a number,
`builds`. `overtaken` is a history variable: a build that had read before another
one wrote has written after it.

### Scheduling, Comparison, Measuring, Quarter

The pure functions of `services/engine/domain`, as operators over sets of tasks.
`Scheduling` runs them as the `plan.generate` job does: ask for a template, place week
by week in the order of the code, ask again while something is left over and
attempts remain, store the tree, store the plan. An instant is a number of minutes from the plan's
first local midnight. `Quarter` adds the ticks and asks, when nothing is under way, what
Station 3 would find. Shares are ten-thousandths and hours tenths, as the code rounds
them, with Python's rounding of a half. `InputsAssumption` is what the schemas the answers and uploads are
validated against say of them, as far as it matters here: durations and repetitions are positive, a hint is one of
the listed ones, a template has a milestone, an area is one of `Areas`, and there are finitely many of everything.

### Accounts

Time is counted in ticks. `Google` is its grants (`alive`); a token says which grant it
was issued for and when it expires. `req` and `call` are what a request, or a
worker's call to Google, carries across its `await`s. `dropped`, `late` and `admitted`
are history variables: a disconnect is over and nobody has connected since; a token
was read before the disconnect cleared the cache; requests let through in a window. `Lag`
bounds the time between Google's answer and the write to the cache.

### Schema, PostgresStore, MemoryStore, Views, Stores

`Schema` has the twenty tables with what may not repeat, what must exist and what a delete
takes along. `PostgresStore` is every method of `packages/repo/pg` as one transaction
on them, which fails as a whole when a key or a foreign key would be broken.
`MemoryStore` is every method of `packages/repo/memory`, whose rows know no constraint.
A table is the set of its rows in both: rows are numbered as they are created, so a list in memory is its rows in the
order of their numbers, and a query's order is by its columns and then by the number (`InOrder`). What both stores do with rows
(`With`, `Single`, `By`) stands in `Schema`.
`Stores` makes the calls the use cases make on both, one part of the ports at a
time, and compares the answer to every query. `StoresInv` is what both stores hold then. `apart` records that PostgreSQL has refused a
call the other store took; from then on nothing is compared. `Views` is what
a client is shown: the read-only use cases on top of the answers.

## The runs

| Run | Bounds | Shows |
|---|---|---|
| `direction_safety` | 2 runs, 2 requests, 2 dimensions, 2 deliveries, every fault | the evidence and status properties survive races and every fault |
| `direction_progress` | 2 runs, 1 request at a time, 1 reader, 2 deliveries, crashes | Station 1 implements `RunPromise`; runs end, one in flight, `DirectionInv` |
| `plan_safety` | 2 hypotheses, 2 writers, 1 mover, 2 deliveries, every fault | versions, wholeness, one piece, moves, `PlanInv` |
| `plan_promise` | 3 hypotheses, 2 writers, 1 mover, exceptions and lost enqueues | Station 2 implements `PlanPromise`; generation ends |
| `export` | 1 request, 1 removal, 1 change, 2 tasks, 2 deliveries, every fault | no event twice, the recorded calendar whole, removal forgets all, what is dirty is pushed or reported, no change lost but to an overtaken push, `CalendarInv` |
| `review` | 2 reviews of a hypothesis, 1 further version, 2 deliveries, every fault | one open review, an answer stays, `revise` appends one version that quotes its review, a queued review ends, `ReviewInv` |
| `intake` | 2 imports, 2 complete calls, 1 pull, 1 answer, 2 builds at a time, every fault | the Profile is current once all is quiet; a parsed import is lost only by parsing it again; `IntakeInv` |
| `quarter` | 8 templates of 2 weeks, 13 uploads, 2 quotas, 2 answers, 2 deliveries | distance, week and window of every task; the quota; diff, classification and metrics |
| `quarter_window` | the same, 1 answer, 1 delivery | **violated**: `InsideItsWindow` |
| `accounts` | 3 requests, 2 calls, 2 Google accounts, a clock of 0, 1, 2, 2 grants | the token cache, disconnecting, the budget, `AccountsInv` with one user for an account |
| `stores` | 3 calls of each of 6 parts, 2 values of everything | both stores hold the same lawful rows (`StoresInv`) and answer alike; nothing is hidden from a client; commitments are kept |
| `catalogue` | 2 calls of the catalogue | **violated**: `ShippedStayShipped` |

Why the bounds are enough: two runs, requests or writers are the smallest race,
and no action relates three of them; two deliveries are the first repetition, and a
third meets nothing the second does not; two dimensions, one of them optional,
tell a Report that exists from one that does not; two tasks, one of them a rest day, let a
push stop before, between and after the rows it sends, and `Touched` need only hold one task because rows are
pushed one by one. In `direction_progress` only crashes are
injected (liveness checking is the expensive part): the handler's error path is still taken,
by an empty catalogue and by the refused transition of a second delivery. In `review` one
request opens and one answers at a time, since nothing in the code orders two. In
`intake` a job is delivered once: with a second delivery `LostOnlyByParsingAgain` has its excuse, and the
state space is three times as large. The templates of `quarter` are one for each way a task can be placed,
cut, left over or all-day, and the uploads put a commitment before, inside, across
and after a window. `accounts` has room for a login, a connection and a
disconnection around two refreshes, with a session and a token that expire in between; its requests and
calls are symmetric. Three calls of `stores` are a row written, written again and changed, and two values tell
"the same" from "another"; what a repository method does depends on no more. Deadlock is checked only where the
instance does not end: the others stop when every call has been made.

### What the violations say

* **A task outside its window.** `_first_fit` compares with the end of the window only after it had to
  skip a block. If the next block begins late enough, a task longer than the window is placed at
  its start and ends outside. `PlacedWell` says that this is the only way: it happens only at the start of
  a window that could never hold the task, and its distance from everything else is kept.
* **A shipped shape taken over.** `AuthorRoleModel` upserts by `code`. A code that is taken changes the row's
  author, and the shape is listed for the writer alone.

### Known departures

Places where a document says more than the code does, which the runs above therefore state with a condition:

* **Two runs in flight.** `StartDirectionRun` promises "Only one may be in flight" (`direction.py:109`);
  it checks and inserts in two transactions. `OneInFlight` is checked for one request at a time. What the docstring
  fears, verdicts citing Reports of another run, cannot happen all the same: `EvidenceIsSourced` holds
  with two runs in flight, since both tables are replaced by run.
* **A run that never ends.** A job that reaches `job_timeout` leaves its run
  `analyzing` or `recommending`; nothing ever changes it, and it blocks every later start. `QueuedRunEnds` is checked
  with crashes, not with timeouts. A review is left `pending` in the same way.
* **A started plan back to draft.** `GeneratePlan` checks only that the plan exists.
  After a crash between its last write and ARQ's acknowledgement it
  runs again, replaces the tree, and its baseline with it, and sets `draft` over `active`. `KeepsPromise` is checked
  without repeated deliveries.
* **A hypothesis without a plan.** `revise` appends the next version and nothing creates its plan (`models.py:319`
  says the row exists from the moment the hypothesis does).
* **A tick the calendar never sees.** A push lists the rows, then works through them with
  one request to Google each, and finally writes `synced_at` over whatever is there. A task
  changed in between is marked synced with its old status. `LostOnlyWhenOvertaken` says
  that this race is the only way: no failure, timeout or redelivery loses a change.
* **An answered review rewritten.** A second delivery of `reconcile.run` completes, or fails, a review the user has
  answered; `NextVersionQuotesItsReview` asks for the quoted comparison to be the shown one only with one delivery.
* **A parsed import failed.** A second parse meets its own Document and marks the import failed.
* **A token after a disconnect.** A refresh that had read the connection before writes to the cache after it was cleared.
* **Verdicts of a retired shape.** `GetDirectionRun` looks shapes up among the active ones: the verdict of a shape that was
  retired since shows no code and comes first, and two such come in no order. `NothingIsHidden` asks for one order only when
  every shape is listed.
* **The stores.** The one in memory knows no unique or foreign key, and its `replace_tree` that raises on a task without a milestone leaves
  the part already written; over PostgreSQL the call fails as a whole. `SameAnswers` compares until PostgreSQL refuses a call.

### Fairness

`FairSpec` adds weak fairness of each handler's steps and of the queue's steps for each
job, which is what a running worker does (ARQ polls, and asyncio resumes every
coroutine), and, in `PlanLifecycle` and `Review`, of a request that has begun. No fault is fair, and nothing makes a user act.
`Intake`, `Scheduling`, `Accounts` and `Stores` state safety only. Liveness is
claimed of jobs that were queued: a request that dies before its enqueue leaves a
row nothing works on, and the code has no sweep for it.

## The proofs

The theorems hold for every value of the constants: any number of runs, plans, tasks,
imports, reviews, requests, readers and deliveries, any set of dimensions and codes,
every lifetime and limit, and any set of faults.

| Module | Theorem | States | Assumes, beyond the types of the constants |
|---|---|---|---|
| `DirectionRunProofs` | `DirectionInvariant`, `EvidenceSourced`, `ReadyComplete`, `ReadyViewComplete`, `StatusMovesAlongTransitions`, `EvidenceWrittenOnce` | `DirectionInv` and the properties of the evidence | some dimension is required of everybody |
| | `PromiseKept` | `KeepsPromise` | |
| | `OneRunInFlight` | `OneInFlight` | start requests one at a time |
| `PlanLifecycleProofs` | `PlanInvariant`, `VersionsChain`, `ProposedWhole`, `DoneOfOnePiece` | `PlanInv`, versions and wholeness | |
| | `MovesAllowed` | `MovesAsAllowed` | status requests one at a time |
| | `PromiseKept` | `KeepsPromise` | the same, and no `"crash"` |
| `CalendarExportProofs` | `CalendarInvariant`, `ChangesArrive` | `CalendarInv`, `LostOnlyWhenOvertaken` | |
| | `TheCalendarIsWhole`, `RemovalForgets`, `NoDuplicates` | `RecordedCalendarIsWhole`, `RemovedIsForgotten`, `OneEventEach` | `Patient` |
| `ReviewProofs` | `ReviewInvariant` | `ReviewInv` | |
| | `OneReviewOpen` | `OneOpenReview` | `OneOpener`: opening requests one at a time |
| | `NextVersionQuotes`, `AnswersStand` | `NextVersionQuotesItsReview`, `AnswerStands` | `OneDecider`: answering requests one at a time |
| `IntakeProofs` | `IntakeInvariant`, `TheProfileIsCurrent`, `LostByParsingAgain` | `IntakeInv`, `ProfileIsCurrent`, `LostOnlyByParsingAgain` | no area is called `none` or `skipped` |
| `QuarterProofs` | `PlacingCorrect`, `NothingLost`, `QuotaKept` | `PlacedWell`, `NothingIsLost`, `QuotaInv` | `InputsAssumption`: the schemas |
| | `DiffFaithful`, `MetricsAreRight` | `DiffIsFaithful`, `MetricsAddUp` | the same |
| | `RetreatsAreNamed` | `AvoidanceIsRetreat` of a plan of fewer than 10,000 rows | the same |
| `AccountsProofs` | `AccountsInvariant`, `CachedTokensAreGood`, `DisconnectsAreForgotten`, `LoginsAgree`, `BudgetsHold` | `AccountsInv`, the token cache, `OneUserEach`, the budget | `LifeAssumption`: finitely many requests, and `Lag <= Margin` |
| `StoresProofs` | `StoresInvariant`, `CommitmentsKept`, `AnswersAlike`, `NothingHidden` | `StoresInv`, `HypothesesAreKept`, `SameAnswers`, `NothingIsHidden` | two words and the numbers 0 and 1 exist; ids do not run out (`MaxId`); NULL is no row |

What is assumed of a user's requests is assumed because the code does not provide it: it checks and
writes in two transactions, and `Known departures` says what happens otherwise. Where a theorem assumes nothing
of the kind, its invariant carries the assumption itself, as a premise of the conjunct that needs it, so the
rest is proved for requests that race. `Lag <= Margin` says that the sixty seconds a cached token is given up early
(`google_access_token.py`) cover the time from Google's answer to the write to the cache; without it
`CachedTokenIsGood` is false.

The modules about jobs begin with what a step of the queue keeps, and what it leaves alone (`QueueActionTypeOK`,
`QueueActionFrame`).

* `DirectionRunProofs`: `DirectionInv` is inductive. The three properties of the evidence are
  not inductive alone: that a ready run is complete needs to know what the handler has written
  when it stands at `finish` (`StepFitsRow`), and what a status still says
  once a crash has thrown that position away (`StatusFitsRows`): a second delivery is refused
  unless the run is `pending`, and a pending run has no Reports.
  `ReadyViewIsComplete` needs that a view which read `ready` is of a run that stays as it is (`ViewFitsRun`). From the two
  follows that every step is one of `RunPromise` or stutters (`PromiseKept`): `Finish` concludes, `Fail` gives up,
  `ReadVerdicts` tells, and all other writes are of a run nobody is shown.
  `OneInFlight` says only that two runs are not both in flight; what a step keeps is that
  every run but the latest is over, and the latest too once the request has passed its check (`LatestAlone`).
* `PlanLifecycleProofs`: `PlanInv` is inductive. `VersionsAreTheChain` rests on
  `WritersFit` (a version read earlier was the number of rows then) and on the unique index;
  `ProposedIsWhole` on `HandlerFits` (a handler past its first write has written the tree)
  and on `StoredStays` (neither tree nor baseline is ever taken away). `FirstDelivery`
  says that a plan is the Engine's alone until its first delivery ends; it is the
  part that needs one status request at a time (`OneMover`), as two that race can take `archived`
  back to `active`. With it, and no crash, every step is one of `PlanPromise` or
  stutters (`PromiseKept`); `NeverRepeated` is where the absence of a crash is used.
* `CalendarExportProofs`: `ExportInv`, which is `CalendarInv` with the two properties that need it and it needs, is
  inductive. `LostOnlyWhenOvertaken` looks at slots and events, but a push works
  from copies: `HoldsCurrent` says that a copy, and the event just written from it, is current unless its
  task was overtaken, for every user. The rest is about a patient one. That no task has two
  events needs to know, of a new calendar, which rows still have no event there (`FreshCalendar`), and of a known one
  that every row names its event (`SlotsAreNamed`, `RowsAreNamed`), or else an update that finds nothing would
  create a second. Requests, pushes and removals exclude each other (`Turns`), and what a removal has done so far is
  `Removes`. `RecordedCalendarIsWhole` leaves out a full push that was delivered twice, and so does the part of the
  invariant under it (`Unbroken`): the push of a new calendar is alone until it records it (`Alone`), and what it has
  behind it is there (`WritesWhole`).
* `ReviewProofs`: `ReviewInv` is inductive. `HandlerFits` says that until its first delivery ends nothing has been
  stored for a review, so an answer, which needs a finished one, cannot be undone by the handler; a second delivery can
  complete a review again, but never touches `outcome`. `DeciderIsAlone` says that
  between the two transactions of an answer `revise` the version is missing and nobody else will append it; with
  `DecidersFit` the number it appends under was the next one when it asked, and the unique index refuses it otherwise.
* `IntakeProofs`: `IntakeInv` is inductive. `ProfileIsCurrent` is about the quiet state at the end; the invariant
  says at every moment who will see to it: whatever was parsed and is asked for by nobody is known to a build that runs, or
  already in the Profile, unless a stale build has overwritten it (`ImportsAreRead`, `AnswerIsRead`). `RowsFit` says who
  parsed a parsed import, which is what `LostOnlyByParsingAgain` needs: the only job that can fail it is another one, or a second delivery.
* `AccountsProofs`: `AccountsInv` is inductive. `CallFits` carries the age of a token across the awaits of a refresh, from which its
  entry in the cache ends before it expires (`CacheFits`). `CounterFits` ties what was let through to the counter, and
  the counter to its life: a counter that has counted outlives its window, so it cannot restart at zero inside it; that no more
  requests are counted than were made bounds it. A counter is a quotient of the clock, so the module
  first proves what `\div` does (`Quotient`, `WindowsInOrder`). `OneUserEach` rests on `UsersFit`, the unique index, and on
  what a login carries from one transaction to the next (`RequestFits`).
* `StoresProofs`: `StoresInv` is inductive. A call is one step of two programs: `Both` makes it on both stores, and a lemma for
  each kind of method (`InsertCall`, `UpdateCall`, `UpsertCall`, `ReplaceCall`) says that the transaction either fails or writes
  the rows the other store writes; `Call` turns that into the invariant. What PostgreSQL deletes by cascade the memory store drops by
  itself, and that is the same only as long as a tree is one plan's (`TreesHold`) and ids are unique (`Lawful`): `SweptTree`
  says what a cascade takes, `TreeCleared` that it is the plan's tree and no more, `TreeDrawn` and `TreeCopied` that both then write
  the same rows. `upsert` agrees because keys are unique (`KeyedCall`), `append` because versions have no gap
  (`Numbered`, `NextVersion`), `create` because ids grow (`Older`), and the ticks of a check-in because the last of a task stays
  (`TicksCall`). `CommitmentsKept` is the RESTRICT of `fit_verdicts`: a lawful database has the verdict of every hypothesis, and no
  method writes to the hypotheses but `append`. Given the same rows, `AnswersAlike` compares the
  queries one by one; only the join of tasks and slots is written in two ways (`JoinIs`).
  For `NothingHidden` the views are followed from the rows to the answer. A query with an ORDER BY returns every row once, each
  at the place that says how many come before it (`RankedLists`, for any order), so what is filtered from it (`KeptAre`) or
  sorted again (`VerdictsSorted`) is still whole; that a list is in one order only is `OneOrder`. A version's place is its number as
  versions have no gap (`VersionsCount`), a goal is found under its parent as the tree hangs together (`GoalsAreDrawn`), and the
  summary counts the schedule as every task has one slot (`TasksAreJoined`, `TasksAreShown`).
* `QuarterProofs`: the functions of `engine/domain` are loops, sums and sorted passes, and what they compute for every
  input calls for induction. It is done by hand: a set of natural numbers has a least element (`LeastNatural`, from
  `NatLessThanWellFounded`), so a claim that fails has a least counterexample; sums are treated alike, over the subsets
  of a finite set (`EverySubset`).
  - *Placing.* `PlacedWell` is inductive. `_first_fit` stops at the first free instant, which exists since after the last block all is
    free (`FirstFreeIsFree`); it is inside the window, or at the start of one that is too short (`FirstFitPlaces`).
    `JobFits` and `RowsFit` say which of the rows, the baseline and the job's own tasks belong to the template at hand.
  - *Accounts.* `NothingIsLost` holds of the weeks that are done; `Accounted` says how far the present
    one has come, and that a week that has not begun has no task yet (`WeeksInOrder`).
  - *Quota.* A sum does not depend on the order (`SumsAnyOrder`), so the pass that drops one task after another
    drops a set that can be described: `CutIsExact` says of any such pass that it stops inside the limit, that putting the last
    one back exceeds it, and that it took them in order. `QuotaOfWeek` is `_apply_quota`, and `WeeksAreCut` carries
    it over the weeks.
  - *Review.* A diff is decided key by key (`EntryOfKey`), and a key is that of one task. `RetreatsAreNamed` needs that the statuses
    are those of the rows (`RowsAreTicked`), so that the counts add up, and that a share below one half is still below it when
    rounded to four places (`RoundedBelowHalf`). That is so for fewer than 10,000 rows; the schemas allow up to 104 weeks
    of 16 daily tasks, 11,648 rows, where 5,000 of 10,001 done would round to one half. Beyond the bound nothing is claimed.
  - *Metrics.* Every event of the window is in one class, so the classes sum to it (`SumOfClasses`); rounded shares are
    off by half a unit each (`SharesAddUp`). The loop over the weeks holds, at each week, the number of places a run that ends
    there can begin at, which is its length (`RunsCount`, `LongestStreak`).

Only model-checked:

* liveness under fairness, which the prover does not reach: `QueuedRunEnds`, `GenerationEnds`, `PushedOrReported`, `QueuedReviewEnds`;
* the two violations.

## Not modelled

Listed with reasons in `PROJECT.json`. In short:

* providers of language models and `complete_validated` itself: each caller is given any answer that passes its
  rules, the fallback, or an exception; only `Scheduling` has the loop;
* storage, parsers, configuration, logging, HTTP routes and the containers: I/O and wiring without a state of
  their own. A module has the fault such a call may raise;
* time zones, texts, the narrative of a review, the content of Reports beyond what they cite;
* a database call that commits and still raises in the caller (a call commits or raises); PostgreSQL
  and Redis losing what they acknowledged;
* two users at once, where every query is scoped to one: only `Accounts` and `Stores` have several.

## Plan

1. A promise of Station 3 (a review is open, computed, answered once) with its refinement. Its parts are theorems
   already; as one specification it holds of single deliveries, and calls for a run of its own, as `plan_promise` is.
