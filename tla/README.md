# A TLA+ model of task_scheduler_mcp

task_scheduler_mcp lets an MCP client schedule work: `task.create.v1` inserts a
job, background processes run it (once, on a cron schedule, or after another
job) and its result can be read back. This directory holds TLA+ modules of the
parts in which several processes, transactions and external services meet, the
TLC configurations that check them on small instances, and TLAPS proofs of the
main theorems for every value of the constants. `PROJECT.json` maps every
definition to the source lines it stands for.

Paths below are relative to `src/`.

## 1. The system

### Parts, state and operations

| Part | Source | State it keeps | Operations |
|---|---|---|---|
| HTTP edge | `app/entrypoints/mcp_http.py`, `app/overload/health.py` | in-flight counter, cached queue depth (per process) | shed, authenticate, rate-limit, take and give back a slot |
| Tools | `app/mcp/server.py`, `app/mcp/handlers`, `app/ratelimit`, `app/quotas` | none of its own; counts rows of `jobs` | create (backpressure, rate, three caps, preflight), cancel, status, list |
| Views | `app/mcp/status_mapping.py`, `app/mcp/handlers`, `app/mcp/resources` | none | status of a job, lists by page and by status, resources |
| Job domain | `app/domain/jobs.py`, `chain_validation.py` | `jobs` | `create_job`, `cancel_job`, `settle_job`, `settle_check` |
| Run materializer | `app/domain/run_materializer.py` | `job_runs` | first, recurring and triggered run; forbid-concurrency; advisory locks |
| Watcher | `app/workers/watcher.py` | – | PENDING → QUEUED, then send to SQS |
| SQS client | `app/queue/sqs.py` | the queue (external) | send, receive, delete, change visibility |
| Executor | `app/workers/executor.py` | `job_runs.status`, `heartbeat_at` | claim, heartbeat, execute, write the outcome, delete the message |
| Reconciler | `app/workers/reconciler.py` | – | Sweep A (dead-lettered RETRYING), B (stuck QUEUED), C (orphaned RUNNING) |
| Continuation consumer | `app/workers/recurring_watcher.py` | `run_events.processed_by` | next tick, triggered runs, settlement |
| email_send | `app/actions/email_send.py`, `send_dedup.py` | `send_intents` | write-ahead intent, POST, mark sent |
| Connections | `app/connections/store.py`, `app/web/connections.py`, `app/actions/_oauth.py` | `oauth_connections`, two cookies | connect, callback, disconnect, check, refresh |
| LLM actions | `app/actions/llm_summarize.py`, `llm_polish.py`, `app/llm`, `app/chain/upstream_reader.py` | `llm_token_budgets` | resolve the input, check the budget, call, record |

The processes share nothing but Postgres (READ COMMITTED) and one SQS queue. A
row of `job_runs` is written by the watcher, a worker, the reconciler and
`cancel_job`; a row of `jobs` by the tools, a worker (`settle_job`), the consumer
(`settle_check`) and `cancel_job`. A terminal `run_events` row is the message from
the executor (or a sweep, or a cancel) to the consumer.

### What is hard about it

* A process may die, and SQS may lose or repeat a call, between any two
  transactions: the watcher and Sweep C commit QUEUED before they send, a worker
  dies between claim and outcome, the consumer between reading and committing.
* A claim is a lock only as long as the heartbeat lease is kept: Sweep C takes
  RUNNING rows away, and the worker's outcome is written by `run_id` alone.
* Decisions are taken on values read in an earlier statement or transaction:
  cancel's list of runs, the consumer's job state and downstream list,
  `validate_chain`'s trigger state, the containment counts, the connection row.
* A view is put together from several statements, or from several requests, while
  the rows change: a status from a job and its newest run, a list from its pages.
* A request to a provider outlives the handler that made it.
* Settlement and recurrence happen only through events: a lost or doubly handled
  one wedges a schedule for ever or repeats it.

`PROJECT.json` lists these as hazards at their lines, each with the properties
that would catch it.

### What makes each part correct

* *Execution plane*: one executor at a time; one terminal event per run; a
  terminal status stays; a non-idempotent action is not started again after its
  worker died; nothing runs early or after a cancel; every run ends.
* *Continuation*: one executing run per job; a tick or trigger is acted on once;
  recurrence does not wedge; a job is completed when, and only when, nothing more
  can come for it.
* *email_send*: success means sent; copies only after an attempt that ended in doubt.
* *Admission*: slots do not leak; one job per idempotency key; the caps hold up to
  the number of requests let in at once.
* *Connections*: no expired token is used; a dropped connection stays dropped.
* *LLM actions*: the ledger adds up; budgets are exceeded by less than one call of
  every worker; no run's output reaches another user.
* *Views*: a status that is shown was true; a list leaves nothing out; filter and
  label agree.

## 2. Modules

| Module | Stands for | Used by |
|---|---|---|
| `RunContract` | what readers of the database may rely on for one run and its job | refined by `RunLifecycle` |
| `RunLifecycle` | watcher, SQS, workers, reconciler and cancel around `job_runs` | `MCRunLifecycle`, `RunLifecycleProofs` |
| `Continuation` | consumer, materializer, settlement, create and cancel around `jobs` | `MCContinuation`, `JobViews`, `ContinuationProofs`, `PipelineProofs` |
| `JobViews` | `task.status` and `task.list` while `Continuation` changes the rows | `MCJobViews`, `JobViewsProofs` |
| `SendDedup` | the email_send handler, its intent row and the mail provider | `MCSendDedup`, `SendDedupProofs` |
| `Admission` | a `task.create.v1` request from the edge to the insert | `MCAdmission`, `AdmissionProofs` |
| `Connections` | /connections pages, connection store, token use by an execution | `MCConnections`, `ConnectionsProofs` |
| `LlmActions` | llm_summarize and llm_polish, their input, the token budgets and the provider | `MCLlmActions`, `LlmActionsProofs` |
| `...Proofs` | the theorems about the module and their proofs (`PipelineProofs`: about whole pipelines of `Continuation`) | |

Definitions named *Faulty variant of X* are X with a plausible programming error
in it. No specification uses them; replacing X by its variant makes a property
fail, which shows that the property depends on that line of code.

### RunLifecycle and RunContract

One action is one committed transaction or one SQS call. `status`, `lease`
(`heartbeat_at`, in heartbeat intervals), `stale` (`updated_at` older than a
sweep's grace), `when` (`scheduled_at` beyond the lookahead, inside it, or past)
and `announced` (terminal `run_events`) are the row; `msgRun`, `msgState`,
`msgCount` the queue, with delay, visibility, receive count and redrive;
`unsent` what a process has committed as QUEUED and not sent yet; `pc`, `wRun`,
`wMsg`, `wCount` a worker's position and receipt. `interrupted` and `spared` are
history. `WatcherClaim`/`WatcherPublish`/`SendLost` split `claim_and_publish` at
its commit; `ClaimWon`/`ClaimLost` are `_claim`; `Finish` is the outcome
`_dispatch` derives; `WriteTerminal`, `WriteRetrying`, `DeleteMessage` follow;
`WorkerDies` may happen at each of these points. `CancelRead` and `CancelCommit`
are the SELECT and the UPDATE of `cancel_job`. Cancellation, death and loss are
possible everywhere.

`RunContract` keeps only `status` and `jobState` and the edges a reader may see.
The refinement mapping is the identity on the two variables.

### Continuation

Run `<<j, k>>` is the run of job `j` for tick `k` or caused by upstream run `k`,
so the two unique indexes are one key. A consumer's transaction is four steps
(`ConsumerLoads`, `ConsumerLists`, `ConsumerChecks`, `ConsumerCommits`), each
reading what is committed by then, under the advisory and row locks of the code;
`ConsumerAborts` is death, a lost connection or a deadlock victim. `SettleCheck`
is the recursive cascade, written as the greatest set it settles. `RunStarts`,
`RunEnds`, `RunRetries`, `RunRecovered` and `RunSwept` are the moves
`RunContract` allows. The code handles up to 50 events in one transaction, the
model one. `AncestorDepth` counts the rows of the recursive query of
`validate_chain`, one row a level, with its bound of `MaxDepth + 2`. The properties
speak of `Upstream(j)`, the least set of jobs that holds the trigger of `j` and of
its own members, which is defined without the walk. `ChainAssumption` says of the
jobs that exist at the start what the code enforces when they are created: none is
upstream of itself (V4), none is deeper than `MaxDepth` (V5).

### JobViews

Extends `Continuation`: the writers are its actions, and two variables hold what
the queries sort by. `created` is the order of `created_at`, which Postgres fixes
when the create's transaction begins, so jobs may commit in another order.
`recency` is the order of `coalesce(start_at, scheduled_at)` of a job's runs: a
cron tick comes last, a run that starts moves to the end, and a triggered run
takes the time of its cause, which may lie before the start of the job's previous
run. `StatusReadsJob` and `StatusReadsRuns` are the two SELECTs of
`get_job_with_runs`; `ListPage` is one page of `list_jobs`, asked for by a client
that goes on until a page is not full. A page is the set of committed jobs whose
`Rank`, the place when the newest comes first, is within OFFSET and LIMIT. `seen` is
history: the statuses the job had while the request was open. `Continuation` has one
status for PENDING and QUEUED; the tables of `status_mapping.py` have both, and
`StoredAs` says that a row may hold either. Two creates that begin in the same microsecond are not
modelled. `total` of a list is counted by a statement before the page and is used
by no property: a client that stops at it can miss a job.

### SendDedup

The handler's position is a function of the run, since one worker at a time
executes it (theorem `Exclusive`). A posted request stays on the `wire` until the
provider takes or refuses it, which may be after the handler timed out, was
cancelled by `wait_for`, or died. A 4xx answer means that the provider did not
send (`HearRefused`, an assumption about the provider, as is that a 2xx means that
it did); a 5xx means nothing (`HearServerError`): the code retries it, and it may
come before, after or without the sending. `inDoubt` collects the attempts that
ended without a conclusive answer: timed out, cut off, not recorded, or a 5xx.

### Admission

Each check reads in a session of its own, in the order of the code. `Readings`
is the 30-second cache with its fallback to 0. `Disconnect` is a cancelled
request (the `finally` of the limiter gives the slot back) and `Restart` a server
that stops.

### Connections

One user with one browser. A token is its grant, whether it came with a refresh
token, and how far it is from expiry. `WorkerChecks` is
`check_oauth_for_execute`; `WorkerLoads` and `WorkerRefreshes` are
`get_fresh_token`, which the check and `get_token` both call; a token ages in the
row and in an execution's hands alike (`TimePasses`). The upsert of a
refreshed token leaves no trace, because both callers close its session without
a commit. All flows share one state cookie, as in the code.

### LlmActions

A worker's position is a program point of `execute()`, the same for both handlers.
A text or result is the set of users whose data it holds. `check_token_budget` is
two statements, each reading what is committed by then; the day of the check
(`wDay`) and the day of the record (`day`) may differ. The provider charges what it
likes up to `MaxCost` (input and output are capped), also for a call whose answer
is lost. `Total`, the SQL `sum`, is written as the number of tokens, each a pair of
a row and a number. `MonthStart` is any monotone map of a day to the first of its
month. `billed` and `unrecorded` are history. A run is ready again after a
retryable failure or the death of its worker, since both actions are idempotent.

## 3. What TLC checks

Deadlock is not checked: all systems may come to rest with nothing left to do
(the bounds also stop them); that work does not stop too soon is what the
liveness properties say.

| Run | Instance | Shows |
|---|---|---|
| `run_failsafe` | 1 non-idempotent one-shot run, 2 workers, 2 messages, 1 death | `TypeOK`, `OneTerminalEvent`, `OnlyOrphansSwept`, `InterruptedNotRerun`, `CancelStopsDispatch`, the refinement `ImplementsContract`, and `EventuallyTerminal` under fairness |
| `run_recovery` | an idempotent run and one with an unknown action in one batch, 2 workers, 2 messages, 1 death | `ExclusiveExecution`, `NoEarlyDispatch`, `TerminalFinal` |
| `cont_slow` | recurring root and its child, 3 ticks, 1 abort | `RecurrenceAlive`, `NotStranded`, `TriggerAccounted` |
| `cont_twin` | the same two jobs, and a third too deep, created at run time, 2 consumers, 3 ticks of which the last is inserted and not run, 1 abort | `OneExecutingRun`, `CreatedOnce`, `DepthBounded` |
| `cont_live` | chain of three from a one-shot job, 1 abort | `SettledExhausted`, `AllSettle` under fairness |
| `send_effectively` | 3 dispatches of one run | `TypeOK`, `SuccessMeansSent`, `DuplicatesOwedToDoubt`, `SentBlocksPost`, `CrashNotResent` |
| `adm_caps` | 5 requests, one of them a retry, 1 server with 2 slots, caps 1 and 2 | `TypeOK`, `OvershootBounded`, `SlotsExact`, `OneJobPerKey` |
| `conn_store` | GitHub and Google, 3 redirects, 2 grants, 1 execution | `TypeOK`, `NoExpiredUse`, `DroppedStaysDropped` |
| `llm_budget` | 5 runs of 2 users, 2 workers, 4 executions, 3 days over the end of a month | `TypeOK`, `DailyOvershoot`, `CeilingOvershoot`, `LedgerExact`, `OwnDataOnly` |
| `views` | recurring root, its child and a third job created at run time, 2 ticks, pages of 1 job | `ViewTypeOK`, `StatusWasTrue`, `PagesComplete`, `FoundUnderItsStatus` |

Two runs state what a document or a comment of the repository says, and TLC
finds a counterexample in what the code does:

| Run | Property | Counterexample |
|---|---|---|
| `run_cancelrace` | `RunningLeftUntouched` (ADR-022) | a worker claims the run between `cancel_job`'s SELECT and its UPDATE by `run_id`, which overwrites RUNNING with CANCELLED |
| `conn_refresh` | `RefreshIsStored` (`store.py:138`) | the refreshed token is used while the row still holds the expired one: the upsert is rolled back |

### Further disagreements met while modelling

Not runs of their own; each is a behaviour of the models above.

* `Continuation`: a cancel that commits between the consumer's reads and its commit
  does not stop the downstream run, although `jobs.py:606` says the consumer never
  re-creates one. `CreatedOnce`, `SettledExhausted` and `TriggerAccounted` therefore
  exempt pipelines with a cancelled job, and `OneExecutingRun` the cancelled job.
* `Continuation`: the trigger job may be settled, cascade included, between
  `validate_chain`'s SELECT and the insert; the new job then stays active for ever,
  although `jobs.py:227` says "no TOCTOU window". `NotStranded` is checked of jobs
  that exist at the start, and fails if the child is created at run time.
* `Continuation`: with two consumers, a second handling of the root's event may
  settle a chain of three while the middle job's own event is unprocessed; the
  last job's run is then never created. `TriggerAccounted` is checked with one
  consumer, which is what the deployment runs outside a rolling update, and proved
  from that hypothesis.
* `Continuation`: with two consumers, `SettledExhausted` fails for a chain of three
  below a one-shot job. One consumer lists the last job for the middle job's event;
  the other handles the root's event a second time and settles the middle and the
  last job; the first then inserts a run of the completed last job, since
  `materialize_downstream` (`run_materializer.py:251`) looks at the runs of the job
  and not at its state. The property is checked (`cont_live`) and proved with one
  consumer.
* `Continuation`: ADR-067 remarks that there is no create-time limit on the depth of
  a chain; the code (`chain_validation.py:166`) and ADR-020 have one, which
  `DepthBounded` is about.
* `RunLifecycle`: the heartbeat makes its blocking SQS call before it writes
  `heartbeat_at`. If that call may take longer than the grace, `MaxMissed >= Grace`,
  Sweep C takes the run of a live worker. The lease properties assume the
  calibration of `settings.py:60` (`LeaseCalibrated`).
* `SendDedup`: ADR-070 names one duplicate window, a crash between the send and
  the `sent` write. After a crash nothing is re-sent (`CrashNotResent`); it is a
  lost answer, a timeout or a 5xx that leads to a second copy
  (`DuplicatesOwedToDoubt` states how many).
* `LlmActions`: params are validated (`executor.py:371`) before `from_run_id` is
  wired, and llm_summarize and llm_polish refuse params that name no input
  (`llm_summarize.py:113`). A run triggered on every tick, which cannot name its
  upstream run beforehand, fails for good (`Claim` with `Params = "none"`), although
  ADR-064:101 says `github_digest → llm_summarize → slack_post` works end-to-end.
* `LlmActions`: an answer without `usage`, a failed record, a timeout and a death
  after the answer each leave charged tokens out of the ledger (`unrecorded`); the
  budgets bound what is recorded, not what is charged.
* `JobViews`: the newest run by `coalesce(start_at, scheduled_at)` need not be the
  last inserted: with a lagging consumer a triggered run's `scheduled_at` precedes
  the start of the previous run, and a job with a pending run is shown as completed
  (`jobs.py:656` says "the most recent run"). A job cancelled after its last run
  succeeded is shown, and listed, as completed.
* `tasks://recent-results` filters on `finish_at`, which `cancel_job` does not set
  (`jobs.py:588`): it never shows the cancelled runs ADR-037 promises.
* `Admission`: the caps of ADR-055 are exceeded by concurrent creates, by less than
  the number of slots (`OvershootBounded`); a concurrent create with the same key is
  answered INTERNAL instead of the existing job; the edge's rate limit applies to
  the operator, whom ADR-055 exempts.

### Bounds

Each is a constant named in its module.

* Two workers and two messages are the least with which a run can be delivered
  twice at once, the situation `_claim` and the lease exist for; a third of either
  adds no new pair. `MaxCrashes = 1` lets a worker die at every point; the second
  death meets the same sweeps. `MaxReceive` of 1 or 2 lets redelivery and the dead
  letter happen; production has more redeliveries of the same kind.
* `Grace = 2`, `MaxMissed = 1`: a live lease can be stale without being expired.
  Production has 6 intervals; only the order of the two numbers matters, and the
  proofs hold for all values.
* A tick of a recurring job is continued only below `MaxTicks`; with 3, a
  downstream job can be busy with the first trigger when the second comes, which is
  the slow-consumer drop. With two consumers a third tick lets one of them hold the
  first event of the root while the other handles the second, so that both want to
  insert a run of the child created meanwhile: the case of the advisory lock
  (issue #237). What follows the start of that tick is cut off (`Horizon`). `MaxAborts = 1` rolls a transaction back at every point.
* `MaxAttempts = 3`: an attempt in doubt, its retry, and a dispatch after a confirmed send.
* Five requests against two slots: enough for the caps to be overshot, to show that
  the overshoot stops, and for a retry to meet its first attempt. Counters are per
  process and the database is shared, so one server shows each of them.
* `Daily = 1`, `Ceiling = 2`, `MaxCost = 1`, 2 workers: both limits can be reached,
  passed by concurrent calls, and met again after midnight and in a new month.
* Pages of one job, three jobs: the third appears before, between or behind the pages
  read while a job that was there from the beginning is still unread. It is only
  listed: what follows its start or cancel, or a second tick once it is there, is cut
  off (`SideIdle`). Two ticks give a job two runs, in either order. `MaxDepth = 2` puts the
  boundary between the second and the third job of a chain.
* Two grants: one dropped or replaced, one new. Three redirects: a login and two
  flows that share the state cookie. Executions do not write the store, so one
  is enough.

Symmetry is used over workers, message slots, consumers and like requests, never
in a run with a liveness property.

### Fairness

`RunLifecycle!Fairness`: clocks advance, each loop (`run_watcher`, `run_worker`,
`run_reconciler`) comes round, an open transaction ends and SQS redelivers: weak
fairness, since each loop catches its exceptions and retries. Strong fairness is
assumed of the successful re-send of Sweep B alone, that is, SQS does not refuse
the same run for ever. Nothing is assumed of heartbeats, deaths or cancels.

`Continuation!Fairness`: a consumer that has begun goes on or aborts (aborts are
bounded), every pending event is handled again and again until it is stamped, and
a run that keeps being started ends. The last is what `EventuallyTerminal` shows
of the execution plane.

## 4. What is proved

TLAPS checks the theorems below for every value of the constants that the named
assumptions allow: any number of runs, jobs, workers, messages, attempts, ticks,
any limits and prices. Every safety invariant and action property that a passing run
checks is also a theorem. No property is inductive by itself; each section names what has
to be added and why.

`RunLifecycleProofs`, from `ConstantAssumption`; those marked * also assume
`LeaseCalibrated`:

* `TypeCorrect`: `TypeOK`. Needs `Addressed`: a message that exists is about a run
  and a busy worker has a run and a message.
* `Invariance`*: the inductive invariant `IInv = TypeOK /\ Addressed /\ Core`. None of
  the properties is inductive by itself: that two workers do not hold one run
  depends on a held row being RUNNING under an unexpired lease, or CANCELLED by a
  cancel that overwrote it (`HeldRow`); that a dead worker's run is not started
  again on its row being RUNNING or terminal (`InterruptedRow`); and so on for
  cancelled rows (`CancelledRow`) and for runs a cancel did not meet as RUNNING
  (`UnsparedRow`).
* `Exclusive`*, `EventPerRun`*, `OrphansOnly`*, `Finality`*, `NoRerun`*,
  `NoDispatchAfterCancel`*: the safety properties of the runs, from `IInv`.
* `NotEarly`: `NoEarlyDispatch`, from `DueInv` (only what is due is visible), and
  without any assumption on the lease.
* `Refinement`*: `Spec => ImplementsContract`, one step of `RunLifecycle` at a time.

`SendDedupProofs`, from `SendAssumption`: `SendTypeCorrect`, `SuccessIsSent`,
`DuplicatesAccounted`, `SentIsFinal` and `CrashIsFinal`. The inductive invariant
says what the handler's position implies about the intent row and the provider
(`HandlerKnows`), what the rows imply about each other (`RowsKnow`), that a crashed
run is never claimable (`CrashSettles`), and that at most one request that was or may
be sent is not in doubt (`OneOpen`), from which the bound on duplicates follows by
counting. A 5xx answer for a message already sent is among the steps covered.

`ContinuationProofs`, from `ContinuationAssumption`, for any number of consumers:

* `ContinuationInvariance`: the inductive invariant. What the rows say of one
  another (`RowsInv`: an event tells its run's status, a worker's run is RUNNING, an
  open cancel holds an active job), what an open transaction knows (`TxInv`: a run to
  be inserted is not there and its job is locked and idle, a job to be settled is
  active and locked, the successor of a handled tick is in hand or there),
  `LocksExclusive`, `OneExecutingRun` and `TicksInOrder`.
* `ContinuationTypeCorrect`, `OneRunAtATime`, `NeverBroughtBack` (`CreatedOnce`).
* `RecurrenceNeverWedges` (`RecurrenceAlive`): by `TicksInOrder` the ticks of a
  recurring job follow one another, and a run that has ended has its successor or
  its event; the last run there is then under way or has its event.

`PipelineProofs`, which adds `ChainAssumption`:

* `PipelinesStayShallow` (`DepthBounded`), for any number of consumers: the rows of
  the walk hold one job each until the root, so their number, if below the cut-off,
  is the size of `Upstream` plus one; and a validated job stays as deep as it was.
* `CompletedIsExhausted` (`SettledExhausted`), with one consumer (`SingleConsumer`),
  by `SettleInvariance`: until the commit, what the consumer has listed or inserts
  stays open, and what it settles stays idle, unless a cancel stopped the pipeline.
* `NoTriggerLost` (`TriggerAccounted`), with one consumer, by `AccountInvariance`. The
  heart of it is that a job is never settled before the last event of its trigger is
  handled: outside recurring pipelines there is one tick (`OneTick`), a triggered run
  follows a handled event (`Caused`), so a settled trigger has no other event left.
* `NoneStranded` (`NotStranded`), with one consumer and no job created on the way
  (`NoneCreated`; with one, the property fails, see above), by `StrandInv`: whoever
  ends a job's trigger settles the job as well, or leaves it a run or an event.

The steps of creates, workers, sweeps and cancels enter these three proofs through
one statement of what they may do (`World`), proved once.

`JobViewsProofs`, from the assumptions of `Continuation` and `ViewAssumption`:

* `ReadersOnlyRead`: `ViewSpec => Spec`. A request changes nothing a writer sees, so
  all theorems above hold beside the views.
* `ViewInvariance`: while a status request is open, the job's present status is among
  those it had meanwhile, and so is the one its row gave when it was read, as long as
  there is no run (`StatusUnderWay`); a job that a list has still to show is behind
  the pages read (`ListUnderWay`), since an insert only moves other jobs back.
* `ViewTypeCorrect`, `StatusIsTruthful`, `PagesMissNothing`, `FilterAgrees`.

`AdmissionProofs`, from `AdmissionAssumption`: `AdmissionInvariance`,
`AdmissionTypeCorrect`, `SlotsAreExact`, `KeysAreUnique`, `CapsOvershootBounded`. A
count of active jobs says nothing of the requests that have passed the count and not
inserted yet; `LoadBounded` bounds both together, for each of the three caps: a
request that passes saw fewer than the cap, and with the others that hold a slot
there are fewer than cap + slots.

`ConnectionsProofs`, from `ConnectionsAssumption`: `ConnectionsInvariance`,
`ConnectionsTypeCorrect`, `NeverExpired`, `DropsAreFinal`. The invariant adds where a
grant can be (`GrantInOnePlace`: a row, a callback, or dropped) and what a worker
knows of the token in its hands (`Holds`, `InUse`: it was outside the refresh window
when its use began and has aged by one step at most).

`LlmActionsProofs`, from `LlmAssumption`: `LlmInvariance`, `LlmTypeCorrect`,
`DailyBudgetHolds`, `CeilingHolds`, `EveryTokenAccounted`, `NoUserMixing`. The bounds
follow from `DailyCovered` and `MonthCovered`: what is recorded, plus one call of
every worker that may record without another look at that row, stays below the
limit plus one call of every worker. Workers that checked before midnight, or before
the first of the month, count among them, so that the turn of the day is covered.
`LedgerExact` rests on a worker holding a cost only between answer and record
(`CostWhenAnswered`), `OwnDataOnly` on its text being its user's (`OwnText`).

Only model-checked: the liveness properties `EventuallyTerminal` and `AllSettle`,
which are outside the prover's reach together with fairness. That the greatest set of
`SettleCheck` is what the recursive cascade of the code computes is an argument on
paper: a cascade adds a job when its trigger has been settled, and triggers have no
cycle.

## 5. What is not modelled

* Message texts, HTML, JSON envelopes, logging, redaction: no effect on state.
* KMS, JWT verification, croniter, zoneinfo: library verdicts taken as inputs.
  `Continuation` relies on one fact, that successive ticks are strictly later.
* The other actions (slack_post, github_digest, http_call, r2_upload,
  calendar_digest_ics, echo): one external call and a mapping of its answer, which
  is `Finish` of `RunLifecycle`.
* Ownership in `JobViews`, whose jobs are one user's; argument parsing of the read
  tools; the 24-hour window of `tasks://recent-results`; `tasks://actions` and the
  prompts, which are constant.
* Migrations: they run once, with the system stopped.
* `scripts/`, `bin/` and the infrastructure templates: not part of the program.
* Development modes (trust-only login, no KMS), stdio transport.
* Which argument of a create is invalid: one nondeterministic refusal.

## 6. Plan

Done: the execution plane with its contract, the continuation, the email dedup,
admission, connections, the LLM actions and the views, each with the proofs of its
safety properties.

Next, in this order:

1. Batches of events in one transaction: one event that always raises holds up the
   others.
2. The lock order of consumer and cancel, whose cycles Postgres breaks by aborting
   one side.
3. `SettledExhausted` with two consumers: the hypothesis that is weaker than
   `SingleConsumer` and still enough (no event handled twice at once).
4. An abstract specification of a pipeline (a forest of jobs that are open or over)
   that `Continuation` implements.
