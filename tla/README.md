# TLA+ specification of the job scheduler

This directory models the job scheduler of this repository.  It has two
implementations of one service over the same PostgreSQL tables: a set of Go
processes that share nothing but the database, and a serverless backend in
TypeScript that lives inside the dashboard.  Either must execute every job,
never execute one twice at the same time, retry failures a bounded number of
times, and survive the death of whoever is executing.  The dashboard's console
shows the tables and acts on them from cached copies.

Contents: [the system](#the-system) · [modules](#modules) ·
[state and actions](#state-and-actions) · [abstractions](#abstractions) ·
[runs](#runs) · [what the code does not keep](#what-the-code-does-not-keep) ·
[fairness](#fairness) · [proofs](#proofs) · [not modelled](#not-modelled)

## The system

| part | source | role |
|---|---|---|
| API server | `internal/api`, `cmd/api` | organisations, projects, queues; submits jobs, lists them, retries dead-lettered ones, pauses queues |
| store | `internal/store`, `migrations` | every SQL statement of the Go services |
| worker engine | `internal/worker`, `cmd/worker` | polls queues, claims due jobs under the queue's concurrency limit, executes them in a bounded pool of goroutines, renews leases, drains on SIGTERM |
| reaper | `internal/reaper`, `cmd/reaper` | requeues jobs whose lease has run out, marks silent workers offline |
| retry policy | `pkg/retry` | delay before the next attempt |
| migration runner | `cmd/migrate` | applies `migrations/*.sql` |
| serverless worker | `dashboard/src/server/worker*.ts`, `app/api/cron` | ticks that claim, execute and reap, started by cron, by the console's pulse and after job requests |
| serverless routes | `dashboard/src/server/router.ts` | the API of the console: login, projects, queues, jobs, retries |
| serverless setup | `dashboard/src/server/setup.ts`, `app/api/setup` | creates the schema and the demo rows |
| session | `dashboard/src/lib/api.ts`, `AuthGuard`, login page | the token in `localStorage`, shared by all tabs |
| console | `dashboard/src/components`, `app`, `lib/use-api.ts` | pages, drawers, forms and the command palette over an SWR cache |
| helpers | `pkg/auth`, `pkg/pagination`, `pkg/metrics` | tokens, cursors, counters |

The parts interact only through rows: the API inserts `queued` rows; a worker
turns them `claimed`, then `running`, then `completed`, `queued` again (after a
failure) or `dead_letter`; the reaper turns `claimed` and `running` rows whose
`lease_expires_at` has passed back into `queued`.  What makes this hard is that
no statement after the claim names the worker or the expected status: all of
them say `WHERE id = $1`, so the ownership of a row is a global argument about
leases, heartbeats and process death, not a local check.

The serverless worker does the same work without transactions and without
renewing leases: a tick is a sequence of independently committed statements,
several ticks overlap, and the platform may stop an instance between any two of
them.  The console adds a third kind of concurrency: an operator acts on what
was polled a moment ago, and answers arrive late, out of order, or not at all,
when the form that asked may be closed, reopened or replaced.

## Modules

| module | models |
|---|---|
| `JobStore` | the `jobs` table as a function from jobs to rows; one operator per SQL statement of `JobRepository`, `WorkerStore` and `ReaperStore` |
| `Scheduler` | API operations, worker processes, executor goroutines, reaper and the clock, interleaved over that table; all safety and liveness properties |
| `JobLifecycle` | abstract specification: what may happen to status, attempts and holder of a job; as implemented, which differs from section 4 of `docs/DESIGN.md` in the reaper's move |
| `ServerlessWorker` | ticks, their coalescing, and the job routes of the serverless backend, statement by statement, over the rows of `JobStore` |
| `Setup` | `ensureSchema` and `seedDemo`, overlapping and cut off anywhere |
| `Session` | tabs, `AuthGuard`, the login form, the shared token, late 401s |
| `Access` | `Setup` and `Session` composed by the login route |
| `ConsoleApi` | the tables behind the console's routes, the requests under way, and the SWR cache |
| `Console` | the shell, the pages and the forms of one tab, over `ConsoleApi` |
| `MCScheduler`, `MCServerless`, `MCAccess`, `MCConsole` | small instances for TLC |
| `SchedulerInvariants` | definitions for the proofs about `Scheduler`: inductive invariants and the kinds of steps |
| `SchedulerSteps` | what each statement and action does to types, rows, goroutines and history |
| `SchedulerOwnership` | every step is of one of four kinds, and each kind keeps ownership |
| `SchedulerSafety` | the theorems about the Go services: types, safety, ownership, refinement, admission |
| `ServerlessInvariants` | definitions for the proofs about `ServerlessWorker` |
| `ServerlessSteps` | every action keeps the work that ticks hold, the lists, the executions and `inFlight` |
| `ServerlessSafety` | the theorems about the serverless worker |
| `AccessSafety` | inductive invariants of setup and session, and the theorems |
| `ConsoleInvariants` | inductive invariant of `Console` |
| `ConsoleSafety` | rendering lemmas, one lemma per handler, and the theorems about the console |
| `Counting` | cardinality lemmas for the admission of jobs, shared by the proofs of both workers |

`Scheduler` composes the Go components (they interact at the granularity of single
statements, so they are one state machine) and implements `JobLifecycle` under
the mapping in `Lifecycle == INSTANCE JobLifecycle WITH ...`; the refinement is
the property `FollowsLifecycle`.

Definitions that begin with the comment `Mutant:` are wrong on purpose: each is
a plausible bug of the definition that follows it, and shows that some property
would notice.

## State and actions

### `Scheduler`

| variable | in the code |
|---|---|
| `jobs` | table `jobs`: `status`, `worker_id`, `lease_expires_at`, `next_run_at <= NOW()`, `attempts` |
| `dlq` | table `dead_letter_queue` (a set: `job_id` is UNIQUE) |
| `executions` | table `job_executions` (attempt number and outcome) |
| `paused` | `queues.paused` |
| `registry` | `workers.status` together with the age of `worker_heartbeats.last_seen_at` |
| `proc` | a worker process: `new`, `up`, `stopping` (context cancelled), `released` (after `ReleaseJobs`), `down` |
| `poll` | locals of `pollOnce`/`ClaimJobs`: queues left, queue being claimed, budget read |
| `pending` | the slice `ClaimJobs` returned, not yet dispatched |
| `task` | one executor goroutine per slot of the `sem` channel: the next statement it runs, and its copy of the row |
| `retry` | `RetryDLQJob` requests between their SELECT and their COMMIT |
| `succeeded`, `failures` | history variables: which handlers returned nil, how often one failed |

One action is one statement or one transaction at its commit, with the local
computation around it.  `ClaimJobs` is two actions: `ClaimSnapshot`, the budget
read in the snapshot of the statement that locks the queue row, and
`ClaimCommit`, the UPDATE.  `executeJob` is `Gate`, `SkipExecution`,
`StartRunning`, `HandlerSucceeds`/`HandlerFails`, `Complete`, `RecordCompleted`;
`handleFailure` is `RecordFailed`, then `DeadLetter`, or `MarkFailed` and
`Requeue`.  `shutdown` is `ShutdownRelease` and `ShutdownDeregister`.  `sweep` is
`ReapJobs` and `MarkDeadWorkers`.

Each statement of a worker ends in one of three ways: `ok`, `error` (not
applied), or `lost` (applied, but the caller sees an error).  `error` and `lost`
are possible for the workers in `Lossy`.  After SIGTERM every statement issued
with the engine's context is an `error`; `ReleaseJobs` and `DeregisterWorker`
run with `context.Background()`.  A statement that SIGTERM cuts off after it was
applied is `lost` just before `Terminate`, so runs that study it put a worker in
both `Terminable` and `Lossy`.

The faults are constants, so that every run and theorem states its assumption:
`Crashable` (may be killed), `Terminable` (may get SIGTERM), `Lossy`, and
`Lapsing` (may be alive while a lease of its own runs out: a pause longer than
the lease, or a handler that ignores its context beyond the drain time).

### `ServerlessWorker`

| variable | in the code |
|---|---|
| `jobs`, `dlq`, `executions`, `paused` | the same tables as above |
| `workers` | the rows named `vercel-worker-1`, with or without a heartbeat row |
| `tick` | a call of `runWorkerTick`: the statement it runs next, its worker, the queues left, the budget read, the claimed copies, the job under way with its attempt and execution row |
| `inFlight`, `recent` | `worker-scheduler.ts`: `inFlight`, and `lastRunAt` within `MIN_INTERVAL_MS` |
| `submit`, `retrying` | requests to `POST /queues/{id}/jobs` and `POST /jobs/{id}/retry` between their statements |
| `disturbed`, `cut`, `starts` | history: jobs taken from a tick, jobs left half-way, starts of each job |

One action is one statement.  A tick is `reaper`, `findWorker`, `beat` or
`enroll` and `firstBeat`, `listQueues`, then for each queue `readBudget` and
`claim`, and for each claimed copy `startJob`, `recordStart`, `settleJob`,
`listDead`, `finishJob`; `tickDone` ends it.  A tick starts through `CronTick`,
`runWorkerTickNow` (the pulse) or `scheduleWorkerTick` at the end of a job
request, which alone is coalesced.  `TickAborts` is a statement that throws,
`InstanceStops` the platform, `LeaseRunsOut` a lease whose tick is gone,
`LeaseLapses` one whose tick is merely slow.  `parseThrows` is the payload of a
job in `Unparsable` (a JSON string), which ends the tick before the job is
started; `retryNotFound` is the retry of a job of another organization
(`Foreign`), whose dead letter is deleted before the answer 404.

### `Setup`, `Session`, `Access`

`schema` and `seed` are what the database holds; `setup` is how far each `POST
/api/setup` request has come in the lists `STATEMENTS` and `SEED`, which repeat
those of `setup.ts` with what each statement references.  `token` is
`localStorage`, `tab` the page of each tab with `AuthGuard`'s `ready` and its
effect still to run, `inflight` the tokens carried by requests that are not
answered, `elders` the tabs not loaded anew since the stored token was issued.
Tabs open and close.  Assigning `window.location` drops a tab's state and its
requests; `router.replace` does not.  `Access` adds the login route, with and
without `DEMO_AUTH`.

### `ConsoleApi`, `Console`

`projects`, `queues`, `jobs` and `letters` (`dead_letter_queue`, in the order of
`failed_at`) are the tables; `burying` are the jobs that a worker has set to
`dead_letter` and not listed yet; `cache`, `fetch`, `failed` and
`listing` are SWR's data, fetches under way and errors by key; `req` are the
requests that change something, each `sent`, then served by its route statement
by statement (`Serve`; `half` after the first of two), then answered
(`Receive`), or lost before or after it was served, or cut off half-way (`Lose`).
`page`, `form`, `drawer`, `command` and `asked` are React's state: what is
mounted, what is typed, what is disabled, and the request counters of
`ConsoleProvider`.  `Render` decides after every step what stays mounted:
leaving a page, closing a drawer and the error panel of a failed poll all drop
the state below them, and `live` records whether a request's sender is still
there when the answer comes.

## Abstractions

* Time is what the statements compare with `NOW()`: a row is due or not, a lease
  is absent, live or expired, a heartbeat is fresh or stale.  The heartbeat
  interval is a third of the lease, so a lease of a live worker outside
  `Lapsing` does not run out.  That holds for a stopping worker as well, whose
  heartbeats end at SIGTERM while the drain may last as long as the lease,
  because the shipped handlers return when their context is cancelled; a handler
  that does not is a worker in `Lapsing`.
* A worker id is one run of a process: `RegisterWorker` draws a new UUID, so a
  restart is another element of `Workers`.
* A handler is its outcome.  Unknown job types take the failure branch, as in
  the code.  Log rows and metrics are written and never read: left out.
* The retry delay is "not due yet": `RequeueForRetry` clears `due` and the clock
  sets it later.
* `ORDER BY priority DESC, next_run_at` leaves ties of priority open.
* `Heartbeat` is one action for its two statements: they write different tables,
  and the second runs only if the first succeeds.
* A failed statement of the API server or of the reaper changes nothing and is
  repeated on the next request or tick: a stuttering step.

* The serverless worker's `COALESCE(concurrency_limit, 5)` is applied before
  `ConcurrencyLimit`.  Whether a handler fails is fixed by the job's payload
  (`Failing`), as in `executeJob`.
* The faults of a behaviour (cut-offs, lapsed leases, retries, pauses) are
  bounded by a counter that its workload gives; the proofs hold for every bound.
* Passwords and signatures are not looked at: a login names a user or not, a
  token is the number of its login, valid until it expires.
* The console keeps of each form only the fields a property tells apart: a
  queue's slug and limit, a job's name and queue.  An episode says which pages
  are visited and which controls are used, so that every page is explored with
  all its interleavings without the product of all pages.

## Runs

The file `<run>.cfg` gives the constants of the MC module.

| run | instance | checks | states |
|---|---|---|---|
| `crash` | fair; 3 jobs, 1 queue with limit 1, 2 attempts for one job and 1 for the others, 2 workers with 1 slot each, w1 may be killed | `TypeOK`, `ExecutorsOwnTheirJobs`, `ExclusiveExecution`, `DLQMatchesStatus`, `NoAbandonedClaim`, `BoundedOverAdmission`, `FollowsLifecycle`, `SubmittedJobsSettle` | 281 056 |
| `faults` | 1 job of any kind, 2 attempts, keyed, pausable queue, one retry client, both workers may be killed, terminated, and lose statements | `ExecutorsOwnTheirJobs`, `ExclusiveExecution`, `DLQMatchesStatus`, `FollowsLifecycle` | 126 688 |
| `lapse` | 1 keyed job, 2 attempts, both workers may outlive their leases, w1 may be killed | `CompletedWasExecuted`, `FailuresBackDeadLetter`, `DeadLetterIsListed` | 585 848 |
| `serverless` | fair; 2 ticks of one instance, 6 workloads of 1 to 3 jobs with limit 1, up to 2 faults | `TypeOK`, `ExclusiveUnlessTaken`, `DeadListedUnlessCut`, `ListedIsDead`, `DeadLetterEarned`, `OpenExecutionsOwned`, `BoundedByTicks`, `InFlightMatchesTick`, `AnswersAgree`, `CompletedStays`, `JobsSettle` | 413 656 |
| `access` | fair; 2 setup requests on an empty database, 1 with a tab beside it, 2 tabs that open and close on a complete one, 2 logins | `TypeOK`, `ReferencesReady`, `SeededOnce`, `HalfSeededMeansCut`, `OkMeansUsable`, `OnlyElderTabsEndSession`, `SignedOutTabsLeave`, `GuardSettles` | 58 394 |
| `console` | fair; 12 episodes, 2 queues, 1 job name, 1 limit or none, pages of 2 jobs and of 2 dead letters, 2 requests | `TypeOK`, `BusyMatchesRequest`, `OneRowPerForm`, `SavesOwnQueue`, `ShownMatchesFilters`, `ViewsCatchUp` | 584 527 |

* `ExecutorsOwnTheirJobs`: the `WHERE id = $1` statements are safe without
  fencing, as long as leases do not lapse under a live worker: an executor that
  will still write a row is the worker that row names, the row has the status
  the executor left it in, and its copy of `attempts` is current.
* `ExclusiveExecution`: no two goroutines are inside `Handle` for one job.
* `NoAbandonedClaim`: an active row of a live worker always has somebody working
  on it.  It needs statements that do not fail; `executeJob` only logs errors.
* `BoundedOverAdmission`: the concurrency limit may be exceeded (see below), but
  by no more than one stale budget per worker.
* `FollowsLifecycle`: refinement of `JobLifecycle`, the life cycle that the
  statements of the store implement; in particular a retry is charged exactly
  once, and a reaped or released job is not charged at all, which is not what
  `docs/DESIGN.md` says of reaped ones (run `reaped` below).
* `SubmittedJobsSettle`: every job submitted ends completed or dead-lettered for
  good, or is stranded in `failed` by a worker that died between two statements.
* `CompletedWasExecuted`: a completed job's own handler has once returned nil,
  also when the idempotency gate skipped the last run.  It needs keys that are
  not shared between queues (run `executed` below).
* `ExclusiveUnlessTaken`, `CompletedStays`: two ticks share a job, and a
  completed job changes, only after an unrenewed lease ran out under a slow tick
  or an operator retried the job under it.
* `DeadListedUnlessCut`, `ListedIsDead`, `OpenExecutionsOwned`: the pairs of
  statements that belong together (dead-letter and list, open and close an
  execution, unlist and requeue) come apart only where something was cut off
  between them.
* `DeadLetterEarned`: a job is given up only after `max_attempts` starts,
  although `attempts` is written from the claimed copy.
* `BoundedByTicks`: the budget is read without a lock; each overlapping tick
  fills the limit at most once.
* `InFlightMatchesTick`: no failure of a tick leaves its instance unable to
  schedule the next.
* `AnswersAgree`: successful answers for one idempotency key name one job, also
  when two requests pass the check before either inserts.
* `JobsSettle`: while a console stays open, every accepted job whose queue is not
  left paused ends completed or dead-lettered, except a `running` row without a
  lease, which no reaper selects, and unless an unparsable payload ends tick
  after tick.
* `ReferencesReady`, `SeededOnce`, `OkMeansUsable`: overlapping, repeated and
  cut-off setups never reach a statement too early, never seed twice, and
  answer success only when the database can be used.
* `HalfSeededMeansCut`: demo data that is incomplete with no seeding under way
  was left so by a cut-off setup, never by two that overlapped.
* `OnlyElderTabsEndSession`: a valid session ends by signing out or through a tab
  that was open before the login; no tab loaded since then ends it.
* `SignedOutTabsLeave`, `GuardSettles`: a console page without a session ends at
  the login page, and the guard's redirects end.
* `BusyMatchesRequest`: a form is disabled exactly while a request of its own is
  unanswered, whatever was closed and reopened meanwhile.
* `OneRowPerForm`: one form inserts one job, plus one for each lost answer.
* `SavesOwnQueue`: the drawer's fields, set only when it mounts, belong to the
  queue that `save` names.
* `ShownMatchesFilters`: what the explorer shows passes its filters, and is
  complete where the server's page is.
* `ViewsCatchUp`: when nobody changes anything any more, the lists every page
  offers become those that `GET /queues` and `GET /dlq` answer, the latter with
  its LIMIT.

Bounds.  Two workers suffice for every race in the code: claimer against
claimer, executor against reaper and next executor, zombie against successor.
Three jobs with limit 1 allow one admitted job per worker plus one waiting. One
attempt is the shortest way to the dead letter queue; two exercise the retry
path.  The runs with many faults have one job because jobs interact only through
the claim budget and the idempotency key, which `crash` and `executed` cover.
`faults` does not check deadlock: all workers may end up stopped. Two ticks meet
in every pair of statements; a third adds only a further budget. Three jobs for
one slot show contention, two faults the worst pair (a lease that lapses, then a
cut-off).  Two setups show overlap and repetition, two tabs and two logins a
late answer to an older token.  The console's pages of two jobs or dead letters
out of three make the LIMIT bite, two requests make answers overtake each other,
and one fault or one change by others falls between any two steps of an episode.

## What the code does not keep

Six runs state what a comment or a document says and TLC refutes it.

| run | statement | why it fails |
|---|---|---|
| `overadmission` | `ConcurrencyLimitKept`; `internal/store/job.go:91` "preventing over-admission above the concurrency limit" | the count belongs to the snapshot of the statement that waits for the lock; the previous holder did not change the queue row, so it is not recounted |
| `zombie` | `CompletedIsFinal`; `docs/DESIGN.md:98` "Immutable" | a worker that wakes after its lease was reaped writes `WHERE id = $1` |
| `shutdown` | `ShutdownLeavesNoOrphan`; `docs/DESIGN.md:207` "The reaper never fires for graceful shutdowns" | the drain runs with the cancelled context, `ReleaseJobs` returns only `claimed` rows |
| `stranded` | `FailedIsTransient`; `docs/DESIGN.md:99` "Transient" | `FailJob` and `RequeueForRetry` are separate statements and nothing selects `failed` rows |
| `executed` | `CompletedWasExecuted`; `docs/DESIGN.md:215` "a job will be executed at least once before it reaches `completed` or `dead_letter`", `docs/ER.md:181` "Deduplicate within a queue" | `IsIdempotencyKeyCompleted` looks in every queue, so the success of one job completes a job of another queue that was never run |
| `reaped` | `ReapedIsCharged`; `docs/DESIGN.md:203` "Reaper sets J to `failed`, increments `attempt`, computes `next_run_at` per the retry strategy", `:204` "Otherwise, J goes to `dead_letter`", `:239` | `RequeueOrphanedJobs` sets the row to `queued` and leaves `attempts` alone: a job that kills its worker is retried without end |

The remaining differences appear as the exceptions that the properties of the
dashboard spell out:

* `runWorkerTickNow` and the cron route pass by the coalescing of
  `worker-scheduler.ts`, so ticks of one instance overlap.
* The loser of two submissions with one key that both passed the check is
  answered 500 by the unique index, not with the existing job.
* A `running` row without a lease (`startJob` after its row was taken, then a
  cut-off) is never reaped.
* `POST /jobs/{id}/retry` requeues a job of any status, so a stale list may
  requeue a job that has completed since.
* A setup cut off between the organization and the user makes every later setup
  answer `seeded: false`, with no user to log in.
* A late 401 of one tab clears the token another tab has just stored.
* A payload that is a JSON string throws at `worker.ts:38`, outside the `try`:
  every tick that claims the job ends there.
* `POST /jobs/{id}/retry` deletes the dead letter before it looks whether the job
  is one of the organization, and a cut between its two statements leaves a dead
  job that no list shows.
* Pause and resume answer 204, which `request()` cannot parse: the drawer stays
  open, nothing is refreshed until the next poll, and the palette acts on its
  stale copy.
* `PUT /queues/{id}` cannot clear a limit (COALESCE), and saving a drawer writes
  over what somebody else saved since it was opened.
* The request counters of `ConsoleProvider` are never reset: once a form was
  asked for, it opens on every later visit of its page.
* The error panel of a failed poll unmounts a form with a request under way; the
  form that is mounted next accepts a second submission.
* LIMIT 100 is applied before the explorer's filter by several statuses, and
  `GET /dlq` shows the hundred latest dead letters only.

## Fairness

`FairSpec` adds weak fairness of what tickers and the Go scheduler guarantee:
processes start, `pollLoop` ticks, claims are committed and dispatched,
goroutines run their next statement, shutdown proceeds, the reaper sweeps, and
time passes.  Clients, operators, signals and crashes are never obliged to act,
and neither is the heartbeat: leases that are renewed and leases that merely do
not lapse are the same behaviour.  Weak fairness is enough: nothing disables a
due claim forever except a paused queue, and `crash` pauses none.

`ServerlessWorker` assumes that a running tick goes on, that time passes, that a
retry that was begun goes on, and that ticks keep being started by the pulse of
a console that stays open: `vercel.json` configures no cron, so the cron route
is under no obligation, and neither is an operator to resume a queue.  Cut-offs
and lapses are bounded, as faults that recur for ever let nothing settle.

`Access` assumes that effects run and hooks keep polling.  SWR polls in visible
tabs only, so this is said of tabs that are looked at again and again.  For the
answer 401 it assumes strong fairness: a rejected request may fail on its way,
and be sent again by the next poll, but not every one does.

`Console` assumes that the polling of queues and dead letters, which the shell
mounts on every page, goes on, again for a tab that is visible; nothing is
assumed of the operator.

## Proofs

The theorems hold for every number of jobs, queues, workers, slots, ticks,
instances, setups, tabs, logins, retry clients and console requests, every limit
and page size, every `max_attempts`, and every choice of the fault constants.
The assumptions are the named `ASSUME`s: constants are well typed; `Jobs`,
`Workers`, `Ticks`, `Tabs` and the requests of a console session are finite;
markers such as `NoJob` are not members of the set they mark; seeded rows obey
the unique index; and episodes start from well-typed tables.  The theorems marked
`Orderly` assume in addition that no worker outlives its lease (`Lapsing = {}`)
and that retry requests do not overlap; run `zombie` shows how a worker that
outlives its lease writes a row that is no longer its own.

| theorem | statement |
|---|---|
| `SchedulerSafety!TypeCorrect` | `Spec => []TypeOK` |
| `SchedulerSafety!DeadLettersListed` | `Spec => []DeadLetterIsListed` |
| `SchedulerSafety!CompletionsExecuted` | `KeysPerQueue` gives `Spec => []CompletedWasExecuted` |
| `SchedulerSafety!CompletionsBacked` | `Spec => []SuccessBacksCompletion`, what is left of it when queues share keys |
| `SchedulerSafety!DeadLettersBacked` | `Spec => []FailuresBackDeadLetter` |
| `SchedulerSafety!OwnershipInvariant` | `Orderly` gives `Spec => [](TypeOK /\ OwnInv)` |
| `SchedulerSafety!ExecutorsOwn` | `Orderly` gives `Spec => []ExecutorsOwnTheirJobs` |
| `SchedulerSafety!ExecutionIsExclusive` | `Orderly` gives `Spec => []ExclusiveExecution` |
| `SchedulerSafety!DLQAgrees` | `Orderly` gives `Spec => []DLQMatchesStatus` |
| `SchedulerSafety!ImplementsLifecycle` | `Orderly` gives `Spec => FollowsLifecycle` (refinement) |
| `SchedulerSafety!OverAdmissionBounded` | `Orderly` gives `Spec => []BoundedOverAdmission` |
| `SchedulerSafety!ClaimsNotAbandoned` | `Orderly` and `Lossy = {}` give `Spec => []NoAbandonedClaim` |
| `ServerlessSafety!ServerlessInvariant` | `Spec => []AllInv` |
| `ServerlessSafety!ExclusiveTicks` | `Spec => []ExclusiveUnlessTaken` |
| `ServerlessSafety!DeadLettersEarned` | `Spec => []DeadLetterEarned` |
| `ServerlessSafety!AnswersNameOneJob` | `Spec => []AnswersAgree` |
| `ServerlessSafety!CompletedIsKept` | `Spec => CompletedStays` |
| `ServerlessSafety!TableInvariant` | `Spec => []TableInv` |
| `ServerlessSafety!ServerlessTypes` | `Spec => []TypeOK` |
| `ServerlessSafety!DeadJobsListed` | `Spec => []DeadListedUnlessCut` |
| `ServerlessSafety!ListedJobsDead` | `Spec => []ListedIsDead` |
| `ServerlessSafety!ExecutionsOwned` | `Spec => []OpenExecutionsOwned` |
| `ServerlessSafety!AdmissionBounded` | `Spec => []BoundedByTicks` |
| `ServerlessSafety!InFlightExact` | `Spec => []InFlightMatchesTick` |
| `AccessSafety!AccessInvariant` | `Spec => []IInv` |
| `AccessSafety!AccessTypes` | `Spec => []TypeOK` |
| `AccessSafety!ReferencesAreReady` | `Spec => []ReferencesReady` |
| `AccessSafety!SeedsOnce` | `Spec => []SeededOnce` |
| `AccessSafety!SuccessIsUsable` | `Spec => []OkMeansUsable` |
| `AccessSafety!HalfSeedsAreCut` | `Spec => []HalfSeededMeansCut` |
| `AccessSafety!NewTabsKeepSession` | `Spec => OnlyElderTabsEndSession` (action property) |
| `ConsoleSafety!ConsoleInvariant` | `Spec => []ConsoleInv` |
| `ConsoleSafety!ConsoleTypes` | `Spec => []TypeOK` |
| `ConsoleSafety!BusyIsExact` | `Spec => []BusyMatchesRequest` |
| `ConsoleSafety!FormInsertsOnce` | `Spec => []OneRowPerForm` |
| `ConsoleSafety!DrawerSavesOwnQueue` | `Spec => []SavesOwnQueue` |
| `ConsoleSafety!ListingMatchesFilters` | `Spec => []ShownMatchesFilters` |

`TypeCorrect` has one step per action and uses lemmas that each statement of
`JobStore` maps well-typed tables to well-typed tables.

The theorems on dead letters and completions, which hold under every fault,
share four lemmas that describe a step from the point of view of one row
(`RowSteps`), one goroutine (`TaskSteps`), one waiting claim (`PendingSteps`) and
the history (`HistorySteps`); the invariants are then proved from these without
looking at individual actions again.

* `DeadLetterIsListed` is inductive as it stands.
* `SuccessBacksCompletion` is strengthened to `SuccessInv`: a goroutine at
  `complete` has seen its handler succeed, one at `skip` holds a key for which
  some handler has succeeded, and goroutines at the gate hold a key at all.
* `CompletedWasExecuted` adds to it that jobs of one queue with one key are one
  job: rows obey the unique index, and every claim, goroutine, retry and success
  speaks of a job that has a row (`ExistInv`), so the key's success is the job's
  own when keys are not shared between queues (`KeysPerQueue`).
* `FailuresBackDeadLetter` is strengthened to `FailureInv`: every copy of the
  attempt count (row, waiting claim, goroutine) is covered by failed runs, and
  count + 1 is covered once the goroutine's own run has failed.  Stale copies
  therefore can only lag behind the truth, which is why lapsed leases do not
  dead-letter a job early.

Ownership.  `ExecutorsOwnTheirJobs` is not inductive: that a goroutine's row is
still its own depends on who else may write it.  `OwnInv` adds that a process
not in use has no goroutines and no claims; that an active row with an expired
lease belongs to a process that is down; that the claims waiting in a process
that is up are exact copies of their rows; that what the goroutines of one
process hold is pairwise distinct, and distinct from its claims; that a handler
that still runs after SIGTERM keeps its row; that attempts stay below
`max_attempts` outside the dead letter queue; and that a retry that passed its
check still finds `dead_letter`.  Every step is then of one of four kinds
(`StepKinds`): a step of the environment, which gives a row that is held to
nobody else (`EnvStep`), the commit of a retry, a dispatch, or a step of one
executor, which writes only its own row (`Writes`) or none (`Turns`).  The
refinement needs no further induction: each kind of write is one action of
`JobLifecycle`, with the attempts it charges taken from the exact copy.

Admission.  `BoundedOverAdmission` is not inductive: a budget that was read is a
promise of rows still to come.  `AdmitInv` counts both: a poll loop of worker *w*
that read a budget *b* is granted the pairs `<<w, 1>>` to `<<w, b>>`, and the
active rows of a queue together with the pairs granted are at most one limit per
worker.  Reading a budget replaces no grant of the same worker and grants at most
the limit less the rows it saw active; a claim turns pairs into rows; everything
else only drops some.  Counting pairs as one set (`Counting`) replaces a sum over
workers, which would need an induction.  `NoAbandonedClaim` is strengthened to
`BackedInv`: a process that was never started owns no active row, and a poll loop
between the two statements of `ClaimJobs` has no claims waiting, so that what it
gets replaces nothing.

Serverless worker.  `AllInv` says that what a tick holds and was not taken
from it is active, hence neither claimable nor reapable (`HoldInv`); that a
tick's claims are distinct and it executes one at a time (`TickInv`); that every
copy of an attempt count is covered by starts (`ChargeInv`); and that the unique
index holds, posted jobs have no row before their INSERT, and answers name rows
with the key asked for (`KeyInv`).  Most steps only make a tick hold less
(`Lighter`); there is one lemma for each way in which a step writes rows.

`TableInv` relates the tables on top of it.  What is listed, or about to be, is
dead unless it was taken from a tick, and what is being retried is neither listed
nor worked on unless it was (`ListInv`); only a tick past `recordStart` has an
execution (`ExecInv`); an instance has at most one scheduled tick, and `inFlight`
stands for it (`FlightInv`); rows active and rows granted stay within one limit
per tick (`AdmitInv`, the same count as above).  Most actions admit nobody to a
queue (`AdmitsNone`); reading a budget and claiming are the two that do.

Setup and login.  A request that is at statement *n* of `ensureSchema` has all
statements before *n* done, by itself or by others, and no statement is undone.
For the seeding: there is at most one organization, at most one request is
seeding, the rows are as many as it has inserted, and an organization without a
user, or with only part of the demo data, means that a seeding is under way or was
cut off.

Session.  `SessionInv` says that while a token is stored, the unanswered requests
of a tab loaded since the login carry that token, and its login form is not in
use (`YoungInv`); tabs that are closed have no requests, no form and no effect to
run (`ClosedInv`), so a tab that opens is such a tab.

Console.  Every handler ends in `Render`, so the proof is about `Render` first:
`RenderMounts` shows that afterwards exactly the form and the drawer that the page
asks for are mounted, `RenderBusy` that a request keeps its sender exactly when
the sender stays mounted, and `RenderKeeps` combines them.  `ConsoleInv` then has
six parts: typed tables and caches, with every dead letter a submitted job
(`DataInv`, `LetterTypes`); data under the explorer's key, and
a fetch under way for it, answer the present key for some table it may have read
(`ListingInv`); requests carry what their route expects (`ReqInv`); types of the
page (`UiTypes`) and what is mounted (`MountInv`); and each control's flag is set
exactly while one request, and no other, waits for an answer (`BusyInv`).
Uniqueness is what makes a single flag per form enough: without it the answer to
one request would enable the button while another is unanswered.  A handler that
sends is described by `Sends`, a route or a lost message by `Answers`.
`OneRowPerForm` follows because a request that inserted a row and lost no answer
still waits, and only one does; `ShownMatchesFilters` from `WholeAnswer`: a result
that fits the LIMIT is answered whole.

Only model-checked: liveness under fairness, which is outside the proof system,
that is `SubmittedJobsSettle`, `JobsSettle`, `SignedOutTabsLeave`,
`GuardSettles` and `ViewsCatchUp`.  Every safety property that a passing run
checks is also proved.

## Not modelled

* Reads that change nothing: listings, single jobs, executions, logs,
  statistics, the overview, the workers page and the job detail of the console,
  metrics, and the formatting helpers.
* `CreateBatch` (it runs `Create` inside one transaction), `Update` of a queue in
  the Go API (a read and a write of the whole row; the console's counterpart is
  modelled), `Delete` of a queue with its cascade to jobs, and the CRUD of
  organizations, projects and users.
* The delay of `pkg/retry`: floating-point arithmetic over durations, of which
  the engine needs only that a retry is not due at once.
* `cmd/migrate`: a one-off command over files; `ensureSchema`, its serverless
  counterpart, is modelled.
* Cursors of `pkg/pagination`: an opaque encoding and read-only queries; the
  serverless routes do not use them.
* Of the console: the palette's query, scoring and highlighted entry, pulse
  events, animation, and form fields that no property tells apart.
* HTTP servers, routing, environment parsing, connection handling, the encoding
  of tokens and the comparison of secrets: no state of their own.
