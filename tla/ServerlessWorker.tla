-------------------------- MODULE ServerlessWorker --------------------------
(***************************************************************************)
(* The dashboard's serverless backend (src/dashboard/src/server): worker   *)
(* ticks that a cron request, a pulse request or any job request starts,   *)
(* and the job routes, over the tables of JobStore.  There is no           *)
(* transaction in this code: every SQL statement commits by itself, so one *)
(* action is one statement with the local computation up to the next one.  *)
(* A claim's lease is 30 seconds and nothing renews it.                    *)
(*                                                                         *)
(* ConcurrencyLimit is the limit after this code's COALESCE(limit, 5).     *)
(* workers.status and job_logs are written and never read here.            *)
(***************************************************************************)
EXTENDS JobStore, Sequences

CONSTANTS
  Ticks,       \* bound on concurrent calls of runWorkerTick
  Instances,   \* function instances; each has its own module variables
  InstanceOf,  \* the instance a tick runs in
  Failing,     \* jobs whose payload type is always_fail; all others succeed
  Unparsable,  \* jobs whose payload is a JSON string and not itself JSON text
  Foreign,     \* jobs a user of another organization asks to retry
  Pausable,    \* queues an operator pauses and resumes
  Workloads,   \* what may happen: jobs seeded, jobs posted, and a bound on the
               \* number of cut-offs, lapsed leases, retries and pauses
  NoJob, NoQueue

ASSUME TicksFinite == IsFiniteSet(Ticks)
ASSUME InstanceOfAssumption == InstanceOf \in [Ticks -> Instances]
ASSUME FailingAssumption == /\ Failing \cup Unparsable \cup Foreign \subseteq Jobs
                            /\ Pausable \subseteq Queues
ASSUME NullAssumption == NoJob \notin Jobs /\ NoQueue \notin Queues
ASSUME WorkloadsAssumption ==
  /\ Workloads \subseteq [seeded : SUBSET Jobs, posted : SUBSET Jobs, faults : Nat]
  /\ \A w \in Workloads :
       /\ w.seeded \cap w.posted = {}
       /\ \A j, k \in w.seeded :   \* the unique index holds from the start
            KeyOf[j] = KeyOf[k] /\ QueueOf[j] = QueueOf[k] => KeyOf[j] = NoKey \/ j = k

VARIABLES
  jobs,        \* table jobs
  dlq,         \* table dead_letter_queue: the job ids listed (UNIQUE job_id)
  executions,  \* table job_executions: the status of each row, by job
  paused,      \* queues.paused
  workers,     \* rows named vercel-worker-1: none, bare, or with a heartbeat row
  tick,        \* the local state of each running tick
  inFlight,    \* worker-scheduler: inFlight is set
  recent,      \* worker-scheduler: lastRunAt is less than MIN_INTERVAL_MS ago
  submit,      \* POST /queues/{id}/jobs, one request per job id
  retrying,    \* POST /jobs/{id}/retry between its DELETE and its UPDATE
  disturbed,   \* history: jobs whose lease ran out, or that were retried, under
               \* a tick working on them
  cut,         \* history: jobs on which a tick or retry ended half-way
  starts,      \* history: starts of each job, counted up to MaxAttempts
  faults       \* faults still to come

tables == <<jobs, dlq, executions, paused, workers>>
requests == <<submit, retrying>>
scheduler == <<inFlight, recent>>
history == <<disturbed, cut, starts, faults>>
vars == <<jobs, dlq, executions, paused, workers, tick, inFlight, recent,
          submit, retrying, disturbed, cut, starts, faults>>

\* The statement a tick runs next.
Stage == {"idle", "reap", "worker", "beat", "enroll", "firstbeat", "queues",
          "next", "claim", "record", "settle", "list", "finish"}

Copy == [job : Jobs, attempts : Nat]   \* what RETURNING * told of a claimed row

Tick == [stage : Stage, scheduled : BOOLEAN, worker : Workers \cup {NoWorker},
         todo : SUBSET Queues, queue : Queues \cup {NoQueue}, budget : Nat,
         batch : SUBSET Copy, job : Jobs \cup {NoJob}, attempt : Nat,
         exec : Nat]

Idle == [stage |-> "idle", scheduled |-> FALSE, worker |-> NoWorker,
         todo |-> {}, queue |-> NoQueue, budget |-> 0, batch |-> {},
         job |-> NoJob, attempt |-> 0, exec |-> 0]

Answer == {"none", "new", "checked", "created", "existing", "error"}

TypeOK ==
  /\ jobs \in [Jobs -> Row] /\ dlq \subseteq Jobs
  /\ \A j \in Jobs : \A n \in DOMAIN executions[j] :
       executions[j][n] \in {"running", "completed", "failed"}
  /\ paused \in [Queues -> BOOLEAN]
  /\ workers \in [Workers -> {"none", "bare", "beating"}]
  /\ tick \in [Ticks -> Tick]
  /\ inFlight \in [Instances -> BOOLEAN] /\ recent \in [Instances -> BOOLEAN]
  /\ submit \in [Jobs -> [stage : Answer, job : Jobs \cup {NoJob}]]
  /\ retrying \subseteq Jobs
  /\ disturbed \subseteq Jobs /\ cut \subseteq Jobs
  /\ \A j \in Jobs : starts[j] \in 0..MaxAttempts[j]
  /\ faults \in Nat

\* seedDemo inserts queued jobs and a worker row without a heartbeat; without
\* a seed there is neither.
Init ==
  \E w \in Workloads :
    /\ jobs = [j \in Jobs |-> IF j \in w.seeded THEN NewRow("immediate") ELSE NoRow]
    /\ submit = [j \in Jobs |-> [stage |-> IF j \in w.posted THEN "new" ELSE "none",
                                 job |-> NoJob]]
    /\ faults = w.faults
    /\ LET seed == CHOOSE v \in Workers : TRUE IN
         workers = [v \in Workers |-> IF v = seed /\ w.seeded # {} THEN "bare" ELSE "none"]
    /\ dlq = {}
    /\ executions = [j \in Jobs |-> <<>>]
    /\ paused = [q \in Queues |-> FALSE]
    /\ tick = [t \in Ticks |-> Idle]
    /\ inFlight = [i \in Instances |-> FALSE]
    /\ recent = [i \in Instances |-> FALSE]
    /\ retrying = {}
    /\ disturbed = {} /\ cut = {}
    /\ starts = [j \in Jobs |-> 0]

\* The jobs a tick has claimed and not yet settled, and those it works on.
Holding(t) ==
  {c.job : c \in tick[t].batch}
    \cup (IF tick[t].stage \in {"record", "settle"} THEN {tick[t].job} ELSE {})
Touching(t) == {c.job : c \in tick[t].batch} \cup ({tick[t].job} \ {NoJob})
Held(j) == \E t \in Ticks : j \in Holding(t)
Touched(j) == \E t \in Ticks : j \in Touching(t)

-----------------------------------------------------------------------------
(* worker-scheduler.ts: how ticks start and end *)

Coalesced(i) == inFlight[i] \/ recent[i]

\* Called synchronously at the end of a request; the tick then runs by itself.
scheduleWorkerTick(i) ==
  \/ Coalesced(i) /\ UNCHANGED <<tick, scheduler>>
  \/ /\ ~Coalesced(i)
     /\ \E t \in Ticks :
          /\ InstanceOf[t] = i /\ tick[t].stage = "idle"
          /\ tick' = [tick EXCEPT ![t].stage = "reap", ![t].scheduled = TRUE]
     /\ inFlight' = [inFlight EXCEPT ![i] = TRUE]
     /\ recent' = [recent EXCEPT ![i] = TRUE]

\* GET /worker/pulse: neither looks at inFlight nor sets it.
runWorkerTickNow(t) ==
  /\ tick[t].stage = "idle"
  /\ tick' = [tick EXCEPT ![t].stage = "reap"]
  /\ recent' = [recent EXCEPT ![InstanceOf[t]] = TRUE]
  /\ UNCHANGED <<tables, requests, inFlight, history>>

\* GET /api/cron/worker calls runWorkerTick past the scheduler.
CronTick(t) ==
  /\ tick[t].stage = "idle"
  /\ tick' = [tick EXCEPT ![t].stage = "reap"]
  /\ UNCHANGED <<tables, requests, scheduler, history>>

IntervalPasses(i) ==
  /\ recent[i]
  /\ recent' = [recent EXCEPT ![i] = FALSE]
  /\ UNCHANGED <<tables, tick, requests, inFlight, history>>

\* Mutant: inFlight is reset by .then and not by .finally.
TickEndsHoldingInFlight(t) ==
  /\ tick' = [tick EXCEPT ![t] = Idle]
  /\ inFlight' = [inFlight EXCEPT ![InstanceOf[t]] =
                    @ /\ ~(tick[t].scheduled /\ tick[t].stage = "next")]
  /\ UNCHANGED recent

\* The promise of a tick settles: .catch, then .finally.
TickEnds(t) ==
  /\ tick' = [tick EXCEPT ![t] = Idle]
  /\ inFlight' = [inFlight EXCEPT ![InstanceOf[t]] = @ /\ ~tick[t].scheduled]
  /\ UNCHANGED recent

-----------------------------------------------------------------------------
(* worker.ts: the steps of runWorkerTick *)

At(t, stage) == tick[t].stage = stage

\* Mutant: the reaper forgets lease_expires_at < NOW().
ActiveWithAnyLease == {j \in Jobs : jobs[j].status \in Active}

\* A lease that IS NULL is never smaller than NOW().
LeaseLost == {j \in Jobs : jobs[j].status \in Active /\ jobs[j].lease = "expired"}

reaper(t) ==
  /\ At(t, "reap")
  /\ jobs' = [j \in Jobs |->
       IF j \in LeaseLost
       THEN [jobs[j] EXCEPT !.status = "queued", !.worker = NoWorker, !.lease = "none"]
       ELSE jobs[j]]
  /\ tick' = [tick EXCEPT ![t].stage = "worker"]
  /\ disturbed' = disturbed \cup {j \in Orphaned(jobs) : Held(j)}
  /\ UNCHANGED <<dlq, executions, paused, workers, requests, scheduler, cut, starts, faults>>

\* ensureWorker: SELECT ... LIMIT 1 with no ORDER BY.
findWorker(t) ==
  /\ At(t, "worker")
  /\ \/ \E w \in Workers :
          /\ workers[w] # "none"
          /\ tick' = [tick EXCEPT ![t].stage = "beat", ![t].worker = w]
     \/ /\ \A w \in Workers : workers[w] = "none"
        /\ tick' = [tick EXCEPT ![t].stage = "enroll"]
  /\ UNCHANGED <<tables, requests, scheduler, history>>

\* The upsert of the heartbeat, then the UPDATE of workers.status.
beat(t) ==
  /\ At(t, "beat")
  /\ workers' = [workers EXCEPT ![tick[t].worker] = "beating"]
  /\ tick' = [tick EXCEPT ![t].stage = "queues"]
  /\ UNCHANGED <<jobs, dlq, executions, paused, requests, scheduler, history>>

enroll(t) ==
  /\ At(t, "enroll")
  /\ \E w \in Workers :
       /\ workers[w] = "none"
       /\ workers' = [workers EXCEPT ![w] = "bare"]
       /\ tick' = [tick EXCEPT ![t].stage = "firstbeat", ![t].worker = w]
  /\ UNCHANGED <<jobs, dlq, executions, paused, requests, scheduler, history>>

\* A plain INSERT: when another tick has found the row and upserted its
\* heartbeat, UNIQUE (worker_id) fails it and the tick with it.
firstBeat(t) ==
  /\ At(t, "firstbeat")
  /\ \/ /\ workers[tick[t].worker] = "bare"
        /\ workers' = [workers EXCEPT ![tick[t].worker] = "beating"]
        /\ tick' = [tick EXCEPT ![t].stage = "queues"]
        /\ UNCHANGED scheduler
     \/ /\ workers[tick[t].worker] = "beating"
        /\ TickEnds(t)
        /\ UNCHANGED workers
  /\ UNCHANGED <<jobs, dlq, executions, paused, requests, history>>

\* SELECT id FROM queues WHERE paused = FALSE, once per tick.
listQueues(t) ==
  /\ At(t, "queues")
  /\ tick' = [tick EXCEPT ![t].stage = "next", ![t].todo = {q \in Queues : ~paused[q]}]
  /\ UNCHANGED <<tables, requests, scheduler, history>>

\* Mutants: the limit itself counts as free; LEAST in place of GREATEST.
BudgetInclusive(q) ==
  LET active == Cardinality(ActiveIn(jobs, q)) IN
    IF ConcurrencyLimit[q] >= active THEN ConcurrencyLimit[q] - active + 1 ELSE 0
BudgetLeast(q) == 0

\* GREATEST(COALESCE(limit, 5) - COUNT(claimed or running), 0).
Budget(q) ==
  LET active == Cardinality(ActiveIn(jobs, q)) IN
    IF ConcurrencyLimit[q] > active THEN ConcurrencyLimit[q] - active ELSE 0

\* The next queue of the list; nothing is locked while the budget is held.
readBudget(t) ==
  /\ At(t, "next") /\ tick[t].batch = {}
  /\ \E q \in tick[t].todo :
       \/ /\ Budget(q) > 0
          /\ tick' = [tick EXCEPT ![t].stage = "claim", ![t].todo = @ \ {q},
                                  ![t].queue = q, ![t].budget = Budget(q)]
       \/ /\ Budget(q) = 0
          /\ tick' = [tick EXCEPT ![t].todo = @ \ {q}]
  /\ UNCHANGED <<tables, requests, scheduler, history>>

\* The loop over the queues is done.
tickDone(t) ==
  /\ At(t, "next") /\ tick[t].batch = {} /\ tick[t].todo = {}
  /\ TickEnds(t)
  /\ UNCHANGED <<tables, requests, history>>

\* UPDATE ... WHERE id IN (SELECT ... FOR UPDATE SKIP LOCKED LIMIT budget).
claim(t) ==
  /\ At(t, "claim")
  /\ \E S \in ClaimChoices(jobs, tick[t].queue, tick[t].budget) :
       /\ jobs' = ClaimJobs(jobs, S, tick[t].worker)
       /\ tick' = [tick EXCEPT ![t].stage = "next", ![t].queue = NoQueue, ![t].budget = 0,
                     ![t].batch = {[job |-> j, attempts |-> jobs[j].attempts] : j \in S}]
       /\ disturbed' = disturbed \cup (S \cap retrying)
  /\ UNCHANGED <<dlq, executions, paused, workers, requests, scheduler, cut, starts, faults>>

-----------------------------------------------------------------------------
(* worker.ts: executeJob, one claimed job after the other *)

CountUpTo(n, max) == IF n < max THEN n + 1 ELSE max

\* JSON.parse of a string payload throws before the first statement, and the
\* tick ends: the job, and those claimed with it, stay claimed.
parseThrows(t) ==
  /\ At(t, "next")
  /\ \E c \in tick[t].batch : c.job \in Unparsable
  /\ TickEnds(t)
  /\ UNCHANGED <<tables, requests, history>>

\* UPDATE jobs SET status = 'running', attempts = copy + 1 WHERE id.
startJob(t) ==
  /\ At(t, "next")
  /\ \E c \in tick[t].batch :
       /\ c.job \notin Unparsable
       /\ jobs' = [jobs EXCEPT ![c.job].status = "running",
                               ![c.job].attempts = c.attempts + 1]
       /\ starts' = [starts EXCEPT ![c.job] = CountUpTo(@, MaxAttempts[c.job])]
       /\ tick' = [tick EXCEPT ![t].stage = "record", ![t].batch = @ \ {c},
                               ![t].job = c.job, ![t].attempt = c.attempts + 1]
  /\ UNCHANGED <<dlq, executions, paused, workers, requests, scheduler, disturbed, cut, faults>>

recordStart(t) ==
  LET j == tick[t].job IN
    /\ At(t, "record")
    /\ executions' = [executions EXCEPT ![j] = @ \o <<"running">>]
    /\ tick' = [tick EXCEPT ![t].stage = "settle", ![t].exec = Len(executions[j]) + 1]
    /\ UNCHANGED <<jobs, dlq, paused, workers, requests, scheduler, history>>

\* Mutant: attempt + 1 >= maxAttempts.
DeadOneEarly(j, n) == j \in Failing /\ n + 1 >= MaxAttempts[j]

\* The failed attempt was the last one.
Dead(j, n) == j \in Failing /\ n >= MaxAttempts[j]

\* Mutant: a status that is not one of job_status.
SettledRetrying(r, j, n) ==
  [r EXCEPT !.status = IF j \notin Failing THEN "completed"
                       ELSE IF Dead(j, n) THEN "dead_letter" ELSE "retrying",
            !.worker = NoWorker, !.lease = "none"]

\* Every outcome clears the worker and the lease; a retry waits 5 seconds.
SettledRow(r, j, n) ==
  [r EXCEPT !.status = IF j \notin Failing THEN "completed"
                       ELSE IF Dead(j, n) THEN "dead_letter" ELSE "queued",
            !.worker = NoWorker, !.lease = "none",
            !.due = IF j \in Failing /\ ~Dead(j, n) THEN FALSE ELSE @]

\* Mutant: a dead job is not listed.
SettleUnlisted(t) ==
  LET j == tick[t].job  n == tick[t].attempt IN
    /\ At(t, "settle")
    /\ jobs' = [jobs EXCEPT ![j] = SettledRow(@, j, n)]
    /\ tick' = [tick EXCEPT ![t].stage = "finish"]
    /\ UNCHANGED <<dlq, executions, paused, workers, requests, scheduler, history>>

\* The handler has returned: the one UPDATE jobs of its outcome.
settleJob(t) ==
  LET j == tick[t].job  n == tick[t].attempt IN
    /\ At(t, "settle")
    /\ jobs' = [jobs EXCEPT ![j] = SettledRow(@, j, n)]
    /\ tick' = [tick EXCEPT ![t].stage = IF Dead(j, n) THEN "list" ELSE "finish"]
    /\ UNCHANGED <<dlq, executions, paused, workers, requests, scheduler, history>>

\* INSERT INTO dead_letter_queue ... ON CONFLICT (job_id) DO NOTHING.
listDead(t) ==
  /\ At(t, "list")
  /\ dlq' = dlq \cup {tick[t].job}
  /\ tick' = [tick EXCEPT ![t].stage = "finish"]
  /\ UNCHANGED <<jobs, executions, paused, workers, requests, scheduler, history>>

\* Mutant: only a completed run closes its execution.
FinishCompleted(t) ==
  LET j == tick[t].job IN
    /\ At(t, "finish")
    /\ executions' = [executions EXCEPT ![j][tick[t].exec] =
                        IF j \in Failing THEN @ ELSE "completed"]
    /\ tick' = [tick EXCEPT ![t].stage = "next", ![t].job = NoJob,
                            ![t].attempt = 0, ![t].exec = 0]
    /\ UNCHANGED <<jobs, dlq, paused, workers, requests, scheduler, history>>

\* UPDATE job_executions SET status WHERE id = exec.id.
finishJob(t) ==
  LET j == tick[t].job IN
    /\ At(t, "finish")
    /\ executions' = [executions EXCEPT ![j][tick[t].exec] =
                        IF j \in Failing THEN "failed" ELSE "completed"]
    /\ tick' = [tick EXCEPT ![t].stage = "next", ![t].job = NoJob,
                            ![t].attempt = 0, ![t].exec = 0]
    /\ UNCHANGED <<jobs, dlq, paused, workers, requests, scheduler, history>>

-----------------------------------------------------------------------------
(* router.ts: the job routes *)

\* POST /queues/{id}/jobs: the SELECT by idempotency key.
checkKey(j) ==
  /\ submit[j].stage = "new"
  /\ \/ \E k \in Jobs :
          /\ KeyOf[j] # NoKey /\ Exists(jobs, k)
          /\ QueueOf[k] = QueueOf[j] /\ KeyOf[k] = KeyOf[j]
          /\ submit' = [submit EXCEPT ![j] = [stage |-> "existing", job |-> k]]
     \/ /\ ~KeyTaken(jobs, j)
        /\ submit' = [submit EXCEPT ![j].stage = "checked"]
  /\ UNCHANGED <<tables, tick, scheduler, retrying, history>>

\* Mutant: no unique index on (queue_id, idempotency_key).
NeverTaken(j) == FALSE

\* The unique index refuses the row.
Conflict(j) == KeyTaken(jobs, j)

\* Its INSERT, delayed or due at once; a conflict is answered with 500.
insertJob(j, i) ==
  /\ submit[j].stage = "checked"
  /\ \/ /\ ~Conflict(j)
        /\ \E kind \in {"immediate", "delayed"} : jobs' = [jobs EXCEPT ![j] = NewRow(kind)]
        /\ submit' = [submit EXCEPT ![j] = [stage |-> "created", job |-> j]]
        /\ scheduleWorkerTick(i)
     \/ /\ Conflict(j)
        /\ submit' = [submit EXCEPT ![j].stage = "error"]
        /\ UNCHANGED <<jobs, tick, scheduler>>
  /\ UNCHANGED <<dlq, executions, paused, workers, retrying, history>>

\* GET /jobs schedules a tick and then reads.
listJobs(i) ==
  /\ scheduleWorkerTick(i)
  /\ UNCHANGED <<tables, requests, history>>

Fault == faults > 0 /\ faults' = faults - 1

\* Mutant: the retry leaves the DLQ row.
RetryKeepsListed(j) ==
  /\ Exists(jobs, j) /\ j \notin retrying /\ Fault
  /\ retrying' = retrying \cup {j}
  /\ disturbed' = IF Touched(j) THEN disturbed \cup {j} ELSE disturbed
  /\ UNCHANGED <<jobs, dlq, executions, paused, workers, tick, scheduler, submit, cut, starts>>

\* POST /jobs/{id}/retry looks at neither status: first the DELETE,
retryDelete(j) ==
  /\ Exists(jobs, j) /\ j \notin retrying /\ Fault
  /\ dlq' = dlq \ {j}
  /\ retrying' = retrying \cup {j}
  /\ disturbed' = IF Touched(j) THEN disturbed \cup {j} ELSE disturbed
  /\ UNCHANGED <<jobs, executions, paused, workers, tick, scheduler, submit, cut, starts>>

\* then the UPDATE.
retryUpdate(j, i) ==
  /\ j \in retrying
  /\ jobs' = [jobs EXCEPT ![j] = [@ EXCEPT !.status = "queued", !.attempts = 0,
                !.due = TRUE, !.worker = NoWorker, !.lease = "none"]]
  /\ retrying' = retrying \ {j}
  /\ disturbed' = IF Touched(j) THEN disturbed \cup {j} ELSE disturbed
  /\ scheduleWorkerTick(i)
  /\ UNCHANGED <<dlq, executions, paused, workers, submit, cut, starts, faults>>

\* The UPDATE is scoped to the caller's organization and the DELETE is not: no
\* row comes back, and 404 is answered.
retryNotFound(j) ==
  /\ j \in retrying \cap Foreign
  /\ retrying' = retrying \ {j}
  /\ cut' = cut \cup {j}
  /\ UNCHANGED <<tables, tick, scheduler, submit, disturbed, starts, faults>>

\* POST /queues/{id}/pause and /resume.
pauseQueue(q) ==
  /\ q \in Pausable /\ ~paused[q] /\ Fault
  /\ paused' = [paused EXCEPT ![q] = TRUE]
  /\ UNCHANGED <<jobs, dlq, executions, workers, tick, scheduler, requests, disturbed, cut, starts>>

resumeQueue(q) ==
  /\ paused[q]
  /\ paused' = [paused EXCEPT ![q] = FALSE]
  /\ UNCHANGED <<jobs, dlq, executions, workers, tick, scheduler, requests, history>>

-----------------------------------------------------------------------------
(* Time and faults *)

BecomesDue(j) ==
  /\ Exists(jobs, j) /\ ~jobs[j].due
  /\ jobs' = [jobs EXCEPT ![j].due = TRUE]
  /\ UNCHANGED <<dlq, executions, paused, workers, tick, scheduler, requests, history>>

\* 30 seconds pass with nobody left to work on the claim.
LeaseRunsOut(j) ==
  /\ jobs[j].lease = "live" /\ ~Held(j)
  /\ jobs' = [jobs EXCEPT ![j].lease = "expired"]
  /\ UNCHANGED <<dlq, executions, paused, workers, tick, scheduler, requests, history>>

\* They pass while the claiming tick is busy with this job or those before it.
LeaseLapses(j) ==
  /\ jobs[j].lease = "live" /\ Held(j) /\ Fault
  /\ jobs' = [jobs EXCEPT ![j].lease = "expired"]
  /\ UNCHANGED <<dlq, executions, paused, workers, tick, scheduler, requests,
                 disturbed, cut, starts>>

\* A statement throws: the tick's promise rejects where it stands.
TickAborts(t) ==
  /\ tick[t].stage # "idle" /\ Fault
  /\ cut' = cut \cup ({tick[t].job} \ {NoJob})
  /\ TickEnds(t)
  /\ UNCHANGED <<tables, requests, disturbed, starts>>

\* A statement of the retry throws after the DELETE.
RetryAborts(j) ==
  /\ j \in retrying /\ Fault
  /\ retrying' = retrying \ {j}
  /\ cut' = cut \cup {j}
  /\ UNCHANGED <<tables, tick, scheduler, submit, disturbed, starts>>

\* The platform stops an instance: its ticks and module variables are gone.
InstanceStops(i) ==
  LET gone == {t \in Ticks : InstanceOf[t] = i} IN
    /\ \E t \in gone : tick[t].stage # "idle"
    /\ Fault
    /\ cut' = cut \cup ({tick[t].job : t \in gone} \ {NoJob})
    /\ tick' = [t \in Ticks |-> IF t \in gone THEN Idle ELSE tick[t]]
    /\ inFlight' = [inFlight EXCEPT ![i] = FALSE]
    /\ recent' = [recent EXCEPT ![i] = FALSE]
    /\ UNCHANGED <<tables, requests, disturbed, starts>>

-----------------------------------------------------------------------------
TickStep(t) ==
  \/ reaper(t) \/ findWorker(t) \/ beat(t) \/ enroll(t) \/ firstBeat(t)
  \/ listQueues(t) \/ readBudget(t) \/ tickDone(t) \/ claim(t)
  \/ parseThrows(t) \/ startJob(t) \/ recordStart(t) \/ settleJob(t) \/ listDead(t) \/ finishJob(t)

Next ==
  \/ \E t \in Ticks : TickStep(t) \/ runWorkerTickNow(t) \/ CronTick(t) \/ TickAborts(t)
  \/ \E i \in Instances : IntervalPasses(i) \/ listJobs(i) \/ InstanceStops(i)
  \/ \E j \in Jobs, i \in Instances : insertJob(j, i) \/ retryUpdate(j, i)
  \/ \E j \in Jobs : \/ checkKey(j) \/ retryDelete(j) \/ retryNotFound(j) \/ RetryAborts(j)
                     \/ BecomesDue(j) \/ LeaseRunsOut(j) \/ LeaseLapses(j)
  \/ \E q \in Queues : pauseQueue(q) \/ resumeQueue(q)

Spec == Init /\ [][Next]_vars

Clock == \E j \in Jobs : BecomesDue(j) \/ LeaseRunsOut(j)
Retry == \E j \in Jobs : retryNotFound(j) \/ \E i \in Instances : retryUpdate(j, i)

\* Every running tick goes on, time passes and a begun retry goes on.  Ticks are
\* started by the pulse of a console, and one is assumed to stay open: nothing
\* configures the cron request, so CronTick is under no obligation, and neither
\* are operators.
Fairness ==
  /\ \A t \in Ticks : WF_vars(TickStep(t))
  /\ WF_vars(\E t \in Ticks : runWorkerTickNow(t))
  /\ WF_vars(Clock)
  /\ WF_vars(Retry)

FairSpec == Spec /\ Fairness

-----------------------------------------------------------------------------
(* Properties *)

\* Two ticks work on one job only after it was taken from one of them: by
\* the reaper once its unrenewed lease ran out, or by POST retry.
ExclusiveUnlessTaken ==
  \A t, u \in Ticks : t # u => Holding(t) \cap Holding(u) \subseteq disturbed

\* A dead_letter job is listed in the DLQ unless a tick or a retry is between
\* its two statements on it, or was cut off there.
DeadListedUnlessCut ==
  \A j \in Jobs : jobs[j].status = "dead_letter" =>
    \/ j \in dlq \cup retrying \cup cut \cup disturbed
    \/ \E t \in Ticks : At(t, "list") /\ tick[t].job = j

\* A job listed in the DLQ is dead_letter, unless it was retried under a tick
\* that worked on it or taken from one.
ListedIsDead ==
  \A j \in dlq : jobs[j].status = "dead_letter" \/ j \in disturbed \cup retrying

\* Only failing jobs are given up, and only after max_attempts starts, cut
\* off ones included.
DeadLetterEarned ==
  \A j \in Jobs : jobs[j].status = "dead_letter" =>
    j \in Failing /\ starts[j] = MaxAttempts[j]

\* Every execution left 'running' is the work of a live tick, or of one that
\* was cut off.
OpenExecutionsOwned ==
  \A j \in Jobs \ cut : \A n \in DOMAIN executions[j] :
    executions[j][n] = "running" =>
      \E t \in Ticks : tick[t].job = j /\ tick[t].exec = n

\* The budget is read without a lock, so each of the overlapping ticks may
\* fill the limit once, and never more than once.
BoundedByTicks ==
  disturbed = {} =>
    \A q \in Queues :
      Cardinality(ActiveIn(jobs, q)) <= ConcurrencyLimit[q] * Cardinality(Ticks)

\* inFlight is set exactly while a scheduled tick of the instance runs, and
\* there is at most one: no failure leaves the scheduler blocked.
InFlightMatchesTick ==
  \A i \in Instances :
    Cardinality({t \in Ticks : InstanceOf[t] = i /\ tick[t].scheduled})
      = IF inFlight[i] THEN 1 ELSE 0

\* Successful answers to submissions with one key name one job.
AnswersAgree ==
  \A j, k \in Jobs :
    /\ submit[j].job # NoJob /\ submit[k].job # NoJob
    /\ KeyOf[j] = KeyOf[k] /\ KeyOf[j] # NoKey /\ QueueOf[j] = QueueOf[k]
    => submit[j].job = submit[k].job

\* While a console stays open, every accepted job is settled in the end unless
\* its queue is left paused.  Two cases are lost.  One job at a time: its lease
\* ran out, or it was retried, under a tick which then started it all the same
\* and was cut off, which leaves a running row without a lease that no reaper
\* looks at.  All at once: an unparsable payload ends every tick that claims it.
JobsSettle ==
  <>[](\A j \in Jobs : Exists(jobs, j) =>
         \/ jobs[j].status \in {"completed", "dead_letter"}
         \/ paused[QueueOf[j]]
         \/ j \in disturbed \cap cut
         \/ \E k \in Unparsable : Exists(jobs, k))

\* A completed job stays completed unless it is retried or was taken from a
\* tick that is still to write its own outcome.
CompletedStays ==
  [][\A j \in Jobs :
       jobs[j].status = "completed" /\ j \notin retrying \cup disturbed
         => jobs'[j].status = "completed"]_vars
=============================================================================
