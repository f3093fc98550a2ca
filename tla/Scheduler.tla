------------------------------ MODULE Scheduler ------------------------------
(***************************************************************************)
(* The Go job scheduler as one system: the API server's job operations,    *)
(* the worker engine (poll loop, pool of executor goroutines, heartbeat,   *)
(* graceful shutdown) and the reaper, coordinating through PostgreSQL.     *)
(*                                                                         *)
(* One action is one SQL statement or transaction together with the local  *)
(* computation around it, so that every interleaving the processes can     *)
(* show at the database is a behaviour here.  A worker id is one run of a  *)
(* worker process: RegisterWorker draws a fresh id, so a restart is        *)
(* another member of Workers.                                              *)
(*                                                                         *)
(* The environment's faults are constants, so that each run and each       *)
(* theorem says what it assumes: which workers may crash, be terminated,   *)
(* see statements fail, or stay alive past their leases.                   *)
(***************************************************************************)
EXTENDS JobStore

CONSTANTS
  Slots, Owner,   \* places of the worker pools, and the worker each belongs to
  Retriers,       \* concurrent POST /jobs/{id}/retry requests
  Submissions,    \* the kinds of submission clients make
  Pausable,       \* queues an operator pauses and resumes
  NoJob, NoQueue,
  Crashable,      \* workers that may be killed
  Terminable,     \* workers that may receive SIGTERM
  Lossy,          \* workers whose statements may fail, or lose their answer
  Lapsing         \* workers that may be alive when a lease of theirs runs out

ASSUME WorkersFinite == IsFiniteSet(Workers)
ASSUME OwnerAssumption == Owner \in [Slots -> Workers]
ASSUME NoJobAssumption == NoJob \notin Jobs
ASSUME NoQueueAssumption == NoQueue \notin Queues
ASSUME SubmissionsAssumption == Submissions \subseteq Kinds
ASSUME FaultAssumption == /\ Pausable \subseteq Queues
                          /\ Crashable \cup Terminable \cup Lossy \cup Lapsing
                               \subseteq Workers

VARIABLES
  jobs,        \* table jobs
  dlq,         \* table dead_letter_queue: the job ids with a row (UNIQUE job_id)
  executions,  \* table job_executions
  paused,      \* queues.paused
  registry,    \* tables workers and worker_heartbeats
  proc,        \* worker process: new, up, stopping, released, down
  poll,        \* pollOnce: queues left, queue being claimed, budget read for it
  pending,     \* jobs claimed and not yet dispatched
  task,        \* the executor goroutine in each slot
  retry,       \* RetryDLQJob between its check and its commit
  succeeded,   \* history: jobs whose handler has returned nil
  failures     \* history: failed handler runs, counted up to MaxAttempts

tables == <<jobs, dlq, executions, paused, registry>>
engine == <<proc, poll, pending, task>>
history == <<succeeded, failures>>
vars == <<jobs, dlq, executions, paused, registry, proc, poll, pending, task,
          retry, succeeded, failures>>

\* Where an executor goroutine stands: the statement it runs next.
Stage == {"idle", "gate", "skip", "start", "handle", "complete", "record",
          "fail", "deadletter", "failjob", "requeue"}

RegistryState == {"none", "unseeded", "fresh", "stale", "offline"}
ProcState == {"new", "up", "stopping", "released", "down"}
Poll == [todo : SUBSET Queues, queue : Queues \cup {NoQueue}, budget : Nat]
Claim == [job : Jobs, attempts : Nat]
Task == [stage : Stage, job : Jobs \cup {NoJob}, attempts : Nat]
Execution == [attempt : Nat, status : {"completed", "failed"}]
Idle == [stage |-> "idle", job |-> NoJob, attempts |-> 0]
NotPolling == [todo |-> {}, queue |-> NoQueue, budget |-> 0]

TypeOK ==
  /\ jobs \in [Jobs -> Row]
  /\ dlq \subseteq Jobs
  /\ executions \in [Jobs -> SUBSET Execution]
  /\ paused \in [Queues -> BOOLEAN]
  /\ registry \in [Workers -> RegistryState]
  /\ proc \in [Workers -> ProcState]
  /\ poll \in [Workers -> Poll]
  /\ pending \in [Workers -> SUBSET Claim]
  /\ task \in [Slots -> Task]
  /\ \A s \in Slots : task[s].stage # "idle" => task[s].job \in Jobs
  /\ retry \in [Retriers -> Jobs \cup {NoJob}]
  /\ succeeded \subseteq Jobs
  /\ failures \in [Jobs -> Nat]

Init ==
  /\ jobs = [j \in Jobs |-> NoRow]
  /\ dlq = {}
  /\ executions = [j \in Jobs |-> {}]
  /\ paused = [q \in Queues |-> FALSE]
  /\ registry = [w \in Workers |-> "none"]
  /\ proc = [w \in Workers |-> "new"]
  /\ poll = [w \in Workers |-> NotPolling]
  /\ pending = [w \in Workers |-> {}]
  /\ task = [s \in Slots |-> Idle]
  /\ retry = [r \in Retriers |-> NoJob]
  /\ succeeded = {}
  /\ failures = [j \in Jobs |-> 0]

-----------------------------------------------------------------------------
(* How a statement issued by worker w can end: applied and acknowledged,   *)
(* failed without effect, or applied with its answer lost.  Once the       *)
(* engine's context is cancelled every statement issued with it fails.     *)

Results(w) ==
  (IF proc[w] = "up" THEN {"ok"} ELSE {"error"})
    \cup (IF proc[w] = "up" /\ w \in Lossy THEN {"error", "lost"} ELSE {})

\* ReleaseJobs and DeregisterWorker run with context.Background().
BackgroundResults(w) == {"ok"} \cup (IF w \in Lossy THEN {"error", "lost"} ELSE {})

Applied(res) == res \in {"ok", "lost"}

-----------------------------------------------------------------------------
(* API server *)

\* POST /queues/{id}/jobs.
CreateJob(j, kind) ==
  /\ ~Exists(jobs, j)
  /\ jobs' = Create(jobs, j, kind)
  /\ UNCHANGED <<dlq, executions, paused, registry, proc, poll, pending, task,
                 retry, succeeded, failures>>

\* POST /queues/{id}/pause and /resume.
SetPaused(q) ==
  /\ paused' = [paused EXCEPT ![q] = ~@]
  /\ UNCHANGED <<jobs, dlq, executions, registry, proc, poll, pending, task,
                 retry, succeeded, failures>>

\* POST /jobs/{id}/retry: the SELECT of RetryDLQJob takes no row lock ...
RetryCheck(r, j) ==
  /\ retry[r] = NoJob
  /\ jobs[j].status = "dead_letter"
  /\ retry' = [retry EXCEPT ![r] = j]
  /\ UNCHANGED <<jobs, dlq, executions, paused, registry, proc, poll, pending,
                 task, succeeded, failures>>

\* ... and the DELETE and the UPDATE are committed later,
RetryCommit(r) ==
  /\ retry[r] # NoJob
  /\ dlq' = dlq \ {retry[r]}
  /\ jobs' = RetryDLQJob(jobs, retry[r])
  /\ retry' = [retry EXCEPT ![r] = NoJob]
  /\ UNCHANGED <<executions, paused, registry, proc, poll, pending, task,
                 succeeded, failures>>

\* or rolled back when the request is cut off.
RetryAbort(r) ==
  /\ retry[r] # NoJob
  /\ retry' = [retry EXCEPT ![r] = NoJob]
  /\ UNCHANGED <<jobs, dlq, executions, paused, registry, proc, poll, pending,
                 task, succeeded, failures>>

-----------------------------------------------------------------------------
(* Worker process: start, heartbeat, stop *)

\* RegisterWorker inserts the workers row and then, in a statement of its
\* own, the heartbeat row; Run returns, and the process exits, if either fails.
RegisterWorker(w) ==
  /\ proc[w] = "new"
  /\ \/ /\ registry' = [registry EXCEPT ![w] = "fresh"]
        /\ proc' = [proc EXCEPT ![w] = "up"]
     \/ /\ w \in Lossy
        /\ \E r \in {"none", "unseeded", "fresh"} :
             registry' = [registry EXCEPT ![w] = r]
        /\ proc' = [proc EXCEPT ![w] = "down"]
  /\ UNCHANGED <<jobs, dlq, executions, paused, poll, pending, task, retry,
                 succeeded, failures>>

\* One tick of heartbeatLoop: last_seen_at first, then the leases.  Nothing
\* sets workers.status back to active.
Heartbeat(w) ==
  /\ proc[w] = "up"
  /\ \E seen, renewed \in Results(w) :
       /\ registry' = [registry EXCEPT ![w] =
            IF Applied(seen) /\ @ = "stale" THEN "fresh" ELSE @]
       /\ jobs' = IF seen = "ok" /\ Applied(renewed) THEN RenewLeases(jobs, w)
                                                     ELSE jobs
  /\ UNCHANGED <<dlq, executions, paused, proc, poll, pending, task, retry,
                 succeeded, failures>>

\* The process is killed: its goroutines vanish, the tables stay.
Crash(w) ==
  /\ w \in Crashable
  /\ proc[w] \in {"up", "stopping", "released"}
  /\ proc' = [proc EXCEPT ![w] = "down"]
  /\ poll' = [poll EXCEPT ![w] = NotPolling]
  /\ pending' = [pending EXCEPT ![w] = {}]
  /\ task' = [s \in Slots |-> IF Owner[s] = w THEN Idle ELSE task[s]]
  /\ UNCHANGED <<jobs, dlq, executions, paused, registry, retry,
                 succeeded, failures>>

\* SIGTERM cancels the context: the heartbeat loop ends, and pollOnce gives
\* up at its next statement or context check.
Terminate(w) ==
  /\ w \in Terminable
  /\ proc[w] = "up"
  /\ proc' = [proc EXCEPT ![w] = "stopping"]
  /\ poll' = [poll EXCEPT ![w] = NotPolling]
  /\ UNCHANGED <<jobs, dlq, executions, paused, registry, pending, task, retry,
                 succeeded, failures>>

\* shutdown runs once pollLoop has dispatched what it claimed.  It waits for
\* the pool or for DrainTimeout, then releases the claims.
ShutdownRelease(w) ==
  /\ proc[w] = "stopping"
  /\ pending[w] = {}
  /\ \E res \in BackgroundResults(w) :
       jobs' = IF Applied(res) THEN ReleaseJobs(jobs, w) ELSE jobs
  /\ proc' = [proc EXCEPT ![w] = "released"]
  /\ UNCHANGED <<dlq, executions, paused, registry, poll, pending, task, retry,
                 succeeded, failures>>

\* DeregisterWorker; Run returns and the process exits.
ShutdownDeregister(w) ==
  /\ proc[w] = "released"
  /\ \E res \in BackgroundResults(w) :
       registry' = IF Applied(res) THEN [registry EXCEPT ![w] = "offline"]
                                   ELSE registry
  /\ proc' = [proc EXCEPT ![w] = "down"]
  /\ task' = [s \in Slots |-> IF Owner[s] = w THEN Idle ELSE task[s]]
  /\ UNCHANGED <<jobs, dlq, executions, paused, poll, pending, retry,
                 succeeded, failures>>

-----------------------------------------------------------------------------
(* Worker process: poll loop *)

Free(s) == task[s].stage = "idle"

\* The top of pollOnce: skip the tick when the pool is full, list the queues
\* that are not paused.
PollOnce(w) ==
  /\ proc[w] = "up"
  /\ poll[w] = NotPolling
  /\ pending[w] = {}
  /\ \E s \in Slots : Owner[s] = w /\ Free(s)
  /\ poll' = [poll EXCEPT ![w].todo = {q \in Queues : ~paused[q]}]
  /\ UNCHANGED <<jobs, dlq, executions, paused, registry, proc, pending, task,
                 retry, succeeded, failures>>

\* The first statement of ClaimJobs.  The count belongs to the snapshot taken
\* when the statement starts; the row lock on the queue is granted after that,
\* and because the previous holder only locked the row the count is not taken
\* again.  A budget of zero, or an error, moves on to the next queue.
ClaimSnapshot(w, q) ==
  /\ proc[w] = "up"
  /\ poll[w].queue = NoQueue
  /\ pending[w] = {}
  /\ q \in poll[w].todo
  /\ \E res \in Results(w) :
       LET budget == IF res = "ok" THEN ClaimBudget(jobs, q) ELSE 0 IN
         poll' = [poll EXCEPT
                    ![w] = [todo   |-> @.todo \ {q},
                            queue  |-> IF budget > 0 THEN q ELSE NoQueue,
                            budget |-> budget]]
  /\ UNCHANGED <<jobs, dlq, executions, paused, registry, proc, pending, task,
                 retry, succeeded, failures>>

\* The UPDATE of ClaimJobs and its commit.
ClaimCommit(w) ==
  /\ proc[w] = "up"
  /\ poll[w].queue # NoQueue
  /\ \E S \in ClaimChoices(jobs, poll[w].queue, poll[w].budget),
        res \in Results(w) :
       /\ jobs' = IF Applied(res) THEN ClaimJobs(jobs, S, w) ELSE jobs
       /\ pending' = [pending EXCEPT ![w] =
            IF res = "ok"
            THEN {[job |-> j, attempts |-> jobs[j].attempts] : j \in S}
            ELSE {}]
  /\ poll' = [poll EXCEPT ![w] = [@ EXCEPT !.queue = NoQueue, !.budget = 0]]
  /\ UNCHANGED <<dlq, executions, paused, registry, proc, task, retry,
                 succeeded, failures>>

\* dispatch blocks until the pool has a place, whatever the context says.
Dispatch(w, s, c) ==
  /\ proc[w] \in {"up", "stopping"}
  /\ Owner[s] = w
  /\ Free(s)
  /\ c \in pending[w]
  /\ pending' = [pending EXCEPT ![w] = @ \ {c}]
  /\ task' = [task EXCEPT ![s] =
       [stage |-> IF KeyOf[c.job] # NoKey THEN "gate" ELSE "start",
        job |-> c.job, attempts |-> c.attempts]]
  /\ UNCHANGED <<jobs, dlq, executions, paused, registry, proc, poll, retry,
                 succeeded, failures>>

-----------------------------------------------------------------------------
(* Worker process: executor goroutines (executeJob and handleFailure).     *)
(* They work on the copy of the row that ClaimJobs returned.               *)

\* The goroutine in slot s is about to run the statement of this stage.
At(s, stage) == /\ task[s].stage = stage
                /\ proc[Owner[s]] \in {"up", "stopping", "released"}

Goto(s, stage) == task' = [task EXCEPT ![s] = [@ EXCEPT !.stage = stage]]

\* The goroutine returns and its deferred function frees the slot.
Return(s) == task' = [task EXCEPT ![s] = Idle]

StatementResults(s) == Results(Owner[s])

\* The idempotency gate; a failed check counts as "not completed".
Gate(s) ==
  /\ At(s, "gate")
  /\ \E res \in StatementResults(s) :
       Goto(s, IF res = "ok"
                  /\ IsIdempotencyKeyCompleted(jobs, KeyOf[task[s].job])
               THEN "skip" ELSE "start")
  /\ UNCHANGED <<tables, proc, poll, pending, retry, history>>

\* A gate hit completes the job without running its handler.
SkipExecution(s) ==
  /\ At(s, "skip")
  /\ \E res \in StatementResults(s) :
       jobs' = IF Applied(res) THEN CompleteJob(jobs, task[s].job) ELSE jobs
  /\ Return(s)
  /\ UNCHANGED <<dlq, executions, paused, registry, proc, poll, pending, retry,
                 history>>

\* claimed -> running; on an error the goroutine returns.
StartRunning(s) ==
  /\ At(s, "start")
  /\ \E res \in StatementResults(s) :
       /\ jobs' = IF Applied(res) THEN SetJobRunning(jobs, task[s].job) ELSE jobs
       /\ IF res = "ok" THEN Goto(s, "handle") ELSE Return(s)
  /\ UNCHANGED <<dlq, executions, paused, registry, proc, poll, pending, retry,
                 history>>

\* The handler returns nil,
HandlerSucceeds(s) ==
  /\ At(s, "handle")
  /\ succeeded' = succeeded \cup {task[s].job}
  /\ Goto(s, "complete")
  /\ UNCHANGED <<tables, proc, poll, pending, retry, failures>>

\* or an error, or there is no handler of that type.
HandlerFails(s) ==
  /\ At(s, "handle")
  /\ LET j == task[s].job IN
       failures' = [failures EXCEPT ![j] = IF @ < MaxAttempts[j] THEN @ + 1 ELSE @]
  /\ Goto(s, "fail")
  /\ UNCHANGED <<tables, proc, poll, pending, retry, succeeded>>

\* Mutant: the success path records the execution and never completes the job.
CompleteOnlyRecords(s) ==
  /\ At(s, "complete")
  /\ Goto(s, "record")
  /\ UNCHANGED <<tables, proc, poll, pending, retry, history>>

\* Success path: an error of CompleteJob is only logged.
Complete(s) ==
  /\ At(s, "complete")
  /\ \E res \in StatementResults(s) :
       jobs' = IF Applied(res) THEN CompleteJob(jobs, task[s].job) ELSE jobs
  /\ Goto(s, "record")
  /\ UNCHANGED <<dlq, executions, paused, registry, proc, poll, pending, retry,
                 history>>

\* RecordExecution numbers the attempt from the copy claimed.
Recorded(s, status) ==
  [executions EXCEPT ![task[s].job] =
     @ \cup {[attempt |-> task[s].attempts + 1, status |-> status]}]

RecordCompleted(s) ==
  /\ At(s, "record")
  /\ \E res \in StatementResults(s) :
       executions' = IF Applied(res) THEN Recorded(s, "completed") ELSE executions
  /\ Return(s)
  /\ UNCHANGED <<jobs, dlq, paused, registry, proc, poll, pending, retry, history>>

\* Mutant: off by one in the comparison with max_attempts.
RecordFailedOffByOne(s) ==
  /\ At(s, "fail")
  /\ \E res \in StatementResults(s) :
       executions' = IF Applied(res) THEN Recorded(s, "failed") ELSE executions
  /\ Goto(s, IF task[s].attempts + 2 >= MaxAttempts[task[s].job]
             THEN "deadletter" ELSE "failjob")
  /\ UNCHANGED <<jobs, dlq, paused, registry, proc, poll, pending, retry, history>>

\* handleFailure: record the execution, then decide from the copied attempts.
RecordFailed(s) ==
  /\ At(s, "fail")
  /\ \E res \in StatementResults(s) :
       executions' = IF Applied(res) THEN Recorded(s, "failed") ELSE executions
  /\ Goto(s, IF task[s].attempts + 1 >= MaxAttempts[task[s].job]
             THEN "deadletter" ELSE "failjob")
  /\ UNCHANGED <<jobs, dlq, paused, registry, proc, poll, pending, retry, history>>

\* Mutant: MoveToDLQ as two statements outside a transaction.
DeadLetterInTwoStatements(s) ==
  /\ At(s, "deadletter")
  /\ \E updated, inserted \in StatementResults(s) :
       LET j == task[s].job IN
         /\ jobs' = IF Applied(updated)
                    THEN MoveToDLQ(jobs, j, task[s].attempts + 1) ELSE jobs
         /\ dlq' = IF Applied(inserted) THEN dlq \cup {j} ELSE dlq
  /\ Return(s)
  /\ UNCHANGED <<executions, paused, registry, proc, poll, pending, retry, history>>

\* One transaction; the UNIQUE constraint on job_id rolls it back when the
\* job has a dead_letter_queue row already.  Errors are only logged.
DeadLetter(s) ==
  /\ At(s, "deadletter")
  /\ \E res \in StatementResults(s) :
       LET j == task[s].job
           commits == Applied(res) /\ j \notin dlq
       IN /\ jobs' = IF commits
                     THEN MoveToDLQ(jobs, j, task[s].attempts + 1) ELSE jobs
          /\ dlq' = IF commits THEN dlq \cup {j} ELSE dlq
  /\ Return(s)
  /\ UNCHANGED <<executions, paused, registry, proc, poll, pending, retry, history>>

\* FailJob and RequeueForRetry are two statements outside any transaction,
\* and the second runs whatever became of the first.
MarkFailed(s) ==
  /\ At(s, "failjob")
  /\ \E res \in StatementResults(s) :
       jobs' = IF Applied(res)
               THEN FailJob(jobs, task[s].job, task[s].attempts + 1) ELSE jobs
  /\ Goto(s, "requeue")
  /\ UNCHANGED <<dlq, executions, paused, registry, proc, poll, pending, retry,
                 history>>

Requeue(s) ==
  /\ At(s, "requeue")
  /\ \E res \in StatementResults(s) :
       jobs' = IF Applied(res)
               THEN RequeueForRetry(jobs, task[s].job, task[s].attempts + 1)
               ELSE jobs
  /\ Return(s)
  /\ UNCHANGED <<dlq, executions, paused, registry, proc, poll, pending, retry,
                 history>>

-----------------------------------------------------------------------------
(* Reaper: the two statements of sweep; the second runs even if the first  *)
(* fails.                                                                  *)

ReapJobs ==
  /\ Orphaned(jobs) # {}
  /\ jobs' = RequeueOrphanedJobs(jobs)
  /\ UNCHANGED <<dlq, executions, paused, registry, engine, retry, history>>

\* Only workers with a heartbeat row are found: an unseeded one stays active.
MarkDeadWorkers ==
  /\ \E w \in Workers : registry[w] = "stale"
  /\ registry' = [w \in Workers |-> IF registry[w] = "stale" THEN "offline"
                                                             ELSE registry[w]]
  /\ UNCHANGED <<jobs, dlq, executions, paused, engine, retry, history>>

-----------------------------------------------------------------------------
(* Passage of time *)

BecomeDue(j) ==
  /\ jobs[j].status = "queued"
  /\ ~jobs[j].due
  /\ jobs' = [jobs EXCEPT ![j] = [@ EXCEPT !.due = TRUE]]
  /\ UNCHANGED <<dlq, executions, paused, registry, engine, retry, history>>

\* A lease runs out LeaseSeconds after the claim or the last heartbeat.  The
\* heartbeat interval is a third of the lease, so an active row of a live
\* worker lapses only if that worker is delayed: Lapsing.  So is a stopping
\* worker whose handlers outlive the lease: its heartbeats end at SIGTERM and
\* DrainTimeout is as long as the lease, but the shipped handlers return at
\* once when their context is cancelled.
LeaseRunsOut(j) ==
  /\ jobs[j].lease = "live"
  /\ \/ jobs[j].status \notin Active
     \/ proc[jobs[j].worker] = "down"
     \/ jobs[j].worker \in Lapsing
  /\ jobs' = [jobs EXCEPT ![j] = [@ EXCEPT !.lease = "expired"]]
  /\ UNCHANGED <<dlq, executions, paused, registry, engine, retry, history>>

\* last_seen_at falls behind the reaper's StaleThreshold.
HeartbeatGoesStale(w) ==
  /\ registry[w] = "fresh"
  /\ proc[w] = "down" \/ w \in Lapsing
  /\ registry' = [registry EXCEPT ![w] = "stale"]
  /\ UNCHANGED <<jobs, dlq, executions, paused, engine, retry, history>>

-----------------------------------------------------------------------------

ApiNext ==
  \/ \E j \in Jobs, kind \in Submissions : CreateJob(j, kind)
  \/ \E q \in Pausable : SetPaused(q)
  \/ \E r \in Retriers :
       \/ \E j \in Jobs : RetryCheck(r, j)
       \/ RetryCommit(r)
       \/ RetryAbort(r)

ProcessNext(w) ==
  \/ RegisterWorker(w)
  \/ Heartbeat(w)
  \/ Crash(w)
  \/ Terminate(w)
  \/ ShutdownRelease(w)
  \/ ShutdownDeregister(w)
  \/ PollOnce(w)
  \/ \E q \in Queues : ClaimSnapshot(w, q)
  \/ ClaimCommit(w)
  \/ \E s \in Slots, c \in pending[w] : Dispatch(w, s, c)

\* Every step an executor can take.
ExecutorNext(s) ==
  \/ Gate(s)
  \/ SkipExecution(s)
  \/ StartRunning(s)
  \/ HandlerSucceeds(s)
  \/ HandlerFails(s)
  \/ Complete(s)
  \/ RecordCompleted(s)
  \/ RecordFailed(s)
  \/ DeadLetter(s)
  \/ MarkFailed(s)
  \/ Requeue(s)

TimeNext ==
  \/ \E j \in Jobs : BecomeDue(j) \/ LeaseRunsOut(j)
  \/ \E w \in Workers : HeartbeatGoesStale(w)

Next ==
  \/ ApiNext
  \/ \E w \in Workers : ProcessNext(w)
  \/ \E s \in Slots : ExecutorNext(s)
  \/ ReapJobs
  \/ MarkDeadWorkers
  \/ TimeNext

Spec == Init /\ [][Next]_vars

\* What the code's scheduling justifies: started processes keep polling on
\* their tickers, goroutines run, an answered statement is followed by the
\* next one, the reaper's ticker fires, and time passes.  Clients, operators,
\* signals and crashes are under no obligation.
Fairness ==
  /\ \A w \in Workers :
       /\ WF_vars(RegisterWorker(w))
       /\ WF_vars(PollOnce(w))
       /\ WF_vars(\E q \in Queues : ClaimSnapshot(w, q))
       /\ WF_vars(ClaimCommit(w))
       /\ WF_vars(\E s \in Slots, c \in pending[w] : Dispatch(w, s, c))
       /\ WF_vars(ShutdownRelease(w))
       /\ WF_vars(ShutdownDeregister(w))
  /\ \A s \in Slots : WF_vars(ExecutorNext(s))
  /\ WF_vars(ReapJobs)
  /\ \A j \in Jobs : WF_vars(BecomeDue(j)) /\ WF_vars(LeaseRunsOut(j))

FairSpec == Spec /\ Fairness

-----------------------------------------------------------------------------
(* Properties that need workers to keep their leases (Lapsing = {}) and    *)
(* retry requests for one job not to overlap (at most one Retrier).        *)

\* Stages at which the goroutine still has a statement to run that writes the
\* jobs row, each of them WHERE id = $1 only.
Writing == {"gate", "skip", "start", "handle", "complete", "fail",
            "deadletter", "failjob", "requeue"}

\* The unfenced writes are safe: as long as its statements can reach the
\* database (its process is up), an executor that will still write the row of
\* its job is the one the row names as worker, the row is in the status the
\* executor left it in, and the attempts it will write are one more than the
\* row's.  (executeJob, handleFailure against UPDATE jobs ... WHERE id = $1.)
ExecutorsOwnTheirJobs ==
  \A s \in Slots :
    task[s].stage \in Writing /\ proc[Owner[s]] = "up" =>
      LET row == jobs[task[s].job] IN
        /\ row.worker = Owner[s]
        /\ row.status \in (CASE task[s].stage \in {"gate", "skip", "start"} -> {"claimed"}
                             [] task[s].stage = "requeue" -> {"running", "failed"}
                             [] OTHER -> {"running"})
        /\ row.status # "failed" => row.attempts = task[s].attempts

\* No job is executed by two goroutines at once, in one process or in two,
\* even while one of them drains after SIGTERM (handler.Handle in executeJob).
ExclusiveExecution ==
  \A s, t \in Slots :
    /\ s # t
    /\ task[s].stage = "handle"
    /\ task[t].stage = "handle"
    => task[s].job # task[t].job

\* The dead letter queue lists exactly the jobs in status dead_letter
\* (MoveToDLQ and RetryDLQJob each change both tables in one transaction).
DLQMatchesStatus == \A j \in Jobs : j \in dlq <=> jobs[j].status = "dead_letter"

\* Seen through status, attempts and the worker of an active row, the system
\* follows the life cycle of a job.
Lifecycle ==
  INSTANCE JobLifecycle
    WITH status   <- [j \in Jobs |-> jobs[j].status],
         attempts <- [j \in Jobs |-> jobs[j].attempts],
         holder   <- [j \in Jobs |-> IF jobs[j].status \in Active
                                     THEN jobs[j].worker ELSE NoWorker]

\* Every step of API, workers and reaper, whatever it interleaves with, moves
\* each job along the life cycle of JobLifecycle or leaves it where it is: no
\* executor, release, reap or retry acts on a row another party has taken.
FollowsLifecycle == Lifecycle!Spec

\* While its worker is up, an active row always has a claim waiting for a
\* slot or an executor that has not returned: nothing is held, and no
\* concurrency slot used, on behalf of nobody.  Needs statements that do not
\* fail (Lossy = {}): pollOnce and executeJob only log such errors.
NoAbandonedClaim ==
  \A j \in Jobs :
    jobs[j].status \in Active /\ proc[jobs[j].worker] = "up" =>
      \/ \E c \in pending[jobs[j].worker] : c.job = j
      \/ \E s \in Slots : /\ Owner[s] = jobs[j].worker
                          /\ task[s].job = j
                          /\ task[s].stage \in Writing

\* The budget of ClaimJobs is counted in a snapshot that may be older than
\* other claims, so the limit itself is not kept; but no more than one stale
\* budget per worker can be outstanding.
BoundedOverAdmission ==
  \A q \in Queues : Cardinality(ActiveIn(jobs, q))
                      <= ConcurrencyLimit[q] * Cardinality(Workers)

-----------------------------------------------------------------------------
(* Properties that hold under every fault *)

\* A job is completed only if its handler once returned nil (executeJob:
\* CompleteJob is reached from the success path, and from the idempotency gate
\* for a job that has completed before).  docs/DESIGN.md section 5: "a job will
\* be executed at least once before it reaches completed or dead_letter".
\* With one key in two queues the gate breaks it, as its statement does not
\* look at the queue.
CompletedWasExecuted ==
  \A j \in Jobs : jobs[j].status = "completed" => j \in succeeded

\* What is left of it when keys are shared between queues: the handler of the
\* job, or of a job with the same idempotency key, has returned nil.
SuccessBacksCompletion ==
  \A j \in Jobs : jobs[j].status = "completed" =>
    \/ j \in succeeded
    \/ KeyOf[j] # NoKey /\ \E k \in succeeded : KeyOf[k] = KeyOf[j]

\* A job is dead-lettered only after max_attempts failed runs, although every
\* attempt count written comes from a possibly stale copy (handleFailure).
FailuresBackDeadLetter ==
  \A j \in Jobs : jobs[j].status = "dead_letter" => failures[j] >= MaxAttempts[j]

\* A job in status dead_letter can be seen in, and retried from, the DLQ.
DeadLetterIsListed ==
  \A j \in Jobs : jobs[j].status = "dead_letter" => j \in dlq

-----------------------------------------------------------------------------
(* What comments and documents say and the code does not keep *)

\* internal/store/job.go: the FOR UPDATE on the queue row prevents
\* "over-admission above the concurrency limit".
ConcurrencyLimitKept ==
  \A q \in Queues : Cardinality(ActiveIn(jobs, q)) <= ConcurrencyLimit[q]

\* docs/DESIGN.md section 2: completed is "Terminal success. Immutable."
CompletedIsFinal ==
  [][\A j \in Jobs : jobs[j].status = "completed" =>
                       jobs'[j].status = "completed"]_vars

\* docs/DESIGN.md section 4: "The reaper never fires for graceful shutdowns."
\* A worker that has deregistered leaves no active row behind.
ShutdownLeavesNoOrphan ==
  \A j \in Jobs : jobs[j].status \in Active => registry[jobs[j].worker] # "offline"

\* docs/DESIGN.md section 4: "Reaper sets J to failed, increments attempt" and
\* "If attempt < max_retries, J goes back to pending ... Otherwise, J goes to
\* dead_letter."  RequeueOrphanedJobs does neither.
ReapedIsCharged ==
  [][ReapJobs => \A j \in Orphaned(jobs) :
       IF jobs[j].attempts + 1 < MaxAttempts[j]
       THEN jobs'[j].attempts = jobs[j].attempts + 1
       ELSE jobs'[j].status = "dead_letter"]_vars

-----------------------------------------------------------------------------
(* Liveness *)

\* The job sits in "failed" and nobody will requeue it: its worker stopped
\* between FailJob and RequeueForRetry.
Stranded(j) ==
  /\ jobs[j].status = "failed"
  /\ ~ \E s \in Slots : task[s].stage = "requeue" /\ task[s].job = j

\* Crashes notwithstanding, and as long as one worker stays up, statements do
\* not fail and nobody retries, the jobs submitted all end completed or
\* dead-lettered, or stranded, for good: no job is queued, claimed or running
\* for ever, and none comes back from an end it has reached (pollLoop,
\* executeJob, handleFailure and the reaper together).
SubmittedJobsSettle ==
  <>[](\A j \in Jobs : Exists(jobs, j) =>
         jobs[j].status \in {"completed", "dead_letter"} \/ Stranded(j))

\* docs/DESIGN.md section 2: failed is "Transient -- will be retried or moved
\* to DLQ."
FailedIsTransient ==
  \A j \in Jobs : jobs[j].status = "failed" ~> jobs[j].status # "failed"
=============================================================================
