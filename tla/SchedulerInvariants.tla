------------------------ MODULE SchedulerInvariants -------------------------
(***************************************************************************)
(* The inductive invariants of Scheduler, and the kinds of step the proofs *)
(* about it speak of.                                                      *)
(***************************************************************************)
EXTENDS Scheduler

-----------------------------------------------------------------------------
(* Rows *)

\* The columns the properties look at.
RowIs(row, status, worker, lease, attempts) ==
  /\ row.status = status
  /\ row.worker = worker
  /\ row.lease = lease
  /\ row.attempts = attempts

-----------------------------------------------------------------------------
(* What one step can do to a row and to a goroutine *)

SameRow(k) == /\ jobs'[k].status = jobs[k].status
              /\ jobs'[k].attempts = jobs[k].attempts

\* Submission, claim, release, reaping and retry by a client.
Rescheduled(k) == /\ jobs'[k].status \in {"queued", "scheduled", "claimed"}
                  /\ jobs'[k].attempts \in {jobs[k].attempts, 0}

\* The statements of the goroutine in slot s.
WrittenBy(s, k) ==
  /\ task[s].job = k
  /\ \/ /\ task[s].stage = "start"
        /\ jobs'[k].status = "running"
        /\ jobs'[k].attempts = jobs[k].attempts
     \/ /\ task[s].stage \in {"skip", "complete"}
        /\ jobs'[k].status = "completed"
        /\ jobs'[k].attempts = jobs[k].attempts
     \/ /\ task[s].stage = "deadletter"
        /\ jobs'[k].status = "dead_letter"
        /\ jobs'[k].attempts = task[s].attempts + 1
        /\ k \in dlq'
     \/ /\ task[s].stage = "failjob"
        /\ jobs'[k].status = "failed"
        /\ jobs'[k].attempts = task[s].attempts + 1
     \/ /\ task[s].stage = "requeue"
        /\ jobs'[k].status = "queued"
        /\ jobs'[k].attempts = task[s].attempts + 1

RowStep(k) == /\ \/ SameRow(k)
                 \/ Rescheduled(k)
                 \/ \E s \in Slots : WrittenBy(s, k)
              /\ k \in dlq => k \in dlq' \/ jobs'[k].status = "queued"

\* The edges of executeJob and handleFailure, with what each one establishes.
Advanced(s) ==
  /\ task'[s].job = task[s].job
  /\ task'[s].attempts = task[s].attempts
  /\ task[s].job \in Jobs
  /\ task[s].attempts \in Nat
  /\ \/ /\ task[s].stage = "gate"
        /\ task'[s].stage \in {"start", "skip"}
        /\ task'[s].stage = "skip" =>
             IsIdempotencyKeyCompleted(jobs, KeyOf[task[s].job])
     \/ task[s].stage = "start" /\ task'[s].stage = "handle"
     \/ /\ task[s].stage = "handle"
        /\ task'[s].stage = "complete"
        /\ task[s].job \in succeeded'
     \/ /\ task[s].stage = "handle"
        /\ task'[s].stage = "fail"
        /\ failures'[task[s].job] > failures[task[s].job]
             \/ failures'[task[s].job] >= MaxAttempts[task[s].job]
     \/ task[s].stage = "complete" /\ task'[s].stage = "record"
     \/ /\ task[s].stage = "fail"
        /\ task'[s].stage \in {"deadletter", "failjob"}
        /\ task'[s].stage = "deadletter" =>
             task[s].attempts + 1 >= MaxAttempts[task[s].job]
     \/ task[s].stage = "failjob" /\ task'[s].stage = "requeue"

\* A claim of the slot's worker is dispatched to it.
Started(s) ==
  \E c \in pending[Owner[s]] :
    /\ task'[s].job = c.job
    /\ task'[s].attempts = c.attempts
    /\ task'[s].stage \in {"gate", "start"}
    /\ task'[s].stage = "gate" => KeyOf[c.job] # NoKey

TaskStep(s) == \/ task'[s] = task[s]
               \/ task'[s].stage = "idle"
               \/ Advanced(s)
               \/ Started(s)

-----------------------------------------------------------------------------
(* A completed job is backed by a success, a dead one by its failures *)

\* The handler of j, or of a job with the key of j, has returned nil.
Backed(j) == \/ j \in succeeded
             \/ KeyOf[j] # NoKey /\ \E k \in succeeded : KeyOf[k] = KeyOf[j]

\* SuccessBacksCompletion alone is not inductive: a goroutine about to run
\* CompleteJob must be known to have earned it.
SuccessInv ==
  /\ SuccessBacksCompletion
  /\ \A s \in Slots :
       /\ task[s].stage \in {"gate", "skip"} => KeyOf[task[s].job] # NoKey
       /\ task[s].stage \in {"skip", "complete"} => Backed(task[s].job)

\* Two jobs the partial unique index does not let into the table together.
Clash(j, k) == KeyOf[j] # NoKey /\ KeyOf[j] = KeyOf[k] /\ QueueOf[j] = QueueOf[k]

UniqueKeys == \A j, k \in Jobs :
  Clash(j, k) /\ Exists(jobs, j) /\ Exists(jobs, k) => j = k

\* Whatever claims, goroutines, retries and successes speak of has a row: so
\* no statement with WHERE id = $1 makes one.
ExistInv ==
  /\ UniqueKeys
  /\ \A s \in Slots : task[s].stage # "idle" => Exists(jobs, task[s].job)
  /\ \A w \in Workers : \A c \in pending[w] : Exists(jobs, c.job)
  /\ \A r \in Retriers : retry[r] # NoJob => Exists(jobs, retry[r])
  /\ \A j \in succeeded : Exists(jobs, j)

\* Clients do not use one idempotency key in two queues.
KeysPerQueue == \A j, k \in Jobs :
  KeyOf[j] # NoKey /\ KeyOf[j] = KeyOf[k] => QueueOf[j] = QueueOf[k]

\* n is covered by failed runs of j, or j has used up its attempts.
Charged(j, n) == n <= failures[j] \/ failures[j] >= MaxAttempts[j]

\* Every copy of the attempt count, in a row, in a claim or in a goroutine, is
\* covered; one more is covered once the goroutine's run has failed.
FailureInv ==
  /\ FailuresBackDeadLetter
  /\ \A j \in Jobs : Charged(j, jobs[j].attempts)
  /\ \A w \in Workers : \A c \in pending[w] : Charged(c.job, c.attempts)
  /\ \A s \in Slots :
       /\ task[s].stage # "idle" => Charged(task[s].job, task[s].attempts)
       /\ task[s].stage \in {"fail", "deadletter", "failjob", "requeue"} =>
            Charged(task[s].job, task[s].attempts + 1)
       /\ task[s].stage = "deadletter" =>
            failures[task[s].job] >= MaxAttempts[task[s].job]

-----------------------------------------------------------------------------
(* Ownership *)

\* The process has goroutines that may run statements.
InUse(w) == proc[w] \in {"up", "stopping", "released"}

\* Only a process in use has goroutines, and claims are dispatched before the
\* process releases.
InUseInv == /\ \A w \in Workers : proc[w] \notin {"up", "stopping"} => pending[w] = {}
            /\ \A s \in Slots : task[s].stage # "idle" => InUse(Owner[s])

\* The lease of an active row runs out only once its worker is gone.
LeaseInv ==
  \A j \in Jobs : jobs[j].status \in Active =>
    /\ jobs[j].worker \in Workers
    /\ jobs[j].lease = "expired" => proc[jobs[j].worker] = "down"

\* A retry that passed its check still finds the job in the dead letter queue.
RevivalInv == \A r \in Retriers :
  retry[r] # NoJob => retry[r] \in Jobs /\ jobs[retry[r]].status = "dead_letter"

\* The row is w's, in this status, with n attempts charged.
Copied(row, w, n, status) ==
  row.worker = w /\ row.status = status /\ row.attempts = n

\* A claim waiting in a process that is up is a copy of its row.
ClaimsInv == \A w \in Workers : proc[w] = "up" =>
  \A c \in pending[w] : Copied(jobs[c.job], w, c.attempts, "claimed")

\* What an executor of worker w at this stage, with n attempts in its copy,
\* relies on in the row it is going to write.
Holds(stage, row, w, n) ==
  /\ stage \in {"gate", "skip", "start"} => Copied(row, w, n, "claimed")
  /\ stage \in {"handle", "complete", "fail", "deadletter", "failjob"} =>
       Copied(row, w, n, "running")
  /\ stage = "requeue" =>
       Copied(row, w, n, "running") \/ Copied(row, w, n + 1, "failed")

HoldersInv == \A s \in Slots : proc[Owner[s]] = "up" =>
  Holds(task[s].stage, jobs[task[s].job], Owner[s], task[s].attempts)

\* handleFailure has compared the attempts with max_attempts.
ComparedInv == \A s \in Slots :
  /\ task[s].stage = "deadletter" =>
       task[s].attempts + 1 >= MaxAttempts[task[s].job]
  /\ task[s].stage \in {"failjob", "requeue"} =>
       task[s].attempts + 1 < MaxAttempts[task[s].job]

\* A handler that runs keeps the row, even in a process that is stopping.
HandledInv == \A s \in Slots : task[s].stage = "handle" =>
  jobs[task[s].job].worker = Owner[s] /\ jobs[task[s].job].status = "running"

\* Within one process that is up, no two parties work on one job.
ApartInv ==
  \A s \in Slots : task[s].stage \in Writing /\ proc[Owner[s]] = "up" =>
    /\ \A c \in pending[Owner[s]] : c.job # task[s].job
    /\ \A x \in Slots \ {s} :
         Owner[x] = Owner[s] /\ task[x].stage \in Writing => task[x].job # task[s].job

\* An attempt is left unless the job is dead-lettered.
AttemptsInv == \A j \in Jobs :
  jobs[j].status # "dead_letter" => jobs[j].attempts < MaxAttempts[j]

OwnInv == /\ InUseInv /\ LeaseInv /\ RevivalInv /\ ClaimsInv /\ HoldersInv
          /\ ComparedInv /\ HandledInv /\ ApartInv /\ AttemptsInv
          /\ ExclusiveExecution /\ DLQMatchesStatus

\* The environment the theorems assume: leases do not lapse under a live
\* worker, and retry requests do not overlap.
Orderly == Lapsing = {} /\ \A r, x \in Retriers : r = x

-----------------------------------------------------------------------------
(* Steps of the environment *)

\* The row keeps its owner; its lease may be renewed, and may run out where
\* nobody depends on it.
Kept(k) ==
  /\ jobs'[k].status = jobs[k].status
  /\ jobs'[k].worker = jobs[k].worker
  /\ jobs'[k].attempts = jobs[k].attempts
  /\ jobs'[k].status \in Active /\ jobs'[k].lease = "expired" =>
       jobs[k].lease = "expired" \/ proc[jobs[k].worker] = "down"

Submitted(k) == /\ jobs[k].status = "absent"
                /\ jobs'[k].status \in {"queued", "scheduled"}
                /\ jobs'[k].attempts = 0

ClaimedBy(w, k) == /\ jobs[k].status = "queued"
                   /\ RowIs(jobs'[k], "claimed", w, "live", jobs[k].attempts)

\* Reaped after the lease, or released by a process that stops.
Returned(k) == /\ jobs[k].status \in Active
               /\ \/ jobs[k].lease = "expired"
                  \/ jobs[k].status = "claimed" /\ proc[jobs[k].worker] = "stopping"
               /\ RowIs(jobs'[k], "queued", NoWorker, "none", jobs[k].attempts)

Moved(k) == \/ Kept(k)
            \/ Submitted(k)
            \/ \E w \in Workers : ClaimedBy(w, k)
            \/ Returned(k)

\* A process starts once, and a process that is gone stays so.
ProcStep(w) == /\ proc[w] = "down" => proc'[w] = "down"
               /\ proc'[w] = "up" => proc[w] \in {"new", "up"}

\* The claims of w: unchanged, gone, or those this step makes.
ClaimsStep(w) ==
  \/ pending'[w] = {}
  \/ pending'[w] = pending[w] /\ (proc'[w] = proc[w] \/ proc'[w] = "stopping"
                                    \/ pending[w] = {})
  \/ /\ proc[w] = "up" /\ proc'[w] = "up"
     /\ \A c \in pending'[w] : /\ jobs[c.job].status = "queued"
                               /\ Copied(jobs'[c.job], w, c.attempts, "claimed")

\* A goroutine stays where it is, or ends with its process.
StillStep(s) == \/ task'[s].stage = "idle"
                \/ task'[s] = task[s] /\ (proc'[Owner[s]] = proc[Owner[s]]
                                            \/ proc'[Owner[s]] \in {"stopping", "released"}
                                            \/ task[s].stage = "idle")

RevivalStep(r) == \/ retry'[r] \in {NoJob, retry[r]}
                  \/ retry'[r] \in Jobs /\ jobs[retry'[r]].status = "dead_letter"

EnvStep == /\ \A k \in Jobs : Moved(k)
           /\ \A w \in Workers : ProcStep(w) /\ ClaimsStep(w)
           /\ \A s \in Slots : StillStep(s)
           /\ \A r \in Retriers : RevivalStep(r)
           /\ dlq' = dlq

-----------------------------------------------------------------------------
(* Steps of an executor *)

\* The goroutine goes on to this stage with the same copy of the row.
Goes(s, stage) == /\ task'[s].stage = stage
                  /\ task'[s].job = task[s].job
                  /\ task'[s].attempts = task[s].attempts

Ends(s) == task'[s].stage \in {"idle", "record"}

\* A step that writes no row: a read, a local decision, or a statement that
\* failed.
Turns(s) ==
  /\ jobs' = jobs /\ dlq' = dlq
  /\ \/ Ends(s)
     \/ task[s].stage = "gate" /\ (Goes(s, "skip") \/ Goes(s, "start"))
     \/ task[s].stage = "handle" /\ (Goes(s, "complete") \/ Goes(s, "fail"))
     \/ /\ task[s].stage = "fail" /\ Goes(s, "deadletter")
        /\ task[s].attempts + 1 >= MaxAttempts[task[s].job]
     \/ /\ task[s].stage = "fail" /\ Goes(s, "failjob")
        /\ task[s].attempts + 1 < MaxAttempts[task[s].job]
     \/ task[s].stage = "failjob" /\ Goes(s, "requeue")

\* A statement that writes the row, in a process that is up.
Writes(s) ==
  LET j == task[s].job
      n == task[s].attempts
      row == jobs[j]
      Leaves(status, m) == RowIs(jobs'[j], status, row.worker, row.lease, m)
  IN /\ proc[Owner[s]] = "up"
     /\ \/ /\ task[s].stage \in {"skip", "complete"} /\ Ends(s)
           /\ Leaves("completed", row.attempts) /\ dlq' = dlq
        \/ /\ task[s].stage = "start" /\ (Ends(s) \/ Goes(s, "handle"))
           /\ Leaves("running", row.attempts) /\ dlq' = dlq
        \/ /\ task[s].stage = "deadletter" /\ Ends(s)
           /\ Leaves("dead_letter", n + 1) /\ dlq' = dlq \cup {j}
        \/ /\ task[s].stage = "failjob" /\ Goes(s, "requeue")
           /\ Leaves("failed", n + 1) /\ dlq' = dlq
        \/ /\ task[s].stage = "requeue" /\ Ends(s)
           /\ RowIs(jobs'[j], "queued", NoWorker, "none", n + 1) /\ dlq' = dlq

ExecStep(s) ==
  /\ task[s].stage # "idle" /\ InUse(Owner[s])
  /\ UNCHANGED <<proc, pending, retry>>
  /\ \A x \in Slots \ {s} : task'[x] = task[x]
  /\ \A k \in Jobs : k # task[s].job => jobs'[k] = jobs[k]
  /\ Turns(s) \/ Writes(s)

Holder(row) == IF row.status \in Active THEN row.worker ELSE NoWorker

-----------------------------------------------------------------------------
(* Admission *)

\* The rows of q that poll loops may still claim under the budgets they read.
Granted(q) ==
  {p \in Workers \X (1..ConcurrencyLimit[q]) :
     poll[p[1]].queue = q /\ p[2] <= poll[p[1]].budget}

\* Rows active and rows granted together stay within one limit per worker.
AdmitInv ==
  /\ \A w \in Workers : poll[w].queue # NoQueue =>
       poll[w].budget <= ConcurrencyLimit[poll[w].queue]
  /\ \A q \in Queues : Cardinality(ActiveIn(jobs, q)) + Cardinality(Granted(q))
                         <= ConcurrencyLimit[q] * Cardinality(Workers)

\* A poll loop between the two statements of ClaimJobs has no claims waiting,
\* so the claims it gets replace none.
BackedInv ==
  /\ \A j \in Jobs : jobs[j].status \in Active => proc[jobs[j].worker] # "new"
  /\ \A w \in Workers : poll[w].queue # NoQueue => pending[w] = {}
  /\ NoAbandonedClaim

\* No row becomes active or changes hands.
NoneActivated == \A k \in Jobs : jobs'[k].status \in Active =>
  jobs[k].status \in Active /\ jobs'[k].worker = jobs[k].worker

\* The grant of w stays or is dropped.
GrantStep(w) == poll'[w].queue # NoQueue =>
  poll'[w].queue = poll[w].queue /\ poll'[w].budget = poll[w].budget

\* A process that is up keeps its claims and goroutines.
EngineStep(w) ==
  /\ proc'[w] = "new" => proc[w] = "new"
  /\ poll'[w].queue # NoQueue => pending'[w] = pending[w]
  /\ proc'[w] = "up" => /\ proc[w] \in {"new", "up"} /\ pending'[w] = pending[w]
                        /\ \A s \in Slots : Owner[s] = w => task'[s] = task[s]

Quiet == NoneActivated /\ \A w \in Workers : GrantStep(w) /\ EngineStep(w)
=============================================================================
