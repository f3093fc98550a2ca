------------------------------ MODULE JobStore ------------------------------
(***************************************************************************)
(* The jobs table and the SQL statements the Go services run against it    *)
(* (src/internal/store).  A table is a function from jobs to rows; each    *)
(* operator below is ONE statement (or one transaction whose effect is     *)
(* visible only at its commit) and returns the table it leaves behind.     *)
(*                                                                         *)
(* Time stamps are abstracted to what the statements compare with NOW():   *)
(*   due   -- next_run_at <= NOW()                                         *)
(*   lease -- lease_expires_at IS NULL ("none"), >= NOW() ("live") or      *)
(*            < NOW() ("expired")                                          *)
(***************************************************************************)
EXTENDS Naturals, FiniteSets

CONSTANTS
  Jobs,              \* ids of the jobs clients may submit
  Queues,            \* ids of the queues
  Workers,           \* ids of worker processes; a restart takes a new id
  NoWorker,          \* worker_id IS NULL
  QueueOf,           \* the queue a job is submitted to
  KeyOf,             \* its idempotency key
  NoKey,             \* idempotency_key IS NULL
  Priority,          \* its priority
  MaxAttempts,       \* its max_attempts
  ConcurrencyLimit   \* per queue; a NULL limit is 2147483647 (COALESCE)

ASSUME JobsFinite == IsFiniteSet(Jobs)
ASSUME NoWorkerAssumption == NoWorker \notin Workers
ASSUME QueueOfAssumption == QueueOf \in [Jobs -> Queues]
ASSUME PriorityAssumption == Priority \in [Jobs -> Nat]
ASSUME MaxAttemptsAssumption == MaxAttempts \in [Jobs -> Nat \ {0}]
ASSUME LimitAssumption == ConcurrencyLimit \in [Queues -> Nat]

\* The job_status enum, and "absent" for an id with no row.
Status == {"absent", "queued", "scheduled", "claimed", "running",
           "completed", "failed", "dead_letter"}

\* The statuses that hold a concurrency slot and that the reaper scans.
Active == {"claimed", "running"}

Row == [status   : Status,
        worker   : Workers \cup {NoWorker},
        lease    : {"none", "live", "expired"},
        due      : BOOLEAN,
        attempts : Nat]

NoRow == [status |-> "absent", worker |-> NoWorker, lease |-> "none",
          due |-> FALSE, attempts |-> 0]

Exists(t, j) == t[j].status # "absent"

-----------------------------------------------------------------------------
(* JobRepository: submission and claiming *)

\* The kinds of submission buildJobInput tells apart.
Kinds == {"immediate", "delayed", "scheduled"}

\* The row buildJobInput prepares: run_at and cron jobs are "scheduled",
\* everything else is "queued" with next_run_at now or after the delay.
NewRow(kind) ==
  [NoRow EXCEPT !.status = IF kind = "scheduled" THEN "scheduled" ELSE "queued",
                !.due    = (kind = "immediate")]

\* The partial unique index on (queue_id, idempotency_key).
KeyTaken(t, j) ==
  /\ KeyOf[j] # NoKey
  /\ \E k \in Jobs : /\ Exists(t, k)
                     /\ QueueOf[k] = QueueOf[j]
                     /\ KeyOf[k] = KeyOf[j]

\* INSERT ... ON CONFLICT DO NOTHING; on a conflict the existing row is
\* returned and the table is left as it is.
Create(t, j, kind) == IF KeyTaken(t, j) THEN t ELSE [t EXCEPT ![j] = NewRow(kind)]

ActiveIn(t, q) == {j \in Jobs : QueueOf[j] = q /\ t[j].status \in Active}

\* Mutant: off by one, a job is admitted at the limit.
ClaimBudgetOneMore(t, q) ==
  LET active == Cardinality(ActiveIn(t, q)) IN
    IF ConcurrencyLimit[q] >= active THEN ConcurrencyLimit[q] + 1 - active ELSE 0

\* GREATEST(COALESCE(limit, MAXINT) - COUNT(active), 0) in the statement's
\* snapshot.
ClaimBudget(t, q) ==
  LET active == Cardinality(ActiveIn(t, q)) IN
    IF ConcurrencyLimit[q] > active THEN ConcurrencyLimit[q] - active ELSE 0

\* Mutant: the claim's subselect forgets status = 'queued'.
ClaimableAnyStatus(t, q) == {j \in Jobs : QueueOf[j] = q /\ Exists(t, j) /\ t[j].due}

Claimable(t, q) ==
  {j \in Jobs : QueueOf[j] = q /\ t[j].status = "queued" /\ t[j].due}

\* The row sets ORDER BY priority DESC, next_run_at ASC LIMIT n may select;
\* next_run_at only breaks ties of priority, so ties are left open.
ClaimChoices(t, q, n) ==
  {S \in SUBSET Claimable(t, q) :
     /\ Cardinality(S) = IF n < Cardinality(Claimable(t, q))
                         THEN n ELSE Cardinality(Claimable(t, q))
     /\ \A j \in S, k \in Claimable(t, q) \ S : Priority[j] >= Priority[k]}

ClaimJobs(t, S, w) ==
  [j \in Jobs |-> IF j \in S
                  THEN [t[j] EXCEPT !.status = "claimed", !.worker = w,
                                    !.lease = "live"]
                  ELSE t[j]]

\* The UPDATE of RetryDLQJob; its WHERE clause is the id alone.
RetryDLQJob(t, j) ==
  [t EXCEPT ![j] = [@ EXCEPT !.status = "queued", !.attempts = 0, !.due = TRUE,
                             !.worker = NoWorker, !.lease = "none"]]

-----------------------------------------------------------------------------
(* WorkerStore: every per-job UPDATE has WHERE id = $1 and nothing more *)

SetJobRunning(t, j) == [t EXCEPT ![j] = [@ EXCEPT !.status = "running"]]

CompleteJob(t, j) == [t EXCEPT ![j] = [@ EXCEPT !.status = "completed"]]

\* Mutant: the failed attempt is dead-lettered on the row alone.
FailJobAsDead(t, j, n) ==
  [t EXCEPT ![j] = [@ EXCEPT !.status = "dead_letter", !.attempts = n]]

FailJob(t, j, n) == [t EXCEPT ![j] = [@ EXCEPT !.status = "failed", !.attempts = n]]

\* Mutant: attempts = attempts + 1, charged a second time after FailJob.
RequeueChargingAgain(t, j, n) ==
  [t EXCEPT ![j] = [@ EXCEPT !.status = "queued", !.due = FALSE,
                             !.attempts = @ + 1,
                             !.worker = NoWorker, !.lease = "none"]]

\* nextRunAt lies in the future: the retry is not due yet.
RequeueForRetry(t, j, n) ==
  [t EXCEPT ![j] = [@ EXCEPT !.status = "queued", !.due = FALSE, !.attempts = n,
                             !.worker = NoWorker, !.lease = "none"]]

\* Mutant: MoveToDLQ leaves the job in 'failed'.
MoveToDLQAsFailed(t, j, n) ==
  [t EXCEPT ![j] = [@ EXCEPT !.status = "failed", !.attempts = n]]

\* The jobs half of the MoveToDLQ transaction.
MoveToDLQ(t, j, n) ==
  [t EXCEPT ![j] = [@ EXCEPT !.status = "dead_letter", !.attempts = n]]

\* Mutants: the release forgets status = 'claimed', or worker_id = $1.
ReleaseAnyStatus(t, w) ==
  [j \in Jobs |-> IF t[j].worker = w /\ t[j].status \in Active
                  THEN [t[j] EXCEPT !.status = "queued", !.worker = NoWorker,
                                    !.lease = "none"]
                  ELSE t[j]]

ReleaseAnyWorker(t, w) ==
  [j \in Jobs |-> IF t[j].status = "claimed"
                  THEN [t[j] EXCEPT !.status = "queued", !.worker = NoWorker,
                                    !.lease = "none"]
                  ELSE t[j]]

\* Graceful shutdown gives back what was claimed and never started.
ReleaseJobs(t, w) ==
  [j \in Jobs |-> IF t[j].worker = w /\ t[j].status = "claimed"
                  THEN [t[j] EXCEPT !.status = "queued", !.worker = NoWorker,
                                    !.lease = "none"]
                  ELSE t[j]]

\* Mutant: the check forgets status = 'completed'.
IsIdempotencyKeyRunning(t, key) ==
  \E k \in Jobs : KeyOf[k] = key /\ t[k].status \in {"running", "completed"}

\* EXISTS(... WHERE idempotency_key = $1 AND status = 'completed'): the
\* statement does not look at queue_id.
IsIdempotencyKeyCompleted(t, key) ==
  \E k \in Jobs : KeyOf[k] = key /\ t[k].status = "completed"

\* The lease half of Heartbeat: an expired lease is renewed as well.
RenewLeases(t, w) ==
  [j \in Jobs |-> IF t[j].worker = w /\ t[j].status \in Active
                  THEN [t[j] EXCEPT !.lease = "live"] ELSE t[j]]

-----------------------------------------------------------------------------
(* ReaperStore *)

\* Mutants: the reaper forgets lease_expires_at < NOW(), 'claimed', or the
\* status altogether (CompleteJob leaves the lease on the row).
OrphanedAnyLease(t) == {j \in Jobs : t[j].status \in Active}

OrphanedAnyStatus(t) == {j \in Jobs : t[j].lease = "expired"}

OrphanedRunningOnly(t) ==
  {j \in Jobs : t[j].status = "running" /\ t[j].lease = "expired"}

\* status IN ('claimed','running') AND lease_expires_at < NOW(); a NULL lease
\* is never smaller than NOW().
Orphaned(t) == {j \in Jobs : t[j].status \in Active /\ t[j].lease = "expired"}

\* Mutant: the status DESIGN.md names, which the enum does not have.
RequeueOrphanedAsPending(t) ==
  [j \in Jobs |-> IF j \in Orphaned(t)
                  THEN [t[j] EXCEPT !.status = "pending", !.worker = NoWorker,
                                    !.lease = "none", !.due = TRUE]
                  ELSE t[j]]

RequeueOrphanedJobs(t) ==
  [j \in Jobs |-> IF j \in Orphaned(t)
                  THEN [t[j] EXCEPT !.status = "queued", !.worker = NoWorker,
                                    !.lease = "none", !.due = TRUE]
                  ELSE t[j]]
=============================================================================
