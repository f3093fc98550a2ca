--------------------------- MODULE SchedulerSteps ---------------------------
(***************************************************************************)
(* What the statements of JobStore return and do to each row, and what one *)
(* step of Scheduler can do: it keeps the types, and it changes a row      *)
(* (RowSteps), a goroutine (TaskSteps), a claim waiting for a slot         *)
(* (PendingSteps) and the history (HistorySteps) in few ways, whatever fails. *)
(***************************************************************************)
EXTENDS SchedulerInvariants, TLAPS

-----------------------------------------------------------------------------
(* The statements of JobStore keep the table well typed *)

\* Single-row statements.
LEMMA RowStatementsTyping ==
  ASSUME NEW t \in [Jobs -> Row], NEW j \in Jobs, NEW n \in Nat
  PROVE  /\ \A kind \in Kinds : Create(t, j, kind) \in [Jobs -> Row]
         /\ RetryDLQJob(t, j) \in [Jobs -> Row]
         /\ SetJobRunning(t, j) \in [Jobs -> Row]
         /\ CompleteJob(t, j) \in [Jobs -> Row]
         /\ FailJob(t, j, n) \in [Jobs -> Row]
         /\ RequeueForRetry(t, j, n) \in [Jobs -> Row]
         /\ MoveToDLQ(t, j, n) \in [Jobs -> Row]
<1> USE DEF Row, Status
<1>1. \A kind \in Kinds : Create(t, j, kind) \in [Jobs -> Row]
  BY Zenon DEF Create, NewRow, NoRow
<1>2. RetryDLQJob(t, j) \in [Jobs -> Row]
  BY ZenonT(40) DEF RetryDLQJob
<1>3. SetJobRunning(t, j) \in [Jobs -> Row]
  BY Zenon DEF SetJobRunning
<1>4. CompleteJob(t, j) \in [Jobs -> Row]
  BY Zenon DEF CompleteJob
<1>5. FailJob(t, j, n) \in [Jobs -> Row]
  BY ZenonT(40) DEF FailJob
<1>6. RequeueForRetry(t, j, n) \in [Jobs -> Row]
  BY ZenonT(40) DEF RequeueForRetry
<1>7. MoveToDLQ(t, j, n) \in [Jobs -> Row]
  BY ZenonT(40) DEF MoveToDLQ
<1> QED
  BY Zenon, <1>1, <1>2, <1>3, <1>4, <1>5, <1>6, <1>7

\* Statements that touch many rows.
LEMMA SetStatementsTyping ==
  ASSUME NEW t \in [Jobs -> Row], NEW w \in Workers, NEW S \in SUBSET Jobs
  PROVE  /\ ClaimJobs(t, S, w) \in [Jobs -> Row]
         /\ ReleaseJobs(t, w) \in [Jobs -> Row]
         /\ RenewLeases(t, w) \in [Jobs -> Row]
<1> USE DEF Row, Status
<1>1. ClaimJobs(t, S, w) \in [Jobs -> Row]
  BY ZenonT(40) DEF ClaimJobs
<1>2. ReleaseJobs(t, w) \in [Jobs -> Row]
  BY ZenonT(40) DEF ReleaseJobs
<1>3. RenewLeases(t, w) \in [Jobs -> Row]
  BY Zenon DEF RenewLeases
<1> QED
  BY Zenon, <1>1, <1>2, <1>3

\* The reaper's statement, and the two columns that the clock moves.
LEMMA BackgroundStatementsTyping ==
  ASSUME NEW t \in [Jobs -> Row]
  PROVE  /\ RequeueOrphanedJobs(t) \in [Jobs -> Row]
         /\ \A j \in Jobs : /\ [t[j] EXCEPT !.due = TRUE] \in Row
                           /\ [t[j] EXCEPT !.lease = "expired"] \in Row
<1> USE DEF Row, Status
<1>1. RequeueOrphanedJobs(t) \in [Jobs -> Row]
  BY ZenonT(40) DEF RequeueOrphanedJobs
<1>2. ASSUME NEW j \in Jobs PROVE [t[j] EXCEPT !.due = TRUE] \in Row
  BY ZenonT(40)
<1>3. ASSUME NEW j \in Jobs PROVE [t[j] EXCEPT !.lease = "expired"] \in Row
  BY Zenon
<1> QED
  BY Zenon, <1>1, <1>2, <1>3

-----------------------------------------------------------------------------
(* What each statement does to a row *)

\* A statement with WHERE id = $1 leaves every other row as it was.
LEMMA OtherRows ==
  ASSUME NEW t \in [Jobs -> Row], NEW j \in Jobs, NEW n, NEW k \in Jobs, k # j
  PROVE  /\ \A kind \in Kinds : Create(t, j, kind)[k] = t[k]
         /\ RetryDLQJob(t, j)[k] = t[k]
         /\ SetJobRunning(t, j)[k] = t[k]
         /\ CompleteJob(t, j)[k] = t[k]
         /\ FailJob(t, j, n)[k] = t[k]
         /\ RequeueForRetry(t, j, n)[k] = t[k]
         /\ MoveToDLQ(t, j, n)[k] = t[k]
BY Zenon DEF Create, RetryDLQJob, SetJobRunning, CompleteJob, FailJob,
       RequeueForRetry, MoveToDLQ

\* The columns a statement with WHERE id = $1 leaves in that row.
LEMMA RowEffects ==
  ASSUME NEW t \in [Jobs -> Row], NEW j \in Jobs, NEW n \in Nat
  PROVE  /\ RowIs(SetJobRunning(t, j)[j], "running", t[j].worker, t[j].lease,
                  t[j].attempts)
         /\ RowIs(CompleteJob(t, j)[j], "completed", t[j].worker, t[j].lease,
                  t[j].attempts)
         /\ RowIs(FailJob(t, j, n)[j], "failed", t[j].worker, t[j].lease, n)
         /\ RowIs(MoveToDLQ(t, j, n)[j], "dead_letter", t[j].worker, t[j].lease, n)
         /\ RowIs(RequeueForRetry(t, j, n)[j], "queued", NoWorker, "none", n)
         /\ RowIs(RetryDLQJob(t, j)[j], "queued", NoWorker, "none", 0)
         /\ \A kind \in Kinds :
              \/ Create(t, j, kind)[j] = t[j]
              \/ RowIs(Create(t, j, kind)[j], "queued", NoWorker, "none", 0)
              \/ RowIs(Create(t, j, kind)[j], "scheduled", NoWorker, "none", 0)
BY Zenon DEF SetJobRunning, CompleteJob, FailJob, MoveToDLQ, RequeueForRetry,
       RetryDLQJob, Create, NewRow, NoRow, Row, RowIs

\* The statements that write many rows, seen from one of them.
LEMMA ManyRowEffects ==
  ASSUME NEW t \in [Jobs -> Row], NEW w \in Workers, NEW S, NEW k \in Jobs
  PROVE  /\ IF k \in S
            THEN RowIs(ClaimJobs(t, S, w)[k], "claimed", w, "live", t[k].attempts)
            ELSE ClaimJobs(t, S, w)[k] = t[k]
         /\ IF t[k].worker = w /\ t[k].status = "claimed"
            THEN RowIs(ReleaseJobs(t, w)[k], "queued", NoWorker, "none",
                       t[k].attempts)
            ELSE ReleaseJobs(t, w)[k] = t[k]
         /\ IF t[k].worker = w /\ t[k].status \in Active
            THEN RowIs(RenewLeases(t, w)[k], t[k].status, w, "live", t[k].attempts)
            ELSE RenewLeases(t, w)[k] = t[k]
BY ZenonT(40) DEF ClaimJobs, ReleaseJobs, RenewLeases, Row, RowIs

\* The reaper's statement, and the clock, seen from one row.
LEMMA BackgroundEffects ==
  ASSUME NEW t \in [Jobs -> Row], NEW k \in Jobs
  PROVE  /\ IF t[k].status \in Active /\ t[k].lease = "expired"
            THEN RowIs(RequeueOrphanedJobs(t)[k], "queued", NoWorker, "none",
                       t[k].attempts)
            ELSE RequeueOrphanedJobs(t)[k] = t[k]
         /\ RowIs([t[k] EXCEPT !.due = TRUE], t[k].status, t[k].worker,
                  t[k].lease, t[k].attempts)
         /\ RowIs([t[k] EXCEPT !.lease = "expired"], t[k].status, t[k].worker,
                  "expired", t[k].attempts)
BY Zenon DEF RequeueOrphanedJobs, Orphaned, Row, RowIs

-----------------------------------------------------------------------------
(* Type correctness *)

\* What a goroutine works on is well typed.
LEMMA TaskTyping ==
  ASSUME TypeOK, NEW s \in Slots, task[s].stage # "idle"
  PROVE  /\ Owner[s] \in Workers
         /\ task[s].job \in Jobs
         /\ task[s].attempts \in Nat
         /\ task[s].attempts + 1 \in Nat
BY OwnerAssumption DEF TypeOK, Task

\* Moving a goroutine on, or freeing its slot, keeps the slots well typed.
LEMMA StageTyping ==
  ASSUME TypeOK, NEW s \in Slots, NEW stage \in Stage, task[s].stage # "idle",
         Goto(s, stage) \/ Return(s)
  PROVE  /\ task' \in [Slots -> Task]
         /\ \A x \in Slots : task'[x].stage # "idle" => task'[x].job \in Jobs
<1>1. task \in [Slots -> Task] /\ task[s].job \in Jobs
  BY Zenon DEF TypeOK
<1>2. /\ [task[s] EXCEPT !.stage = stage] \in Task
      /\ [task[s] EXCEPT !.stage = stage].job = task[s].job
  BY Zenon, <1>1 DEF Task
<1>3. Idle \in Task /\ Idle.stage = "idle"
  BY Zenon DEF Idle, Stage, Task
<1>4. \A x \in Slots : task[x].stage # "idle" => task[x].job \in Jobs
  BY Zenon DEF TypeOK
<1>5. CASE task' = [task EXCEPT ![s] = [task[s] EXCEPT !.stage = stage]]
  BY Zenon, <1>1, <1>2, <1>4, <1>5
<1>6. CASE task' = [task EXCEPT ![s] = Idle]
  BY Zenon, <1>1, <1>3, <1>4, <1>6
<1> QED
  BY Zenon, <1>5, <1>6 DEF Goto, Return

\* The empty tables and idle processes are well typed.
LEMMA InitType == Init => TypeOK
BY DEF Init, TypeOK, Row, NoRow, Status, NotPolling, Idle, Stage, Poll, Task,
       ProcState, RegistryState

\* The API server's operations write well-typed rows.
LEMMA ApiType == TypeOK /\ ApiNext => TypeOK'
<1> SUFFICES ASSUME TypeOK, ApiNext PROVE TypeOK'
  BY Zenon
<1>1. CASE \E j \in Jobs, kind \in Submissions : CreateJob(j, kind)
  <2>1. PICK j \in Jobs, kind \in Submissions : CreateJob(j, kind)
    BY Zenon, <1>1
  <2>2. kind \in Kinds
    BY Zenon, SubmissionsAssumption
  <2>3. jobs' \in [Jobs -> Row]
    BY Zenon, <2>1, <2>2, RowStatementsTyping DEF CreateJob, TypeOK
  <2> QED
    BY Zenon, <2>1, <2>3 DEF CreateJob, TypeOK
<1>2. CASE \E q \in Pausable : SetPaused(q)
  BY Zenon, <1>2 DEF SetPaused, TypeOK
<1>3. ASSUME NEW r \in Retriers, NEW j \in Jobs, RetryCheck(r, j)
      PROVE  TypeOK'
  BY Zenon, <1>3 DEF RetryCheck, TypeOK
<1>4. ASSUME NEW r \in Retriers, RetryCommit(r)
      PROVE  TypeOK'
  <2>1. retry[r] \in Jobs
    BY Zenon, <1>4 DEF RetryCommit, TypeOK
  <2>2. jobs' \in [Jobs -> Row]
    BY ZenonT(40), <1>4, <2>1, RowStatementsTyping DEF RetryCommit, TypeOK
  <2> QED
    BY Zenon, <1>4, <2>2 DEF RetryCommit, TypeOK
<1>5. ASSUME NEW r \in Retriers, RetryAbort(r)
      PROVE  TypeOK'
  BY Zenon, <1>5 DEF RetryAbort, TypeOK
<1> QED
  BY Zenon, <1>1, <1>2, <1>3, <1>4, <1>5 DEF ApiNext

\* So do the poll loop, the heartbeat and the shutdown of a worker.
LEMMA ProcessType ==
  ASSUME TypeOK, NEW w \in Workers, ProcessNext(w),
         \A q \in Queues : ClaimBudget(jobs, q) \in Nat
  PROVE  TypeOK'
<1>1. CASE RegisterWorker(w)
  BY Zenon, <1>1 DEF RegisterWorker, TypeOK, RegistryState, ProcState
<1>2. CASE Heartbeat(w)
  <2>1. jobs' \in [Jobs -> Row]
    <3>1. RenewLeases(jobs, w) \in [Jobs -> Row]
      BY ZenonT(40), SetStatementsTyping DEF TypeOK
    <3> QED
      BY Zenon, <1>2, <3>1 DEF Heartbeat, TypeOK
  <2>2. registry' \in [Workers -> RegistryState]
    BY Zenon, <1>2 DEF Heartbeat, TypeOK, RegistryState
  <2> QED
    BY Zenon, <1>2, <2>1, <2>2 DEF Heartbeat, TypeOK
<1>3. CASE Crash(w)
  BY Zenon, <1>3 DEF Crash, TypeOK, NotPolling, Idle, Stage, Poll, Task, ProcState
<1>4. CASE Terminate(w)
  BY Zenon, <1>4 DEF Terminate, TypeOK, NotPolling, Poll, ProcState
<1>5. CASE ShutdownRelease(w)
  <2>1. jobs' \in [Jobs -> Row]
    <3>1. ReleaseJobs(jobs, w) \in [Jobs -> Row]
      BY Zenon, SetStatementsTyping DEF TypeOK
    <3> QED
      BY Zenon, <1>5, <3>1 DEF ShutdownRelease, TypeOK
  <2>2. proc' \in [Workers -> ProcState]
    BY Zenon, <1>5 DEF ShutdownRelease, TypeOK, ProcState
  <2> QED
    BY Zenon, <1>5, <2>1, <2>2 DEF ShutdownRelease, TypeOK
<1>6. CASE ShutdownDeregister(w)
  <2>1. registry' \in [Workers -> RegistryState]
    BY Zenon, <1>6 DEF ShutdownDeregister, TypeOK, RegistryState
  <2>2. proc' \in [Workers -> ProcState]
    BY Zenon, <1>6 DEF ShutdownDeregister, TypeOK, ProcState
  <2>3. /\ task' \in [Slots -> Task]
        /\ \A s \in Slots : task'[s].stage # "idle" => task'[s].job \in Jobs
    BY Zenon, <1>6 DEF ShutdownDeregister, TypeOK, Idle, Stage, Task
  <2> QED
    BY Zenon, <1>6, <2>1, <2>2, <2>3 DEF ShutdownDeregister, TypeOK
<1>7. CASE PollOnce(w)
  <2>1. [poll[w] EXCEPT !.todo = {q \in Queues : ~paused[q]}] \in Poll
    BY Zenon DEF TypeOK, Poll
  <2>2. poll' \in [Workers -> Poll]
    BY Zenon, <1>7, <2>1 DEF PollOnce, TypeOK
  <2> QED
    BY Zenon, <1>7, <2>2 DEF PollOnce, TypeOK
<1>8. ASSUME NEW q \in Queues, ClaimSnapshot(w, q)
      PROVE  TypeOK'
  <2>1. ClaimBudget(jobs, q) \in Nat
    BY Zenon
  <2> QED
    BY <1>8, <2>1 DEF ClaimSnapshot, TypeOK, Poll
<1>9. CASE ClaimCommit(w)
  <2>1. PICK S \in ClaimChoices(jobs, poll[w].queue, poll[w].budget),
             res \in Results(w) :
          /\ jobs' = IF Applied(res) THEN ClaimJobs(jobs, S, w) ELSE jobs
          /\ pending' = [pending EXCEPT ![w] =
               IF res = "ok"
               THEN {[job |-> j, attempts |-> jobs[j].attempts] : j \in S}
               ELSE {}]
    BY Zenon, <1>9 DEF ClaimCommit
  <2>2. S \in SUBSET Jobs
    BY Zenon DEF ClaimChoices, Claimable
  <2>3. jobs' \in [Jobs -> Row]
    BY Zenon, <2>1, <2>2, SetStatementsTyping DEF TypeOK
  <2>4. \A j \in S : [job |-> j, attempts |-> jobs[j].attempts] \in Claim
    BY Zenon, <2>2 DEF TypeOK, Row, Claim
  <2>5. pending' \in [Workers -> SUBSET Claim]
    <3> DEFINE claims == {[job |-> j, attempts |-> jobs[j].attempts] : j \in S}
    <3>1. claims \in SUBSET Claim
      BY Zenon, <2>4
    <3>2. pending' = [pending EXCEPT ![w] = IF res = "ok" THEN claims ELSE {}]
      BY Zenon, <2>1
    <3> HIDE DEF claims
    <3>3. pending \in [Workers -> SUBSET Claim]
      BY Zenon DEF TypeOK
    <3> QED
      BY Zenon, <3>1, <3>2, <3>3
  <2>6. poll' \in [Workers -> Poll]
    <3>1. [poll[w] EXCEPT !.queue = NoQueue, !.budget = 0] \in Poll
      BY ZenonT(40) DEF TypeOK, Poll
    <3> QED
      BY Zenon, <1>9, <3>1 DEF ClaimCommit, TypeOK
  <2> QED
    BY Zenon, <1>9, <2>3, <2>5, <2>6 DEF ClaimCommit, TypeOK
<1>10. ASSUME NEW s \in Slots, NEW c \in pending[w], Dispatch(w, s, c)
       PROVE  TypeOK'
  <2>1. c \in Claim
    BY Zenon DEF TypeOK
  <2> QED
    BY Zenon, <1>10, <2>1 DEF Dispatch, TypeOK, Claim, Stage, Task
<1> QED
  BY Zenon, <1>1, <1>2, <1>3, <1>4, <1>5, <1>6, <1>7, <1>8, <1>9, <1>10
  DEF ProcessNext

\* So do the executor goroutines.
LEMMA ExecutorType ==
  ASSUME TypeOK, NEW s \in Slots, ExecutorNext(s)
  PROVE  TypeOK'
<1> DEFINE j == task[s].job
           n == task[s].attempts + 1
           TaskOK == /\ task' \in [Slots -> Task]
                     /\ \A x \in Slots :
                          task'[x].stage # "idle" => task'[x].job \in Jobs
<1>1. task[s].stage # "idle"
  BY Zenon DEF ExecutorNext, At, Gate, SkipExecution, StartRunning, HandlerSucceeds,
         HandlerFails, Complete, RecordCompleted, RecordFailed, DeadLetter,
         MarkFailed, Requeue
<1>2. j \in Jobs /\ n \in Nat
  BY Zenon, <1>1, TaskTyping
<1>3. /\ CompleteJob(jobs, j) \in [Jobs -> Row]
      /\ SetJobRunning(jobs, j) \in [Jobs -> Row]
      /\ FailJob(jobs, j, n) \in [Jobs -> Row]
      /\ RequeueForRetry(jobs, j, n) \in [Jobs -> Row]
      /\ MoveToDLQ(jobs, j, n) \in [Jobs -> Row]
  BY Zenon, <1>2, RowStatementsTyping DEF TypeOK
<1>4. \A status \in {"completed", "failed"} :
        Recorded(s, status) \in [Jobs -> SUBSET Execution]
  BY <1>2 DEF Recorded, Execution, TypeOK
<1>5. (\E stage \in Stage : Goto(s, stage)) \/ Return(s) => TaskOK
  BY Zenon, <1>1, StageTyping DEF Stage
<1> HIDE DEF j, n
<1>6. CASE Gate(s)
  <2>1. TaskOK
    BY Zenon, <1>5, <1>6 DEF Gate, Stage
  <2> QED
    BY Zenon, <1>6, <2>1 DEF Gate, TypeOK, tables, history
<1>7. CASE SkipExecution(s)
  BY Zenon, <1>3, <1>5, <1>7 DEF SkipExecution, TypeOK, history, j
<1>8. CASE StartRunning(s)
  <2>1. TaskOK
    BY Zenon, <1>5, <1>8 DEF StartRunning, Stage
  <2>2. jobs' \in [Jobs -> Row]
    BY Zenon, <1>3, <1>8 DEF StartRunning, TypeOK, j
  <2> QED
    BY Zenon, <1>8, <2>1, <2>2 DEF StartRunning, TypeOK, history
<1>9. CASE HandlerSucceeds(s)
  <2>1. TaskOK
    BY Zenon, <1>5, <1>9 DEF HandlerSucceeds, Stage
  <2> QED
    BY Zenon, <1>2, <1>9, <2>1 DEF HandlerSucceeds, TypeOK, tables, j
<1>10. CASE HandlerFails(s)
  <2>1. TaskOK
    BY Zenon, <1>5, <1>10 DEF HandlerFails, Stage
  <2>2. failures' \in [Jobs -> Nat]
    <3>1. failures \in [Jobs -> Nat]
      BY Zenon DEF TypeOK
    <3>2. failures' = [failures EXCEPT ![j] = IF failures[j] < MaxAttempts[j]
                                              THEN failures[j] + 1 ELSE failures[j]]
      BY Zenon, <1>10 DEF HandlerFails, j
    <3>3. (IF failures[j] < MaxAttempts[j] THEN failures[j] + 1 ELSE failures[j]) \in Nat
      BY <1>2, <3>1
    <3> QED
      BY ZenonT(40), <3>1, <3>2, <3>3
  <2> QED
    BY Zenon, <1>10, <2>1, <2>2 DEF HandlerFails, TypeOK, tables
<1>11. CASE Complete(s)
  <2>1. TaskOK
    BY Zenon, <1>5, <1>11 DEF Complete, Stage
  <2> QED
    BY Zenon, <1>3, <1>11, <2>1 DEF Complete, TypeOK, history, j
<1>12. CASE RecordCompleted(s)
  BY Zenon, <1>4, <1>5, <1>12 DEF RecordCompleted, TypeOK, history
<1>13. CASE RecordFailed(s)
  <2>1. TaskOK
    BY Zenon, <1>5, <1>13 DEF RecordFailed, Stage
  <2> QED
    BY Zenon, <1>4, <1>13, <2>1 DEF RecordFailed, TypeOK, history
<1>14. CASE DeadLetter(s)
  BY Zenon, <1>2, <1>3, <1>5, <1>14 DEF DeadLetter, TypeOK, history, j, n
<1>15. CASE MarkFailed(s)
  <2>1. TaskOK
    BY ZenonT(40), <1>5, <1>15 DEF MarkFailed, Stage
  <2> QED
    BY Zenon, <1>3, <1>15, <2>1 DEF MarkFailed, TypeOK, history, j, n
<1>16. CASE Requeue(s)
  BY Zenon, <1>3, <1>5, <1>16 DEF Requeue, TypeOK, history, j, n
<1> QED
  BY Zenon, <1>6, <1>7, <1>8, <1>9, <1>10, <1>11, <1>12, <1>13, <1>14, <1>15, <1>16
  DEF ExecutorNext

\* So do the reaper and the passage of time.
LEMMA BackgroundType ==
  TypeOK /\ (ReapJobs \/ MarkDeadWorkers \/ TimeNext) => TypeOK'
<1> SUFFICES ASSUME TypeOK PROVE ReapJobs \/ MarkDeadWorkers \/ TimeNext => TypeOK'
  BY Zenon
<1> USE DEF engine, history
<1>1. ASSUME ReapJobs PROVE TypeOK'
  <2>1. RequeueOrphanedJobs(jobs) \in [Jobs -> Row]
    BY Zenon, BackgroundStatementsTyping DEF TypeOK
  <2> QED
    BY Zenon, <1>1, <2>1 DEF ReapJobs, TypeOK
<1>2. ASSUME MarkDeadWorkers PROVE TypeOK'
  BY Zenon, <1>2 DEF MarkDeadWorkers, TypeOK, RegistryState
<1>3. ASSUME NEW j \in Jobs, BecomeDue(j) PROVE TypeOK'
  <2>1. [jobs[j] EXCEPT !.due = TRUE] \in Row
    BY Zenon, BackgroundStatementsTyping DEF TypeOK
  <2> QED
    BY Zenon, <1>3, <2>1 DEF BecomeDue, TypeOK
<1>4. ASSUME NEW j \in Jobs, LeaseRunsOut(j) PROVE TypeOK'
  <2>1. [jobs[j] EXCEPT !.lease = "expired"] \in Row
    BY Zenon, BackgroundStatementsTyping DEF TypeOK
  <2> QED
    BY Zenon, <1>4, <2>1 DEF LeaseRunsOut, TypeOK
<1>5. ASSUME NEW w \in Workers, HeartbeatGoesStale(w) PROVE TypeOK'
  BY Zenon, <1>5 DEF HeartbeatGoesStale, TypeOK, RegistryState
<1> QED
  BY Zenon, <1>1, <1>2, <1>3, <1>4, <1>5 DEF TimeNext

\* TypeOK is inductive, a budget being a natural number.
LEMMA TypeStep ==
  ASSUME TypeOK, [Next]_vars, \A q \in Queues : ClaimBudget(jobs, q) \in Nat
  PROVE  TypeOK'
<1>1. CASE UNCHANGED vars
  BY Zenon, <1>1 DEF vars, TypeOK
<1> QED
  BY Zenon, <1>1, ApiType, ProcessType, ExecutorType, BackgroundType DEF Next

-----------------------------------------------------------------------------
(* What one step can do *)

\* The API server reschedules rows.
LEMMA ApiRowSteps ==
  ASSUME TypeOK, ApiNext, NEW k \in Jobs
  PROVE  RowStep(k)
<1> USE DEF RowStep, SameRow, Rescheduled
<1>1. jobs \in [Jobs -> Row]
  BY Zenon DEF TypeOK
<1>2. ASSUME NEW j \in Jobs, NEW kind \in Submissions, CreateJob(j, kind)
      PROVE  RowStep(k)
  <2>1. kind \in Kinds
    BY Zenon, SubmissionsAssumption
  <2>2. CASE k = j
    BY <1>1, <1>2, <2>1, <2>2, RowEffects DEF CreateJob, RowIs
  <2>3. CASE k # j
    BY Zenon, <1>1, <1>2, <2>1, <2>3, OtherRows DEF CreateJob
  <2> QED
    BY Zenon, <2>2, <2>3
<1>3. ASSUME NEW r \in Retriers, RetryCommit(r)
      PROVE  RowStep(k)
  <2>1. retry[r] \in Jobs
    BY Zenon, <1>3 DEF RetryCommit, TypeOK
  <2>2. CASE k = retry[r]
    <3>1. RowIs(RetryDLQJob(jobs, k)[k], "queued", NoWorker, "none", 0)
      BY Zenon, <1>1, RowEffects
    <3>2. jobs' = RetryDLQJob(jobs, k)
      BY Zenon, <1>3, <2>2 DEF RetryCommit
    <3> QED
      BY Zenon, <3>1, <3>2 DEF RowIs
  <2>3. CASE k # retry[r]
    BY ZenonT(40), <1>1, <1>3, <2>1, <2>3, OtherRows DEF RetryCommit
  <2> QED
    BY Zenon, <2>2, <2>3
<1> QED
  BY Zenon, <1>2, <1>3 DEF ApiNext, SetPaused, RetryCheck, RetryAbort

\* A worker process claims, renews and releases rows.
LEMMA ProcessRowSteps ==
  ASSUME TypeOK, NEW w \in Workers, ProcessNext(w), NEW k \in Jobs
  PROVE  RowStep(k)
<1> USE DEF RowStep, SameRow, Rescheduled
<1>1. jobs \in [Jobs -> Row]
  BY Zenon DEF TypeOK
<1>2. CASE Heartbeat(w)
  <2>1. \/ RenewLeases(jobs, w)[k] = jobs[k]
        \/ RowIs(RenewLeases(jobs, w)[k], jobs[k].status, w, "live",
                 jobs[k].attempts)
    BY <1>1, ManyRowEffects
  <2>2. jobs' = jobs \/ jobs' = RenewLeases(jobs, w)
    BY Zenon, <1>2 DEF Heartbeat
  <2>3. dlq' = dlq
    BY Zenon, <1>2 DEF Heartbeat
  <2> QED
    BY Zenon, <2>1, <2>2, <2>3 DEF RowIs
<1>3. CASE ShutdownRelease(w)
  BY <1>1, <1>3, ManyRowEffects DEF ShutdownRelease, RowIs
<1>4. CASE ClaimCommit(w)
  BY <1>1, <1>4, ManyRowEffects DEF ClaimCommit, RowIs
<1> QED
  BY Zenon, <1>2, <1>3, <1>4 DEF ProcessNext, RegisterWorker, Crash, Terminate,
     ShutdownDeregister, PollOnce, ClaimSnapshot, Dispatch

\* An executor writes the row of its own job only.
LEMMA ExecutorRowSteps ==
  ASSUME TypeOK, NEW s \in Slots, ExecutorNext(s), NEW k \in Jobs
  PROVE  RowStep(k)
<1> DEFINE j == task[s].job
           n == task[s].attempts + 1
<1>1. jobs \in [Jobs -> Row]
  BY Zenon DEF TypeOK
<1>2. task[s].stage # "idle"
  BY Zenon DEF ExecutorNext, At, Gate, SkipExecution, StartRunning, HandlerSucceeds,
         HandlerFails, Complete, RecordCompleted, RecordFailed, DeadLetter,
         MarkFailed, Requeue
<1>3. j \in Jobs /\ n \in Nat
  BY Zenon, <1>2, TaskTyping
<1>4. CASE k # j
  <2>1. \/ jobs' = jobs
        \/ jobs' = SetJobRunning(jobs, j)
        \/ jobs' = CompleteJob(jobs, j)
        \/ jobs' = FailJob(jobs, j, n)
        \/ jobs' = RequeueForRetry(jobs, j, n)
        \/ jobs' = MoveToDLQ(jobs, j, n)
    BY Zenon DEF ExecutorNext, Gate, SkipExecution, StartRunning, HandlerSucceeds,
           HandlerFails, Complete, RecordCompleted, RecordFailed, DeadLetter,
           MarkFailed, Requeue, tables
  <2>2. dlq \subseteq dlq'
    BY Zenon DEF ExecutorNext, Gate, SkipExecution, StartRunning, HandlerSucceeds,
           HandlerFails, Complete, RecordCompleted, RecordFailed, DeadLetter,
           MarkFailed, Requeue, tables
  <2>3. jobs'[k] = jobs[k]
    <3> HIDE DEF j, n
    <3>1. /\ SetJobRunning(jobs, j)[k] = jobs[k]
          /\ CompleteJob(jobs, j)[k] = jobs[k]
          /\ FailJob(jobs, j, n)[k] = jobs[k]
          /\ RequeueForRetry(jobs, j, n)[k] = jobs[k]
          /\ MoveToDLQ(jobs, j, n)[k] = jobs[k]
      BY <1>1, <1>3, <1>4, OtherRows
    <3> QED
      BY Zenon, <2>1, <3>1
  <2> QED
    BY Zenon, <2>2, <2>3 DEF RowStep, SameRow
<1>5. CASE k = j
  <2>0. /\ RowIs(SetJobRunning(jobs, j)[j], "running", jobs[j].worker,
                 jobs[j].lease, jobs[j].attempts)
        /\ RowIs(CompleteJob(jobs, j)[j], "completed", jobs[j].worker,
                 jobs[j].lease, jobs[j].attempts)
        /\ RowIs(FailJob(jobs, j, n)[j], "failed", jobs[j].worker,
                 jobs[j].lease, n)
        /\ RowIs(MoveToDLQ(jobs, j, n)[j], "dead_letter", jobs[j].worker,
                 jobs[j].lease, n)
        /\ RowIs(RequeueForRetry(jobs, j, n)[j], "queued", NoWorker, "none", n)
    BY ZenonT(40), <1>1, <1>3, RowEffects
  <2> USE <1>5, <2>0 DEF RowStep, SameRow, WrittenBy, RowIs
  <2>1. CASE Gate(s) \/ HandlerSucceeds(s) \/ HandlerFails(s)
             \/ RecordCompleted(s) \/ RecordFailed(s)
    BY ZenonT(40), <2>1 DEF Gate, HandlerSucceeds, HandlerFails, RecordCompleted,
       RecordFailed, tables
  <2>2. CASE SkipExecution(s)
    BY ZenonT(40), <2>2 DEF SkipExecution, At
  <2>3. CASE StartRunning(s)
    BY ZenonT(40), <2>3 DEF StartRunning, At
  <2>4. CASE Complete(s)
    BY ZenonT(40), <2>4 DEF Complete, At
  <2>5. CASE DeadLetter(s)
    BY ZenonT(40), <2>5 DEF DeadLetter, At
  <2>6. CASE MarkFailed(s)
    BY ZenonT(40), <2>6 DEF MarkFailed, At
  <2>7. CASE Requeue(s)
    BY ZenonT(40), <2>7 DEF Requeue, At
  <2> QED
    BY ZenonT(40), <2>1, <2>2, <2>3, <2>4, <2>5, <2>6, <2>7 DEF ExecutorNext
<1> QED
  BY Zenon, <1>4, <1>5

\* Every step of the system does one of these to a given row.
LEMMA RowSteps ==
  ASSUME TypeOK, [Next]_vars, NEW k \in Jobs
  PROVE  RowStep(k)
<1>1. jobs \in [Jobs -> Row]
  BY Zenon DEF TypeOK
<1>2. CASE ReapJobs
  BY Zenon, <1>1, <1>2, BackgroundEffects 
  DEF ReapJobs, RowStep, SameRow, Rescheduled, RowIs
<1>3. CASE TimeNext
  <2>1. /\ RowIs([jobs[k] EXCEPT !.due = TRUE], jobs[k].status,
                 jobs[k].worker, jobs[k].lease, jobs[k].attempts)
        /\ RowIs([jobs[k] EXCEPT !.lease = "expired"], jobs[k].status,
                 jobs[k].worker, "expired", jobs[k].attempts)
    BY Zenon, <1>1, BackgroundEffects
  <2>2. \/ jobs' = jobs
        \/ \E j \in Jobs :
             \/ jobs' = [jobs EXCEPT ![j] = [jobs[j] EXCEPT !.due = TRUE]]
             \/ jobs' = [jobs EXCEPT ![j] = [jobs[j] EXCEPT !.lease = "expired"]]
    BY Zenon, <1>3 DEF TimeNext, BecomeDue, LeaseRunsOut, HeartbeatGoesStale
  <2>3. \/ jobs'[k] = jobs[k]
        \/ jobs'[k] = [jobs[k] EXCEPT !.due = TRUE]
        \/ jobs'[k] = [jobs[k] EXCEPT !.lease = "expired"]
    BY Zenon, <1>1, <2>2
  <2>4. dlq' = dlq
    BY Zenon, <1>3 DEF TimeNext, BecomeDue, LeaseRunsOut, HeartbeatGoesStale
  <2> QED
    BY Zenon, <2>1, <2>3, <2>4 DEF RowStep, SameRow, RowIs
<1>4. CASE MarkDeadWorkers \/ UNCHANGED vars
  BY Zenon, <1>4 DEF MarkDeadWorkers, vars, RowStep, SameRow
<1> QED
  BY Zenon, <1>2, <1>3, <1>4, ApiRowSteps, ProcessRowSteps, ExecutorRowSteps DEF Next

\* A step of an executor moves its own goroutine along one edge.
LEMMA ExecutorTaskSteps ==
  ASSUME TypeOK, NEW s \in Slots, ExecutorNext(s), NEW x \in Slots
  PROVE  TaskStep(x)
<1>1. task \in [Slots -> Task]
  BY Zenon DEF TypeOK
<1>2. task[s].stage # "idle"
  BY Zenon DEF ExecutorNext, At, Gate, SkipExecution, StartRunning, HandlerSucceeds,
         HandlerFails, Complete, RecordCompleted, RecordFailed, DeadLetter,
         MarkFailed, Requeue
<1>3. (\E stage \in Stage : Goto(s, stage)) \/ Return(s)
  BY Zenon DEF ExecutorNext, Gate, SkipExecution, StartRunning, HandlerSucceeds,
         HandlerFails, Complete, RecordCompleted, RecordFailed, DeadLetter,
         MarkFailed, Requeue, Stage
<1>4. CASE x # s
  BY Zenon, <1>1, <1>3, <1>4 DEF Goto, Return, TaskStep
<1>5. CASE x = s /\ Return(s)
  BY Zenon, <1>1, <1>5 DEF Return, Idle, TaskStep
<1>6. CASE x = s /\ \E stage \in Stage : Goto(s, stage)
  <2>1. ASSUME NEW stage \in Stage, Goto(s, stage)
        PROVE  /\ task'[s].stage = stage
               /\ task'[s].job = task[s].job
               /\ task'[s].attempts = task[s].attempts
    BY Zenon, <1>1, <2>1 DEF Goto, Task
  <2>2. /\ task'[s].job = task[s].job
        /\ task'[s].attempts = task[s].attempts
    BY Zenon, <1>6, <2>1
  <2>3. task[s].job \in Jobs /\ task[s].attempts \in Nat
    BY Zenon, <1>2, TaskTyping
  <2>4. CASE Return(s)
    BY Zenon, <1>5, <1>6, <2>4
  <2>5. CASE ~Return(s)
    <3> USE <1>6, <2>1, <2>2, <2>3, <2>5 DEF TaskStep, Advanced, At, Stage
    <3>1. CASE Gate(s)
      BY ZenonT(40), <3>1 DEF Gate
    <3>2. CASE StartRunning(s)
      BY ZenonT(40), <3>2 DEF StartRunning
    <3>3. CASE HandlerSucceeds(s)
      BY Zenon, <3>3 DEF HandlerSucceeds
    <3>4. CASE HandlerFails(s)
      <4>1. /\ failures \in [Jobs -> Nat]
            /\ MaxAttempts[task[s].job] \in Nat
        BY Zenon, MaxAttemptsAssumption DEF TypeOK
      <4>2. failures'[task[s].job] > failures[task[s].job]
              \/ failures'[task[s].job] >= MaxAttempts[task[s].job]
        <5> DEFINE j == task[s].job
        <5>1. failures'[j] = IF failures[j] < MaxAttempts[j] THEN failures[j] + 1
                                                             ELSE failures[j]
          BY Zenon, <2>3, <3>4, <4>1 DEF HandlerFails
        <5>2. failures[j] \in Nat
          BY Zenon, <2>3, <4>1
        <5> QED
          BY <4>1, <5>1, <5>2
      <4> QED
        BY Zenon, <3>4, <4>2 DEF HandlerFails
    <3>5. CASE Complete(s)
      BY Zenon, <3>5 DEF Complete
    <3>6. CASE RecordFailed(s)
      BY ZenonT(40), <3>6 DEF RecordFailed
    <3>7. CASE MarkFailed(s)
      BY Zenon, <3>7 DEF MarkFailed
    <3> QED
      BY ZenonT(40), <3>1, <3>2, <3>3, <3>4, <3>5, <3>6, <3>7
      DEF ExecutorNext, SkipExecution, RecordCompleted, DeadLetter, Requeue
  <2> QED
    BY Zenon, <2>4, <2>5
<1> QED
  BY Zenon, <1>3, <1>4, <1>5, <1>6

\* Every step of the system does one of these to a given goroutine.
LEMMA TaskSteps ==
  ASSUME TypeOK, [Next]_vars, NEW x \in Slots
  PROVE  TaskStep(x)
<1>1. task \in [Slots -> Task]
  BY Zenon DEF TypeOK
<1>2. ASSUME NEW w \in Workers, ProcessNext(w)
      PROVE  TaskStep(x)
  <2>1. ASSUME NEW s \in Slots, NEW c \in pending[w], Dispatch(w, s, c)
        PROVE  TaskStep(x)
    BY Zenon, <1>1, <2>1 DEF Dispatch, TaskStep, Started
  <2>2. CASE Crash(w) \/ ShutdownDeregister(w)
    BY <1>1, <2>2 DEF Crash, ShutdownDeregister, Idle, TaskStep
  <2> QED
    BY Zenon, <1>2, <2>1, <2>2 DEF ProcessNext, TaskStep, RegisterWorker, Heartbeat,
       Terminate, ShutdownRelease, PollOnce, ClaimSnapshot, ClaimCommit
<1>3. CASE ApiNext
  BY Zenon, <1>3 DEF ApiNext, CreateJob, SetPaused, RetryCheck, RetryCommit,
              RetryAbort, TaskStep
<1>4. CASE ReapJobs \/ MarkDeadWorkers \/ TimeNext
  BY Zenon, <1>4 DEF ReapJobs, MarkDeadWorkers, TimeNext, BecomeDue, LeaseRunsOut,
              HeartbeatGoesStale, engine, TaskStep
<1>5. CASE UNCHANGED vars
  BY Zenon, <1>5 DEF vars, TaskStep
<1> QED
  BY Zenon, <1>2, <1>3, <1>4, <1>5, ExecutorTaskSteps DEF Next

\* A claim that waits for a slot carries the attempts its row had.
LEMMA PendingSteps ==
  ASSUME TypeOK, [Next]_vars, NEW w \in Workers, NEW c \in pending'[w]
  PROVE  \/ c \in pending[w]
         \/ /\ c.job \in Jobs /\ c.attempts = jobs[c.job].attempts
            /\ Exists(jobs, c.job)
<1>1. pending \in [Workers -> SUBSET Claim]
  BY Zenon DEF TypeOK
<1>2. ASSUME NEW v \in Workers, ProcessNext(v)
      PROVE  \/ c \in pending[w]
             \/ /\ c.job \in Jobs /\ c.attempts = jobs[c.job].attempts
                /\ Exists(jobs, c.job)
  <2>1. CASE ClaimCommit(v)
    BY <1>1, <2>1 DEF ClaimCommit, ClaimChoices, Claimable, Exists
  <2>2. CASE Crash(v)
    BY Zenon, <1>1, <2>2 DEF Crash
  <2>3. ASSUME NEW s \in Slots, NEW d \in pending[v], Dispatch(v, s, d)
        PROVE  c \in pending[w]
    BY Zenon, <1>1, <2>3 DEF Dispatch
  <2> QED
    BY Zenon, <1>2, <2>1, <2>2, <2>3 DEF ProcessNext, RegisterWorker, Heartbeat,
       Terminate, ShutdownRelease, ShutdownDeregister, PollOnce, ClaimSnapshot
<1>3. CASE ApiNext
  BY Zenon, <1>3 DEF ApiNext, CreateJob, SetPaused, RetryCheck, RetryCommit, RetryAbort
<1>4. CASE ReapJobs \/ MarkDeadWorkers \/ TimeNext
  BY Zenon, <1>4 DEF ReapJobs, MarkDeadWorkers, TimeNext, BecomeDue, LeaseRunsOut,
              HeartbeatGoesStale, engine
<1>5. ASSUME NEW s \in Slots, ExecutorNext(s) PROVE pending' = pending
  BY ZenonT(40), <1>5 DEF ExecutorNext, Gate, SkipExecution, StartRunning, HandlerSucceeds,
         HandlerFails, Complete, RecordCompleted, RecordFailed, DeadLetter,
         MarkFailed, Requeue
<1>6. CASE UNCHANGED vars
  BY Zenon, <1>6 DEF vars
<1> QED
  BY Zenon, <1>2, <1>3, <1>4, <1>5, <1>6 DEF Next

\* The history never forgets a success or a failure.
LEMMA HistorySteps ==
  ASSUME TypeOK, [Next]_vars
  PROVE  /\ succeeded \subseteq succeeded'
         /\ \A j \in Jobs : failures'[j] >= failures[j]
<1>1. failures \in [Jobs -> Nat] /\ MaxAttempts \in [Jobs -> Nat]
  BY Zenon, MaxAttemptsAssumption DEF TypeOK
<1>2. ASSUME NEW s \in Slots, HandlerFails(s)
      PROVE  succeeded' = succeeded /\ \A j \in Jobs : failures'[j] >= failures[j]
  <2>1. task[s].job \in Jobs
    BY Zenon, <1>2, TaskTyping DEF HandlerFails, At
  <2> QED
    BY <1>1, <1>2, <2>1 DEF HandlerFails
<1>3. ASSUME NEW s \in Slots, ExecutorNext(s), ~HandlerFails(s)
      PROVE  succeeded \subseteq succeeded' /\ failures' = failures
  BY Zenon, <1>3 DEF ExecutorNext, Gate, SkipExecution, StartRunning, HandlerSucceeds,
         Complete, RecordCompleted, RecordFailed, DeadLetter, MarkFailed,
         Requeue, history
<1>4. CASE UNCHANGED history
  BY <1>1, <1>4 DEF history
<1>5. ASSUME NEW w \in Workers, ProcessNext(w) PROVE UNCHANGED history
  BY Zenon, <1>5 DEF ProcessNext, RegisterWorker, Heartbeat, Crash, Terminate,
     ShutdownRelease, ShutdownDeregister, PollOnce, ClaimSnapshot, ClaimCommit,
     Dispatch, history
<1>6. ApiNext \/ ReapJobs \/ MarkDeadWorkers \/ TimeNext \/ UNCHANGED vars
        => UNCHANGED history
  BY Zenon DEF ApiNext, CreateJob, SetPaused, RetryCheck, RetryCommit, RetryAbort,
     ReapJobs, MarkDeadWorkers, TimeNext, BecomeDue, LeaseRunsOut,
     HeartbeatGoesStale, vars, history
<1> QED
  BY <1>1, <1>2, <1>3, <1>4, <1>5, <1>6 DEF Next

-----------------------------------------------------------------------------
(* Completions and dead letters are backed *)

\* SuccessInv holds initially and is preserved by every step.
LEMMA SuccessInductive ==
  /\ Init => SuccessInv
  /\ TypeOK /\ SuccessInv /\ [Next]_vars => SuccessInv'
<1>1. Init => SuccessInv
  BY DEF Init, SuccessInv, SuccessBacksCompletion, NoRow, Idle
<1>2. ASSUME TypeOK, SuccessInv, [Next]_vars
      PROVE  SuccessInv'
  <2>1. succeeded \subseteq succeeded'
    BY Zenon, <1>2, HistorySteps
  <2>2. \A j \in Jobs : Backed(j) => Backed(j)'
    BY Zenon, <2>1 DEF Backed
  <2>3. \A j \in Jobs : jobs[j].status = "completed" => Backed(j)
    BY Zenon, <1>2 DEF SuccessInv, SuccessBacksCompletion, Backed
  <2>4. ASSUME NEW j \in Jobs, jobs'[j].status = "completed"
        PROVE  Backed(j)'
    <3>1. RowStep(j)
      BY Zenon, <1>2, RowSteps
    <3>2. CASE SameRow(j)
      BY Zenon, <2>2, <2>3, <2>4, <3>2 DEF SameRow
    <3>3. ASSUME NEW s \in Slots, WrittenBy(s, j)
          PROVE  Backed(j)'
      <4>1. task[s].stage \in {"skip", "complete"} /\ task[s].job = j
        BY Zenon, <2>4, <3>3 DEF WrittenBy
      <4> QED
        BY Zenon, <1>2, <2>2, <4>1 DEF SuccessInv
    <3> QED
      BY Zenon, <2>4, <3>1, <3>2, <3>3 DEF RowStep, Rescheduled
  <2>5. ASSUME NEW s \in Slots
        PROVE  /\ task'[s].stage \in {"gate", "skip"} => KeyOf[task'[s].job] # NoKey
               /\ task'[s].stage \in {"skip", "complete"} => Backed(task[s].job)'
    <3>1. TaskStep(s)
      BY Zenon, <1>2, TaskSteps
    <3>2. CASE task'[s] = task[s]
      <4>1. task[s].stage \in {"skip", "complete"} => task[s].job \in Jobs
        BY Zenon, <1>2 DEF TypeOK
      <4> QED
        BY Zenon, <1>2, <2>2, <3>2, <4>1 DEF SuccessInv, Backed
    <3>3. CASE Started(s)
      BY Zenon, <3>3 DEF Started
    <3>4. CASE Advanced(s)
      <4>1. task'[s].stage = "skip" => Backed(task[s].job)
        BY Zenon, <1>2, <2>3, <3>4 DEF Advanced, SuccessInv, Backed,
           IsIdempotencyKeyCompleted
      <4>2. task'[s].stage = "complete" => task[s].job \in succeeded'
        BY Zenon, <3>4 DEF Advanced
      <4>3. task'[s].job = task[s].job /\ task[s].job \in Jobs
        BY Zenon, <3>4 DEF Advanced
      <4>4. task'[s].stage \in {"gate", "skip"} => KeyOf[task[s].job] # NoKey
        BY ZenonT(40), <1>2, <3>4 DEF Advanced, SuccessInv
      <4>5. task'[s].stage \in {"skip", "complete"} => Backed(task[s].job)'
        BY Zenon, <2>2, <4>1, <4>2, <4>3 DEF Backed
      <4> QED
        BY Zenon, <4>3, <4>4, <4>5
    <3> QED
      BY Zenon, <3>1, <3>2, <3>3, <3>4 DEF TaskStep
  <2> QED
    BY Zenon, <2>4, <2>5 DEF SuccessInv, SuccessBacksCompletion, Backed
<1> QED
  BY Zenon, <1>1, <1>2

\* The initial state charges nothing.
LEMMA FailureInit == Init => FailureInv
<1> SUFFICES ASSUME Init PROVE FailureInv
  BY Zenon
<1>1. \A j \in Jobs : jobs[j].status = "absent" /\ jobs[j].attempts = 0
  BY Zenon DEF Init, NoRow
<1>2. \A j \in Jobs : failures[j] = 0
  BY Zenon DEF Init
<1>3. \A w \in Workers : pending[w] = {}
  BY Zenon DEF Init
<1>4. \A s \in Slots : task[s].stage = "idle"
  BY Zenon DEF Init, Idle
<1> QED
  BY <1>1, <1>2, <1>3, <1>4 DEF FailureInv, FailuresBackDeadLetter, Charged

\* FailureInv is preserved by every step.
LEMMA FailureStep ==
  ASSUME TypeOK, TypeOK', FailureInv, [Next]_vars
  PROVE  FailureInv'
<1>1. /\ failures \in [Jobs -> Nat]
      /\ failures' \in [Jobs -> Nat]
      /\ MaxAttempts \in [Jobs -> Nat]
  BY Zenon, MaxAttemptsAssumption DEF TypeOK
<1>2. \A j \in Jobs : failures'[j] >= failures[j]
  BY Zenon, HistorySteps
<1>3. ASSUME NEW j \in Jobs, NEW n \in Nat, Charged(j, n)
      PROVE  n <= failures'[j] \/ failures'[j] >= MaxAttempts[j]
  BY <1>1, <1>2, <1>3 DEF Charged
<1>4. ASSUME NEW j \in Jobs, failures[j] >= MaxAttempts[j]
      PROVE  failures'[j] >= MaxAttempts[j]
  BY <1>1, <1>2, <1>4
<1>5. ASSUME NEW j \in Jobs
      PROVE  /\ Charged(j, jobs[j].attempts)'
             /\ jobs'[j].status = "dead_letter" => failures'[j] >= MaxAttempts[j]
  <2>1. RowStep(j)
    BY Zenon, RowSteps
  <2>2. jobs[j].attempts \in Nat /\ Charged(j, jobs[j].attempts)
    BY ZenonT(40) DEF TypeOK, Row, FailureInv
  <2>3. CASE SameRow(j)
    BY ZenonT(40), <1>3, <1>4, <2>2, <2>3
       DEF SameRow, Charged, FailureInv, FailuresBackDeadLetter
  <2>4. CASE Rescheduled(j)
    <3>1. jobs'[j].attempts \in {jobs[j].attempts, 0}
      BY ZenonT(40), <2>4 DEF Rescheduled
    <3>2. jobs'[j].status # "dead_letter"
      BY ZenonT(40), <2>4 DEF Rescheduled
    <3>3. jobs[j].attempts <= failures'[j] \/ failures'[j] >= MaxAttempts[j]
      BY Zenon, <1>3, <2>2
    <3>4. 0 <= failures'[j]
      BY <1>1
    <3>5. Charged(j, jobs[j].attempts)'
      BY Zenon, <3>1, <3>3, <3>4 DEF Charged
    <3> QED
      BY Zenon, <3>2, <3>5
  <2>5. ASSUME NEW s \in Slots, WrittenBy(s, j)
        PROVE  /\ Charged(j, jobs[j].attempts)'
               /\ jobs'[j].status = "dead_letter" => failures'[j] >= MaxAttempts[j]
    <3>1. task[s].stage # "idle" /\ task[s].job = j
      BY Zenon, <2>5 DEF WrittenBy
    <3>2. task[s].attempts + 1 \in Nat
      BY Zenon, <3>1, TaskTyping
    <3>3. \/ jobs'[j].attempts = jobs[j].attempts
          \/ /\ jobs'[j].attempts = task[s].attempts + 1
             /\ Charged(j, task[s].attempts + 1)
      BY Zenon, <2>5, <3>1 DEF WrittenBy, FailureInv
    <3>4. Charged(j, jobs[j].attempts)'
      BY Zenon, <1>3, <2>2, <3>2, <3>3 DEF Charged
    <3>5. jobs'[j].status = "dead_letter" => failures[j] >= MaxAttempts[j]
      BY Zenon, <2>5, <3>1 DEF WrittenBy, FailureInv
    <3> QED
      BY Zenon, <1>4, <3>4, <3>5
  <2> QED
    BY ZenonT(40), <2>1, <2>3, <2>4, <2>5 DEF RowStep
<1>6. ASSUME NEW w \in Workers, NEW c \in pending'[w]
      PROVE  Charged(c.job, c.attempts)'
  <2>1. \/ c \in pending[w]
        \/ c.job \in Jobs /\ c.attempts = jobs[c.job].attempts
    BY Zenon, PendingSteps
  <2>2. pending'[w] \subseteq Claim
    BY Zenon DEF TypeOK
  <2>3. c.job \in Jobs /\ c.attempts \in Nat
    BY Zenon, <2>2 DEF Claim
  <2>4. Charged(c.job, c.attempts)
    BY ZenonT(40), <2>1 DEF FailureInv
  <2> QED
    BY Zenon, <1>3, <2>3, <2>4 DEF Charged
<1>7. ASSUME NEW s \in Slots
      PROVE  /\ task'[s].stage # "idle" => Charged(task[s].job, task[s].attempts)'
             /\ task'[s].stage \in {"fail", "deadletter", "failjob", "requeue"} =>
                  Charged(task[s].job, task[s].attempts + 1)'
             /\ task'[s].stage = "deadletter" =>
                  failures'[task'[s].job] >= MaxAttempts[task'[s].job]
  <2>1. TaskStep(s)
    BY Zenon, TaskSteps
  <2>2. CASE task'[s] = task[s]
    <3>1. task[s].stage # "idle" =>
            task[s].job \in Jobs /\ task[s].attempts \in Nat
              /\ task[s].attempts + 1 \in Nat
      BY Zenon, TaskTyping
    <3> QED
      BY ZenonT(40), <1>3, <1>4, <2>2, <3>1 DEF FailureInv, Charged
  <2>3. CASE Started(s)
    <3>1. PICK c \in pending[Owner[s]] :
            /\ task'[s].job = c.job
            /\ task'[s].attempts = c.attempts
            /\ task'[s].stage \in {"gate", "start"}
      BY Zenon, <2>3 DEF Started
    <3>2. Owner[s] \in Workers
      BY Zenon, OwnerAssumption
    <3>3. c.job \in Jobs /\ c.attempts \in Nat /\ Charged(c.job, c.attempts)
      <4>1. c \in Claim
        BY Zenon, <3>2 DEF TypeOK
      <4>2. Charged(c.job, c.attempts)
        BY Zenon, <3>2 DEF FailureInv
      <4> QED
        BY Zenon, <4>1, <4>2 DEF Claim
    <3> QED
      BY Zenon, <1>3, <3>1, <3>3 DEF Charged
  <2>4. CASE Advanced(s)
    <3> DEFINE j == task[s].job
               n == task[s].attempts
    <3>1. /\ j \in Jobs
          /\ n \in Nat
          /\ task[s].stage # "idle"
          /\ task'[s].job = j
          /\ task'[s].attempts = n
      BY ZenonT(40), <2>4 DEF Advanced
    <3>2. Charged(j, n)
      BY ZenonT(40), <3>1 DEF FailureInv
    <3>3. Charged(j, n)'
      BY Zenon, <1>3, <3>1, <3>2 DEF Charged
    <3>4. task'[s].stage \in {"deadletter", "failjob", "requeue"} =>
            Charged(j, n + 1)
      BY ZenonT(40), <2>4 DEF Advanced, FailureInv
    <3>5. task'[s].stage = "fail" =>
            failures'[j] > failures[j] \/ failures'[j] >= MaxAttempts[j]
      BY Zenon, <2>4 DEF Advanced
    <3>6. task'[s].stage = "deadletter" => n + 1 >= MaxAttempts[j]
      BY Zenon, <2>4 DEF Advanced
    <3> HIDE DEF j, n
    <3>7. task'[s].stage = "fail" =>
            n + 1 <= failures'[j] \/ failures'[j] >= MaxAttempts[j]
      BY <1>1, <1>2, <3>1, <3>2, <3>5 DEF Charged
    <3>8. task'[s].stage \in {"deadletter", "failjob", "requeue"} =>
            n + 1 <= failures'[j] \/ failures'[j] >= MaxAttempts[j]
      BY <1>3, <3>1, <3>4
    <3>9. task'[s].stage = "deadletter" => failures'[j] >= MaxAttempts[j]
      BY <1>1, <3>1, <3>6, <3>8
    <3> QED
      BY Zenon, <3>1, <3>3, <3>7, <3>8, <3>9 DEF Charged, j, n
  <2> QED
    BY Zenon, <2>1, <2>2, <2>3, <2>4 DEF TaskStep
<1> QED
  BY Zenon, <1>5, <1>6, <1>7 DEF FailureInv, FailuresBackDeadLetter

-----------------------------------------------------------------------------
(* Rows come from submissions, one per queue and key *)

\* A row that appears is that of a submission whose key is free, or belongs to
\* a goroutine or a retry under way.
LEMMA AppearSteps ==
  ASSUME TypeOK, [Next]_vars, NEW k \in Jobs, ~Exists(jobs, k), Exists(jobs, k)'
  PROVE  \/ ~KeyTaken(jobs, k) /\ \A j \in Jobs : j # k => jobs'[j] = jobs[j]
         \/ \E s \in Slots : task[s].stage # "idle" /\ task[s].job = k
         \/ \E r \in Retriers : retry[r] # NoJob /\ retry[r] = k
<1>1. jobs \in [Jobs -> Row] /\ jobs[k].status = "absent" /\ jobs'[k].status # "absent"
  BY Zenon DEF TypeOK, Exists
<1>2. ASSUME NEW j \in Jobs, NEW kind \in Submissions, CreateJob(j, kind)
      PROVE  ~KeyTaken(jobs, k) /\ \A i \in Jobs : i # k => jobs'[i] = jobs[i]
  <2>1. kind \in Kinds
    BY Zenon, SubmissionsAssumption
  <2>2. jobs' = Create(jobs, j, kind) /\ \A i \in Jobs : i # j => jobs'[i] = jobs[i]
    BY Zenon, <1>1, <1>2, <2>1, OtherRows DEF CreateJob
  <2>3. k = j
    BY Zenon, <1>1, <2>2
  <2>4. ~KeyTaken(jobs, j)
    BY Zenon, <1>1, <2>2, <2>3 DEF Create
  <2> QED
    BY Zenon, <2>2, <2>3, <2>4
<1>3. ASSUME NEW r \in Retriers, RetryCommit(r)
      PROVE  retry[r] # NoJob /\ retry[r] = k
  <2>1. retry[r] \in Jobs /\ jobs' = RetryDLQJob(jobs, retry[r]) /\ retry[r] # NoJob
    BY Zenon, <1>3 DEF RetryCommit, TypeOK
  <2>2. k # retry[r] => jobs'[k] = jobs[k]
    BY Zenon, <1>1, <2>1, OtherRows
  <2> QED
    BY Zenon, <1>1, <2>1, <2>2
<1>4. CASE ApiNext
  BY Zenon, <1>1, <1>2, <1>3, <1>4 DEF ApiNext, SetPaused, RetryCheck, RetryAbort
<1>5. ASSUME NEW w \in Workers, ProcessNext(w)
      PROVE  FALSE
  <2>1. CASE ClaimCommit(w)
    <3>1. ASSUME NEW S PROVE k \notin S => ClaimJobs(jobs, S, w)[k] = jobs[k]
      BY Zenon DEF ClaimJobs
    <3>2. PICK S \in ClaimChoices(jobs, poll[w].queue, poll[w].budget) :
            jobs' = ClaimJobs(jobs, S, w) \/ jobs' = jobs
      BY Zenon, <2>1 DEF ClaimCommit
    <3>3. k \notin S
      BY Zenon, <1>1, <3>2 DEF ClaimChoices, Claimable
    <3> QED
      BY Zenon, <1>1, <3>1, <3>2, <3>3
  <2>2. CASE ShutdownRelease(w)
    <3>1. ReleaseJobs(jobs, w)[k] = jobs[k]
      BY Zenon, <1>1 DEF ReleaseJobs
    <3> QED
      BY Zenon, <1>1, <2>2, <3>1 DEF ShutdownRelease
  <2>3. CASE Heartbeat(w)
    <3>1. RenewLeases(jobs, w)[k] = jobs[k]
      BY Zenon, <1>1 DEF RenewLeases, Active
    <3> QED
      BY Zenon, <1>1, <2>3, <3>1 DEF Heartbeat
  <2> QED
    BY Zenon, <1>1, <1>5, <2>1, <2>2, <2>3 DEF ProcessNext, RegisterWorker, Crash, Terminate,
       ShutdownDeregister, PollOnce, ClaimSnapshot, Dispatch
<1>6. ASSUME NEW s \in Slots, ExecutorNext(s)
      PROVE  task[s].stage # "idle" /\ task[s].job = k
  <2> DEFINE j == task[s].job
             n == task[s].attempts + 1
  <2>1. task[s].stage # "idle"
    BY Zenon, <1>6 DEF ExecutorNext, At, Gate, SkipExecution, StartRunning, HandlerSucceeds,
           HandlerFails, Complete, RecordCompleted, RecordFailed, DeadLetter,
           MarkFailed, Requeue
  <2>2. j \in Jobs
    BY Zenon, <2>1, TaskTyping
  <2>3. \/ jobs' = jobs
        \/ jobs' = SetJobRunning(jobs, j)
        \/ jobs' = CompleteJob(jobs, j)
        \/ jobs' = FailJob(jobs, j, n)
        \/ jobs' = RequeueForRetry(jobs, j, n)
        \/ jobs' = MoveToDLQ(jobs, j, n)
    BY Zenon, <1>6 DEF ExecutorNext, Gate, SkipExecution, StartRunning, HandlerSucceeds,
           HandlerFails, Complete, RecordCompleted, RecordFailed, DeadLetter,
           MarkFailed, Requeue, tables
  <2> HIDE DEF j, n
  <2>4. ASSUME k # j
        PROVE  jobs'[k] = jobs[k]
    <3>1. /\ SetJobRunning(jobs, j)[k] = jobs[k]
          /\ CompleteJob(jobs, j)[k] = jobs[k]
          /\ FailJob(jobs, j, n)[k] = jobs[k]
          /\ RequeueForRetry(jobs, j, n)[k] = jobs[k]
          /\ MoveToDLQ(jobs, j, n)[k] = jobs[k]
      <4>1. jobs \in [Jobs -> Row]
        BY Zenon, <1>1
      <4> QED
        BY <2>2, <2>4, <4>1, OtherRows
    <3> QED
      BY Zenon, <2>3, <3>1
  <2> QED
    BY Zenon, <1>1, <2>1, <2>4 DEF j
<1>7. CASE ReapJobs
  <2>1. RequeueOrphanedJobs(jobs)[k] = jobs[k]
    BY Zenon, <1>1, BackgroundEffects DEF Active
  <2> QED
    BY Zenon, <1>1, <1>7, <2>1 DEF ReapJobs
<1>8. CASE TimeNext
  <2>1. \/ jobs' = jobs
        \/ \E j \in Jobs :
             \/ jobs[j].status = "queued"
                  /\ jobs' = [jobs EXCEPT ![j] = [jobs[j] EXCEPT !.due = TRUE]]
             \/ jobs' = [jobs EXCEPT ![j] = [jobs[j] EXCEPT !.lease = "expired"]]
    BY Zenon, <1>8 DEF TimeNext, BecomeDue, LeaseRunsOut, HeartbeatGoesStale
  <2>2. [jobs[k] EXCEPT !.due = TRUE].status = "absent"
        /\ [jobs[k] EXCEPT !.lease = "expired"].status = "absent"
    BY Zenon, <1>1, BackgroundEffects DEF RowIs
  <2> QED
    BY Zenon, <1>1, <2>1, <2>2
<1>9. CASE MarkDeadWorkers \/ UNCHANGED vars
  BY Zenon, <1>1, <1>9 DEF MarkDeadWorkers, vars
<1> QED
  BY Zenon, <1>4, <1>5, <1>6, <1>7, <1>8, <1>9 DEF Next

\* A retry finds its job in the table; a success is that of a goroutine.
LEMMA RequestSteps ==
  ASSUME TypeOK, [Next]_vars
  PROVE  /\ \A r \in Retriers : \/ retry'[r] = NoJob \/ retry'[r] = retry[r]
                                \/ Exists(jobs, retry'[r])
         /\ \A j \in succeeded' :
              \/ j \in succeeded
              \/ \E s \in Slots : task[s].stage # "idle" /\ task[s].job = j
<1>1. retry \in [Retriers -> Jobs \cup {NoJob}]
  BY Zenon DEF TypeOK
<1>2. CASE ApiNext
  <2>1. \A r \in Retriers : \/ retry'[r] = NoJob \/ retry'[r] = retry[r]
                            \/ Exists(jobs, retry'[r])
    BY ZenonT(40), <1>1, <1>2 DEF ApiNext, CreateJob, SetPaused, RetryCheck, RetryCommit,
       RetryAbort, Exists
  <2> QED
    BY Zenon, <1>2, <2>1 DEF ApiNext, CreateJob, SetPaused, RetryCheck, RetryCommit, RetryAbort
<1>3. ASSUME NEW w \in Workers, ProcessNext(w) PROVE UNCHANGED <<retry, succeeded>>
  BY ZenonT(40), <1>3 DEF ProcessNext, RegisterWorker, Heartbeat, Crash, Terminate,
     ShutdownRelease, ShutdownDeregister, PollOnce, ClaimSnapshot, ClaimCommit, Dispatch
<1>4. ASSUME NEW s \in Slots, ExecutorNext(s)
      PROVE  /\ retry' = retry
             /\ \A j \in succeeded' : \/ j \in succeeded
                                      \/ task[s].stage # "idle" /\ task[s].job = j
  BY ZenonT(40), <1>4 DEF ExecutorNext, Gate, SkipExecution, StartRunning, HandlerSucceeds,
         HandlerFails, Complete, RecordCompleted, RecordFailed, DeadLetter,
         MarkFailed, Requeue, history, At
<1>5. CASE ReapJobs \/ MarkDeadWorkers \/ TimeNext \/ UNCHANGED vars
  BY Zenon, <1>5 DEF ReapJobs, MarkDeadWorkers, TimeNext, BecomeDue, LeaseRunsOut,
     HeartbeatGoesStale, vars, history
<1> QED
  BY Zenon, <1>2, <1>3, <1>4, <1>5 DEF Next

\* ExistInv holds initially and is preserved by every step.
LEMMA ExistInductive ==
  /\ Init => ExistInv
  /\ TypeOK /\ TypeOK' /\ ExistInv /\ [Next]_vars => ExistInv'
<1>1. Init => ExistInv
  BY DEF Init, ExistInv, UniqueKeys, Exists, NoRow, Idle
<1>2. ASSUME TypeOK, TypeOK', ExistInv, [Next]_vars
      PROVE  ExistInv'
  <2>1. ASSUME NEW k \in Jobs, Exists(jobs, k)
        PROVE  Exists(jobs, k)'
    <3>1. RowStep(k)
      BY Zenon, <1>2, RowSteps
    <3> QED
      BY Zenon, <2>1, <3>1 DEF RowStep, SameRow, Rescheduled, WrittenBy, Exists
  <2>2. ASSUME NEW s \in Slots, task'[s].stage # "idle"
        PROVE  task'[s].job \in Jobs /\ Exists(jobs, task[s].job)'
    <3>1. TaskStep(s)
      BY Zenon, <1>2, TaskSteps
    <3>2. CASE task'[s] = task[s] \/ Advanced(s)
      <4>1. task'[s].job = task[s].job /\ task[s].stage # "idle"
        BY Zenon, <2>2, <3>2 DEF Advanced
      <4> QED
        BY Zenon, <1>2, <2>1, <4>1 DEF ExistInv, TypeOK
    <3>3. CASE Started(s)
      <4>1. PICK c \in pending[Owner[s]] : task'[s].job = c.job
        BY Zenon, <3>3 DEF Started
      <4>2. Owner[s] \in Workers
        BY Zenon, OwnerAssumption
      <4>3. c.job \in Jobs /\ Exists(jobs, c.job)
        <5>1. c \in Claim
          BY Zenon, <1>2, <4>2 DEF TypeOK
        <5> QED
          BY Zenon, <1>2, <4>2, <5>1 DEF ExistInv, Claim
      <4> QED
        BY Zenon, <2>1, <4>1, <4>3
    <3> QED
      BY Zenon, <2>2, <3>1, <3>2, <3>3 DEF TaskStep
  <2>3. ASSUME NEW w \in Workers, NEW c \in pending'[w]
        PROVE  Exists(jobs, c.job)'
    <3>1. c \in pending[w] \/ (c.job \in Jobs /\ Exists(jobs, c.job))
      BY Zenon, <1>2, PendingSteps
    <3>2. c.job \in Jobs /\ Exists(jobs, c.job)
      <4>1. c \in pending[w] => c \in Claim
        BY Zenon, <1>2 DEF TypeOK
      <4> QED
        BY Zenon, <1>2, <3>1, <4>1 DEF ExistInv, Claim
    <3> QED
      BY Zenon, <2>1, <3>2
  <2>4. ASSUME NEW r \in Retriers, retry'[r] # NoJob
        PROVE  Exists(jobs, retry[r])'
    <3>1. retry'[r] \in Jobs
      BY Zenon, <1>2, <2>4 DEF TypeOK
    <3>2. Exists(jobs, retry'[r])
      BY Zenon, <1>2, <2>4, RequestSteps DEF ExistInv
    <3> QED
      BY Zenon, <2>1, <3>1, <3>2
  <2>5. ASSUME NEW j \in succeeded'
        PROVE  Exists(jobs, j)'
    <3>1. j \in succeeded \/ \E s \in Slots : task[s].stage # "idle" /\ task[s].job = j
      BY Zenon, <1>2, RequestSteps
    <3>2. j \in Jobs /\ Exists(jobs, j)
      BY Zenon, <1>2, <3>1 DEF ExistInv, TypeOK
    <3> QED
      BY Zenon, <2>1, <3>2
  <2>6. ASSUME NEW k \in Jobs, ~Exists(jobs, k), Exists(jobs, k)'
        PROVE  ~KeyTaken(jobs, k) /\ \A j \in Jobs : j # k => jobs'[j] = jobs[j]
    BY Zenon, <1>2, <2>6, AppearSteps DEF ExistInv
  <2>7. ASSUME NEW j \in Jobs, NEW k \in Jobs, Clash(j, k), Exists(jobs, j)', Exists(jobs, k)'
        PROVE  j = k
    <3>1. Clash(k, j)
      BY Zenon, <2>7 DEF Clash
    <3>2. CASE Exists(jobs, j) /\ Exists(jobs, k)
      BY Zenon, <1>2, <2>7, <3>2 DEF ExistInv, UniqueKeys
    <3>3. CASE ~Exists(jobs, j)
      BY Zenon, <2>6, <2>7, <3>1, <3>3 DEF Clash, KeyTaken, Exists
    <3>4. CASE ~Exists(jobs, k)
      BY Zenon, <2>6, <2>7, <3>1, <3>4 DEF Clash, KeyTaken, Exists
    <3> QED
      BY Zenon, <3>2, <3>3, <3>4
  <2> QED
    BY Zenon, <2>2, <2>3, <2>4, <2>5, <2>7 DEF ExistInv, UniqueKeys
<1> QED
  BY Zenon, <1>1, <1>2
=============================================================================
