------------------------- MODULE SchedulerOwnership -------------------------
(***************************************************************************)
(* The steps of Scheduler while workers keep their leases and no two retry *)
(* requests overlap.  They are sorted into four kinds: those of the        *)
(* environment (API, processes, reaper, clock), of a retry's commit, of    *)
(* dispatch, and of an executor.  Each keeps the ownership of rows, moves a *)
(* row along the life cycle of JobLifecycle, and admits no row to a queue  *)
(* unless it reads a budget or claims.                                     *)
(***************************************************************************)
EXTENDS SchedulerSteps

-----------------------------------------------------------------------------
(* Steps of the environment *)

\* No step of the environment takes a row from an executor of a process that
\* is up, or from a running handler.
LEMMA OwnedIsKept ==
  ASSUME LeaseInv, NEW k \in Jobs, Moved(k),
         \/ jobs[k].status \in Active /\ proc[jobs[k].worker] = "up"
         \/ jobs[k].status = "running" /\ InUse(jobs[k].worker)
         \/ jobs[k].status \in {"failed", "dead_letter"}
  PROVE  Kept(k)
BY Zenon DEF LeaseInv, Moved, Submitted, ClaimedBy, Returned, Active, InUse

\* What an executor relies on survives where the row is kept.
LEMMA KeptHolds ==
  ASSUME NEW k \in Jobs, Kept(k), NEW stage, NEW w, NEW n,
         Holds(stage, jobs[k], w, n)
  PROVE  Holds(stage, jobs'[k], w, n)
BY Zenon DEF Kept, Holds, Copied

\* A step of the environment preserves the invariant.
LEMMA EnvKeeps ==
  ASSUME TypeOK, TypeOK', OwnInv, EnvStep
  PROVE  OwnInv'
<1> USE OwnerAssumption
<1>0. /\ InUseInv /\ LeaseInv /\ RevivalInv /\ ClaimsInv /\ HoldersInv
      /\ ComparedInv /\ HandledInv /\ ApartInv /\ AttemptsInv
      /\ ExclusiveExecution /\ DLQMatchesStatus
  BY Zenon DEF OwnInv
<1>1. /\ \A k \in Jobs : Moved(k)
      /\ \A w \in Workers : ProcStep(w) /\ ClaimsStep(w)
      /\ \A s \in Slots : StillStep(s)
      /\ \A r \in Retriers : RevivalStep(r)
      /\ dlq' = dlq
  BY Zenon DEF EnvStep
<1>2. /\ task \in [Slots -> Task] /\ proc \in [Workers -> ProcState]
      /\ proc' \in [Workers -> ProcState]
      /\ \A s \in Slots : task[s].stage # "idle" => task[s].job \in Jobs
      /\ pending \in [Workers -> SUBSET Claim]
      /\ pending' \in [Workers -> SUBSET Claim]
      /\ retry' \in [Retriers -> Jobs \cup {NoJob}]
  BY Zenon DEF TypeOK
<1>3. \A s \in Slots : Owner[s] \in Workers
  BY Zenon
<1>4. InUseInv'
  <2>1. ASSUME NEW w \in Workers, proc'[w] \notin {"up", "stopping"}
        PROVE  pending'[w] = {}
    BY Zenon, <1>0, <1>1, <2>1 DEF InUseInv, ClaimsStep
  <2>2. ASSUME NEW s \in Slots, task'[s].stage # "idle"
        PROVE  InUse(Owner[s])'
    <3>1. /\ task'[s] = task[s]
          /\ \/ proc'[Owner[s]] = proc[Owner[s]]
             \/ proc'[Owner[s]] \in {"stopping", "released"}
      BY Zenon, <1>1, <2>2 DEF StillStep
    <3>2. InUse(Owner[s])
      BY Zenon, <1>0, <2>2, <3>1 DEF InUseInv
    <3> QED
      BY Zenon, <3>1, <3>2 DEF InUse
  <2> QED
    BY Zenon, <2>1, <2>2 DEF InUseInv
<1>5. LeaseInv'
  <2> SUFFICES ASSUME NEW k \in Jobs, jobs'[k].status \in Active
               PROVE  /\ jobs'[k].worker \in Workers
                      /\ jobs'[k].lease = "expired" => proc'[jobs'[k].worker] = "down"
    BY Zenon DEF LeaseInv
  <2>1. CASE Kept(k)
    BY Zenon, <1>0, <1>1, <2>1 DEF Kept, LeaseInv, ProcStep
  <2>2. CASE \E w \in Workers : ClaimedBy(w, k)
    BY Zenon, <2>2 DEF ClaimedBy, RowIs
  <2>3. CASE Submitted(k) \/ Returned(k)
    BY Zenon, <2>3 DEF Submitted, Returned, RowIs, Active
  <2> QED
    BY Zenon, <1>1, <2>1, <2>2, <2>3 DEF Moved
<1>6. RevivalInv'
  <2> SUFFICES ASSUME NEW r \in Retriers, retry'[r] # NoJob
               PROVE  retry'[r] \in Jobs /\ jobs'[retry'[r]].status = "dead_letter"
    BY Zenon DEF RevivalInv
  <2>1. retry'[r] \in Jobs /\ jobs[retry'[r]].status = "dead_letter"
    BY Zenon, <1>0, <1>1 DEF RevivalInv, RevivalStep
  <2>2. Kept(retry'[r])
    BY Zenon, <1>0, <1>1, <2>1, OwnedIsKept
  <2> QED
    BY Zenon, <2>1, <2>2 DEF Kept
<1>7. ClaimsInv'
  <2> SUFFICES ASSUME NEW w \in Workers, proc'[w] = "up", NEW c \in pending'[w]
               PROVE  Copied(jobs'[c.job], w, c.attempts, "claimed")
    BY Zenon DEF ClaimsInv
  <2>1. CASE pending'[w] = pending[w]
    <3>1. proc[w] = "up"
      BY Zenon, <1>0, <1>1, <2>1 DEF ProcStep, InUseInv
    <3>2. Copied(jobs[c.job], w, c.attempts, "claimed")
      BY Zenon, <1>0, <2>1, <3>1 DEF ClaimsInv
    <3>3. c.job \in Jobs
      BY <1>2 DEF Claim
    <3>4. Kept(c.job)
      BY Zenon, <1>0, <1>1, <3>1, <3>2, <3>3, OwnedIsKept DEF Copied, Active
    <3> QED
      BY Zenon, <3>2, <3>4 DEF Copied, Kept
  <2> QED
    BY Zenon, <1>1, <2>1 DEF ClaimsStep
<1>8. ASSUME NEW s \in Slots, task'[s].stage # "idle", proc'[Owner[s]] = "up"
      PROVE  proc[Owner[s]] = "up" /\ task'[s] = task[s]
  <2>1. task'[s] = task[s]
    BY Zenon, <1>1, <1>8 DEF StillStep
  <2>2. InUse(Owner[s])
    BY Zenon, <1>0, <1>8, <2>1 DEF InUseInv
  <2>3. proc[Owner[s]] \in {"new", "up"}
    BY Zenon, <1>1, <1>3, <1>8 DEF ProcStep
  <2> QED
    BY Zenon, <2>1, <2>2, <2>3 DEF InUse
<1>9. HoldersInv'
  <2> SUFFICES ASSUME NEW s \in Slots, proc'[Owner[s]] = "up"
               PROVE  Holds(task'[s].stage, jobs'[task'[s].job], Owner[s],
                            task'[s].attempts)
    BY Zenon DEF HoldersInv
  <2>1. CASE task'[s].stage \notin Writing
    BY Zenon, <2>1 DEF Holds, Writing
  <2>2. CASE task'[s].stage \in Writing
    <3>1. proc[Owner[s]] = "up" /\ task'[s] = task[s]
      BY Zenon, <1>8, <2>2 DEF Writing
    <3>2. Holds(task[s].stage, jobs[task[s].job], Owner[s], task[s].attempts)
      BY Zenon, <1>0, <3>1 DEF HoldersInv
    <3>3. task[s].job \in Jobs
      BY Zenon, <1>2, <2>2, <3>1 DEF Writing
    <3>4. Kept(task[s].job)
      <4>1. \/ jobs[task[s].job].status \in Active /\ jobs[task[s].job].worker = Owner[s]
            \/ jobs[task[s].job].status = "failed"
        BY Zenon, <2>2, <3>1, <3>2 DEF Holds, Copied, Active, Writing
      <4> QED
        BY ZenonT(40), <1>0, <1>1, <3>1, <3>3, <4>1, OwnedIsKept
    <3> QED
      BY Zenon, <3>1, <3>2, <3>3, <3>4, KeptHolds
  <2> QED
    BY Zenon, <2>1, <2>2
<1>10. ComparedInv'
  BY Zenon, <1>0, <1>1 DEF ComparedInv, StillStep
<1>11. HandledInv'
  <2> SUFFICES ASSUME NEW s \in Slots, task'[s].stage = "handle"
               PROVE  /\ jobs'[task'[s].job].worker = Owner[s]
                      /\ jobs'[task'[s].job].status = "running"
    BY Zenon DEF HandledInv
  <2>1. task'[s] = task[s] /\ task[s].stage = "handle" /\ task[s].job \in Jobs
    BY Zenon, <1>1, <1>2 DEF StillStep
  <2>2. /\ jobs[task[s].job].worker = Owner[s] /\ InUse(Owner[s])
        /\ jobs[task[s].job].status = "running"
    BY Zenon, <1>0, <2>1 DEF HandledInv, InUseInv
  <2>3. Kept(task[s].job)
    BY Zenon, <1>0, <1>1, <2>1, <2>2, OwnedIsKept
  <2> QED
    BY Zenon, <2>1, <2>2, <2>3 DEF Kept
<1>12. ApartInv'
  <2> SUFFICES ASSUME NEW s \in Slots, task'[s].stage \in Writing,
                      proc'[Owner[s]] = "up"
               PROVE  /\ \A c \in pending'[Owner[s]] : c.job # task'[s].job
                      /\ \A x \in Slots \ {s} :
                           Owner[x] = Owner[s] /\ task'[x].stage \in Writing =>
                             task'[x].job # task'[s].job
    BY Zenon DEF ApartInv
  <2>1. proc[Owner[s]] = "up" /\ task'[s] = task[s]
    BY Zenon, <1>8 DEF Writing
  <2>2. ASSUME NEW x \in Slots \ {s}, Owner[x] = Owner[s], task'[x].stage \in Writing
        PROVE  task'[x].job # task'[s].job
    <3>1. task'[x] = task[x]
      BY Zenon, <1>8, <2>2 DEF Writing
    <3> QED
      BY Zenon, <1>0, <2>1, <2>2, <3>1 DEF ApartInv
  <2>3. ASSUME NEW c \in pending'[Owner[s]]
        PROVE  c.job # task'[s].job
    <3>1. CASE pending'[Owner[s]] = pending[Owner[s]]
      BY Zenon, <1>0, <2>1, <2>3, <3>1 DEF ApartInv
    <3>2. CASE jobs[c.job].status = "queued"
      <4>1. Holds(task[s].stage, jobs[task[s].job], Owner[s], task[s].attempts)
        BY Zenon, <1>0, <2>1 DEF HoldersInv
      <4>2. jobs[task[s].job].status # "queued"
        BY Zenon, <2>1, <4>1 DEF Holds, Copied, Writing
      <4> QED
        BY Zenon, <2>1, <3>2, <4>2
    <3> QED
      BY Zenon, <1>1, <1>3, <2>3, <3>1, <3>2 DEF ClaimsStep
  <2> QED
    BY Zenon, <2>2, <2>3
<1>13. AttemptsInv'
  <2> SUFFICES ASSUME NEW k \in Jobs, jobs'[k].status # "dead_letter"
               PROVE  jobs'[k].attempts < MaxAttempts[k]
    BY Zenon DEF AttemptsInv
  <2>1. MaxAttempts[k] \in Nat \ {0}
    BY Zenon, MaxAttemptsAssumption
  <2>2. CASE Kept(k)
    BY Zenon, <1>0, <2>2 DEF Kept, AttemptsInv
  <2>3. CASE Submitted(k)
    BY <2>1, <2>3 DEF Submitted
  <2>4. CASE \E w \in Workers : ClaimedBy(w, k)
    BY Zenon, <1>0, <2>4 DEF ClaimedBy, RowIs, AttemptsInv
  <2>5. CASE Returned(k)
    BY Zenon, <1>0, <2>5 DEF Returned, RowIs, AttemptsInv, Active
  <2> QED
    BY Zenon, <1>1, <2>2, <2>3, <2>4, <2>5 DEF Moved
<1>14. ExclusiveExecution'
  <2>1. \A s \in Slots : task'[s].stage = "handle" => task'[s] = task[s]
    BY Zenon, <1>1 DEF StillStep
  <2> QED
    BY Zenon, <1>0, <2>1 DEF ExclusiveExecution
<1>15. DLQMatchesStatus'
  <2> SUFFICES ASSUME NEW k \in Jobs
               PROVE  k \in dlq' <=> jobs'[k].status = "dead_letter"
    BY Zenon DEF DLQMatchesStatus
  <2>1. jobs'[k].status = "dead_letter" <=> jobs[k].status = "dead_letter"
    BY Zenon, <1>1 DEF Moved, Kept, Submitted, ClaimedBy, Returned, RowIs, Active
  <2> QED
    BY Zenon, <1>0, <1>1, <2>1 DEF DLQMatchesStatus
<1> QED
  BY Zenon, <1>4, <1>5, <1>6, <1>7, <1>9, <1>10, <1>11, <1>12, <1>13, <1>14, <1>15
  DEF OwnInv

\* Steps that leave rows, processes, claims and goroutines alone.
LEMMA ElsewhereIsEnv ==
  ASSUME UNCHANGED <<jobs, dlq, proc, pending, task>>,
         \A r \in Retriers : RevivalStep(r)
  PROVE  EnvStep
BY Zenon DEF EnvStep, Moved, Kept, ProcStep, ClaimsStep, StillStep

\* Steps that write only rows.
LEMMA RowsAreEnv ==
  ASSUME UNCHANGED <<dlq, proc, pending, task, retry>>, \A k \in Jobs : Moved(k)
  PROVE  EnvStep
BY Zenon DEF EnvStep, ProcStep, ClaimsStep, StillStep, RevivalStep

\* Submission, pausing, and the check and the roll-back of a retry.
LEMMA ApiIsEnv ==
  ASSUME TypeOK, ApiNext, ~ \E r \in Retriers : RetryCommit(r)
  PROVE  EnvStep
<1>1. jobs \in [Jobs -> Row]
  BY Zenon DEF TypeOK
<1>2. ASSUME NEW j \in Jobs, NEW kind \in Submissions, CreateJob(j, kind)
      PROVE  EnvStep
  <2>1. kind \in Kinds
    BY Zenon, SubmissionsAssumption
  <2>2. jobs[j].status = "absent" /\ jobs' = Create(jobs, j, kind)
    BY Zenon, <1>2 DEF CreateJob, Exists
  <2>3. ASSUME NEW k \in Jobs PROVE Moved(k)
    <3>1. CASE k = j
      <4>1. \/ jobs'[j] = jobs[j]
            \/ RowIs(jobs'[j], "queued", NoWorker, "none", 0)
            \/ RowIs(jobs'[j], "scheduled", NoWorker, "none", 0)
        BY Zenon, <1>1, <2>1, <2>2, RowEffects
      <4> QED
        BY Zenon, <2>2, <3>1, <4>1 DEF Moved, Kept, Submitted, RowIs
    <3>2. CASE k # j
      <4>1. jobs'[k] = jobs[k]
        BY ZenonT(40), <1>1, <2>1, <2>2, <3>2, OtherRows
      <4> QED
        BY Zenon, <4>1 DEF Moved, Kept
    <3> QED
      BY Zenon, <3>1, <3>2
  <2> QED
    BY Zenon, <1>2, <2>3, RowsAreEnv DEF CreateJob
<1>3. CASE \E q \in Pausable : SetPaused(q)
  <2>1. UNCHANGED <<jobs, dlq, proc, pending, task, retry>>
    BY Zenon, <1>3 DEF SetPaused
  <2> QED
    BY Zenon, <2>1, ElsewhereIsEnv DEF RevivalStep
<1>4. ASSUME NEW r \in Retriers, NEW j \in Jobs, RetryCheck(r, j)
      PROVE  EnvStep
  <2>1. \A x \in Retriers : RevivalStep(x)
    BY Zenon, <1>4 DEF RetryCheck, RevivalStep, TypeOK
  <2> QED
    BY Zenon, <1>4, <2>1, ElsewhereIsEnv DEF RetryCheck
<1>5. ASSUME NEW r \in Retriers, RetryAbort(r)
      PROVE  EnvStep
  <2>1. \A x \in Retriers : RevivalStep(x)
    BY Zenon, <1>5 DEF RetryAbort, RevivalStep, TypeOK
  <2> QED
    BY Zenon, <1>5, <2>1, ElsewhereIsEnv DEF RetryAbort
<1> QED
  BY Zenon, <1>2, <1>3, <1>4, <1>5 DEF ApiNext

\* Everything a worker process does before it dispatches.
LEMMA ProcessIsEnv ==
  ASSUME TypeOK, InUseInv, NEW w \in Workers, ProcessNext(w),
         ~ \E s \in Slots, c \in pending[w] : Dispatch(w, s, c)
  PROVE  EnvStep
<1> USE OwnerAssumption
<1>1. /\ jobs \in [Jobs -> Row] /\ proc \in [Workers -> ProcState]
      /\ pending \in [Workers -> SUBSET Claim] /\ task \in [Slots -> Task]
  BY Zenon DEF TypeOK
<1>2. Idle.stage = "idle"
  BY ZenonT(40) DEF Idle
<1>3. CASE RegisterWorker(w)
  <2>1. /\ UNCHANGED <<jobs, dlq, pending, task, retry>> /\ proc[w] = "new"
        /\ proc' = [proc EXCEPT ![w] = "up"] \/ proc' = [proc EXCEPT ![w] = "down"]
    BY Zenon, <1>3 DEF RegisterWorker
  <2>2. pending[w] = {} /\ \A s \in Slots : Owner[s] = w => task[s].stage = "idle"
    BY Zenon, <2>1 DEF InUseInv, InUse
  <2> QED
    BY ZenonT(40), <1>1, <2>1, <2>2 DEF EnvStep, Moved, Kept, ProcStep, ClaimsStep, StillStep,
                            RevivalStep
<1>4. CASE Heartbeat(w)
  <2>1. UNCHANGED <<dlq, proc, pending, task, retry>>
    BY Zenon, <1>4 DEF Heartbeat
  <2>2. jobs' = jobs \/ jobs' = RenewLeases(jobs, w)
    BY Zenon, <1>4 DEF Heartbeat
  <2>3. ASSUME NEW k \in Jobs PROVE Moved(k)
    <3>1. IF jobs[k].worker = w /\ jobs[k].status \in Active
          THEN RowIs(RenewLeases(jobs, w)[k], jobs[k].status, w, "live",
                     jobs[k].attempts)
          ELSE RenewLeases(jobs, w)[k] = jobs[k]
      BY ZenonT(40), <1>1, ManyRowEffects
    <3> QED
      BY ZenonT(40), <2>2, <3>1 DEF Moved, Kept, RowIs
  <2> QED
    BY Zenon, <2>1, <2>3, RowsAreEnv
<1>5. CASE Crash(w) \/ ShutdownDeregister(w)
  <2>1. /\ UNCHANGED <<jobs, dlq, retry>>
        /\ proc' = [proc EXCEPT ![w] = "down"]
        /\ task' = [s \in Slots |-> IF Owner[s] = w THEN Idle ELSE task[s]]
    BY Zenon, <1>5 DEF Crash, ShutdownDeregister
  <2>2. \A x \in Workers : pending'[x] = {} \/ (pending'[x] = pending[x] /\ x # w)
    <3>1. CASE Crash(w)
      BY Zenon, <1>1, <3>1 DEF Crash
    <3>2. CASE ShutdownDeregister(w)
      <4>1. pending' = pending /\ proc[w] = "released"
        BY Zenon, <3>2 DEF ShutdownDeregister
      <4> QED
        BY Zenon, <4>1 DEF InUseInv
    <3> QED
      BY Zenon, <1>5, <3>1, <3>2
  <2> QED
    BY ZenonT(40), <1>1, <1>2, <2>1, <2>2 DEF EnvStep, Moved, Kept, ProcStep, ClaimsStep,
                                  StillStep, RevivalStep
<1>6. CASE Terminate(w)
  BY ZenonT(40), <1>1, <1>6 DEF Terminate, EnvStep, Moved, Kept, ProcStep, ClaimsStep,
                    StillStep, RevivalStep
<1>7. CASE ShutdownRelease(w)
  <2>1. /\ UNCHANGED <<dlq, pending, task, retry>>
        /\ proc[w] = "stopping" /\ proc' = [proc EXCEPT ![w] = "released"]
        /\ pending[w] = {}
        /\ jobs' = jobs \/ jobs' = ReleaseJobs(jobs, w)
    BY ZenonT(40), <1>7 DEF ShutdownRelease
  <2>2. ASSUME NEW k \in Jobs PROVE Moved(k)
    <3>1. IF jobs[k].worker = w /\ jobs[k].status = "claimed"
          THEN RowIs(ReleaseJobs(jobs, w)[k], "queued", NoWorker, "none",
                     jobs[k].attempts)
          ELSE ReleaseJobs(jobs, w)[k] = jobs[k]
      BY <1>1, ManyRowEffects
    <3> QED
      BY ZenonT(40), <2>1, <3>1 DEF Moved, Kept, Returned, Active
  <2> QED
    BY Zenon, <1>1, <2>1, <2>2 DEF EnvStep, ProcStep, ClaimsStep, StillStep, RevivalStep
<1>8. CASE PollOnce(w) \/ \E q \in Queues : ClaimSnapshot(w, q)
  <2>1. UNCHANGED <<jobs, dlq, proc, pending, task, retry>>
    BY Zenon, <1>8 DEF PollOnce, ClaimSnapshot
  <2> QED
    BY Zenon, <2>1, ElsewhereIsEnv DEF RevivalStep
<1>9. CASE ClaimCommit(w)
  <2>1. PICK S \in ClaimChoices(jobs, poll[w].queue, poll[w].budget),
             res \in Results(w) :
          /\ jobs' = IF Applied(res) THEN ClaimJobs(jobs, S, w) ELSE jobs
          /\ pending' = [pending EXCEPT ![w] =
               IF res = "ok"
               THEN {[job |-> j, attempts |-> jobs[j].attempts] : j \in S}
               ELSE {}]
    BY ZenonT(40), <1>9 DEF ClaimCommit
  <2>2. \A j \in S : j \in Jobs /\ jobs[j].status = "queued"
    BY ZenonT(40) DEF ClaimChoices, Claimable
  <2>3. \A k \in Jobs :
          IF k \in S
          THEN RowIs(ClaimJobs(jobs, S, w)[k], "claimed", w, "live", jobs[k].attempts)
          ELSE ClaimJobs(jobs, S, w)[k] = jobs[k]
    BY <1>1, ManyRowEffects
  <2>4. ASSUME NEW k \in Jobs PROVE Moved(k)
    BY ZenonT(40), <2>1, <2>2, <2>3 DEF Moved, Kept, ClaimedBy
  <2>5. UNCHANGED <<dlq, proc, task, retry>> /\ proc[w] = "up"
    BY Zenon, <1>9 DEF ClaimCommit
  <2>6. ASSUME NEW x \in Workers PROVE ClaimsStep(x)
    <3>1. CASE x # w
      BY ZenonT(40), <1>1, <2>1, <2>5, <3>1 DEF ClaimsStep
    <3>2. CASE x = w /\ res # "ok"
      BY Zenon, <1>1, <2>1, <3>2 DEF ClaimsStep
    <3>3. CASE x = w /\ res = "ok"
      <4>1. /\ jobs' = ClaimJobs(jobs, S, w)
            /\ pending'[w] = {[job |-> j, attempts |-> jobs[j].attempts] : j \in S}
        BY ZenonT(40), <1>1, <2>1, <3>3 DEF Applied
      <4>2. ASSUME NEW c \in pending'[w]
            PROVE  /\ jobs[c.job].status = "queued"
                   /\ Copied(jobs'[c.job], w, c.attempts, "claimed")
        <5>1. PICK j \in S : c = [job |-> j, attempts |-> jobs[j].attempts]
          BY Zenon, <4>1
        <5> QED
          BY ZenonT(40), <2>2, <2>3, <4>1, <5>1 DEF Copied, RowIs
      <4> QED
        BY ZenonT(40), <2>5, <3>3, <4>2 DEF ClaimsStep
    <3> QED
      BY ZenonT(40), <3>1, <3>2, <3>3
  <2> QED
    BY Zenon, <2>4, <2>5, <2>6 DEF EnvStep, ProcStep, StillStep, RevivalStep
<1> QED
  BY Zenon, <1>3, <1>4, <1>5, <1>6, <1>7, <1>8, <1>9 DEF ProcessNext

\* The reaper and the clock; no lease lapses under a live worker.
LEMMA BackgroundIsEnv ==
  ASSUME TypeOK, Lapsing = {}, ReapJobs \/ MarkDeadWorkers \/ TimeNext \/ UNCHANGED vars
  PROVE  EnvStep
<1>1. jobs \in [Jobs -> Row]
  BY Zenon DEF TypeOK
<1>2. CASE ReapJobs
  <2>1. ASSUME NEW k \in Jobs PROVE Moved(k)
    <3>1. IF jobs[k].status \in Active /\ jobs[k].lease = "expired"
          THEN RowIs(jobs'[k], "queued", NoWorker, "none", jobs[k].attempts)
          ELSE jobs'[k] = jobs[k]
      BY ZenonT(40), <1>1, <1>2, BackgroundEffects DEF ReapJobs
    <3> QED
      BY Zenon, <3>1 DEF Moved, Kept, Returned
  <2> QED
    BY Zenon, <1>2, <2>1, RowsAreEnv DEF ReapJobs, engine
<1>3. ASSUME NEW j \in Jobs, BecomeDue(j) PROVE EnvStep
  <2>1. RowIs(jobs'[j], jobs[j].status, jobs[j].worker, jobs[j].lease, jobs[j].attempts)
    BY ZenonT(40), <1>1, <1>3, BackgroundEffects DEF BecomeDue
  <2>2. \A k \in Jobs : k # j => jobs'[k] = jobs[k]
    BY Zenon, <1>1, <1>3 DEF BecomeDue
  <2>3. \A k \in Jobs : Moved(k)
    BY Zenon, <2>1, <2>2 DEF Moved, Kept, RowIs
  <2> QED
    BY Zenon, <1>3, <2>3, RowsAreEnv DEF BecomeDue, engine
<1>4. ASSUME NEW j \in Jobs, LeaseRunsOut(j) PROVE EnvStep
  <2>1. RowIs(jobs'[j], jobs[j].status, jobs[j].worker, "expired", jobs[j].attempts)
    BY ZenonT(40), <1>1, <1>4, BackgroundEffects DEF LeaseRunsOut
  <2>2. \A k \in Jobs : k # j => jobs'[k] = jobs[k]
    BY Zenon, <1>1, <1>4 DEF LeaseRunsOut
  <2>3. jobs[j].status \notin Active \/ proc[jobs[j].worker] = "down"
    BY Zenon, <1>4 DEF LeaseRunsOut
  <2>4. \A k \in Jobs : Moved(k)
    BY Zenon, <2>1, <2>2, <2>3 DEF Moved, Kept, RowIs
  <2> QED
    BY Zenon, <1>4, <2>4, RowsAreEnv DEF LeaseRunsOut, engine
<1>5. CASE MarkDeadWorkers \/ (\E w \in Workers : HeartbeatGoesStale(w)) \/ UNCHANGED vars
  <2>1. UNCHANGED <<jobs, dlq, proc, pending, task, retry>>
    BY Zenon, <1>5 DEF MarkDeadWorkers, HeartbeatGoesStale, engine, vars
  <2> QED
    BY ZenonT(40), <2>1, ElsewhereIsEnv DEF RevivalStep
<1> QED
  BY Zenon, <1>2, <1>3, <1>4, <1>5 DEF TimeNext

-----------------------------------------------------------------------------
(* The commit of a retry, and dispatch *)

\* Whoever relies on a row has seen it in one of these statuses.
LEMMA HeldStatus ==
  ASSUME HoldersInv, NEW s \in Slots, task[s].stage \in Writing, proc[Owner[s]] = "up"
  PROVE  /\ jobs[task[s].job].status \in {"claimed", "running", "failed"}
         /\ jobs[task[s].job].worker = Owner[s]
BY Zenon DEF HoldersInv, Holds, Copied, Writing

\* The job is still dead-lettered when it is requeued.
LEMMA RetryKeeps ==
  ASSUME TypeOK, TypeOK', OwnInv, \A x, y \in Retriers : x = y,
         NEW r \in Retriers, RetryCommit(r)
  PROVE  OwnInv'
<1> DEFINE j == retry[r]
<1> USE OwnerAssumption
<1>0. /\ InUseInv /\ LeaseInv /\ RevivalInv /\ ClaimsInv /\ HoldersInv
      /\ ComparedInv /\ HandledInv /\ ApartInv /\ AttemptsInv
      /\ ExclusiveExecution /\ DLQMatchesStatus
  BY ZenonT(40) DEF OwnInv
<1>1. /\ j \in Jobs /\ jobs[j].status = "dead_letter"
      /\ jobs' = RetryDLQJob(jobs, j) /\ dlq' = dlq \ {j}
      /\ retry' = [retry EXCEPT ![r] = NoJob]
      /\ UNCHANGED <<proc, pending, task>>
  BY Zenon, <1>0 DEF RetryCommit, RevivalInv
<1>2. /\ jobs \in [Jobs -> Row] /\ task \in [Slots -> Task]
      /\ \A s \in Slots : task[s].stage # "idle" => task[s].job \in Jobs
      /\ pending \in [Workers -> SUBSET Claim]
      /\ retry \in [Retriers -> Jobs \cup {NoJob}]
  BY Zenon DEF TypeOK
<1> HIDE DEF j
<1>3. RowIs(jobs'[j], "queued", NoWorker, "none", 0)
  BY ZenonT(40), <1>1, <1>2, RowEffects
<1>4. \A k \in Jobs : k # j => jobs'[k] = jobs[k]
  BY ZenonT(40), <1>1, <1>2, OtherRows
<1>5. InUseInv'
  BY Zenon, <1>0, <1>1 DEF InUseInv, InUse
<1>6. LeaseInv'
  BY Zenon, <1>0, <1>1, <1>3, <1>4 DEF LeaseInv, RowIs, Active
<1>7. RevivalInv'
  <2>1. \A x \in Retriers : retry'[x] = NoJob
    BY Zenon, <1>1, <1>2
  <2> QED
    BY Zenon, <2>1 DEF RevivalInv
<1>8. ClaimsInv'
  <2> SUFFICES ASSUME NEW w \in Workers, proc[w] = "up", NEW c \in pending[w]
               PROVE  Copied(jobs'[c.job], w, c.attempts, "claimed")
    BY Zenon, <1>1 DEF ClaimsInv
  <2>1. Copied(jobs[c.job], w, c.attempts, "claimed") /\ c.job \in Jobs
    BY <1>0, <1>2 DEF ClaimsInv, Claim
  <2>2. c.job # j
    BY Zenon, <1>1, <2>1 DEF Copied
  <2> QED
    BY Zenon, <1>4, <2>1, <2>2
<1>9. HoldersInv'
  <2> SUFFICES ASSUME NEW s \in Slots, proc[Owner[s]] = "up"
               PROVE  Holds(task[s].stage, jobs'[task[s].job], Owner[s],
                            task[s].attempts)
    BY Zenon, <1>1 DEF HoldersInv
  <2>1. CASE task[s].stage \notin Writing
    BY Zenon, <2>1 DEF Holds, Writing
  <2>2. CASE task[s].stage \in Writing
    <3>1. task[s].job # j /\ task[s].job \in Jobs
      BY Zenon, <1>0, <1>1, <1>2, <2>2, HeldStatus DEF Writing
    <3> QED
      BY ZenonT(40), <1>0, <1>4, <3>1 DEF HoldersInv
  <2> QED
    BY Zenon, <2>1, <2>2
<1>10. ComparedInv' /\ ExclusiveExecution'
  BY ZenonT(40), <1>0, <1>1 DEF ComparedInv, ExclusiveExecution
<1>11. HandledInv'
  BY ZenonT(40), <1>0, <1>1, <1>2, <1>4 DEF HandledInv
<1>12. ApartInv'
  BY ZenonT(40), <1>0, <1>1 DEF ApartInv
<1>13. AttemptsInv'
  <2>1. jobs'[j].attempts = 0 /\ MaxAttempts[j] \in Nat \ {0}
    BY Zenon, <1>1, <1>3, MaxAttemptsAssumption DEF RowIs
  <2>2. \A k \in Jobs \ {j} :
          jobs'[k].status # "dead_letter" => jobs'[k].attempts < MaxAttempts[k]
    BY Zenon, <1>0, <1>4 DEF AttemptsInv
  <2> QED
    BY <2>1, <2>2 DEF AttemptsInv
<1>14. DLQMatchesStatus'
  BY Zenon, <1>0, <1>1, <1>3, <1>4 DEF DLQMatchesStatus, RowIs
<1> QED
  BY Zenon, <1>5, <1>6, <1>7, <1>8, <1>9, <1>10, <1>11, <1>12, <1>13, <1>14 DEF OwnInv

\* The claim turns into a goroutine that holds the same copy.
LEMMA DispatchKeeps ==
  ASSUME TypeOK, TypeOK', OwnInv, NEW w \in Workers, NEW s \in Slots,
         NEW c \in pending[w], Dispatch(w, s, c)
  PROVE  OwnInv'
<1> USE OwnerAssumption
<1>0. /\ InUseInv /\ LeaseInv /\ RevivalInv /\ ClaimsInv /\ HoldersInv
      /\ ComparedInv /\ HandledInv /\ ApartInv /\ AttemptsInv
      /\ ExclusiveExecution /\ DLQMatchesStatus
  BY Zenon DEF OwnInv
<1>1. /\ pending \in [Workers -> SUBSET Claim] /\ task \in [Slots -> Task]
      /\ c \in Claim
  BY Zenon DEF TypeOK
<1>2. /\ UNCHANGED <<jobs, dlq, proc, retry>>
      /\ proc[w] \in {"up", "stopping"} /\ Owner[s] = w /\ task[s].stage = "idle"
      /\ pending' = [pending EXCEPT ![w] = pending[w] \ {c}]
  BY Zenon DEF Dispatch, Free
<1>3. /\ task'[s].stage \in {"gate", "start"}
      /\ task'[s].job = c.job /\ task'[s].attempts = c.attempts
      /\ \A x \in Slots \ {s} : task'[x] = task[x]
  BY Zenon, <1>1 DEF Dispatch
<1>4. InUseInv'
  BY Zenon, <1>0, <1>1, <1>2, <1>3 DEF InUseInv, InUse
<1>5. LeaseInv' /\ RevivalInv' /\ AttemptsInv' /\ DLQMatchesStatus'
  BY ZenonT(40), <1>0, <1>2 DEF LeaseInv, RevivalInv, AttemptsInv, DLQMatchesStatus
<1>6. ClaimsInv'
  BY ZenonT(40), <1>0, <1>1, <1>2 DEF ClaimsInv
<1>7. HoldersInv'
  <2> SUFFICES ASSUME NEW x \in Slots, proc[Owner[x]] = "up"
               PROVE  Holds(task'[x].stage, jobs[task'[x].job], Owner[x],
                            task'[x].attempts)
    BY ZenonT(40), <1>2 DEF HoldersInv
  <2>1. CASE x = s
    BY ZenonT(40), <1>0, <1>2, <1>3, <2>1 DEF ClaimsInv, Holds
  <2>2. CASE x # s
    BY ZenonT(40), <1>0, <1>3, <2>2 DEF HoldersInv
  <2> QED
    BY Zenon, <2>1, <2>2
<1>8. ComparedInv' /\ HandledInv' /\ ExclusiveExecution'
  BY <1>0, <1>2, <1>3 DEF ComparedInv, HandledInv, ExclusiveExecution
<1>9. ApartInv'
  <2> SUFFICES ASSUME NEW x \in Slots, task'[x].stage \in Writing, proc[Owner[x]] = "up"
               PROVE  /\ \A d \in pending'[Owner[x]] : d.job # task'[x].job
                      /\ \A y \in Slots \ {x} :
                           Owner[y] = Owner[x] /\ task'[y].stage \in Writing =>
                             task'[y].job # task'[x].job
    BY Zenon, <1>2 DEF ApartInv
  <2>1. \A d \in pending'[Owner[x]] : d \in pending[Owner[x]] /\ (Owner[x] = w => d # c)
    BY ZenonT(40), <1>1, <1>2
  <2>2. CASE x = s
    <3>1. ASSUME NEW d \in pending[w], d # c PROVE d.job # c.job
      <4>1. d \in Claim
        BY ZenonT(40), <1>1
      <4>2. /\ Copied(jobs[d.job], w, d.attempts, "claimed")
            /\ Copied(jobs[c.job], w, c.attempts, "claimed")
        BY ZenonT(40), <1>0, <1>2, <2>2 DEF ClaimsInv
      <4>3. d.job = c.job => d.attempts = c.attempts
        BY ZenonT(40), <4>2 DEF Copied
      <4> QED
        BY <1>1, <3>1, <4>1, <4>3 DEF Claim
    <3>2. ASSUME NEW y \in Slots \ {s}, Owner[y] = w, task[y].stage \in Writing
          PROVE  task[y].job # c.job
      BY ZenonT(40), <1>0, <1>2, <2>2, <3>2 DEF ApartInv
    <3> QED
      BY Zenon, <1>2, <1>3, <2>1, <2>2, <3>1, <3>2
  <2>3. CASE x # s
    <3>1. task'[x] = task[x] /\ \A d \in pending[Owner[x]] : d.job # task[x].job
      BY ZenonT(40), <1>0, <1>3, <2>3 DEF ApartInv
    <3>2. ASSUME NEW y \in Slots \ {x}, Owner[y] = Owner[x], task'[y].stage \in Writing
          PROVE  task'[y].job # task'[x].job
      <4>1. CASE y = s
        BY ZenonT(40), <1>2, <1>3, <3>1, <3>2, <4>1
      <4>2. CASE y # s
        <5>1. task'[y] = task[y]
          BY Zenon, <1>3, <4>2
        <5> QED
          BY ZenonT(40), <1>0, <3>1, <3>2, <5>1 DEF ApartInv
      <4> QED
        BY ZenonT(40), <4>1, <4>2
    <3> QED
      BY ZenonT(40), <2>1, <3>1, <3>2
  <2> QED
    BY Zenon, <2>2, <2>3
<1> QED
  BY Zenon, <1>4, <1>5, <1>6, <1>7, <1>8, <1>9 DEF OwnInv

-----------------------------------------------------------------------------
(* What an executor does *)

\* Goto and Return touch one slot.
LEMMA SlotEffects ==
  ASSUME task \in [Slots -> Task], NEW s \in Slots
  PROVE  /\ \A stage \in Stage : Goto(s, stage) =>
              Goes(s, stage) /\ \A x \in Slots \ {s} : task'[x] = task[x]
         /\ Return(s) => Ends(s) /\ \A x \in Slots \ {s} : task'[x] = task[x]
<1>1. task[s] \in Task
  BY Zenon
<1>2. ASSUME NEW stage \in Stage, Goto(s, stage)
      PROVE  Goes(s, stage) /\ \A x \in Slots \ {s} : task'[x] = task[x]
  <2> DEFINE new == [task[s] EXCEPT !.stage = stage]
  <2>1. new.stage = stage /\ new.job = task[s].job /\ new.attempts = task[s].attempts
    BY Zenon, <1>1 DEF Task
  <2> HIDE DEF new
  <2>2. task' = [task EXCEPT ![s] = new]
    BY Zenon, <1>2 DEF Goto, new
  <2> QED
    BY Zenon, <2>1, <2>2 DEF Goes
<1>3. ASSUME Return(s)
      PROVE  Ends(s) /\ \A x \in Slots \ {s} : task'[x] = task[x]
  BY Zenon, <1>3 DEF Return, Ends, Idle
<1> QED
  BY Zenon, <1>2, <1>3

\* A statement reaches the database only while the process is up.
LEMMA AppliedIsUp ==
  ASSUME NEW s \in Slots, NEW res \in StatementResults(s), Applied(res)
  PROVE  proc[Owner[s]] = "up"
BY Zenon DEF StatementResults, Results, Applied

\* The steps of executeJob and handleFailure are of these two kinds.
LEMMA ExecutorActs ==
  ASSUME TypeOK, NEW s \in Slots, ExecutorNext(s)
  PROVE  ExecStep(s)
<1> DEFINE j == task[s].job
           n == task[s].attempts
           row == jobs[j]
           Alone == \A x \in Slots \ {s} : task'[x] = task[x]
           Frame == /\ UNCHANGED <<proc, pending, retry>> /\ Alone
                    /\ \A k \in Jobs : k # j => jobs'[k] = jobs[k]
<1>1. task[s].stage # "idle" /\ InUse(Owner[s])
  BY Zenon DEF ExecutorNext, At, Gate, SkipExecution, StartRunning, HandlerSucceeds,
         HandlerFails, Complete, RecordCompleted, RecordFailed, DeadLetter,
         MarkFailed, Requeue, InUse
<1>2. /\ jobs \in [Jobs -> Row] /\ task \in [Slots -> Task]
      /\ j \in Jobs /\ n \in Nat /\ n + 1 \in Nat
      /\ MaxAttempts[j] \in Nat
  BY Zenon, <1>1, TaskTyping, MaxAttemptsAssumption DEF TypeOK
<1>3. /\ \A stage \in Stage : Goto(s, stage) => Goes(s, stage) /\ Alone
      /\ Return(s) => Ends(s) /\ Alone
  BY Zenon, <1>2, SlotEffects
<1>4. /\ RowIs(SetJobRunning(jobs, j)[j], "running", row.worker, row.lease, row.attempts)
      /\ RowIs(CompleteJob(jobs, j)[j], "completed", row.worker, row.lease, row.attempts)
      /\ RowIs(FailJob(jobs, j, n + 1)[j], "failed", row.worker, row.lease, n + 1)
      /\ RowIs(MoveToDLQ(jobs, j, n + 1)[j], "dead_letter", row.worker, row.lease, n + 1)
      /\ RowIs(RequeueForRetry(jobs, j, n + 1)[j], "queued", NoWorker, "none", n + 1)
  BY Zenon, <1>2, RowEffects
<1>5. ASSUME NEW k \in Jobs, k # j
      PROVE  /\ SetJobRunning(jobs, j)[k] = jobs[k]
             /\ CompleteJob(jobs, j)[k] = jobs[k]
             /\ FailJob(jobs, j, n + 1)[k] = jobs[k]
             /\ MoveToDLQ(jobs, j, n + 1)[k] = jobs[k]
             /\ RequeueForRetry(jobs, j, n + 1)[k] = jobs[k]
  <2> HIDE DEF j, n
  <2> QED
    BY <1>2, <1>5, OtherRows
<1> SUFFICES Frame /\ (Turns(s) \/ Writes(s))
  BY Zenon, <1>1 DEF ExecStep
<1> USE DEF Stage
<1>6. CASE Gate(s)
  <2>1. /\ UNCHANGED <<proc, pending, retry, dlq, jobs>> /\ task[s].stage = "gate"
        /\ Goto(s, "skip") \/ Goto(s, "start")
    BY Zenon, <1>6 DEF Gate, At, tables
  <2> QED
    BY Zenon, <1>3, <2>1 DEF Turns
<1>7. CASE SkipExecution(s)
  <2>1. PICK res \in StatementResults(s) :
          jobs' = IF Applied(res) THEN CompleteJob(jobs, j) ELSE jobs
    BY Zenon, <1>7 DEF SkipExecution
  <2>2. /\ UNCHANGED <<proc, pending, retry, dlq>> /\ Ends(s) /\ Alone
        /\ task[s].stage = "skip"
    BY Zenon, <1>3, <1>7 DEF SkipExecution, At
  <2>3. CASE Applied(res)
    BY ZenonT(40), <1>4, <1>5, <2>1, <2>2, <2>3, AppliedIsUp DEF Writes
  <2>4. CASE ~Applied(res)
    BY Zenon, <2>1, <2>2, <2>4 DEF Turns
  <2> QED
    BY Zenon, <2>3, <2>4
<1>8. CASE StartRunning(s)
  <2>1. PICK res \in StatementResults(s) :
          /\ jobs' = IF Applied(res) THEN SetJobRunning(jobs, j) ELSE jobs
          /\ IF res = "ok" THEN Goto(s, "handle") ELSE Return(s)
    BY Zenon, <1>8 DEF StartRunning
  <2>2. UNCHANGED <<proc, pending, retry, dlq>> /\ task[s].stage = "start"
    BY Zenon, <1>8 DEF StartRunning, At
  <2>3. Alone /\ IF res = "ok" THEN Goes(s, "handle") ELSE Ends(s)
    BY Zenon, <1>3, <2>1
  <2>4. CASE Applied(res)
    BY ZenonT(40), <1>4, <1>5, <2>1, <2>2, <2>3, <2>4, AppliedIsUp DEF Writes
  <2>5. CASE ~Applied(res)
    BY Zenon, <2>1, <2>2, <2>3, <2>5 DEF Turns, Applied
  <2> QED
    BY Zenon, <2>4, <2>5
<1>9. CASE HandlerSucceeds(s)
  BY Zenon, <1>3, <1>9 DEF HandlerSucceeds, At, Turns, tables
<1>10. CASE HandlerFails(s)
  BY Zenon, <1>3, <1>10 DEF HandlerFails, At, Turns, tables
<1>11. CASE Complete(s)
  <2>1. PICK res \in StatementResults(s) :
          jobs' = IF Applied(res) THEN CompleteJob(jobs, j) ELSE jobs
    BY Zenon, <1>11 DEF Complete
  <2>2. /\ UNCHANGED <<proc, pending, retry, dlq>> /\ Goes(s, "record") /\ Alone
        /\ task[s].stage = "complete"
    BY Zenon, <1>3, <1>11 DEF Complete, At
  <2>3. Ends(s)
    BY Zenon, <2>2 DEF Goes, Ends
  <2>4. CASE Applied(res)
    BY ZenonT(40), <1>4, <1>5, <2>1, <2>2, <2>3, <2>4, AppliedIsUp DEF Writes
  <2>5. CASE ~Applied(res)
    BY Zenon, <2>1, <2>2, <2>3, <2>5 DEF Turns
  <2> QED
    BY Zenon, <2>4, <2>5
<1>12. CASE RecordCompleted(s)
  BY Zenon, <1>3, <1>12 DEF RecordCompleted, Turns
<1>13. CASE RecordFailed(s)
  <2>1. /\ UNCHANGED <<proc, pending, retry, dlq, jobs>> /\ task[s].stage = "fail"
        /\ Goto(s, IF n + 1 >= MaxAttempts[j] THEN "deadletter" ELSE "failjob")
    BY Zenon, <1>13 DEF RecordFailed, At
  <2>2. CASE n + 1 >= MaxAttempts[j]
    BY Zenon, <1>3, <2>1, <2>2 DEF Turns
  <2>3. CASE n + 1 < MaxAttempts[j]
    <3>1. Goto(s, "failjob")
      BY <1>2, <2>1, <2>3
    <3> QED
      BY Zenon, <1>3, <2>1, <2>3, <3>1 DEF Turns
  <2> QED
    BY <1>2, <2>2, <2>3
<1>14. CASE DeadLetter(s)
  <2>1. PICK res \in StatementResults(s) :
          /\ jobs' = IF Applied(res) /\ j \notin dlq
                     THEN MoveToDLQ(jobs, j, n + 1) ELSE jobs
          /\ dlq' = IF Applied(res) /\ j \notin dlq THEN dlq \cup {j} ELSE dlq
    BY Zenon, <1>14 DEF DeadLetter
  <2>2. /\ UNCHANGED <<proc, pending, retry>> /\ Ends(s) /\ Alone
        /\ task[s].stage = "deadletter"
    BY Zenon, <1>3, <1>14 DEF DeadLetter, At
  <2>3. CASE Applied(res) /\ j \notin dlq
    BY ZenonT(40), <1>4, <1>5, <2>1, <2>2, <2>3, AppliedIsUp DEF Writes
  <2>4. CASE ~(Applied(res) /\ j \notin dlq)
    BY ZenonT(40), <2>1, <2>2, <2>4 DEF Turns
  <2> QED
    BY Zenon, <2>3, <2>4
<1>15. CASE MarkFailed(s)
  <2>1. PICK res \in StatementResults(s) :
          jobs' = IF Applied(res) THEN FailJob(jobs, j, n + 1) ELSE jobs
    BY Zenon, <1>15 DEF MarkFailed
  <2>2. /\ UNCHANGED <<proc, pending, retry, dlq>> /\ Goes(s, "requeue") /\ Alone
        /\ task[s].stage = "failjob"
    BY Zenon, <1>3, <1>15 DEF MarkFailed, At
  <2>3. CASE Applied(res)
    BY ZenonT(40), <1>4, <1>5, <2>1, <2>2, <2>3, AppliedIsUp DEF Writes
  <2>4. CASE ~Applied(res)
    BY Zenon, <2>1, <2>2, <2>4 DEF Turns
  <2> QED
    BY Zenon, <2>3, <2>4
<1>16. CASE Requeue(s)
  <2>1. PICK res \in StatementResults(s) :
          jobs' = IF Applied(res) THEN RequeueForRetry(jobs, j, n + 1) ELSE jobs
    BY Zenon, <1>16 DEF Requeue
  <2>2. /\ UNCHANGED <<proc, pending, retry, dlq>> /\ Ends(s) /\ Alone
        /\ task[s].stage = "requeue"
    BY Zenon, <1>3, <1>16 DEF Requeue, At
  <2>3. CASE Applied(res)
    BY ZenonT(40), <1>4, <1>5, <2>1, <2>2, <2>3, AppliedIsUp DEF Writes
  <2>4. CASE ~Applied(res)
    BY ZenonT(40), <2>1, <2>2, <2>4 DEF Turns
  <2> QED
    BY Zenon, <2>3, <2>4
<1> QED
  BY Zenon, <1>6, <1>7, <1>8, <1>9, <1>10, <1>11, <1>12, <1>13, <1>14, <1>15, <1>16
  DEF ExecutorNext

-----------------------------------------------------------------------------
(* Executors keep ownership *)

\* Nobody else relies on the row an executor is going to write.
LEMMA NobodyElse ==
  ASSUME TypeOK, OwnInv, NEW s \in Slots, task[s].stage \in Writing,
         proc[Owner[s]] = "up"
  PROVE  /\ \A x \in Slots \ {s} :
              \/ task[x].stage = "handle"
              \/ task[x].stage \in Writing /\ proc[Owner[x]] = "up"
              => task[x].job # task[s].job
         /\ \A w \in Workers : proc[w] = "up" =>
              \A c \in pending[w] : c.job # task[s].job
         /\ \A r \in Retriers : retry[r] # NoJob => retry[r] # task[s].job
<1> DEFINE j == task[s].job
<1>0. /\ HoldersInv /\ ApartInv /\ HandledInv /\ ClaimsInv /\ RevivalInv
  BY Zenon DEF OwnInv
<1>1. /\ jobs[j].status \in {"claimed", "running", "failed"}
      /\ jobs[j].worker = Owner[s]
  BY Zenon, <1>0, HeldStatus
<1>2. ASSUME NEW x \in Slots \ {s}, task[x].job = j,
             \/ task[x].stage = "handle"
             \/ task[x].stage \in Writing /\ proc[Owner[x]] = "up"
      PROVE  FALSE
  <2>1. task[x].stage \in Writing
    BY Zenon, <1>2 DEF Writing
  <2>2. jobs[j].worker = Owner[x]
    BY Zenon, <1>0, <1>2, HeldStatus DEF HandledInv
  <2> QED
    BY ZenonT(40), <1>0, <1>1, <1>2, <2>1, <2>2 DEF ApartInv
<1>3. ASSUME NEW w \in Workers, proc[w] = "up", NEW c \in pending[w], c.job = j
      PROVE  FALSE
  <2>1. w = Owner[s]
    BY Zenon, <1>0, <1>1, <1>3 DEF ClaimsInv, Copied
  <2> QED
    BY Zenon, <1>0, <1>3, <2>1 DEF ApartInv
<1>4. \A r \in Retriers : retry[r] # NoJob => retry[r] # j
  BY Zenon, <1>0, <1>1 DEF RevivalInv
<1> QED
  BY Zenon, <1>2, <1>3, <1>4

\* A step that writes no row moves one goroutine along its path.
LEMMA TurnKeeps ==
  ASSUME TypeOK, OwnInv, NEW s \in Slots, ExecStep(s), Turns(s)
  PROVE  OwnInv'
<1> USE OwnerAssumption
<1>0. /\ InUseInv /\ LeaseInv /\ RevivalInv /\ ClaimsInv /\ HoldersInv
      /\ ComparedInv /\ HandledInv /\ ApartInv /\ AttemptsInv
      /\ ExclusiveExecution /\ DLQMatchesStatus
  BY Zenon DEF OwnInv
<1>1. /\ UNCHANGED <<jobs, dlq, proc, pending, retry>> /\ InUse(Owner[s])
      /\ \A x \in Slots \ {s} : task'[x] = task[x]
  BY Zenon DEF ExecStep, Turns
<1>2. InUseInv'
  BY Zenon, <1>0, <1>1 DEF InUseInv, InUse
<1>3. LeaseInv' /\ RevivalInv' /\ AttemptsInv' /\ DLQMatchesStatus' /\ ClaimsInv'
  BY Zenon, <1>0, <1>1 DEF LeaseInv, RevivalInv, AttemptsInv, DLQMatchesStatus, ClaimsInv
<1>4. HoldersInv'
  <2>1. proc[Owner[s]] = "up" =>
          Holds(task'[s].stage, jobs[task'[s].job], Owner[s], task'[s].attempts)
    <3>1. CASE Ends(s)
      BY Zenon, <3>1 DEF Ends, Holds
    <3>2. CASE ~Ends(s)
      BY Zenon, <1>0, <3>2 DEF HoldersInv, Turns, Goes, Holds
    <3> QED
      BY Zenon, <3>1, <3>2
  <2> QED
    BY Zenon, <1>0, <1>1, <2>1 DEF HoldersInv
<1>5. ComparedInv'
  <2>1. /\ task'[s].stage = "deadletter" =>
             task'[s].attempts + 1 >= MaxAttempts[task'[s].job]
        /\ task'[s].stage \in {"failjob", "requeue"} =>
             task'[s].attempts + 1 < MaxAttempts[task'[s].job]
    BY ZenonT(40), <1>0 DEF ComparedInv, Turns, Goes, Ends
  <2> QED
    BY Zenon, <1>0, <1>1, <2>1 DEF ComparedInv
<1>6. task'[s].stage # "handle"
  BY Zenon DEF Turns, Goes, Ends
<1>7. HandledInv' /\ ExclusiveExecution'
  BY <1>0, <1>1, <1>6 DEF HandledInv, ExclusiveExecution
<1>8. ApartInv'
  <2>1. task'[s].stage \in Writing => task[s].stage \in Writing /\ task'[s].job = task[s].job
    BY Zenon DEF Turns, Goes, Ends, Writing
  <2>2. \A x \in Slots : task'[x].stage \in Writing =>
          task[x].stage \in Writing /\ task'[x].job = task[x].job
    BY Zenon, <1>1, <2>1
  <2> QED
    BY ZenonT(40), <1>0, <1>1, <2>2 DEF ApartInv
<1> QED
  BY Zenon, <1>2, <1>3, <1>4, <1>5, <1>7, <1>8 DEF OwnInv

\* A statement WHERE id = $1 writes a row that is the executor's own.
LEMMA WriteKeeps ==
  ASSUME TypeOK, OwnInv, NEW s \in Slots, ExecStep(s), Writes(s)
  PROVE  OwnInv'
<1> DEFINE j == task[s].job
           n == task[s].attempts
<1> USE OwnerAssumption
<1>0. /\ InUseInv /\ LeaseInv /\ RevivalInv /\ ClaimsInv /\ HoldersInv
      /\ ComparedInv /\ HandledInv /\ ApartInv /\ AttemptsInv
      /\ ExclusiveExecution /\ DLQMatchesStatus
  BY Zenon DEF OwnInv
<1>1. /\ UNCHANGED <<proc, pending, retry>> /\ InUse(Owner[s])
      /\ proc[Owner[s]] = "up" /\ task[s].stage # "idle"
      /\ \A x \in Slots \ {s} : task'[x] = task[x]
      /\ \A k \in Jobs : k # j => jobs'[k] = jobs[k]
      /\ \A k \in Jobs : k # j => (k \in dlq' <=> k \in dlq)
  BY ZenonT(40) DEF ExecStep, Writes
<1>2. /\ j \in Jobs /\ n \in Nat /\ Owner[s] \in Workers
      /\ pending \in [Workers -> SUBSET Claim]
      /\ \A x \in Slots : task[x].stage # "idle" => task[x].job \in Jobs
      /\ MaxAttempts[j] \in Nat \ {0}
  BY ZenonT(40), <1>1, TaskTyping, MaxAttemptsAssumption DEF TypeOK
<1>3. task[s].stage \in Writing
  BY Zenon DEF Writes, Writing
<1>4. /\ \A x \in Slots \ {s} :
           \/ task[x].stage = "handle"
           \/ task[x].stage \in Writing /\ proc[Owner[x]] = "up"
           => task[x].job # j
      /\ \A w \in Workers : proc[w] = "up" => \A c \in pending[w] : c.job # j
      /\ \A r \in Retriers : retry[r] # NoJob => retry[r] # j
  BY Zenon, <1>1, <1>3, NobodyElse
<1>5. Holds(task[s].stage, jobs[j], Owner[s], n)
  BY Zenon, <1>0, <1>1 DEF HoldersInv
<1>6. /\ jobs'[j].status \in {"running", "completed", "failed", "dead_letter", "queued"}
      /\ jobs'[j].status = "running" => /\ jobs[j].status = "claimed"
                                        /\ jobs'[j].worker = Owner[s]
                                        /\ jobs'[j].lease = jobs[j].lease
                                        /\ jobs'[j].attempts = n
      /\ j \in dlq' <=> jobs'[j].status = "dead_letter"
  <2>1. j \notin dlq
    BY Zenon, <1>0, <1>1, <1>2, <1>3, HeldStatus DEF DLQMatchesStatus
  <2> QED
    BY ZenonT(40), <1>5, <2>1 DEF Writes, Holds, Copied, RowIs
<1>7. \/ Ends(s)
      \/ Goes(s, "handle") /\ jobs'[j].status = "running"
      \/ /\ Goes(s, "requeue") /\ task[s].stage = "failjob"
         /\ Copied(jobs'[j], Owner[s], n + 1, "failed")
  BY ZenonT(40), <1>5 DEF Writes, RowIs, Holds, Copied
<1>8. jobs'[j].status # "dead_letter" => jobs'[j].attempts < MaxAttempts[j]
  <2>1. jobs[j].attempts < MaxAttempts[j]
    BY ZenonT(40), <1>0, <1>1, <1>2, <1>3, HeldStatus DEF AttemptsInv
  <2>2. task[s].stage \in {"failjob", "requeue"} => n + 1 < MaxAttempts[j]
    BY ZenonT(40), <1>0 DEF ComparedInv
  <2> QED
    BY ZenonT(40), <2>1, <2>2 DEF Writes, RowIs
<1> HIDE DEF j, n
<1>9. InUseInv'
  BY Zenon, <1>0, <1>1 DEF InUseInv, InUse
<1>10. LeaseInv'
  <2> SUFFICES ASSUME NEW k \in Jobs, jobs'[k].status \in Active
               PROVE  /\ jobs'[k].worker \in Workers
                      /\ jobs'[k].lease = "expired" => proc[jobs'[k].worker] = "down"
    BY Zenon, <1>1 DEF LeaseInv
  <2>1. CASE k # j
    BY Zenon, <1>0, <1>1, <2>1 DEF LeaseInv
  <2>2. CASE k = j
    <3>1. /\ jobs[j].status = "claimed" /\ jobs'[j].worker = Owner[s]
          /\ jobs'[j].lease = jobs[j].lease
      BY Zenon, <1>6, <2>2 DEF Active
    <3>2. jobs[j].worker = Owner[s]
      BY Zenon, <1>0, <1>1, <1>3, HeldStatus DEF j
    <3> QED
      BY Zenon, <1>0, <1>2, <2>2, <3>1, <3>2 DEF LeaseInv, Active
  <2> QED
    BY Zenon, <2>1, <2>2
<1>11. RevivalInv'
  BY Zenon, <1>0, <1>1, <1>4 DEF RevivalInv
<1>12. ClaimsInv'
  <2> SUFFICES ASSUME NEW w \in Workers, proc[w] = "up", NEW c \in pending[w]
               PROVE  Copied(jobs'[c.job], w, c.attempts, "claimed")
    BY Zenon, <1>1 DEF ClaimsInv
  <2>1. c.job \in Jobs /\ c.job # j
    BY <1>2, <1>4 DEF Claim
  <2> QED
    BY Zenon, <1>0, <1>1, <2>1 DEF ClaimsInv
<1>13. HoldersInv'
  <2> SUFFICES ASSUME NEW x \in Slots, proc[Owner[x]] = "up"
               PROVE  Holds(task'[x].stage, jobs'[task'[x].job], Owner[x],
                            task'[x].attempts)
    BY Zenon, <1>1 DEF HoldersInv
  <2>1. CASE task'[x].stage \notin Writing
    BY ZenonT(40), <2>1 DEF Holds, Writing
  <2>2. CASE x # s /\ task'[x].stage \in Writing
    <3>1. task'[x] = task[x] /\ task[x].job \in Jobs /\ task[x].job # j
      BY ZenonT(40), <1>1, <1>2, <1>4, <2>2 DEF Writing
    <3> QED
      BY ZenonT(40), <1>0, <1>1, <3>1 DEF HoldersInv
  <2>3. CASE x = s /\ task'[x].stage \in Writing
    <3>1. ~Ends(s)
      BY Zenon, <2>3 DEF Ends, Writing
    <3>2. task'[s].job = j /\ task'[s].attempts = n
      BY ZenonT(40), <1>7, <3>1 DEF Goes, j, n
    <3>3. CASE task'[s].stage = "handle"
      BY ZenonT(40), <1>6, <1>7, <2>3, <3>1, <3>2, <3>3 DEF Goes, Holds, Copied
    <3>4. CASE task'[s].stage = "requeue"
      BY ZenonT(40), <1>7, <2>3, <3>1, <3>2, <3>4 DEF Goes, Holds
    <3> QED
      BY Zenon, <1>7, <3>1, <3>3, <3>4 DEF Goes
  <2> QED
    BY Zenon, <2>1, <2>2, <2>3
<1>14. ComparedInv'
  <2>1. /\ task'[s].stage = "deadletter" =>
             task'[s].attempts + 1 >= MaxAttempts[task'[s].job]
        /\ task'[s].stage \in {"failjob", "requeue"} =>
             task'[s].attempts + 1 < MaxAttempts[task'[s].job]
    BY Zenon, <1>0, <1>7 DEF ComparedInv, Goes, Ends
  <2> QED
    BY ZenonT(40), <1>0, <1>1, <2>1 DEF ComparedInv
<1>15. HandledInv'
  <2> SUFFICES ASSUME NEW x \in Slots, task'[x].stage = "handle"
               PROVE  /\ jobs'[task'[x].job].worker = Owner[x]
                      /\ jobs'[task'[x].job].status = "running"
    BY Zenon DEF HandledInv
  <2>1. CASE x = s
    <3>1. Goes(s, "handle") /\ jobs'[j].status = "running"
      BY Zenon, <1>7, <2>1 DEF Ends, Goes
    <3> QED
      BY Zenon, <1>6, <2>1, <3>1 DEF Goes, j
  <2>2. CASE x # s
    <3>1. task'[x] = task[x] /\ task[x].job \in Jobs /\ task[x].job # j
      BY ZenonT(40), <1>1, <1>2, <1>4, <2>2
    <3> QED
      BY <1>0, <1>1, <3>1 DEF HandledInv
  <2> QED
    BY Zenon, <2>1, <2>2
<1>16. ApartInv'
  <2>1. task'[s].stage \in Writing => task'[s].job = task[s].job
    BY Zenon, <1>7 DEF Ends, Goes, Writing
  <2>2. \A x \in Slots : task'[x].stage \in Writing =>
          task[x].stage \in Writing /\ task'[x].job = task[x].job
    BY Zenon, <1>1, <1>3, <2>1
  <2> QED
    BY <1>0, <1>1, <2>2 DEF ApartInv
<1>17. AttemptsInv'
  BY ZenonT(40), <1>0, <1>1, <1>8 DEF AttemptsInv
<1>18. ExclusiveExecution'
  <2>1. task'[s].stage = "handle" => task'[s].job = j
    BY ZenonT(40), <1>7 DEF Ends, Goes, j
  <2> QED
    BY <1>0, <1>1, <1>4, <2>1 DEF ExclusiveExecution
<1>19. DLQMatchesStatus'
  BY Zenon, <1>0, <1>1, <1>6 DEF DLQMatchesStatus
<1> QED
  BY Zenon, <1>9, <1>10, <1>11, <1>12, <1>13, <1>14, <1>15, <1>16, <1>17, <1>18, <1>19
  DEF OwnInv

-----------------------------------------------------------------------------
(* The whole of a step *)

\* Nothing is owned at the start.
LEMMA OwnInit == Init => OwnInv
<1> SUFFICES ASSUME Init PROVE OwnInv
  BY Zenon
<1>1. /\ \A j \in Jobs : jobs[j].status = "absent" /\ jobs[j].attempts = 0
      /\ \A s \in Slots : task[s].stage = "idle"
      /\ \A w \in Workers : pending[w] = {} /\ proc[w] = "new"
      /\ \A r \in Retriers : retry[r] = NoJob
      /\ dlq = {}
  BY Zenon DEF Init, NoRow, Idle
<1>2. InUseInv /\ RevivalInv /\ ClaimsInv /\ ComparedInv /\ HandledInv /\ ExclusiveExecution
  BY Zenon, <1>1 DEF InUseInv, RevivalInv, ClaimsInv, ComparedInv, HandledInv,
              ExclusiveExecution
<1>3. LeaseInv /\ DLQMatchesStatus
  BY Zenon, <1>1 DEF LeaseInv, DLQMatchesStatus, Active
<1>4. HoldersInv /\ ApartInv
  BY Zenon, <1>1, OwnerAssumption DEF HoldersInv, ApartInv, Holds, Writing
<1>5. AttemptsInv
  BY <1>1, MaxAttemptsAssumption DEF AttemptsInv
<1> QED
  BY Zenon, <1>2, <1>3, <1>4, <1>5 DEF OwnInv

\* Every step is of one of the four kinds.
LEMMA StepKinds ==
  ASSUME TypeOK, OwnInv, Orderly, [Next]_vars
  PROVE  \/ EnvStep
         \/ \E r \in Retriers : RetryCommit(r)
         \/ \E w \in Workers, s \in Slots : \E c \in pending[w] : Dispatch(w, s, c)
         \/ \E s \in Slots : ExecStep(s)
<1>1. InUseInv /\ Lapsing = {}
  BY Zenon DEF OwnInv, Orderly
<1>2. CASE ApiNext
  BY Zenon, <1>2, ApiIsEnv
<1>3. CASE \E w \in Workers : ProcessNext(w)
  BY Zenon, <1>1, <1>3, ProcessIsEnv
<1>4. CASE \E s \in Slots : ExecutorNext(s)
  BY Zenon, <1>4, ExecutorActs
<1>5. CASE ReapJobs \/ MarkDeadWorkers \/ TimeNext \/ UNCHANGED vars
  BY Zenon, <1>1, <1>5, BackgroundIsEnv
<1> QED
  BY Zenon, <1>2, <1>3, <1>4, <1>5 DEF Next

\* OwnInv is inductive in an orderly environment.
LEMMA OwnStep ==
  ASSUME TypeOK, TypeOK', OwnInv, Orderly, [Next]_vars
  PROVE  OwnInv'
<1>1. \A x, y \in Retriers : x = y
  BY Zenon DEF Orderly
<1>2. ASSUME NEW s \in Slots, ExecStep(s) PROVE OwnInv'
  BY Zenon, <1>2, TurnKeeps, WriteKeeps DEF ExecStep
<1> QED
  BY Zenon, <1>1, <1>2, StepKinds, EnvKeeps, RetryKeeps, DispatchKeeps

-----------------------------------------------------------------------------
(* The life cycle *)

\* A row seen through the refinement mapping.
LEMMA MappedRow ==
  ASSUME NEW k \in Jobs, NEW st, NEW n, NEW w,
         jobs'[k].status = st, jobs'[k].attempts = n, Holder(jobs'[k]) = w
  PROVE  Lifecycle!Becomes(k, st, n, w)
BY Zenon DEF Lifecycle!Becomes, Holder

\* A row with the same status, owner and attempts stays.
LEMMA SameStays ==
  ASSUME NEW k \in Jobs, jobs'[k].status = jobs[k].status,
         jobs'[k].worker = jobs[k].worker, jobs'[k].attempts = jobs[k].attempts
  PROVE  Lifecycle!Stay(k)
<1>1. CASE jobs[k].status \in Active
  BY Zenon, <1>1 DEF Lifecycle!Stay, Lifecycle!Becomes
<1>2. CASE jobs[k].status \notin Active
  BY Zenon, <1>2 DEF Lifecycle!Stay, Lifecycle!Becomes
<1> QED
  BY Zenon, <1>1, <1>2

\* What the environment does to a row is a move of the life cycle or none.
LEMMA EnvMoves ==
  ASSUME NEW k \in Jobs, Moved(k)
  PROVE  Lifecycle!Move(k) \/ Lifecycle!Stay(k)
<1> USE DEF Holder, Active
<1>1. CASE Kept(k)
  BY Zenon, <1>1, SameStays DEF Kept
<1>2. CASE Submitted(k)
  <2>1. Lifecycle!Becomes(k, jobs'[k].status, 0, NoWorker)
    BY Zenon, <1>2, MappedRow DEF Submitted
  <2>2. Lifecycle!Submit(k)
    BY Zenon, <1>2, <2>1 DEF Lifecycle!Submit, Submitted
  <2> QED
    BY Zenon, <2>2 DEF Lifecycle!Move
<1>3. ASSUME NEW w \in Workers, ClaimedBy(w, k)
      PROVE  Lifecycle!Move(k)
  <2>1. Lifecycle!Becomes(k, "claimed", jobs[k].attempts, w)
    BY Zenon, <1>3, MappedRow DEF ClaimedBy, RowIs
  <2>2. Lifecycle!Claim(k)
    BY Zenon, <1>3, <2>1 DEF Lifecycle!Claim, ClaimedBy
  <2> QED
    BY Zenon, <2>2 DEF Lifecycle!Move
<1>4. CASE Returned(k)
  <2>1. Lifecycle!Becomes(k, "queued", jobs[k].attempts, NoWorker)
    BY Zenon, <1>4, MappedRow DEF Returned, RowIs
  <2>2. Lifecycle!GiveBack(k)
    BY Zenon, <1>4, <2>1 DEF Lifecycle!GiveBack, Returned
  <2> QED
    BY Zenon, <2>2 DEF Lifecycle!Move
<1> QED
  BY Zenon, <1>1, <1>2, <1>3, <1>4 DEF Moved

\* The statement of an executor that owns its row is a move of the life cycle.
LEMMA WriteMoves ==
  ASSUME TypeOK, OwnInv, NEW s \in Slots, ExecStep(s), Writes(s),
         NEW j \in Jobs, j = task[s].job
  PROVE  Lifecycle!Move(j)
<1> DEFINE n == task[s].attempts
<1> USE DEF Holder, Active
<1>1. task[s].stage # "idle" /\ proc[Owner[s]] = "up"
  BY ZenonT(40) DEF ExecStep, Writes
<1>2. j \in Jobs /\ n \in Nat /\ MaxAttempts[j] \in Nat
  BY ZenonT(40), <1>1, TaskTyping, MaxAttemptsAssumption
<1>3. Holds(task[s].stage, jobs[j], Owner[s], n)
  BY Zenon, <1>1 DEF OwnInv, HoldersInv
<1>4. CASE task[s].stage \in {"skip", "complete"}
  <2>1. /\ jobs[j].status \in {"claimed", "running"}
        /\ RowIs(jobs'[j], "completed", jobs[j].worker, jobs[j].lease, jobs[j].attempts)
    BY ZenonT(40), <1>3, <1>4 DEF Writes, Holds, Copied
  <2>2. Lifecycle!Becomes(j, "completed", jobs[j].attempts, NoWorker)
    BY ZenonT(40), <1>2, <2>1, MappedRow DEF RowIs
  <2>3. Lifecycle!Complete(j)
    BY Zenon, <1>2, <2>1, <2>2 DEF Lifecycle!Complete
  <2> QED
    BY Zenon, <2>3 DEF Lifecycle!Move
<1>5. CASE task[s].stage = "start"
  <2>1. /\ jobs[j].status = "claimed"
        /\ RowIs(jobs'[j], "running", jobs[j].worker, jobs[j].lease, jobs[j].attempts)
    BY ZenonT(40), <1>3, <1>5 DEF Writes, Holds, Copied
  <2>2. jobs[j].status \in Active /\ jobs'[j].status \in Active
    BY ZenonT(40), <2>1 DEF RowIs
  <2>3. Lifecycle!Run(j)
    <3> HIDE DEF Active
    <3> QED
      BY ZenonT(40), <1>2, <2>1, <2>2 DEF Lifecycle!Run, Lifecycle!Becomes, RowIs
  <2> QED
    BY Zenon, <2>3 DEF Lifecycle!Move
<1>6. CASE task[s].stage = "deadletter"
  <2>1. /\ jobs[j].status = "running" /\ jobs[j].attempts = n
        /\ RowIs(jobs'[j], "dead_letter", jobs[j].worker, jobs[j].lease, n + 1)
    BY ZenonT(40), <1>3, <1>6 DEF Writes, Holds, Copied
  <2>2. n + 1 >= MaxAttempts[j]
    BY ZenonT(40), <1>6 DEF OwnInv, ComparedInv
  <2>3. n < MaxAttempts[j]
    BY Zenon, <1>2, <2>1 DEF OwnInv, AttemptsInv
  <2>4. n + 1 = MaxAttempts[j]
    BY <1>2, <2>2, <2>3
  <2>5. Lifecycle!Becomes(j, "dead_letter", MaxAttempts[j], NoWorker)
    BY Zenon, <1>2, <2>1, <2>4, MappedRow DEF RowIs
  <2>6. Lifecycle!Exhaust(j)
    BY ZenonT(40), <1>2, <2>1, <2>4, <2>5 DEF Lifecycle!Exhaust
  <2> QED
    BY Zenon, <2>6 DEF Lifecycle!Move
<1>7. CASE task[s].stage = "failjob"
  <2>1. /\ jobs[j].status = "running" /\ jobs[j].attempts = n
        /\ RowIs(jobs'[j], "failed", jobs[j].worker, jobs[j].lease, n + 1)
    BY ZenonT(40), <1>3, <1>7 DEF Writes, Holds, Copied
  <2>2. n + 1 < MaxAttempts[j]
    BY ZenonT(40), <1>7 DEF OwnInv, ComparedInv
  <2>3. Lifecycle!Becomes(j, "failed", n + 1, NoWorker)
    BY ZenonT(40), <1>2, <2>1, MappedRow DEF RowIs
  <2>4. Lifecycle!Fail(j)
    BY ZenonT(40), <1>2, <2>1, <2>2, <2>3 DEF Lifecycle!Fail
  <2> QED
    BY Zenon, <2>4 DEF Lifecycle!Move
<1>8. CASE task[s].stage = "requeue"
  <2>1. RowIs(jobs'[j], "queued", NoWorker, "none", n + 1)
    BY ZenonT(40), <1>8 DEF Writes
  <2>2. Lifecycle!Becomes(j, "queued", n + 1, NoWorker)
    BY ZenonT(40), <1>2, <2>1, MappedRow DEF RowIs
  <2>3. CASE Copied(jobs[j], Owner[s], n, "running")
    <3>1. n + 1 < MaxAttempts[j]
      BY Zenon, <1>8 DEF OwnInv, ComparedInv
    <3>2. Lifecycle!Fail(j)
      BY ZenonT(40), <1>2, <2>2, <2>3, <3>1 DEF Lifecycle!Fail, Copied
    <3> QED
      BY Zenon, <3>2 DEF Lifecycle!Move
  <2>4. CASE Copied(jobs[j], Owner[s], n + 1, "failed")
    <3>1. Lifecycle!Retry(j)
      BY Zenon, <1>2, <2>2, <2>4 DEF Lifecycle!Retry, Copied
    <3> QED
      BY Zenon, <3>1 DEF Lifecycle!Move
  <2> QED
    BY ZenonT(40), <1>3, <1>8, <2>3, <2>4 DEF Holds
<1> QED
  BY ZenonT(40), <1>4, <1>5, <1>6, <1>7, <1>8 DEF Writes

\* Every step moves every job along the life cycle, or leaves it.
LEMMA LifecycleStep ==
  ASSUME TypeOK, OwnInv, Orderly, [Next]_vars
  PROVE  Lifecycle!Next
<1> SUFFICES ASSUME NEW k \in Jobs
             PROVE  Lifecycle!Move(k) \/ Lifecycle!Stay(k)
  BY Zenon DEF Lifecycle!Next
<1>0. jobs \in [Jobs -> Row]
  BY Zenon DEF TypeOK
<1>1. CASE EnvStep
  BY Zenon, <1>1, EnvMoves DEF EnvStep
<1>2. ASSUME NEW r \in Retriers, RetryCommit(r)
      PROVE  Lifecycle!Move(k) \/ Lifecycle!Stay(k)
  <2>1. /\ retry[r] \in Jobs /\ jobs[retry[r]].status = "dead_letter"
        /\ jobs' = RetryDLQJob(jobs, retry[r])
    BY Zenon, <1>2 DEF RetryCommit, OwnInv, RevivalInv
  <2>2. CASE k = retry[r]
    <3>1. RowIs(jobs'[k], "queued", NoWorker, "none", 0)
      BY ZenonT(40), <1>0, <2>1, <2>2, RowEffects
    <3>2. Lifecycle!Becomes(k, "queued", 0, NoWorker)
      BY Zenon, <3>1, MappedRow DEF RowIs, Holder, Active
    <3>3. Lifecycle!Revive(k)
      BY Zenon, <2>1, <2>2, <3>2 DEF Lifecycle!Revive
    <3> QED
      BY Zenon, <3>3 DEF Lifecycle!Move
  <2>3. CASE k # retry[r]
    <3>1. jobs'[k] = jobs[k]
      BY ZenonT(40), <1>0, <2>1, <2>3, OtherRows
    <3> QED
      BY Zenon, <3>1, SameStays
  <2> QED
    BY Zenon, <2>2, <2>3
<1>3. ASSUME NEW w \in Workers, NEW s \in Slots, NEW c \in pending[w], Dispatch(w, s, c)
      PROVE  Lifecycle!Stay(k)
  BY ZenonT(40), <1>3, SameStays DEF Dispatch
<1>4. ASSUME NEW s \in Slots, ExecStep(s)
      PROVE  Lifecycle!Move(k) \/ Lifecycle!Stay(k)
  <2>1. CASE Turns(s) \/ k # task[s].job
    <3>1. jobs'[k] = jobs[k]
      BY ZenonT(40), <1>4, <2>1 DEF Turns, ExecStep
    <3> QED
      BY Zenon, <3>1, SameStays
  <2>2. CASE Writes(s) /\ k = task[s].job
    BY Zenon, <1>4, <2>2, WriteMoves
  <2> QED
    BY ZenonT(40), <1>4, <2>1, <2>2 DEF ExecStep
<1> QED
  BY ZenonT(40), <1>1, <1>2, <1>3, <1>4, StepKinds

-----------------------------------------------------------------------------
(* Steps that neither activate a row nor read a budget *)

\* Steps outside the engine.
LEMMA OutsideIsQuiet ==
  ASSUME UNCHANGED <<proc, poll, pending, task>>, NoneActivated
  PROVE  Quiet
BY Zenon DEF Quiet, GrantStep, EngineStep

\* Submission, pausing and retries activate nothing.
LEMMA ApiIsQuiet == ASSUME TypeOK, ApiNext PROVE Quiet
<1>0. jobs \in [Jobs -> Row]
  BY Zenon DEF TypeOK
<1>1. UNCHANGED <<proc, poll, pending, task>>
  BY Zenon DEF ApiNext, CreateJob, SetPaused, RetryCheck, RetryCommit, RetryAbort
<1>2. ASSUME NEW k \in Jobs
      PROVE  jobs'[k] = jobs[k] \/ jobs'[k].status \in {"queued", "scheduled"}
  <2>1. ASSUME NEW j \in Jobs, NEW kind \in Submissions, CreateJob(j, kind)
        PROVE  jobs'[k] = jobs[k] \/ jobs'[k].status \in {"queued", "scheduled"}
    <3>1. jobs' = Create(jobs, j, kind) /\ kind \in Kinds
      BY Zenon, <2>1, SubmissionsAssumption DEF CreateJob
    <3>2. CASE k = j
      BY <1>0, <3>1, <3>2, RowEffects DEF RowIs
    <3>3. CASE k # j
      BY Zenon, <1>0, <3>1, <3>3, OtherRows
    <3> QED
      BY Zenon, <3>2, <3>3
  <2>2. ASSUME NEW r \in Retriers, RetryCommit(r)
        PROVE  jobs'[k] = jobs[k] \/ jobs'[k].status \in {"queued", "scheduled"}
    <3>1. jobs' = RetryDLQJob(jobs, retry[r])
      BY Zenon, <2>2 DEF RetryCommit
    <3> QED
      BY Zenon, <1>0, <3>1 DEF RetryDLQJob, Row
  <2>3. CASE jobs' = jobs
    BY Zenon, <2>3
  <2> QED
    BY Zenon, <2>1, <2>2, <2>3 DEF ApiNext, SetPaused, RetryCheck, RetryAbort
<1>3. NoneActivated
  BY Zenon, <1>2 DEF NoneActivated, Active
<1> QED
  BY Zenon, <1>1, <1>3, OutsideIsQuiet

\* The reaper and the clock take rows back, or leave them.
LEMMA BackgroundIsQuiet ==
  ASSUME TypeOK, ReapJobs \/ MarkDeadWorkers \/ TimeNext \/ UNCHANGED vars
  PROVE  Quiet
<1>0. jobs \in [Jobs -> Row]
  BY Zenon DEF TypeOK
<1>1. UNCHANGED <<proc, poll, pending, task>>
  BY Zenon DEF ReapJobs, MarkDeadWorkers, TimeNext, BecomeDue, LeaseRunsOut,
               HeartbeatGoesStale, engine, vars
<1>2. ASSUME NEW k \in Jobs, jobs'[k].status \in Active
      PROVE  jobs[k].status \in Active /\ jobs'[k].worker = jobs[k].worker
  <2>1. CASE ReapJobs
    <3>1. jobs'[k] = jobs[k] \/ RowIs(jobs'[k], "queued", NoWorker, "none", jobs[k].attempts)
      BY Zenon, <1>0, <2>1, BackgroundEffects DEF ReapJobs
    <3> QED
      BY Zenon, <1>2, <3>1 DEF RowIs, Active
  <2>2. ASSUME NEW j \in Jobs, BecomeDue(j) \/ LeaseRunsOut(j)
        PROVE  jobs[k].status \in Active /\ jobs'[k].worker = jobs[k].worker
    BY <1>0, <1>2, <2>2 DEF BecomeDue, LeaseRunsOut, Row
  <2>3. CASE jobs' = jobs
    BY Zenon, <1>2, <2>3
  <2> QED
    BY Zenon, <2>1, <2>2, <2>3 DEF TimeNext, MarkDeadWorkers, HeartbeatGoesStale, vars
<1>3. NoneActivated
  BY Zenon, <1>2 DEF NoneActivated
<1> QED
  BY Zenon, <1>1, <1>3, OutsideIsQuiet

\* A process that starts, renews, stops or lists the queues.
LEMMA ProcessIsQuiet ==
  ASSUME TypeOK, NEW w \in Workers,
         \/ RegisterWorker(w) \/ Heartbeat(w) \/ Crash(w) \/ Terminate(w)
         \/ ShutdownRelease(w) \/ ShutdownDeregister(w) \/ PollOnce(w)
  PROVE  Quiet
<1>0. /\ jobs \in [Jobs -> Row] /\ proc \in [Workers -> ProcState]
      /\ poll \in [Workers -> Poll] /\ pending \in [Workers -> SUBSET Claim]
      /\ task \in [Slots -> Task]
  BY Zenon DEF TypeOK
<1>a. NotPolling.queue = NoQueue
  BY Zenon DEF NotPolling
<1>1. CASE RegisterWorker(w)
  BY Zenon, <1>0, <1>1 DEF RegisterWorker, Quiet, NoneActivated, GrantStep, EngineStep
<1>2. CASE Heartbeat(w)
  <2>1. jobs' = jobs \/ jobs' = RenewLeases(jobs, w)
    BY Zenon, <1>2 DEF Heartbeat
  <2>2. NoneActivated
    <3> SUFFICES ASSUME NEW k \in Jobs
                 PROVE  jobs'[k].status = jobs[k].status /\ jobs'[k].worker = jobs[k].worker
      BY Zenon DEF NoneActivated
    <3>1. IF jobs[k].worker = w /\ jobs[k].status \in Active
          THEN RowIs(RenewLeases(jobs, w)[k], jobs[k].status, w, "live", jobs[k].attempts)
          ELSE RenewLeases(jobs, w)[k] = jobs[k]
      BY Zenon, <1>0 DEF RenewLeases, RowIs, Row
    <3> QED
      BY Zenon, <2>1, <3>1 DEF RowIs
  <2> QED
    BY Zenon, <1>2, <2>2, OutsideIsQuiet DEF Heartbeat
<1>3. CASE Crash(w) \/ Terminate(w)
  BY <1>0, <1>a, <1>3, OwnerAssumption
     DEF Crash, Terminate, Quiet, NoneActivated, GrantStep, EngineStep
<1>4. CASE ShutdownRelease(w)
  <2>1. jobs' = jobs \/ jobs' = ReleaseJobs(jobs, w)
    BY Zenon, <1>4 DEF ShutdownRelease
  <2>2. NoneActivated
    <3> SUFFICES ASSUME NEW k \in Jobs
                 PROVE  jobs'[k] = jobs[k] \/ jobs'[k].status = "queued"
      BY Zenon DEF NoneActivated, Active
    <3>1. IF jobs[k].worker = w /\ jobs[k].status = "claimed"
          THEN RowIs(ReleaseJobs(jobs, w)[k], "queued", NoWorker, "none", jobs[k].attempts)
          ELSE ReleaseJobs(jobs, w)[k] = jobs[k]
      BY Zenon, <1>0 DEF ReleaseJobs, RowIs, Row
    <3> QED
      BY Zenon, <2>1, <3>1 DEF RowIs
  <2> QED
    BY Zenon, <1>0, <1>4, <2>2 DEF ShutdownRelease, Quiet, GrantStep, EngineStep
<1>5. CASE ShutdownDeregister(w)
  BY Zenon, <1>0, <1>5, OwnerAssumption
     DEF ShutdownDeregister, Quiet, NoneActivated, GrantStep, EngineStep
<1>6. CASE PollOnce(w)
  <2>1. \A x \in Workers : poll'[x].queue = poll[x].queue /\ poll'[x].budget = poll[x].budget
    BY <1>0, <1>6 DEF PollOnce, Poll
  <2> QED
    BY Zenon, <1>6, <2>1 DEF PollOnce, Quiet, NoneActivated, GrantStep, EngineStep
<1> QED
  BY Zenon, <1>1, <1>2, <1>3, <1>4, <1>5, <1>6

\* An executor writes only a row that is active already.
LEMMA ExecutorActivatesNone ==
  ASSUME TypeOK, OwnInv, NEW s \in Slots, ExecStep(s)
  PROVE  NoneActivated
<1> SUFFICES ASSUME NEW k \in Jobs, jobs'[k].status \in Active
             PROVE  jobs[k].status \in Active /\ jobs'[k].worker = jobs[k].worker
  BY Zenon DEF NoneActivated
<1>1. CASE jobs'[k] = jobs[k]
  BY Zenon, <1>1
<1>2. CASE k = task[s].job /\ Writes(s)
  <2>1. task[s].stage = "start" /\ jobs'[k].worker = jobs[k].worker
    BY Zenon, <1>2 DEF Writes, RowIs, Active
  <2>2. jobs[k].status = "claimed"
    BY Zenon, <1>2, <2>1 DEF OwnInv, HoldersInv, Holds, Copied, Writes
  <2> QED
    BY Zenon, <2>1, <2>2 DEF Active
<1> QED
  BY Zenon, <1>1, <1>2 DEF ExecStep, Turns

\* Nor does it touch the poll loop.
LEMMA ExecutorKeepsPoll ==
  ASSUME NEW s \in Slots, ExecutorNext(s)
  PROVE  poll' = poll
BY Zenon DEF ExecutorNext, Gate, SkipExecution, StartRunning, HandlerSucceeds, HandlerFails,
         Complete, RecordCompleted, RecordFailed, DeadLetter, MarkFailed, Requeue
=============================================================================
