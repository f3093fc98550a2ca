-------------------------- MODULE SchedulerSafety ---------------------------
(***************************************************************************)
(* Theorems about Scheduler for every number of jobs, queues, workers and  *)
(* slots.                                                                  *)
(*                                                                         *)
(* Under every fault: a completed job is backed by a success, its own when *)
(* keys are not shared between queues, a dead-lettered one by max_attempts *)
(* failures and a dead_letter_queue row.                                   *)
(*                                                                         *)
(* While workers keep their leases and no two retry requests overlap,      *)
(* whatever crashes, SIGTERM and lost statements do: every executor owns   *)
(* the row it writes, no job is executed twice at once, the dead letter    *)
(* queue agrees with the status column, the system follows JobLifecycle,   *)
(* and a queue never has more than one concurrency limit of active rows    *)
(* per worker.  While moreover no statement fails, no active row is        *)
(* forgotten by a worker that is up.                                       *)
(***************************************************************************)
EXTENDS SchedulerOwnership, Counting

-----------------------------------------------------------------------------
(* Types *)

\* The budget is a natural number: the table has finitely many rows.
LEMMA BudgetTyping ==
  ASSUME NEW t, NEW q \in Queues
  PROVE  ClaimBudget(t, q) \in Nat
<1>1. ActiveIn(t, q) \in SUBSET Jobs
  BY Zenon DEF ActiveIn
<1>2. IsFiniteSet(ActiveIn(t, q))
  BY Zenon, <1>1, JobsFinite, FS_Subset
<1>3. Cardinality(ActiveIn(t, q)) \in Nat
  BY Zenon, <1>2, FS_CardinalityType
<1> QED
  BY <1>3, LimitAssumption DEF ClaimBudget

\* So every step keeps the types.
LEMMA TypesKept == TypeOK /\ [Next]_vars => TypeOK'
BY Zenon, BudgetTyping, TypeStep

\* In every behaviour of API, workers and reaper, under every combination of
\* crashes, signals, lost statements and lapsed leases, the tables hold only
\* values of their column types: no status outside the job_status enum, and
\* every live goroutine works on a real job.
THEOREM TypeCorrect == Spec => []TypeOK
BY InitType, TypesKept, PTL DEF Spec

-----------------------------------------------------------------------------
(* Under every fault *)

\* Under every fault, a job whose row says dead_letter has its
\* dead_letter_queue row: MoveToDLQ writes both in one transaction, RetryDLQJob
\* removes both in one transaction, and no other statement of API, worker or
\* reaper writes that status or deletes that row.
THEOREM DeadLettersListed == Spec => []DeadLetterIsListed
<1>1. Init => DeadLetterIsListed
  BY DEF Init, DeadLetterIsListed, NoRow
<1>2. TypeOK /\ DeadLetterIsListed /\ [Next]_vars => DeadLetterIsListed'
  BY Zenon, RowSteps DEF DeadLetterIsListed, RowStep, SameRow, Rescheduled, WrittenBy
<1> QED
  BY <1>1, <1>2, TypeCorrect, PTL DEF Spec

\* Under every fault, stale copies and lapsed leases included, a job is
\* completed only if its handler, or that of a job with the same idempotency
\* key, has returned nil (executeJob's two calls of CompleteJob).
THEOREM CompletionsBacked == Spec => []SuccessBacksCompletion
<1>1. Spec => []SuccessInv
  BY SuccessInductive, TypeCorrect, PTL DEF Spec
<1> QED
  BY <1>1, PTL DEF SuccessInv

\* Under every fault, and however often a submission is repeated, a job is
\* completed only if its own handler has returned nil, as long as no key is
\* used in two queues: the unique index then leaves the gate nothing to find
\* but the job itself.
THEOREM CompletionsExecuted ==
  ASSUME KeysPerQueue
  PROVE  Spec => []CompletedWasExecuted
<1>1. TypeOK /\ ExistInv /\ SuccessBacksCompletion => CompletedWasExecuted
  <2> SUFFICES ASSUME TypeOK, ExistInv, SuccessBacksCompletion, NEW j \in Jobs,
                      jobs[j].status = "completed"
               PROVE  j \in succeeded
    BY Zenon DEF CompletedWasExecuted
  <2>1. CASE KeyOf[j] # NoKey /\ \E k \in succeeded : KeyOf[k] = KeyOf[j]
    <3>1. PICK k \in succeeded : KeyOf[j] # NoKey /\ KeyOf[k] = KeyOf[j]
      BY Zenon, <2>1
    <3>2. k \in Jobs /\ Exists(jobs, k) /\ Exists(jobs, j)
      BY Zenon DEF TypeOK, ExistInv, Exists
    <3>3. Clash(j, k)
      BY Zenon, <3>1, <3>2 DEF Clash, KeysPerQueue
    <3> QED
      BY Zenon, <3>2, <3>3 DEF ExistInv, UniqueKeys
  <2> QED
    BY Zenon, <2>1 DEF SuccessBacksCompletion
<1>2. TypeOK /\ ExistInv /\ [Next]_vars => ExistInv'
  BY Zenon, TypesKept, ExistInductive
<1>3. Spec => []ExistInv
  BY <1>2, ExistInductive, TypeCorrect, PTL DEF Spec
<1> QED
  BY <1>1, <1>3, CompletionsBacked, TypeCorrect, PTL

\* Under every fault, a job is dead-lettered only after max_attempts runs of
\* its handler have failed: no stale copy of attempts, no reaped or released
\* claim and no retry can push it there early (handleFailure).
THEOREM DeadLettersBacked == Spec => []FailuresBackDeadLetter
<1>1. TypeOK /\ FailureInv /\ [Next]_vars => FailureInv'
  BY Zenon, TypesKept, FailureStep
<1>2. Spec => []FailureInv
  BY <1>1, FailureInit, TypeCorrect, PTL DEF Spec
<1> QED
  BY <1>2, PTL DEF FailureInv

-----------------------------------------------------------------------------
(* Ownership and the life cycle *)

\* With leases kept and retries apart, ownership is invariant.
THEOREM OwnershipInvariant ==
  ASSUME Orderly
  PROVE  Spec => [](TypeOK /\ OwnInv)
<1>1. Init => TypeOK /\ OwnInv
  BY Zenon, InitType, OwnInit
<1>2. TypeOK /\ OwnInv /\ [Next]_vars => (TypeOK /\ OwnInv)'
  BY Zenon, TypesKept, OwnStep
<1> QED
  BY <1>1, <1>2, PTL DEF Spec

\* The unfenced UPDATE ... WHERE id = $1 of executeJob and handleFailure are
\* safe, whatever crashes, signals and lost statements do: the executor that
\* runs one owns the row.
THEOREM ExecutorsOwn ==
  ASSUME Orderly
  PROVE  Spec => []ExecutorsOwnTheirJobs
<1>1. TypeOK /\ OwnInv => ExecutorsOwnTheirJobs
  <2> SUFFICES ASSUME HoldersInv PROVE ExecutorsOwnTheirJobs
    BY Zenon DEF OwnInv
  <2> SUFFICES ASSUME NEW s \in Slots, task[s].stage \in Writing, proc[Owner[s]] = "up"
               PROVE  LET row == jobs[task[s].job] IN
                 /\ row.worker = Owner[s]
                 /\ row.status \in
                      (CASE task[s].stage \in {"gate", "skip", "start"} -> {"claimed"}
                         [] task[s].stage = "requeue" -> {"running", "failed"}
                         [] OTHER -> {"running"})
                 /\ row.status # "failed" => row.attempts = task[s].attempts
    BY Zenon DEF ExecutorsOwnTheirJobs
  <2>1. Holds(task[s].stage, jobs[task[s].job], Owner[s], task[s].attempts)
    BY Zenon DEF HoldersInv
  <2>2. CASE task[s].stage \in {"gate", "skip", "start"}
    BY Zenon, <2>1, <2>2 DEF Holds, Copied
  <2>3. CASE task[s].stage = "requeue"
    BY Zenon, <2>1, <2>3 DEF Holds, Copied
  <2>4. CASE task[s].stage \in {"handle", "complete", "fail", "deadletter", "failjob"}
    BY Zenon, <2>1, <2>4 DEF Holds, Copied
  <2> QED
    BY Zenon, <2>2, <2>3, <2>4 DEF Writing
<1> QED
  BY <1>1, OwnershipInvariant, PTL

\* No job is inside handler.Handle twice at once, in one process or in two.
THEOREM ExecutionIsExclusive ==
  ASSUME Orderly
  PROVE  Spec => []ExclusiveExecution
<1>1. TypeOK /\ OwnInv => ExclusiveExecution
  BY Zenon DEF OwnInv
<1> QED
  BY <1>1, OwnershipInvariant, PTL

\* MoveToDLQ and RetryDLQJob keep dead_letter_queue and jobs.status agreed.
THEOREM DLQAgrees ==
  ASSUME Orderly
  PROVE  Spec => []DLQMatchesStatus
<1>1. TypeOK /\ OwnInv => DLQMatchesStatus
  BY Zenon DEF OwnInv
<1> QED
  BY <1>1, OwnershipInvariant, PTL

\* API, workers and reaper implement the life cycle of a job: exclusive
\* hands, one attempt charged per failure, completed for good.
THEOREM ImplementsLifecycle ==
  ASSUME Orderly
  PROVE  Spec => FollowsLifecycle
<1>1. Init => Lifecycle!Init
  BY DEF Init, Lifecycle!Init, NoRow, Active
<1>2. TypeOK /\ OwnInv /\ [Next]_vars => Lifecycle!Next
  BY Zenon, LifecycleStep
<1> QED
  BY <1>1, <1>2, OwnershipInvariant, PTL DEF Spec, FollowsLifecycle, Lifecycle!Spec

-----------------------------------------------------------------------------
(* Admission to a queue *)

\* The rows of a queue and the grants on it are finite.
LEMMA CountsFinite ==
  ASSUME NEW q \in Queues
  PROVE  /\ IsFiniteSet(ActiveIn(jobs, q)) /\ IsFiniteSet(ActiveIn(jobs', q))
         /\ Cardinality(ActiveIn(jobs, q)) \in Nat /\ Cardinality(ActiveIn(jobs', q)) \in Nat
         /\ IsFiniteSet(Granted(q)) /\ Cardinality(Granted(q)) \in Nat
         /\ IsFiniteSet(Granted(q)') /\ Cardinality(Granted(q)') \in Nat
         /\ ConcurrencyLimit[q] \in Nat /\ ConcurrencyLimit[q] * Cardinality(Workers) \in Nat
<1>1. IsFiniteSet(ActiveIn(jobs, q)) /\ IsFiniteSet(ActiveIn(jobs', q))
  BY Zenon, JobsFinite, FS_Subset DEF ActiveIn
<1>2. /\ Granted(q) \in SUBSET (Workers \X (1..ConcurrencyLimit[q]))
      /\ Granted(q)' \in SUBSET (Workers \X (1..ConcurrencyLimit[q]))
  BY Zenon DEF Granted
<1>3. ConcurrencyLimit[q] \in Nat /\ Cardinality(Workers) \in Nat
  BY Zenon, LimitAssumption, WorkersFinite, FS_CardinalityType
<1>4. /\ IsFiniteSet(Granted(q)) /\ Cardinality(Granted(q)) \in Nat
      /\ IsFiniteSet(Granted(q)') /\ Cardinality(Granted(q)') \in Nat
  BY Zenon, <1>2, <1>3, WorkersFinite, GrantsFinite
<1>5. ConcurrencyLimit[q] * Cardinality(Workers) \in Nat
  BY <1>3
<1> QED
  BY Zenon, <1>1, <1>3, <1>4, <1>5, FS_CardinalityType

\* The sum stays for a queue whose rows and grants do not grow.
LEMMA QueueKept ==
  ASSUME AdmitInv, NEW q \in Queues,
         ActiveIn(jobs', q) \subseteq ActiveIn(jobs, q), Granted(q)' \subseteq Granted(q)
  PROVE  Cardinality(ActiveIn(jobs', q)) + Cardinality(Granted(q)')
           <= ConcurrencyLimit[q] * Cardinality(Workers)
<1>1. /\ Cardinality(ActiveIn(jobs', q)) <= Cardinality(ActiveIn(jobs, q))
      /\ Cardinality(Granted(q)') <= Cardinality(Granted(q))
  BY Zenon, CountsFinite, FS_Subset
<1>2. Cardinality(ActiveIn(jobs, q)) + Cardinality(Granted(q))
        <= ConcurrencyLimit[q] * Cardinality(Workers)
  BY Zenon DEF AdmitInv
<1> QED
  BY <1>1, <1>2, CountsFinite

\* A step that neither activates a row nor reads a budget.
LEMMA AdmitKept ==
  ASSUME AdmitInv, NoneActivated, \A w \in Workers : GrantStep(w)
  PROVE  AdmitInv'
<1>1. ASSUME NEW w \in Workers, poll'[w].queue # NoQueue
      PROVE  poll'[w].budget <= ConcurrencyLimit[poll'[w].queue]
  BY Zenon, <1>1 DEF AdmitInv, GrantStep
<1>2. ASSUME NEW q \in Queues
      PROVE  Cardinality(ActiveIn(jobs', q)) + Cardinality(Granted(q)')
               <= ConcurrencyLimit[q] * Cardinality(Workers)
  <2>1. ActiveIn(jobs', q) \subseteq ActiveIn(jobs, q)
    BY Zenon DEF ActiveIn, NoneActivated
  <2>2. Granted(q)' \subseteq Granted(q)
    BY Zenon, NoQueueAssumption DEF Granted, GrantStep
  <2> QED
    BY Zenon, <2>1, <2>2, QueueKept
<1> QED
  BY Zenon, <1>1, <1>2 DEF AdmitInv

\* A budget that is read fills the limit, beside what the others were granted.
LEMMA SnapshotAdmits ==
  ASSUME TypeOK, AdmitInv, NEW w \in Workers, NEW q \in Queues, ClaimSnapshot(w, q)
  PROVE  AdmitInv'
<1>0. poll \in [Workers -> Poll] /\ jobs' = jobs
  BY Zenon DEF TypeOK, ClaimSnapshot
<1>1. PICK b \in {ClaimBudget(jobs, q), 0} :
        poll' = [poll EXCEPT ![w] = [todo   |-> poll[w].todo \ {q},
                                     queue  |-> IF b > 0 THEN q ELSE NoQueue,
                                     budget |-> b]]
  BY Zenon DEF ClaimSnapshot
<1>2. /\ \A x \in Workers : x # w => poll'[x] = poll[x]
      /\ poll'[w].queue = IF b > 0 THEN q ELSE NoQueue
      /\ poll'[w].budget = b
  BY Zenon, <1>0, <1>1
<1>3. NoneActivated
  BY Zenon, <1>0 DEF NoneActivated
<1> DEFINE L == ConcurrencyLimit[q]
           active == Cardinality(ActiveIn(jobs, q))
<1>4. L \in Nat /\ active \in Nat
  BY Zenon, CountsFinite
<1>5. CASE ~(b > 0)
  <2>1. \A x \in Workers : GrantStep(x)
    BY Zenon, <1>2, <1>5 DEF GrantStep
  <2> QED
    BY Zenon, <1>3, <2>1, AdmitKept
<1>6. CASE b > 0
  <2>1. b \in Nat /\ b <= L /\ active + b = L
    BY <1>4, <1>6 DEF ClaimBudget
  <2>2. ASSUME NEW x \in Workers, poll'[x].queue # NoQueue
        PROVE  poll'[x].budget <= ConcurrencyLimit[poll'[x].queue]
    BY Zenon, <1>2, <1>6, <2>1, <2>2 DEF AdmitInv
  <2>3. ASSUME NEW r \in Queues
        PROVE  Cardinality(ActiveIn(jobs', r)) + Cardinality(Granted(r)')
                 <= ConcurrencyLimit[r] * Cardinality(Workers)
    <3>1. CASE r # q
      <4>1. Granted(r)' \subseteq Granted(r)
        BY Zenon, <1>2, <1>6, <3>1 DEF Granted
      <4> QED
        BY Zenon, <1>0, <4>1, QueueKept
    <3>2. CASE r = q
      <4> DEFINE others == {p \in Granted(q) : p[1] # w}
      <4>1. others \in SUBSET ((Workers \ {w}) \X (1..L))
        BY Zenon DEF Granted
      <4>2. Granted(q)' \subseteq others \cup ({w} \X (1..b))
        BY <1>2, <1>4, <2>1 DEF Granted
      <4> HIDE DEF others
      <4>3. active + Cardinality(Granted(q)') <= L * Cardinality(Workers)
        BY Zenon, <4>1, <4>2, <1>4, <2>1, WorkersFinite, BudgetFits
      <4> QED
        BY Zenon, <1>0, <3>2, <4>3
    <3> QED
      BY Zenon, <3>1, <3>2
  <2> QED
    BY Zenon, <2>2, <2>3 DEF AdmitInv
<1> QED
  BY Zenon, <1>5, <1>6

\* The rows a claim selects: queued ones, no more than the budget.
LEMMA ClaimSelects ==
  ASSUME NEW q, NEW n \in Nat, NEW S \in ClaimChoices(jobs, q, n)
  PROVE  S \subseteq Claimable(jobs, q) /\ IsFiniteSet(S) /\ Cardinality(S) <= n
<1>1. /\ S \subseteq Claimable(jobs, q)
      /\ Cardinality(S) = IF n < Cardinality(Claimable(jobs, q))
                          THEN n ELSE Cardinality(Claimable(jobs, q))
  BY Zenon DEF ClaimChoices
<1>2. IsFiniteSet(Claimable(jobs, q)) /\ Cardinality(Claimable(jobs, q)) \in Nat
  BY Zenon, JobsFinite, FS_Subset, FS_CardinalityType DEF Claimable
<1>3. IsFiniteSet(S)
  BY Zenon, <1>1, <1>2, FS_Subset
<1> QED
  BY <1>1, <1>2, <1>3

\* A claim takes no more rows than the poll loop was granted, whether or not
\* its answer arrives.
LEMMA ClaimAdmits ==
  ASSUME TypeOK, AdmitInv, NEW w \in Workers, ClaimCommit(w)
  PROVE  AdmitInv'
<1>0. /\ poll \in [Workers -> Poll] /\ poll[w] \in Poll /\ jobs \in [Jobs -> Row]
      /\ poll[w].queue # NoQueue
  BY Zenon DEF TypeOK, ClaimCommit
<1>q. PICK q \in Queues : q = poll[w].queue
  BY Zenon, <1>0 DEF Poll
<1>n. PICK n \in Nat : n = poll[w].budget
  BY Zenon, <1>0 DEF Poll
<1> DEFINE own == {w} \X (1..n)
<1>1. n <= ConcurrencyLimit[q] /\ ConcurrencyLimit[q] \in Nat
  BY Zenon, <1>0, <1>q, <1>n, LimitAssumption DEF AdmitInv
<1>2. PICK S \in ClaimChoices(jobs, q, n) : jobs' = ClaimJobs(jobs, S, w) \/ jobs' = jobs
  BY Zenon, <1>q, <1>n DEF ClaimCommit
<1>3. poll'[w].queue = NoQueue /\ \A x \in Workers : x # w => poll'[x] = poll[x]
  BY Zenon, <1>0 DEF ClaimCommit, Poll
<1>4. S \subseteq Claimable(jobs, q) /\ IsFiniteSet(S) /\ Cardinality(S) <= n
  BY Zenon, ClaimSelects
<1>5. \A r \in Queues : ActiveIn(jobs', r) \subseteq
        ActiveIn(jobs, r) \cup (IF r = q THEN S ELSE {})
  BY Zenon, <1>0, <1>2, <1>4 DEF ActiveIn, ClaimJobs, Claimable
<1>6. \A r \in Queues : Granted(r)' \subseteq Granted(r)
  BY Zenon, <1>3, NoQueueAssumption DEF Granted
<1>7. own \subseteq Granted(q) /\ Granted(q)' \cap own = {}
  BY <1>0, <1>q, <1>n, <1>1, <1>3, NoQueueAssumption DEF Granted
<1>8. ASSUME NEW x \in Workers, poll'[x].queue # NoQueue
      PROVE  poll'[x].budget <= ConcurrencyLimit[poll'[x].queue]
  BY Zenon, <1>3, <1>8 DEF AdmitInv
<1>9. ASSUME NEW r \in Queues
      PROVE  Cardinality(ActiveIn(jobs', r)) + Cardinality(Granted(r)')
               <= ConcurrencyLimit[r] * Cardinality(Workers)
  <2>1. CASE r # q
    BY Zenon, <2>1, <1>5, <1>6, QueueKept
  <2>2. CASE r = q
    <3>1. ActiveIn(jobs', q) \subseteq ActiveIn(jobs, q) \cup S /\ Granted(q)' \subseteq Granted(q)
      BY Zenon, <1>5, <1>6
    <3>2. Cardinality(ActiveIn(jobs', q)) + Cardinality(Granted(q)')
            <= Cardinality(ActiveIn(jobs, q)) + Cardinality(Granted(q))
      BY ZenonT(40), <1>4, <1>7, <3>1, CountsFinite, ClaimFits
    <3>3. Cardinality(ActiveIn(jobs, q)) + Cardinality(Granted(q))
            <= ConcurrencyLimit[q] * Cardinality(Workers)
      BY Zenon DEF AdmitInv
    <3> QED
      BY <2>2, <3>2, <3>3, CountsFinite
  <2> QED
    BY Zenon, <2>1, <2>2
<1> QED
  BY Zenon, <1>8, <1>9 DEF AdmitInv

-----------------------------------------------------------------------------
(* Claims are backed *)

\* A quiet step leaves every claim with its party.
LEMMA QuietBacks == ASSUME TypeOK, OwnInv, BackedInv, Quiet PROVE BackedInv'
<1>1. ASSUME NEW j \in Jobs, jobs'[j].status \in Active
      PROVE  /\ jobs[j].status \in Active /\ jobs'[j].worker = jobs[j].worker
             /\ jobs[j].worker \in Workers /\ proc[jobs[j].worker] # "new"
  BY Zenon, <1>1 DEF Quiet, NoneActivated, OwnInv, LeaseInv, BackedInv
<1>2. ASSUME NEW j \in Jobs, jobs'[j].status \in Active PROVE proc'[jobs'[j].worker] # "new"
  BY <1>1, <1>2 DEF Quiet, EngineStep
<1>3. ASSUME NEW w \in Workers, poll'[w].queue # NoQueue PROVE pending'[w] = {}
  BY Zenon, <1>3 DEF Quiet, GrantStep, EngineStep, BackedInv
<1>4. ASSUME NEW j \in Jobs, jobs'[j].status \in Active, proc'[jobs'[j].worker] = "up"
      PROVE  \/ \E c \in pending'[jobs'[j].worker] : c.job = j
             \/ \E s \in Slots : /\ Owner[s] = jobs'[j].worker
                                 /\ task'[s].job = j
                                 /\ task'[s].stage \in Writing
  <2>1. PICK w \in Workers : w = jobs[j].worker
    BY Zenon, <1>1, <1>4
  <2>2. /\ jobs'[j].worker = w /\ jobs[j].status \in Active /\ proc[w] = "up"
        /\ pending'[w] = pending[w] /\ \A s \in Slots : Owner[s] = w => task'[s] = task[s]
    BY <1>1, <1>4, <2>1 DEF Quiet, EngineStep
  <2> QED
    BY <2>1, <2>2 DEF BackedInv, NoAbandonedClaim
<1> QED
  BY Zenon, <1>2, <1>3, <1>4 DEF BackedInv, NoAbandonedClaim

\* Reading the budget starts with no claims waiting.
LEMMA SnapshotBacks ==
  ASSUME TypeOK, BackedInv, NEW w \in Workers, NEW q \in Queues, ClaimSnapshot(w, q)
  PROVE  BackedInv'
<1>1. UNCHANGED <<jobs, proc, pending, task>> /\ pending[w] = {}
  BY Zenon DEF ClaimSnapshot
<1>2. \A x \in Workers : x # w => poll'[x] = poll[x]
  BY Zenon DEF ClaimSnapshot, TypeOK
<1> QED
  BY Zenon, <1>1, <1>2 DEF BackedInv, NoAbandonedClaim

\* The answer of a claim that does not fail names every row it took.
LEMMA ClaimBacks ==
  ASSUME TypeOK, BackedInv, Lossy = {}, NEW w \in Workers, ClaimCommit(w)
  PROVE  BackedInv'
<1>0. /\ poll \in [Workers -> Poll] /\ pending \in [Workers -> SUBSET Claim]
      /\ jobs \in [Jobs -> Row] /\ proc[w] = "up" /\ UNCHANGED <<proc, task>>
      /\ pending[w] = {}
  BY Zenon DEF TypeOK, ClaimCommit, BackedInv
<1>1. PICK S \in ClaimChoices(jobs, poll[w].queue, poll[w].budget) :
        /\ jobs' = ClaimJobs(jobs, S, w)
        /\ pending' = [pending EXCEPT ![w] =
             {[job |-> j, attempts |-> jobs[j].attempts] : j \in S}]
  BY Zenon, <1>0 DEF ClaimCommit, Results, Applied
<1>2. poll'[w].queue = NoQueue /\ \A x \in Workers : x # w => poll'[x] = poll[x]
  BY Zenon, <1>0 DEF ClaimCommit, Poll
<1>3. /\ pending'[w] = {[job |-> j, attempts |-> jobs[j].attempts] : j \in S}
      /\ \A x \in Workers : x # w => pending'[x] = pending[x]
  BY Zenon, <1>0, <1>1
<1>4. ASSUME NEW j \in Jobs
      PROVE  IF j \in S THEN jobs'[j].worker = w ELSE jobs'[j] = jobs[j]
  BY Zenon, <1>0, <1>1 DEF ClaimJobs, Row
<1>5. ASSUME NEW j \in Jobs, jobs'[j].status \in Active PROVE proc'[jobs'[j].worker] # "new"
  BY Zenon, <1>0, <1>4, <1>5 DEF BackedInv
<1>6. ASSUME NEW x \in Workers, poll'[x].queue # NoQueue PROVE pending'[x] = {}
  BY Zenon, <1>2, <1>3, <1>6 DEF BackedInv
<1>7. ASSUME NEW j \in Jobs, jobs'[j].status \in Active, proc'[jobs'[j].worker] = "up"
      PROVE  \/ \E c \in pending'[jobs'[j].worker] : c.job = j
             \/ \E s \in Slots : /\ Owner[s] = jobs'[j].worker
                                 /\ task'[s].job = j
                                 /\ task'[s].stage \in Writing
  <2>1. CASE j \in S
    <3>1. [job |-> j, attempts |-> jobs[j].attempts] \in pending'[w] /\ jobs'[j].worker = w
      BY Zenon, <1>3, <1>4, <2>1
    <3>2. [job |-> j, attempts |-> jobs[j].attempts].job = j
      BY Zenon
    <3> QED
      BY Zenon, <3>1, <3>2
  <2>2. CASE j \notin S
    <3>1. jobs'[j] = jobs[j] /\ jobs[j].worker \in Workers \cup {NoWorker}
      BY Zenon, <1>0, <1>4, <2>2 DEF Row
    <3>2. jobs[j].worker # w => pending'[jobs[j].worker] = pending[jobs[j].worker]
      BY <1>0, <1>1
    <3> QED
      BY <1>0, <1>7, <3>1, <3>2 DEF BackedInv, NoAbandonedClaim
  <2> QED
    BY Zenon, <2>1, <2>2
<1> QED
  BY Zenon, <1>5, <1>6, <1>7 DEF BackedInv, NoAbandonedClaim

\* A claim that is dispatched passes to its goroutine.
LEMMA DispatchBacks ==
  ASSUME TypeOK, BackedInv, NEW w \in Workers, NEW s \in Slots, NEW c \in pending[w],
         Dispatch(w, s, c)
  PROVE  BackedInv'
<1>1. /\ UNCHANGED <<jobs, proc, poll>> /\ Owner[s] = w /\ task[s].stage = "idle"
      /\ pending' = [pending EXCEPT ![w] = pending[w] \ {c}]
  BY Zenon DEF Dispatch, Free
<1>2. /\ pending'[w] = pending[w] \ {c} /\ \A x \in Workers : x # w => pending'[x] = pending[x]
      /\ \A d \in pending[w] : d \in Claim
  BY Zenon, <1>1 DEF TypeOK
<1>3. /\ task'[s].stage \in Writing /\ task'[s].job = c.job
      /\ \A x \in Slots : x # s => task'[x] = task[x]
  BY Zenon DEF Dispatch, TypeOK, Writing
<1>4. ASSUME NEW x \in Workers, poll'[x].queue # NoQueue PROVE pending'[x] = {}
  BY Zenon, <1>1, <1>2, <1>4 DEF BackedInv
<1>5. ASSUME NEW j \in Jobs, jobs[j].status \in Active, proc[jobs[j].worker] = "up"
      PROVE  \/ \E d \in pending'[jobs[j].worker] : d.job = j
             \/ \E x \in Slots : /\ Owner[x] = jobs[j].worker
                                 /\ task'[x].job = j
                                 /\ task'[x].stage \in Writing
  <2>0. jobs[j].worker # w => pending'[jobs[j].worker] = pending[jobs[j].worker]
    BY <1>1 DEF TypeOK
  <2>1. ASSUME NEW d \in pending[jobs[j].worker], d.job = j
        PROVE  \/ \E e \in pending'[jobs[j].worker] : e.job = j
               \/ \E x \in Slots : /\ Owner[x] = jobs[j].worker
                                   /\ task'[x].job = j
                                   /\ task'[x].stage \in Writing
    BY Zenon, <1>1, <1>2, <1>3, <2>0, <2>1
  <2>2. ASSUME NEW x \in Slots, Owner[x] = jobs[j].worker, task[x].job = j,
               task[x].stage \in Writing
        PROVE  task'[x].job = j /\ task'[x].stage \in Writing
    BY Zenon, <1>1, <1>3, <2>2 DEF Writing
  <2> QED
    BY Zenon, <1>5, <2>1, <2>2 DEF BackedInv, NoAbandonedClaim
<1> QED
  BY <1>1, <1>4, <1>5 DEF BackedInv, NoAbandonedClaim

\* Without failing statements an executor gives its job up only by writing a
\* status that is not active.
LEMMA ExecutorGoesOn ==
  ASSUME TypeOK, OwnInv, Lossy = {}, NEW s \in Slots, ExecutorNext(s),
         proc[Owner[s]] = "up", task[s].stage \in Writing
  PROVE  \/ task'[s].stage \in Writing /\ task'[s].job = task[s].job
         \/ jobs'[task[s].job].status \notin Active
<1> DEFINE j == task[s].job
           n == task[s].attempts
<1>1. StatementResults(s) = {"ok"} /\ Applied("ok")
  BY Zenon DEF StatementResults, Results, Applied
<1>2. /\ jobs \in [Jobs -> Row] /\ task \in [Slots -> Task] /\ j \in Jobs
      /\ n + 1 \in Nat
  BY Zenon, TaskTyping DEF TypeOK, Writing
<1>3. \A stage \in Stage : Goto(s, stage) =>
        task'[s].stage = stage /\ task'[s].job = j
  BY Zenon, <1>2, SlotEffects DEF Goes
<1> USE DEF Stage, Writing
<1>4. CASE Gate(s) \/ HandlerSucceeds(s) \/ HandlerFails(s)
  BY Zenon, <1>3, <1>4 DEF Gate, HandlerSucceeds, HandlerFails
<1>5. CASE SkipExecution(s) \/ Complete(s)
  <2>1. jobs' = CompleteJob(jobs, j)
    BY Zenon, <1>1, <1>5 DEF SkipExecution, Complete
  <2> QED
    BY Zenon, <1>2, <2>1 DEF CompleteJob, Active, Row
<1>6. CASE StartRunning(s)
  <2>1. Goto(s, "handle")
    BY Zenon, <1>1, <1>6 DEF StartRunning
  <2> QED
    BY Zenon, <1>3, <2>1
<1>7. CASE RecordCompleted(s)
  BY Zenon, <1>7 DEF RecordCompleted, At
<1>8. CASE RecordFailed(s)
  <2>1. Goto(s, "deadletter") \/ Goto(s, "failjob")
    BY Zenon, <1>8 DEF RecordFailed
  <2> QED
    BY Zenon, <1>3, <2>1
<1>9. CASE DeadLetter(s)
  <2>1. task[s].stage = "deadletter"
    BY Zenon, <1>9 DEF DeadLetter, At
  <2>2. jobs[j].status = "running"
    BY Zenon, <2>1 DEF OwnInv, HoldersInv, Holds, Copied
  <2>3. j \notin dlq
    BY Zenon, <1>2, <2>2 DEF OwnInv, DLQMatchesStatus
  <2>4. jobs' = MoveToDLQ(jobs, j, n + 1)
    BY Zenon, <1>1, <1>9, <2>3 DEF DeadLetter
  <2> QED
    BY Zenon, <1>2, <2>4 DEF MoveToDLQ, Active, Row
<1>10. CASE MarkFailed(s)
  <2>1. Goto(s, "requeue")
    BY Zenon, <1>10 DEF MarkFailed
  <2> QED
    BY Zenon, <1>3, <2>1
<1>11. CASE Requeue(s)
  <2>1. jobs' = RequeueForRetry(jobs, j, n + 1)
    BY Zenon, <1>1, <1>11 DEF Requeue
  <2> QED
    BY Zenon, <1>2, <2>1 DEF RequeueForRetry, Active, Row
<1> QED
  BY Zenon, <1>4, <1>5, <1>6, <1>7, <1>8, <1>9, <1>10, <1>11 DEF ExecutorNext

\* An executor keeps what backs its own job, and nobody else's is touched.
LEMMA ExecutorBacks ==
  ASSUME TypeOK, OwnInv, BackedInv, Lossy = {}, NEW s \in Slots, ExecutorNext(s)
  PROVE  BackedInv'
<1>1. ExecStep(s) /\ poll' = poll
  BY Zenon, ExecutorActs, ExecutorKeepsPoll
<1>2. /\ UNCHANGED <<proc, pending>> /\ \A x \in Slots : x # s => task'[x] = task[x]
  BY Zenon, <1>1 DEF ExecStep
<1>3. NoneActivated
  BY Zenon, <1>1, ExecutorActivatesNone
<1>4. ASSUME NEW j \in Jobs, jobs'[j].status \in Active PROVE proc'[jobs'[j].worker] # "new"
  BY Zenon, <1>2, <1>3, <1>4 DEF NoneActivated, BackedInv
<1>5. ASSUME NEW j \in Jobs, jobs'[j].status \in Active, proc'[jobs'[j].worker] = "up"
      PROVE  \/ \E c \in pending'[jobs'[j].worker] : c.job = j
             \/ \E x \in Slots : /\ Owner[x] = jobs'[j].worker
                                 /\ task'[x].job = j
                                 /\ task'[x].stage \in Writing
  <2>1. jobs[j].status \in Active /\ jobs'[j].worker = jobs[j].worker
    BY Zenon, <1>3, <1>5 DEF NoneActivated
  <2>2. ASSUME NEW x \in Slots, Owner[x] = jobs[j].worker, task[x].job = j,
               task[x].stage \in Writing
        PROVE  task'[x].job = j /\ task'[x].stage \in Writing
    BY Zenon, <1>2, <1>5, <2>1, <2>2, ExecutorGoesOn
  <2> QED
    BY <1>2, <1>5, <2>1, <2>2 DEF BackedInv, NoAbandonedClaim
<1> QED
  BY Zenon, <1>1, <1>2, <1>4, <1>5 DEF BackedInv, NoAbandonedClaim

-----------------------------------------------------------------------------
(* The theorems on admission *)

\* Init establishes both invariants: nothing is active or granted.
LEMMA AdmissionInit == Init => AdmitInv /\ BackedInv
<1> SUFFICES ASSUME Init PROVE AdmitInv /\ BackedInv
  BY Zenon
<1>1. /\ \A j \in Jobs : jobs[j].status = "absent"
      /\ \A w \in Workers : poll[w].queue = NoQueue
  BY Zenon DEF Init, NoRow, NotPolling
<1>2. ASSUME NEW q \in Queues
      PROVE  Cardinality(ActiveIn(jobs, q)) + Cardinality(Granted(q))
               <= ConcurrencyLimit[q] * Cardinality(Workers)
  <2>1. ActiveIn(jobs, q) = {}
    BY Zenon, <1>1 DEF ActiveIn, Active
  <2>2. Granted(q) = {}
    BY Zenon, <1>1, NoQueueAssumption DEF Granted
  <2> QED
    BY <2>1, <2>2, CountsFinite, FS_EmptySet
<1>3. AdmitInv
  BY Zenon, <1>1, <1>2 DEF AdmitInv
<1> QED
  BY Zenon, <1>1, <1>3 DEF BackedInv, NoAbandonedClaim, Active

\* Steps are quiet, or one of the four that move claims.
LEMMA QuietUnlessClaiming ==
  ASSUME TypeOK, [Next]_vars
  PROVE  \/ Quiet
         \/ \E w \in Workers, q \in Queues : ClaimSnapshot(w, q)
         \/ \E w \in Workers : ClaimCommit(w)
         \/ \E w \in Workers, s \in Slots : \E c \in pending[w] : Dispatch(w, s, c)
         \/ \E s \in Slots : ExecutorNext(s)
BY Zenon, ApiIsQuiet, BackgroundIsQuiet, ProcessIsQuiet DEF Next, ProcessNext

\* Admission is inductive where ownership holds.
LEMMA AdmitStep ==
  ASSUME TypeOK, OwnInv, AdmitInv, [Next]_vars
  PROVE  AdmitInv'
<1>1. CASE Quiet
  BY Zenon, <1>1, AdmitKept DEF Quiet
<1>2. ASSUME NEW w \in Workers, NEW s \in Slots, NEW c \in pending[w], Dispatch(w, s, c)
      PROVE  AdmitInv'
  BY Zenon, <1>2, AdmitKept DEF Dispatch, NoneActivated, GrantStep
<1>3. ASSUME NEW s \in Slots, ExecutorNext(s) PROVE AdmitInv'
  <2>1. NoneActivated /\ poll' = poll
    BY Zenon, <1>3, ExecutorActs, ExecutorActivatesNone, ExecutorKeepsPoll
  <2> QED
    BY Zenon, <2>1, AdmitKept DEF GrantStep
<1> QED
  BY Zenon, <1>1, <1>2, <1>3, QuietUnlessClaiming, SnapshotAdmits, ClaimAdmits

\* The count of ClaimJobs belongs to a snapshot that may be stale, so a queue
\* can be over-admitted, but by no more than one limit for each worker,
\* whatever crashes, signals and lost answers do.
THEOREM OverAdmissionBounded ==
  ASSUME Orderly
  PROVE  Spec => []BoundedOverAdmission
<1>1. Init => AdmitInv
  BY Zenon, AdmissionInit
<1>2. TypeOK /\ OwnInv /\ AdmitInv /\ [Next]_vars => AdmitInv'
  BY Zenon, AdmitStep
<1>3. AdmitInv => BoundedOverAdmission
  <2> SUFFICES ASSUME AdmitInv, NEW q \in Queues
               PROVE  Cardinality(ActiveIn(jobs, q))
                        <= ConcurrencyLimit[q] * Cardinality(Workers)
    BY Zenon DEF BoundedOverAdmission
  <2>1. Cardinality(ActiveIn(jobs, q)) + Cardinality(Granted(q))
          <= ConcurrencyLimit[q] * Cardinality(Workers)
    BY Zenon DEF AdmitInv
  <2> QED
    BY <2>1, CountsFinite
<1> QED
  BY <1>1, <1>2, <1>3, OwnershipInvariant, PTL DEF Spec

\* While its worker is up, a claimed or running row has a claim waiting for a
\* slot or a goroutine that will still write it: as long as statements do not
\* fail, pollOnce and executeJob drop none.
THEOREM ClaimsNotAbandoned ==
  ASSUME Orderly, Lossy = {}
  PROVE  Spec => []NoAbandonedClaim
<1>1. Init => BackedInv
  BY Zenon, AdmissionInit
<1>2. TypeOK /\ OwnInv /\ BackedInv /\ [Next]_vars => BackedInv'
  BY Zenon, QuietUnlessClaiming, QuietBacks, SnapshotBacks, ClaimBacks, DispatchBacks,
     ExecutorBacks
<1>3. BackedInv => NoAbandonedClaim
  BY Zenon DEF BackedInv
<1> QED
  BY <1>1, <1>2, <1>3, OwnershipInvariant, PTL DEF Spec
=============================================================================
