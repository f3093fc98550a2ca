--------------------------- MODULE ServerlessSafety ---------------------------
(***************************************************************************)
(* Theorems about ServerlessWorker for every number of jobs, queues, ticks *)
(* and instances, under every fault of the model.                          *)
(***************************************************************************)
EXTENDS ServerlessSteps, Counting

\* Init establishes the invariant.
LEMMA ServerlessInit == Init => AllInv
<1> SUFFICES ASSUME Init PROVE AllInv
  BY Zenon
<1>1. PICK w \in Workloads :
        /\ jobs = [j \in Jobs |-> IF j \in w.seeded THEN NewRow("immediate") ELSE NoRow]
        /\ submit = [j \in Jobs |-> [stage |-> IF j \in w.posted THEN "new" ELSE "none",
                                     job |-> NoJob]]
  BY Zenon DEF Init
<1>2. /\ executions = [j \in Jobs |-> <<>>] /\ paused = [q \in Queues |-> FALSE]
      /\ tick = [t \in Ticks |-> Idle] /\ retrying = {} /\ disturbed = {}
      /\ starts = [j \in Jobs |-> 0]
  BY Zenon DEF Init
<1>3. /\ NewRow("immediate") \in Row /\ NoRow \in Row
      /\ NewRow("immediate").status = "queued" /\ NewRow("immediate").attempts = 0
      /\ NoRow.status = "absent" /\ NoRow.attempts = 0
  BY ZenonT(40) DEF NewRow, NoRow, Row, Status
<1>4. \A j \in Jobs : /\ jobs[j] \in Row /\ jobs[j].attempts = 0
                      /\ jobs[j].status \in {"queued", "absent"}
                      /\ Exists(jobs, j) <=> j \in w.seeded
  BY Zenon, <1>1, <1>3 DEF Exists
<1>5. jobs \in [Jobs -> Row]
  BY Zenon, <1>1, <1>4
<1>6. Types
  BY Zenon, <1>2, <1>5, IdleTick DEF Types
<1>7. \A t \in Ticks : Claims(t) = {} /\ Holding(t) = {} /\ Touching(t) = {}
  BY Zenon, <1>2, IdleTick DEF Claims, Holding, Touching, Working
<1>8. \A t \in Ticks : TickInv(t)
  BY Zenon, <1>2, <1>7, IdleTick DEF TickInv
<1>9. WorkInv
  BY Zenon, <1>6, <1>7, <1>8 DEF WorkInv, HoldInv, ExclusiveUnlessTaken
<1>10. ChargeInv
  <2>1. /\ starts \in [Jobs -> Nat]
        /\ \A j \in Jobs : starts[j] = 0 /\ starts[j] <= MaxAttempts[j]
    BY <1>2, MaxAttemptsAssumption
  <2>2. \A j \in Jobs : Charged(j, jobs[j].attempts)
    BY <2>1, <1>4 DEF Charged
  <2>3. \A t \in Ticks : tick[t].batch = {} /\ tick[t].job = NoJob
    BY Zenon, <1>2, IdleTick
  <2>4. DeadLetterEarned
    BY Zenon, <1>4 DEF DeadLetterEarned
  <2> QED
    BY Zenon, <2>1, <2>2, <2>3, <2>4 DEF ChargeInv
<1>11. KeyInv
  <2>1. w \in [seeded : SUBSET Jobs, posted : SUBSET Jobs, faults : Nat]
    BY Zenon, WorkloadsAssumption
  <2>2. submit \in [Jobs -> [stage : Answer, job : Jobs \cup {NoJob}]]
    BY Zenon, <1>1 DEF Answer
  <2>3. \A j \in Jobs : submit[j].job = NoJob /\ (submit[j].stage = "new" => j \in w.posted)
                        /\ submit[j].stage # "checked"
    BY Zenon, <1>1
  <2> QED
    BY Zenon, <2>1, <2>2, <2>3, <1>4, WorkloadsAssumption DEF KeyInv
<1>12. ExecTypes
  BY <1>2 DEF ExecTypes
<1> QED
  BY Zenon, <1>9, <1>10, <1>11, <1>12 DEF AllInv, CoreInv

\* The budget of a queue is a number.
LEMMA BudgetNat ==
  ASSUME NEW q \in Queues
  PROVE  Budget(q) \in Nat
<1>1. IsFiniteSet(ActiveIn(jobs, q))
  BY Zenon, JobsFinite, FS_Subset DEF ActiveIn
<1>2. Cardinality(ActiveIn(jobs, q)) \in Nat
  BY Zenon, <1>1, FS_CardinalityType
<1> QED
  BY <1>2, LimitAssumption DEF Budget

\* Every step keeps the invariant and the completed rows.
LEMMA ServerlessStep == AllInv /\ [Next]_vars => AllInv' /\ CompletedKept
<1> SUFFICES ASSUME AllInv, [Next]_vars PROVE StepKeeps
  BY Zenon DEF StepKeeps
<1>1. ASSUME NEW t \in Ticks,
             TickStep(t) \/ runWorkerTickNow(t) \/ CronTick(t) \/ TickAborts(t)
      PROVE  StepKeeps
  BY Zenon, <1>1, BudgetNat, TickKeeps
<1>2. ASSUME NEW j \in Jobs, NEW i \in Instances, insertJob(j, i) \/ retryUpdate(j, i)
      PROVE  StepKeeps
  BY Zenon, <1>2, RouteKeeps
<1>3. ASSUME NEW j \in Jobs, checkKey(j) \/ retryDelete(j) \/ RetryAborts(j) \/ retryNotFound(j)
      PROVE  StepKeeps
  BY Zenon, <1>3, RouteKeeps
<1> QED
  BY Zenon, <1>1, <1>2, <1>3, OtherKeeps DEF Next

\* The invariant holds in every reachable state.
THEOREM ServerlessInvariant == Spec => []AllInv
<1>1. AllInv /\ [Next]_vars => AllInv'
  BY Zenon, ServerlessStep
<1> QED
  BY <1>1, ServerlessInit, PTL DEF Spec

-----------------------------------------------------------------------------
\* Ticks of worker.ts, however many overlap, hold a job together only after the
\* reaper or a retry took it from one of them.
THEOREM ExclusiveTicks == Spec => []ExclusiveUnlessTaken
<1>1. AllInv => ExclusiveUnlessTaken
  BY Zenon DEF AllInv, CoreInv, WorkInv
<1> QED
  BY <1>1, ServerlessInvariant, PTL

\* executeJob gives a job up only when it fails and was started max_attempts
\* times, whatever was cut off, taken or retried.
THEOREM DeadLettersEarned == Spec => []DeadLetterEarned
<1>1. AllInv => DeadLetterEarned
  BY Zenon DEF AllInv, CoreInv, ChargeInv
<1> QED
  BY <1>1, ServerlessInvariant, PTL

\* However many submissions race with one idempotency key, those that succeed
\* are answered with the same job.
THEOREM AnswersNameOneJob == Spec => []AnswersAgree
<1>1. AllInv => AnswersAgree
  <2> SUFFICES ASSUME AllInv, NEW j \in Jobs, NEW k \in Jobs,
                      submit[j].job # NoJob, submit[k].job # NoJob,
                      KeyOf[j] = KeyOf[k], KeyOf[j] # NoKey, QueueOf[j] = QueueOf[k]
               PROVE  submit[j].job = submit[k].job
    BY Zenon DEF AnswersAgree
  <2>1. submit[j].job \in Jobs /\ submit[k].job \in Jobs
    BY DEF AllInv, KeyInv
  <2> QED
    BY <2>1 DEF AllInv, KeyInv
<1> QED
  BY <1>1, ServerlessInvariant, PTL

\* No statement of a tick or a route undoes a completed job that is neither
\* retried nor was taken from a tick.
THEOREM CompletedIsKept == Spec => CompletedStays
<1>1. AllInv /\ [Next]_vars => [CompletedKept]_vars
  BY Zenon, ServerlessStep
<1> QED
  BY <1>1, ServerlessInvariant, PTL DEF Spec, CompletedStays, CompletedKept

-----------------------------------------------------------------------------
(* Admission to a queue *)

\* The rows of a queue and the grants on it are finite.
LEMMA CountsFinite ==
  ASSUME NEW q \in Queues
  PROVE  /\ IsFiniteSet(ActiveIn(jobs, q)) /\ IsFiniteSet(ActiveIn(jobs', q))
         /\ Cardinality(ActiveIn(jobs, q)) \in Nat /\ Cardinality(ActiveIn(jobs', q)) \in Nat
         /\ IsFiniteSet(Granted(q)) /\ Cardinality(Granted(q)) \in Nat
         /\ IsFiniteSet(Granted(q)') /\ Cardinality(Granted(q)') \in Nat
         /\ Cardinality(Ticks) \in Nat
<1>1. IsFiniteSet(ActiveIn(jobs, q)) /\ IsFiniteSet(ActiveIn(jobs', q))
  BY Zenon, JobsFinite, FS_Subset DEF ActiveIn
<1>2. Granted(q) \in SUBSET (Ticks \X (1..ConcurrencyLimit[q]))
      /\ Granted(q)' \in SUBSET (Ticks \X (1..ConcurrencyLimit[q]))
  BY Zenon DEF Granted
<1>3. ConcurrencyLimit[q] \in Nat
  BY Zenon, LimitAssumption
<1>4. /\ IsFiniteSet(Granted(q)) /\ Cardinality(Granted(q)) \in Nat
      /\ IsFiniteSet(Granted(q)') /\ Cardinality(Granted(q)') \in Nat
  BY Zenon, <1>2, <1>3, TicksFinite, GrantsFinite
<1> QED
  BY Zenon, <1>1, <1>4, TicksFinite, FS_CardinalityType

\* The sum stays for a queue whose rows and grants do not grow.
LEMMA QueueKept ==
  ASSUME AdmitInv, disturbed = {}, NEW q \in Queues,
         ActiveIn(jobs', q) \subseteq ActiveIn(jobs, q), Granted(q)' \subseteq Granted(q)
  PROVE  Cardinality(ActiveIn(jobs', q)) + Cardinality(Granted(q)')
           <= ConcurrencyLimit[q] * Cardinality(Ticks)
<1>1. /\ Cardinality(ActiveIn(jobs', q)) <= Cardinality(ActiveIn(jobs, q))
      /\ Cardinality(Granted(q)') <= Cardinality(Granted(q))
  BY Zenon, CountsFinite, FS_Subset
<1>2. Cardinality(ActiveIn(jobs, q)) + Cardinality(Granted(q))
        <= ConcurrencyLimit[q] * Cardinality(Ticks)
  BY Zenon DEF AdmitInv
<1>3. ConcurrencyLimit[q] * Cardinality(Ticks) \in Nat
  BY CountsFinite, LimitAssumption
<1> QED
  BY <1>1, <1>2, <1>3, CountsFinite

\* A step that neither activates a row nor reads a budget.
LEMMA AdmitKept ==
  ASSUME AdmitInv, AdmitsNone
  PROVE  AdmitInv'
<1>1. ASSUME NEW u \in Ticks, At(u, "claim")'
      PROVE  tick'[u].queue \in Queues
             /\ tick'[u].budget <= ConcurrencyLimit[tick'[u].queue]
  BY Zenon, <1>1 DEF AdmitInv, AdmitsNone, At
<1>2. ASSUME disturbed' = {}, NEW q \in Queues
      PROVE  Cardinality(ActiveIn(jobs', q)) + Cardinality(Granted(q)')
               <= ConcurrencyLimit[q] * Cardinality(Ticks)
  <2>1. ActiveIn(jobs', q) \subseteq ActiveIn(jobs, q)
    BY Zenon, <1>2 DEF ActiveIn, AdmitsNone
  <2>2. Granted(q)' \subseteq Granted(q)
    BY Zenon DEF Granted, AdmitsNone, At
  <2> QED
    BY Zenon, <1>2, <2>1, <2>2, QueueKept DEF AdmitsNone
<1> QED
  BY Zenon, <1>1, <1>2 DEF AdmitInv

\* A budget that is read fills the limit, beside what the other ticks were
\* granted.
LEMMA BudgetAdmits ==
  ASSUME AllInv, AdmitInv, NEW t \in Ticks, readBudget(t)
  PROVE  AdmitInv'
<1>0. /\ tick \in [Ticks -> Tick] /\ tick[t] \in Tick /\ tick[t].stage = "next"
      /\ jobs' = jobs /\ disturbed' = disturbed
  BY Zenon DEF AllInv, CoreInv, WorkInv, Types, readBudget, At, tables, history
<1>1. PICK q \in tick[t].todo :
        \/ /\ Budget(q) > 0
           /\ tick' = [tick EXCEPT ![t].stage = "claim", ![t].todo = @ \ {q},
                                   ![t].queue = q, ![t].budget = Budget(q)]
        \/ /\ Budget(q) = 0
           /\ tick' = [tick EXCEPT ![t].todo = @ \ {q}]
  BY Zenon DEF readBudget
<1>2. q \in Queues /\ \A u \in Ticks : u # t => tick'[u] = tick[u]
  BY Zenon, <1>0, <1>1 DEF Tick
<1> DEFINE L == ConcurrencyLimit[q]
           active == Cardinality(ActiveIn(jobs, q))
<1>3. L \in Nat /\ active \in Nat
  BY Zenon, <1>2, LimitAssumption, CountsFinite
<1>4. CASE tick'[t].stage # "claim"
  BY Zenon, <1>0, <1>2, <1>4, AdmitKept DEF AdmitsNone
<1>5. CASE tick'[t].stage = "claim"
  <2>1. /\ Budget(q) > 0 /\ tick'[t].queue = q /\ tick'[t].budget = Budget(q)
    BY <1>0, <1>1, <1>5 DEF Tick
  <2>2. Budget(q) \in Nat /\ Budget(q) <= L /\ active + Budget(q) = L
    BY <1>3, <2>1 DEF Budget
  <2>3. ASSUME NEW u \in Ticks, At(u, "claim")'
        PROVE  tick'[u].queue \in Queues
               /\ tick'[u].budget <= ConcurrencyLimit[tick'[u].queue]
    BY Zenon, <2>1, <2>2, <2>3, <1>2 DEF AdmitInv, At
  <2>4. ASSUME disturbed' = {}, NEW r \in Queues
        PROVE  Cardinality(ActiveIn(jobs', r)) + Cardinality(Granted(r)')
                 <= ConcurrencyLimit[r] * Cardinality(Ticks)
    <3>1. CASE r # q
      <4>1. Granted(r)' \subseteq Granted(r)
        BY Zenon, <1>2, <2>1, <3>1 DEF Granted, At
      <4> QED
        BY Zenon, <4>1, <1>0, <2>4, QueueKept
    <3>2. CASE r = q
      <4> DEFINE others == {p \in Granted(q) : p[1] # t}
                 own == {t} \X (1..Budget(q))
      <4>1. others \in SUBSET ((Ticks \ {t}) \X (1..L))
        BY Zenon DEF Granted
      <4>2. Granted(q)' \subseteq others \cup own
        BY <1>2, <2>1, <2>2, <1>3 DEF Granted, At
      <4>3. active + Cardinality(Granted(q)') <= L * Cardinality(Ticks)
        BY Zenon, <4>1, <4>2, <1>3, <2>2, TicksFinite, BudgetFits
      <4> QED
        BY Zenon, <4>3, <3>2, <1>0
    <3> QED
      BY Zenon, <3>1, <3>2
  <2> QED
    BY Zenon, <2>3, <2>4 DEF AdmitInv
<1> QED
  BY Zenon, <1>4, <1>5

\* A claim takes no more rows than the tick was granted.
LEMMA ClaimAdmits ==
  ASSUME AllInv, AdmitInv, NEW t \in Ticks, claim(t)
  PROVE  AdmitInv'
<1>0. tick \in [Ticks -> Tick] /\ tick[t] \in Tick /\ At(t, "claim") /\ jobs \in [Jobs -> Row]
  BY Zenon DEF AllInv, CoreInv, WorkInv, Types, claim
<1>q. PICK q \in Queues : q = tick[t].queue
  BY Zenon, <1>0 DEF AdmitInv
<1>n. PICK n \in Nat : n = tick[t].budget
  BY Zenon, <1>0 DEF Tick
<1> DEFINE own == {t} \X (1..n)
<1>1. n <= ConcurrencyLimit[q] /\ ConcurrencyLimit[q] \in Nat
  BY Zenon, <1>0, <1>q, <1>n, LimitAssumption DEF AdmitInv
<1>2. PICK S \in ClaimChoices(jobs, q, n) :
        /\ jobs' = ClaimJobs(jobs, S, tick[t].worker)
        /\ tick' = [tick EXCEPT ![t].stage = "next", ![t].queue = NoQueue, ![t].budget = 0,
                      ![t].batch = {[job |-> j, attempts |-> jobs[j].attempts] : j \in S}]
        /\ disturbed' = disturbed \cup (S \cap retrying)
  BY Zenon, <1>q, <1>n DEF claim
<1>3. tick'[t].stage = "next" /\ \A u \in Ticks : u # t => tick'[u] = tick[u]
  BY Zenon, <1>0, <1>2 DEF Tick
<1>4. S \subseteq Claimable(jobs, q) /\ IsFiniteSet(S) /\ Cardinality(S) \in Nat
      /\ Cardinality(S) <= n
  <2>1. S \subseteq Claimable(jobs, q)
        /\ Cardinality(S) = IF n < Cardinality(Claimable(jobs, q))
                            THEN n ELSE Cardinality(Claimable(jobs, q))
    BY Zenon DEF ClaimChoices
  <2>2. IsFiniteSet(Claimable(jobs, q)) /\ Cardinality(Claimable(jobs, q)) \in Nat
    BY Zenon, JobsFinite, FS_Subset, FS_CardinalityType DEF Claimable
  <2>3. IsFiniteSet(S)
    BY Zenon, <2>1, <2>2, FS_Subset
  <2> QED
    BY <2>1, <2>2, <2>3, <1>1
<1>5. \A r \in Queues : ActiveIn(jobs', r) \subseteq
        ActiveIn(jobs, r) \cup (IF r = q THEN S ELSE {})
  BY Zenon, <1>2, <1>4, <1>0 DEF ActiveIn, ClaimJobs, Claimable
<1>6. \A r \in Queues : Granted(r)' \subseteq Granted(r)
  BY Zenon, <1>3 DEF Granted, At
<1>7. own \subseteq Granted(q) /\ Granted(q)' \cap own = {}
  BY <1>0, <1>q, <1>n, <1>1, <1>3 DEF Granted, At
<1>9. ASSUME NEW u \in Ticks, At(u, "claim")'
      PROVE  tick'[u].queue \in Queues
             /\ tick'[u].budget <= ConcurrencyLimit[tick'[u].queue]
  BY Zenon, <1>3, <1>9 DEF AdmitInv, At
<1>10. ASSUME disturbed' = {}, NEW r \in Queues
       PROVE  Cardinality(ActiveIn(jobs', r)) + Cardinality(Granted(r)')
                <= ConcurrencyLimit[r] * Cardinality(Ticks)
  <2>0. disturbed = {}
    BY Zenon, <1>2, <1>10
  <2>1. CASE r # q
    BY Zenon, <2>0, <2>1, <1>5, <1>6, QueueKept
  <2>2. CASE r = q
    <3>1. ActiveIn(jobs', q) \subseteq ActiveIn(jobs, q) \cup S /\ Granted(q)' \subseteq Granted(q)
      BY Zenon, <1>5, <1>6
    <3>2. Cardinality(ActiveIn(jobs', q)) + Cardinality(Granted(q)')
            <= Cardinality(ActiveIn(jobs, q)) + Cardinality(Granted(q))
      BY Zenon, <3>1, <1>4, <1>7, CountsFinite, ClaimFits
    <3>3. Cardinality(ActiveIn(jobs, q)) + Cardinality(Granted(q))
            <= ConcurrencyLimit[q] * Cardinality(Ticks)
      BY Zenon, <2>0 DEF AdmitInv
    <3>4. ConcurrencyLimit[q] * Cardinality(Ticks) \in Nat
      BY <1>1, CountsFinite
    <3> QED
      BY <2>2, <3>2, <3>3, <3>4, CountsFinite
  <2> QED
    BY Zenon, <2>1, <2>2
<1> QED
  BY Zenon, <1>9, <1>10 DEF AdmitInv

-----------------------------------------------------------------------------
(* The tables *)

\* Init establishes the invariant: nothing is listed, run, granted or active.
LEMMA TableInit == Init => TableInv
<1> SUFFICES ASSUME Init PROVE TableInv
  BY Zenon
<1>0. AllInv
  BY Zenon, ServerlessInit
<1>1. PICK w \in Workloads :
        /\ jobs = [j \in Jobs |-> IF j \in w.seeded THEN NewRow("immediate") ELSE NoRow]
        /\ faults = w.faults
        /\ workers = [v \in Workers |->
             IF v = (CHOOSE u \in Workers : TRUE) /\ w.seeded # {} THEN "bare" ELSE "none"]
  BY Zenon DEF Init
<1>2. /\ dlq = {} /\ disturbed = {} /\ cut = {} /\ retrying = {}
      /\ executions = [j \in Jobs |-> <<>>] /\ tick = [t \in Ticks |-> Idle]
      /\ inFlight = [i \in Instances |-> FALSE] /\ recent = [i \in Instances |-> FALSE]
  BY Zenon DEF Init
<1>3. \A t \in Ticks : tick[t].stage = "idle" /\ ~tick[t].scheduled /\ tick[t].exec = 0
  BY Zenon, <1>2 DEF Idle
<1>4. \A j \in Jobs : jobs[j].status \in {"queued", "absent"}
  BY Zenon, <1>1 DEF NewRow, NoRow
<1>5. SideTypes
  <2>1. w.faults \in Nat
    BY Zenon, WorkloadsAssumption
  <2> QED
    BY Zenon, <2>1, <1>1, <1>2 DEF SideTypes
<1>6. FlightInv
  BY Zenon, <1>2, <1>3 DEF FlightInv, Scheduled
<1>7. ListInv
  BY Zenon, <1>2, <1>3, <1>4 DEF ListInv, At, DeadListedUnlessCut
<1>8. ExecInv
  BY <1>2, <1>3 DEF ExecInv, OpenExecutionsOwned
<1>9. AdmitInv
  <2>1. ASSUME NEW q \in Queues
        PROVE  Cardinality(ActiveIn(jobs, q)) + Cardinality(Granted(q))
                 <= ConcurrencyLimit[q] * Cardinality(Ticks)
    <3>1. ActiveIn(jobs, q) = {}
      BY Zenon, <1>4 DEF ActiveIn, Active
    <3>2. Granted(q) = {}
      BY Zenon, <1>3 DEF Granted, At
    <3>3. Cardinality(Ticks) \in Nat /\ ConcurrencyLimit[q] \in Nat
      BY Zenon, TicksFinite, FS_CardinalityType, LimitAssumption
    <3>4. \A m, n \in Nat : 0 <= m * n
      OBVIOUS
    <3> QED
      BY <3>1, <3>2, <3>3, <3>4, FS_EmptySet
  <2> QED
    BY Zenon, <1>3, <2>1 DEF AdmitInv, At
<1> QED
  BY Zenon, <1>5, <1>6, <1>7, <1>8, <1>9 DEF TableInv

\* The tables, the ticks and the scheduler's module variables keep TableInv in
\* every reachable state, whatever is aborted, retried or cut off.
THEOREM TableInvariant == Spec => []TableInv
<1>1. ASSUME AllInv, TableInv, [Next]_vars PROVE TableInv'
  <2>1. SideTypes' /\ RestInv'
    BY Zenon, <1>1, TableStep
  <2>2. CASE AdmitsNone
    BY Zenon, <1>1, <2>1, <2>2, AdmitKept DEF TableInv, RestInv
  <2>3. ASSUME NEW t \in Ticks, readBudget(t) \/ claim(t) PROVE TableInv'
    BY Zenon, <1>1, <2>1, <2>3, BudgetAdmits, ClaimAdmits DEF TableInv, RestInv
  <2> QED
    BY Zenon, <1>1, <2>2, <2>3, TableStep
<1> QED
  BY <1>1, TableInit, ServerlessInvariant, PTL DEF Spec

-----------------------------------------------------------------------------
\* Every statement of worker.ts, of the API routes and of the scheduler leaves
\* values of their types, and no job is started more than max_attempts times.
THEOREM ServerlessTypes == Spec => []TypeOK
<1>1. AllInv /\ TableInv => TypeOK
  <2> SUFFICES ASSUME AllInv, TableInv PROVE TypeOK
    BY Zenon
  <2>1. \A j \in Jobs : \A n \in DOMAIN executions[j] :
          executions[j][n] \in {"running", "completed", "failed"}
    BY DEF AllInv, ExecTypes, ExecStatus
  <2>2. \A j \in Jobs : starts[j] \in 0..MaxAttempts[j]
    BY MaxAttemptsAssumption DEF AllInv, CoreInv, ChargeInv
  <2>3. /\ jobs \in [Jobs -> Row] /\ paused \in [Queues -> BOOLEAN]
        /\ tick \in [Ticks -> Tick] /\ retrying \subseteq Jobs
        /\ submit \in [Jobs -> [stage : Answer, job : Jobs \cup {NoJob}]]
    BY Zenon DEF AllInv, CoreInv, WorkInv, Types, KeyInv
  <2> QED
    BY Zenon, <2>1, <2>2, <2>3 DEF TableInv, SideTypes, TypeOK
<1> QED
  BY <1>1, TableInvariant, ServerlessInvariant, PTL

\* A job given up reaches the dead-letter list unless its tick is cut off
\* between the two statements or the job is taken from it.
THEOREM DeadJobsListed == Spec => []DeadListedUnlessCut
<1>1. TableInv => DeadListedUnlessCut
  BY Zenon DEF TableInv, ListInv
<1> QED
  BY <1>1, TableInvariant, PTL

\* What the dead-letter list shows is given up, unless a retry or the reaper
\* interfered with the tick that listed it.
THEOREM ListedJobsDead == Spec => []ListedIsDead
<1>1. TableInv => ListedIsDead
  BY Zenon DEF TableInv, ListInv, ListedIsDead
<1> QED
  BY <1>1, TableInvariant, PTL

\* An execution row left 'running' belongs to a live tick, or to one cut off.
THEOREM ExecutionsOwned == Spec => []OpenExecutionsOwned
<1>1. TableInv => OpenExecutionsOwned
  BY Zenon DEF TableInv, ExecInv
<1> QED
  BY <1>1, TableInvariant, PTL

\* Overlapping ticks read the budget without a lock, yet together they admit
\* no more than the limit once for each of them.
THEOREM AdmissionBounded == Spec => []BoundedByTicks
<1>1. TableInv => BoundedByTicks
  <2> SUFFICES ASSUME TableInv, disturbed = {}, NEW q \in Queues
               PROVE  Cardinality(ActiveIn(jobs, q)) <= ConcurrencyLimit[q] * Cardinality(Ticks)
    BY Zenon DEF BoundedByTicks
  <2>1. Cardinality(ActiveIn(jobs, q)) + Cardinality(Granted(q))
          <= ConcurrencyLimit[q] * Cardinality(Ticks)
    BY Zenon DEF TableInv, AdmitInv
  <2>2. /\ Cardinality(ActiveIn(jobs, q)) \in Nat /\ Cardinality(Granted(q)) \in Nat
        /\ Cardinality(Ticks) \in Nat /\ ConcurrencyLimit[q] \in Nat
    BY Zenon, CountsFinite, LimitAssumption
  <2>3. \A a, g, b \in Int : 0 <= g /\ a + g <= b => a <= b
    OBVIOUS
  <2>4. \A m, n \in Nat : m * n \in Int
    OBVIOUS
  <2> QED
    BY <2>1, <2>2, <2>3, <2>4
<1> QED
  BY <1>1, TableInvariant, PTL

\* The scheduler's inFlight is true exactly while one scheduled tick of the
\* instance runs: no abort or restart leaves it set, and none starts a second.
THEOREM InFlightExact == Spec => []InFlightMatchesTick
<1>1. TableInv => InFlightMatchesTick
  <2> SUFFICES ASSUME TableInv, NEW i \in Instances
               PROVE  Cardinality(Scheduled(i)) = IF inFlight[i] THEN 1 ELSE 0
    BY Zenon DEF InFlightMatchesTick, Scheduled
  <2>1. CASE inFlight[i]
    <3>1. PICK t \in Ticks : t \in Scheduled(i)
      BY Zenon, <2>1 DEF TableInv, FlightInv, Scheduled
    <3>2. Scheduled(i) = {t}
      BY <3>1 DEF TableInv, FlightInv
    <3> QED
      BY Zenon, <2>1, <3>2, FS_Singleton
  <2>2. CASE ~inFlight[i]
    <3>1. Scheduled(i) = {}
      BY <2>2 DEF TableInv, FlightInv, Scheduled
    <3> QED
      BY Zenon, <2>2, <3>1, FS_EmptySet
  <2> QED
    BY Zenon, <2>1, <2>2
<1> QED
  BY <1>1, TableInvariant, PTL
=============================================================================
