------------------------ MODULE ServerlessInvariants ------------------------
(***************************************************************************)
(* The inductive invariants of ServerlessWorker, and the kinds of step the *)
(* proofs about it speak of.                                               *)
(***************************************************************************)
EXTENDS ServerlessWorker

(* The work that ticks hold *)

\* The stages of executeJob.
Working == {"record", "settle", "list", "finish"}

Claims(t) == {c.job : c \in tick[t].batch}

Types ==
  /\ jobs \in [Jobs -> Row]
  /\ tick \in [Ticks -> Tick]
  /\ paused \in [Queues -> BOOLEAN]
  /\ retrying \subseteq Jobs /\ \A j \in retrying : Exists(jobs, j)

\* A tick executes one of its claims at a time, and claims are distinct.
TickInv(t) ==
  /\ tick[t].job # NoJob <=> tick[t].stage \in Working
  /\ \A c, d \in tick[t].batch : c.job = d.job => c = d
  /\ tick[t].job \notin Claims(t)
  /\ \A j \in Touching(t) : Exists(jobs, j)

\* What a tick holds and nobody took from it is active, hence claimed by no
\* other tick.
HoldInv ==
  \A t \in Ticks : \A j \in Holding(t) : j \in disturbed \/ jobs[j].status \in Active

WorkInv == /\ Types /\ (\A t \in Ticks : TickInv(t))
           /\ HoldInv /\ ExclusiveUnlessTaken

\* attempts, wherever a copy of it is, counts no more than the starts.
Charged(j, n) == n <= starts[j] \/ starts[j] = MaxAttempts[j]

ChargeInv ==
  /\ starts \in [Jobs -> Nat] /\ \A j \in Jobs : starts[j] <= MaxAttempts[j]
  /\ \A j \in Jobs : Charged(j, jobs[j].attempts)
  /\ \A t \in Ticks : \A c \in tick[t].batch : Charged(c.job, c.attempts)
  /\ \A t \in Ticks : tick[t].job # NoJob => Charged(tick[t].job, tick[t].attempt)
  /\ DeadLetterEarned

CoreInv == WorkInv /\ ChargeInv

-----------------------------------------------------------------------------
(* The keys, the executions and the whole *)

ExecStatus == {"running", "completed", "failed"}

ExecTypes == executions \in [Jobs -> Seq(ExecStatus)]

\* The unique index holds, a posted job has no row until its INSERT, and an
\* answer names a row with the key it was asked for.
KeyInv ==
  /\ submit \in [Jobs -> [stage : Answer, job : Jobs \cup {NoJob}]]
  /\ \A j \in Jobs : submit[j].stage \in {"new", "checked"} => ~Exists(jobs, j)
  /\ \A j \in Jobs : submit[j].job # NoJob =>
       /\ Exists(jobs, submit[j].job)
       /\ KeyOf[submit[j].job] = KeyOf[j] /\ QueueOf[submit[j].job] = QueueOf[j]
  /\ \A j, k \in Jobs :
       /\ Exists(jobs, j) /\ Exists(jobs, k)
       /\ KeyOf[j] = KeyOf[k] /\ KeyOf[j] # NoKey /\ QueueOf[j] = QueueOf[k]
       => j = k

AllInv == CoreInv /\ KeyInv /\ ExecTypes

-----------------------------------------------------------------------------
(* The tables and the scheduler *)

SideTypes ==
  /\ dlq \subseteq Jobs /\ disturbed \subseteq Jobs /\ cut \subseteq Jobs
  /\ workers \in [Workers -> {"none", "bare", "beating"}]
  /\ inFlight \in [Instances -> BOOLEAN] /\ recent \in [Instances -> BOOLEAN]
  /\ faults \in Nat

\* The scheduled ticks of an instance: none but the one inFlight stands for.
Scheduled(i) == {t \in Ticks : InstanceOf[t] = i /\ tick[t].scheduled}

FlightInv ==
  /\ \A t \in Ticks : tick[t].scheduled => tick[t].stage # "idle" /\ inFlight[InstanceOf[t]]
  /\ \A i \in Instances : \A t, u \in Scheduled(i) : t = u
  /\ \A i \in Instances : inFlight[i] => Scheduled(i) # {}

\* What is listed, or about to be, is dead unless it was disturbed; what is
\* being retried is neither listed nor worked on unless it was.
ListInv ==
  /\ \A j \in dlq : jobs[j].status = "dead_letter" \/ j \in disturbed
  /\ \A t \in Ticks : At(t, "list") =>
       jobs[tick[t].job].status = "dead_letter" \/ tick[t].job \in disturbed
  /\ \A j \in retrying : (j \in dlq \/ Touched(j)) => j \in disturbed
  /\ DeadListedUnlessCut

\* Only a tick past recordStart has an execution.
Recorded == {"settle", "list", "finish"}

ExecInv ==
  /\ \A t \in Ticks : tick[t].stage \notin Recorded => tick[t].exec = 0
  /\ OpenExecutionsOwned

\* The rows of q that ticks may still claim under the budgets they read.
Granted(q) ==
  {p \in Ticks \X (1..ConcurrencyLimit[q]) :
     At(p[1], "claim") /\ tick[p[1]].queue = q /\ p[2] <= tick[p[1]].budget}

\* Rows active and rows granted together stay within one limit per tick.
AdmitInv ==
  /\ \A t \in Ticks : At(t, "claim") =>
       tick[t].queue \in Queues /\ tick[t].budget <= ConcurrencyLimit[tick[t].queue]
  /\ disturbed = {} => \A q \in Queues :
       Cardinality(ActiveIn(jobs, q)) + Cardinality(Granted(q))
         <= ConcurrencyLimit[q] * Cardinality(Ticks)

\* All of it but the types and the admission.
RestInv == FlightInv /\ ListInv /\ ExecInv

TableInv == SideTypes /\ FlightInv /\ ListInv /\ ExecInv /\ AdmitInv

-----------------------------------------------------------------------------
(* Kinds of step *)

\* The step leaves tick t with a part of the work it had.
Lighter(t) ==
  /\ tick'[t].batch \subseteq tick[t].batch
  /\ \/ tick'[t].job = NoJob /\ tick'[t].stage \notin Working
     \/ /\ tick'[t].job = tick[t].job /\ tick'[t].attempt = tick[t].attempt
        /\ tick'[t].stage \in Working <=> tick[t].stage \in Working
        /\ tick'[t].stage \in {"record", "settle"} => tick[t].stage \in {"record", "settle"}

\* The steps of runWorkerTick and executeJob that take no work.
QuietStep(t) ==
  \/ reaper(t) \/ findWorker(t) \/ beat(t) \/ enroll(t) \/ firstBeat(t)
  \/ listQueues(t) \/ readBudget(t) \/ tickDone(t) \/ parseThrows(t)
  \/ recordStart(t) \/ settleJob(t) \/ listDead(t) \/ finishJob(t)
  \/ runWorkerTickNow(t) \/ CronTick(t) \/ TickAborts(t)

SameRowsExist == \A k \in Jobs : Exists(jobs', k) <=> Exists(jobs, k)

\* A completed row that nobody retries and no tick lost stays.
CompletedKept ==
  \A j \in Jobs : jobs[j].status = "completed" /\ j \notin retrying \cup disturbed
                    => jobs'[j].status = "completed"

\* What a step has to show.
StepKeeps == AllInv' /\ CompletedKept

\* Tick t goes on without taking anything.
GoesOn(t) ==
  /\ \A u \in Ticks : u # t => tick'[u] = tick[u]
  /\ tick'[t].scheduled <=> tick[t].scheduled
  /\ tick'[t].batch = tick[t].batch
  /\ tick'[t].job = tick[t].job /\ tick'[t].exec = tick[t].exec
  /\ tick'[t].stage \notin Working \cup {"idle", "claim"}

\* A route may start a tick; none of them touches a tick that runs.
MayStart == UNCHANGED <<tick, inFlight>> \/ \E i \in Instances : scheduleWorkerTick(i)

\* The step activates no row, unless it takes one from its tick, and reads no
\* budget.
AdmitsNone ==
  /\ disturbed \subseteq disturbed'
  /\ disturbed' = {} =>
       \A j \in Jobs : jobs'[j].status \in Active => jobs[j].status \in Active
  /\ \A u \in Ticks : tick'[u].stage = "claim" =>
       /\ tick[u].stage = "claim"
       /\ tick'[u].queue = tick[u].queue /\ tick'[u].budget = tick[u].budget

\* What such a step has to show.
Keeps == FlightInv' /\ ListInv' /\ ExecInv' /\ AdmitsNone
=============================================================================
