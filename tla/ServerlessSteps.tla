---------------------------- MODULE ServerlessSteps ---------------------------
(***************************************************************************)
(* The steps of ServerlessWorker keep the parts of its invariant.  First   *)
(* the work that ticks hold: the steps which take no work, those which     *)
(* write rows of the jobs table, then every action with the keys and the   *)
(* types of the executions.  Then the tables and the scheduler: the        *)
(* dead-letter list, the execution rows and the module variable inFlight.  *)
(* No job is admitted to a queue but by reading a budget or claiming.      *)
(***************************************************************************)
EXTENDS ServerlessInvariants, TLAPS

-----------------------------------------------------------------------------
(* Steps that give work up and take none *)

\* Such a tick holds and touches no more than before.
LEMMA LighterTouches ==
  ASSUME NEW t \in Ticks, Lighter(t)
  PROVE  /\ Claims(t)' \subseteq Claims(t)
         /\ Holding(t)' \subseteq Holding(t)
         /\ Touching(t)' \subseteq Touching(t)
<1>1. Claims(t)' \subseteq Claims(t)
  BY Zenon DEF Lighter, Claims
<1>2. Touching(t)' \subseteq Touching(t)
  BY Zenon DEF Lighter, Touching
<1>3. Holding(t)' \subseteq Holding(t)
  BY Zenon DEF Lighter, Holding, Working
<1> QED
  BY Zenon, <1>1, <1>2, <1>3

\* No exclusivity is lost when no tick takes work and a row that changes its
\* status is in nobody's hands but those it was taken from.
LEMMA LighterKeepsWork ==
  ASSUME WorkInv, Types',
         \A t \in Ticks : Lighter(t),
         disturbed \subseteq disturbed',
         \A j \in Jobs : Exists(jobs, j) => Exists(jobs', j),
         \A j \in Jobs : \/ jobs'[j].status = jobs[j].status
                         \/ \A t \in Ticks : j \in Holding(t)' => j \in disturbed'
  PROVE  WorkInv'
<1>1. \A t \in Ticks : /\ Claims(t)' \subseteq Claims(t)
                       /\ Holding(t)' \subseteq Holding(t)
                       /\ Touching(t)' \subseteq Touching(t)
  BY Zenon, LighterTouches
<1>2. \A t \in Ticks : Holding(t) \subseteq Jobs /\ Touching(t) \subseteq Jobs
  <2> SUFFICES ASSUME NEW t \in Ticks
               PROVE  Holding(t) \subseteq Jobs /\ Touching(t) \subseteq Jobs
    BY Zenon
  <2>1. tick[t] \in Tick /\ (tick[t].stage \in Working => tick[t].job # NoJob)
    BY Zenon DEF WorkInv, Types, TickInv
  <2>2. Claims(t) \subseteq Jobs
    BY <2>1 DEF Claims, Tick, Copy
  <2> QED
    BY Zenon, <2>1, <2>2 DEF Holding, Touching, Claims, Tick, Working
<1>3. ASSUME NEW t \in Ticks PROVE TickInv(t)'
  <2>1. TickInv(t) /\ Lighter(t)
    BY Zenon DEF WorkInv
  <2>2. tick[t].job # NoJob <=> tick[t].stage \in Working
    BY Zenon, <2>1 DEF TickInv
  <2>3. (tick[t].job # NoJob <=> tick[t].stage \in Working)'
    BY Zenon, <2>1, <2>2 DEF Lighter
  <2>4. (\A c, d \in tick[t].batch : c.job = d.job => c = d)'
    BY Zenon, <2>1 DEF TickInv, Lighter
  <2>5. (tick[t].job \notin Claims(t))'
    <3>1. CASE tick'[t].job = NoJob
      BY Zenon, <3>1, <1>1, <1>2, NullAssumption DEF Touching, Claims
    <3>2. CASE tick'[t].job = tick[t].job
      BY Zenon, <3>2, <1>1, <2>1 DEF TickInv
    <3> QED
      BY Zenon, <3>1, <3>2, <2>1 DEF Lighter
  <2>6. (\A j \in Touching(t) : Exists(jobs, j))'
    <3> SUFFICES ASSUME NEW j \in Touching(t)' PROVE Exists(jobs', j)
      BY Zenon DEF Exists
    <3>1. j \in Touching(t) /\ j \in Jobs
      BY Zenon, <1>1, <1>2
    <3>2. Exists(jobs, j)
      BY Zenon, <3>1, <2>1 DEF TickInv
    <3> QED
      BY Zenon, <3>1, <3>2
  <2> QED
    BY Zenon, <2>3, <2>4, <2>5, <2>6 DEF TickInv
<1>4. HoldInv'
  <2> SUFFICES ASSUME NEW t \in Ticks, NEW j \in Holding(t)'
               PROVE  j \in disturbed' \/ jobs'[j].status \in Active
    BY Zenon DEF HoldInv
  <2>1. j \in Holding(t) /\ j \in Jobs
    BY Zenon, <1>1, <1>2
  <2> QED
    BY Zenon, <2>1 DEF WorkInv, HoldInv
<1>5. ExclusiveUnlessTaken'
  BY Zenon, <1>1 DEF WorkInv, ExclusiveUnlessTaken
<1> QED
  BY Zenon, <1>3, <1>4, <1>5 DEF WorkInv

\* Nor is the count of the starts lost.
LEMMA LighterKeepsCharges ==
  ASSUME ChargeInv, Types, Types', \A t \in Ticks : Lighter(t),
         starts' = starts,
         \A j \in Jobs : jobs'[j].attempts \in {jobs[j].attempts, 0},
         \A j \in Jobs : jobs'[j].status = "dead_letter" =>
           jobs[j].status = "dead_letter" \/ (j \in Failing /\ starts[j] = MaxAttempts[j])
  PROVE  ChargeInv'
<1>1. (\A j \in Jobs : Charged(j, jobs[j].attempts))'
  BY DEF ChargeInv, Charged
<1>2. (\A t \in Ticks : \A c \in tick[t].batch : Charged(c.job, c.attempts))'
  BY Zenon DEF ChargeInv, Charged, Lighter
<1>3. (\A t \in Ticks : tick[t].job # NoJob => Charged(tick[t].job, tick[t].attempt))'
  BY Zenon DEF ChargeInv, Charged, Lighter
<1>4. DeadLetterEarned'
  BY Zenon DEF ChargeInv, DeadLetterEarned
<1> QED
  BY Zenon, <1>1, <1>2, <1>3, <1>4 DEF ChargeInv

\* Tick t goes on with the record new, and no other tick moves.
LEMMA OneLighter ==
  ASSUME tick \in [Ticks -> Tick], NEW t \in Ticks, NEW new \in Tick,
         tick' = [tick EXCEPT ![t] = new],
         new.batch \subseteq tick[t].batch,
         \/ new.job = NoJob /\ new.stage \notin Working
         \/ /\ new.job = tick[t].job /\ new.attempt = tick[t].attempt
            /\ new.stage \in Working <=> tick[t].stage \in Working
            /\ new.stage \in {"record", "settle"} => tick[t].stage \in {"record", "settle"}
  PROVE  tick' \in [Ticks -> Tick] /\ \A u \in Ticks : Lighter(u)
  BY Zenon DEF Lighter

\* The idle tick.
LEMMA IdleTick == Idle \in Tick /\ Idle.batch = {} /\ Idle.job = NoJob
                  /\ Idle.stage \notin Working /\ Idle.scheduled = FALSE
  BY Zenon DEF Idle, Tick, Stage, Working

\* A tick that ends gives all its work up.
LEMMA EndsLighter ==
  ASSUME tick \in [Ticks -> Tick], NEW t \in Ticks, TickEnds(t)
  PROVE  tick' \in [Ticks -> Tick] /\ \A u \in Ticks : Lighter(u)
  BY Zenon, OneLighter, IdleTick DEF TickEnds

\* A tick that only starts.
LEMMA StartsLighter ==
  ASSUME tick \in [Ticks -> Tick], NEW t \in Ticks, tick[t].stage = "idle",
         NEW b \in BOOLEAN,
         tick' = [tick EXCEPT ![t] = [tick[t] EXCEPT !.stage = "reap", !.scheduled = b]]
  PROVE  tick' \in [Ticks -> Tick] /\ \A u \in Ticks : Lighter(u)
<1> DEFINE new == [tick[t] EXCEPT !.stage = "reap", !.scheduled = b]
<1>0. tick[t] \in Tick
  BY Zenon
<1>1. new \in Tick
  BY Zenon, <1>0 DEF Tick, Stage
<1>2. /\ new.batch = tick[t].batch /\ new.job = tick[t].job
      /\ new.attempt = tick[t].attempt /\ new.stage = "reap"
  BY Zenon, <1>0 DEF Tick
<1> HIDE DEF new
<1>3. tick' = [tick EXCEPT ![t] = new]
  BY Zenon DEF new
<1> QED
  BY Zenon, <1>1, <1>2, <1>3, OneLighter DEF Working

\* scheduleWorkerTick starts at most one tick.
LEMMA ScheduleLighter ==
  ASSUME tick \in [Ticks -> Tick], NEW i \in Instances, scheduleWorkerTick(i)
  PROVE  tick' \in [Ticks -> Tick] /\ \A u \in Ticks : Lighter(u)
<1>1. CASE UNCHANGED tick
  BY Zenon, <1>1 DEF Lighter
<1>2. CASE \E t \in Ticks :
             /\ InstanceOf[t] = i /\ tick[t].stage = "idle"
             /\ tick' = [tick EXCEPT ![t].stage = "reap", ![t].scheduled = TRUE]
  <2>1. PICK t \in Ticks :
             /\ tick[t].stage = "idle"
             /\ tick' = [tick EXCEPT ![t].stage = "reap", ![t].scheduled = TRUE]
    BY Zenon, <1>2
  <2>2. tick' = [tick EXCEPT ![t] = [tick[t] EXCEPT !.stage = "reap", !.scheduled = TRUE]]
    BY Zenon, <2>1
  <2> QED
    BY Zenon, <2>1, <2>2, StartsLighter
<1> QED
  BY Zenon, <1>1, <1>2 DEF scheduleWorkerTick

\* They leave the tick lighter.
LEMMA QuietIsLighter ==
  ASSUME Types, NEW t \in Ticks, TickInv(t), QuietStep(t),
         \A j \in Jobs : Len(executions[j]) \in Nat, \A q \in Queues : Budget(q) \in Nat
  PROVE  tick' \in [Ticks -> Tick] /\ \A u \in Ticks : Lighter(u)
<1>0. tick \in [Ticks -> Tick] /\ tick[t] \in Tick
  BY Zenon DEF Types
<1>a. ASSUME NEW new \in Tick, tick' = [tick EXCEPT ![t] = new],
             new.batch = tick[t].batch, new.job = tick[t].job,
             new.attempt = tick[t].attempt,
             new.stage \in Working <=> tick[t].stage \in Working,
             new.stage \in {"record", "settle"} => tick[t].stage \in {"record", "settle"}
      PROVE  tick' \in [Ticks -> Tick] /\ \A u \in Ticks : Lighter(u)
  BY Zenon, <1>0, <1>a, OneLighter
<1>b. ASSUME NEW stage \in Stage, tick' = [tick EXCEPT ![t].stage = stage],
             stage \in Working <=> tick[t].stage \in Working,
             stage \in {"record", "settle"} => tick[t].stage \in {"record", "settle"}
      PROVE  tick' \in [Ticks -> Tick] /\ \A u \in Ticks : Lighter(u)
  <2> DEFINE new == [tick[t] EXCEPT !.stage = stage]
  <2>1. new \in Tick /\ tick' = [tick EXCEPT ![t] = new]
    BY Zenon, <1>0, <1>b DEF Tick
  <2>2. /\ new.batch = tick[t].batch /\ new.job = tick[t].job
        /\ new.attempt = tick[t].attempt /\ new.stage = stage
    BY Zenon, <1>0 DEF Tick
  <2> HIDE DEF new
  <2> QED
    BY Zenon, <2>1, <2>2, <1>a, <1>b
<1>c. ASSUME NEW stage \in Stage, NEW w \in Workers,
             tick' = [tick EXCEPT ![t].stage = stage, ![t].worker = w],
             stage \notin Working, tick[t].stage \notin Working
      PROVE  tick' \in [Ticks -> Tick] /\ \A u \in Ticks : Lighter(u)
  <2> DEFINE new == [tick[t] EXCEPT !.stage = stage, !.worker = w]
  <2>1. new \in Tick /\ tick' = [tick EXCEPT ![t] = new]
    BY Zenon, <1>0, <1>c DEF Tick
  <2>2. /\ new.batch = tick[t].batch /\ new.job = tick[t].job
        /\ new.attempt = tick[t].attempt /\ new.stage = stage
    BY Zenon, <1>0 DEF Tick
  <2> HIDE DEF new
  <2> QED
    BY Zenon, <2>1, <2>2, <1>a, <1>c DEF Working
<1>1. CASE reaper(t)
  BY Zenon, <1>b, <1>1 DEF reaper, At, Stage, Working
<1>2. CASE findWorker(t)
  <2>1. CASE tick' = [tick EXCEPT ![t].stage = "enroll"]
    BY ZenonT(40), <1>2, <2>1, <1>b DEF findWorker, At, Stage, Working
  <2>2. CASE \E w \in Workers : tick' = [tick EXCEPT ![t].stage = "beat", ![t].worker = w]
    BY Zenon, <1>2, <2>2, <1>c DEF findWorker, At, Stage, Working
  <2> QED
    BY Zenon, <1>2, <2>1, <2>2 DEF findWorker
<1>3. CASE beat(t)
  BY Zenon, <1>b, <1>3 DEF beat, At, Stage, Working
<1>4. CASE enroll(t)
  <2>1. PICK w \in Workers :
          tick' = [tick EXCEPT ![t].stage = "firstbeat", ![t].worker = w]
    BY Zenon, <1>4 DEF enroll
  <2> QED
    BY Zenon, <1>4, <2>1, <1>c DEF enroll, At, Stage, Working
<1>5. CASE firstBeat(t)
  <2>1. CASE tick' = [tick EXCEPT ![t].stage = "queues"]
    BY Zenon, <1>5, <2>1, <1>b DEF firstBeat, At, Stage, Working
  <2>2. CASE TickEnds(t)
    BY Zenon, <1>0, <2>2, EndsLighter
  <2> QED
    BY Zenon, <1>5, <2>1, <2>2 DEF firstBeat
<1>6. CASE listQueues(t)
  <2> DEFINE new == [tick[t] EXCEPT !.stage = "next", !.todo = {q \in Queues : ~paused[q]}]
  <2>1. new \in Tick /\ tick' = [tick EXCEPT ![t] = new]
    BY Zenon, <1>0, <1>6 DEF Tick, Stage, listQueues
  <2>2. /\ new.batch = tick[t].batch /\ new.job = tick[t].job
        /\ new.attempt = tick[t].attempt /\ new.stage = "next"
    BY Zenon, <1>0 DEF Tick
  <2> HIDE DEF new
  <2> QED
    BY Zenon, <1>6, <2>1, <2>2, <1>a DEF listQueues, At, Working
<1>7. CASE readBudget(t)
  <2>1. PICK q \in tick[t].todo :
          \/ tick' = [tick EXCEPT ![t].stage = "claim", ![t].todo = @ \ {q},
                                  ![t].queue = q, ![t].budget = Budget(q)]
          \/ tick' = [tick EXCEPT ![t].todo = @ \ {q}]
    BY Zenon, <1>7 DEF readBudget
  <2>2. q \in Queues /\ Budget(q) \in Nat
    BY Zenon, <1>0 DEF Tick
  <2> DEFINE a == [tick[t] EXCEPT !.stage = "claim", !.todo = tick[t].todo \ {q},
                                  !.queue = q, !.budget = Budget(q)]
             b == [tick[t] EXCEPT !.todo = tick[t].todo \ {q}]
  <2>3. a \in Tick /\ b \in Tick
    BY Zenon, <1>0, <2>2 DEF Tick, Stage
  <2>4. tick' = [tick EXCEPT ![t] = a] \/ tick' = [tick EXCEPT ![t] = b]
    BY Zenon, <2>1
  <2>5. /\ a.batch = tick[t].batch /\ a.job = tick[t].job
        /\ a.attempt = tick[t].attempt /\ a.stage = "claim"
        /\ b.batch = tick[t].batch /\ b.job = tick[t].job
        /\ b.attempt = tick[t].attempt /\ b.stage = tick[t].stage
    BY Zenon, <1>0 DEF Tick
  <2> HIDE DEF a, b
  <2> QED
    BY Zenon, <1>7, <2>3, <2>4, <2>5, <1>a DEF readBudget, At, Working
<1>8. CASE tickDone(t) \/ parseThrows(t)
  BY Zenon, <1>0, <1>8, EndsLighter DEF tickDone, parseThrows
<1>9. CASE recordStart(t)
  <2> DEFINE n == Len(executions[tick[t].job]) + 1
             new == [tick[t] EXCEPT !.stage = "settle", !.exec = n]
  <2>1. tick[t].job \in Jobs
    BY Zenon, <1>0, <1>9 DEF TickInv, recordStart, At, Working, Tick
  <2>2. n \in Nat
    BY <2>1
  <2>3. tick' = [tick EXCEPT ![t] = new]
    BY Zenon, <1>9 DEF recordStart
  <2> HIDE DEF n
  <2>4. new \in Tick
    BY Zenon, <1>0, <2>2 DEF Tick, Stage
  <2>5. /\ new.batch = tick[t].batch /\ new.job = tick[t].job
        /\ new.attempt = tick[t].attempt /\ new.stage = "settle"
    BY Zenon, <1>0 DEF Tick
  <2> HIDE DEF new
  <2> QED
    BY Zenon, <1>9, <2>3, <2>4, <2>5, <1>a DEF recordStart, At, Working
<1>10. CASE settleJob(t)
  <2>1. PICK stage \in {"list", "finish"} : tick' = [tick EXCEPT ![t].stage = stage]
    BY Zenon, <1>10 DEF settleJob
  <2> QED
    BY Zenon, <1>10, <2>1, <1>b DEF settleJob, At, Stage, Working
<1>11. CASE listDead(t)
  BY Zenon, <1>b, <1>11 DEF listDead, At, Stage, Working
<1>12. CASE finishJob(t)
  <2> DEFINE new == [tick[t] EXCEPT !.stage = "next", !.job = NoJob,
                                    !.attempt = 0, !.exec = 0]
  <2>1. new \in Tick /\ tick' = [tick EXCEPT ![t] = new]
    BY Zenon, <1>0, <1>12 DEF finishJob, Tick, Stage
  <2>2. new.batch = tick[t].batch /\ new.job = NoJob /\ new.stage = "next"
    BY Zenon, <1>0 DEF Tick
  <2> HIDE DEF new
  <2> QED
    BY Zenon, <1>0, <2>1, <2>2, OneLighter DEF Working
<1>13. CASE runWorkerTickNow(t)
  BY Zenon, <1>b, <1>13 DEF runWorkerTickNow, Stage, Working
<1>14. CASE CronTick(t)
  BY Zenon, <1>b, <1>14 DEF CronTick, Stage, Working
<1>15. CASE TickAborts(t)
  BY Zenon, <1>15, <1>0, EndsLighter DEF TickAborts
<1> QED
  BY Zenon, <1>1, <1>2, <1>3, <1>4, <1>5, <1>6, <1>7, <1>8, <1>9, <1>10, <1>11, <1>12,
     <1>13, <1>14, <1>15 DEF QuietStep

-----------------------------------------------------------------------------
(* One lemma for each way a step changes the rows *)

\* Statuses and attempts stay, no tick takes work.
LEMMA SameRows ==
  ASSUME CoreInv, tick' \in [Ticks -> Tick], \A u \in Ticks : Lighter(u),
         jobs' \in [Jobs -> Row], paused' \in [Queues -> BOOLEAN],
         \A j \in Jobs : /\ jobs'[j].status = jobs[j].status
                         /\ jobs'[j].attempts = jobs[j].attempts,
         \A j \in retrying' : j \in Jobs /\ Exists(jobs, j),
         disturbed \subseteq disturbed', starts' = starts
  PROVE  CoreInv'
<1>1. Types'
  BY Zenon DEF Types, Exists
<1>2. WorkInv'
  BY Zenon, <1>1, LighterKeepsWork DEF CoreInv, Exists
<1>3. ChargeInv'
  BY Zenon, <1>1, LighterKeepsCharges DEF CoreInv, WorkInv
<1> QED
  BY Zenon, <1>2, <1>3 DEF CoreInv

\* The reaper requeues what it takes from ticks that still hold it.
LEMMA ReaperStep ==
  ASSUME CoreInv, NEW t \in Ticks, reaper(t),
         tick' \in [Ticks -> Tick], \A u \in Ticks : Lighter(u)
  PROVE  CoreInv'
<1>0. jobs \in [Jobs -> Row]
  BY Zenon DEF CoreInv, WorkInv, Types
<1>1. \A j \in Jobs : j \in LeaseLost =>
        /\ jobs'[j] \in Row /\ jobs'[j].status = "queued"
        /\ jobs'[j].attempts = jobs[j].attempts
  BY ZenonT(40), <1>0 DEF reaper, Row, Status
<1>2. \A j \in Jobs : j \notin LeaseLost => jobs'[j] = jobs[j]
  BY Zenon DEF reaper
<1>3. jobs' \in [Jobs -> Row]
  <2>1. jobs' = [j \in Jobs |-> jobs'[j]]
    BY Zenon DEF reaper
  <2>2. \A j \in Jobs : jobs'[j] \in Row
    BY Zenon, <1>0, <1>1, <1>2
  <2> QED
    BY Zenon, <2>1, <2>2
<1>4. /\ disturbed' = disturbed \cup {j \in Orphaned(jobs) : Held(j)}
      /\ retrying' = retrying /\ paused' = paused /\ starts' = starts
  BY Zenon DEF reaper, requests
<1>5. \A j \in Jobs : Exists(jobs, j) => Exists(jobs', j)
  BY Zenon, <1>1, <1>2 DEF Exists
<1>6. Types'
  BY Zenon, <1>3, <1>4, <1>5 DEF CoreInv, WorkInv, Types
<1>7. ASSUME NEW j \in Jobs
      PROVE  \/ jobs'[j].status = jobs[j].status
             \/ \A u \in Ticks : j \in Holding(u)' => j \in disturbed'
  <2>1. CASE j \notin LeaseLost
    BY Zenon, <2>1, <1>2
  <2>2. CASE j \in LeaseLost
    <3>1. j \in Orphaned(jobs)
      BY Zenon, <2>2 DEF LeaseLost, Orphaned
    <3>2. \A u \in Ticks : Holding(u)' \subseteq Holding(u)
      BY Zenon, LighterTouches
    <3>3. (\E u \in Ticks : j \in Holding(u)) => j \in disturbed'
      BY Zenon, <3>1, <1>4 DEF Held
    <3> QED
      BY Zenon, <3>2, <3>3
  <2> QED
    BY Zenon, <2>1, <2>2
<1>8. WorkInv'
  BY Zenon, <1>4, <1>5, <1>6, <1>7, LighterKeepsWork DEF CoreInv
<1>9. ChargeInv'
  BY Zenon, <1>1, <1>2, <1>4, <1>6, LighterKeepsCharges DEF CoreInv, WorkInv
<1> QED
  BY Zenon, <1>8, <1>9 DEF CoreInv

\* The outcome of a job is written by a tick that holds it; whoever holds it as
\* well took it.
LEMMA SettleStep ==
  ASSUME CoreInv, NEW t \in Ticks, settleJob(t),
         tick' \in [Ticks -> Tick], \A u \in Ticks : Lighter(u)
  PROVE  CoreInv'
<1> DEFINE j == tick[t].job
           n == tick[t].attempt
<1>0. /\ jobs \in [Jobs -> Row] /\ tick[t] \in Tick /\ tick \in [Ticks -> Tick]
      /\ TickInv(t) /\ tick[t].stage = "settle"
  BY Zenon DEF CoreInv, WorkInv, Types, settleJob, At
<1>1. j # NoJob /\ j \in Jobs /\ n \in Nat /\ j \in Holding(t) /\ j \in Touching(t)
  BY Zenon, <1>0 DEF TickInv, Working, Tick, Holding, Touching
<1>2. Exists(jobs, j) /\ Charged(j, n)
  BY Zenon, <1>0, <1>1 DEF TickInv, CoreInv, ChargeInv
<1>3. /\ jobs' = [jobs EXCEPT ![j] = SettledRow(jobs[j], j, n)]
      /\ disturbed' = disturbed /\ retrying' = retrying
      /\ paused' = paused /\ starts' = starts
      /\ tick' = [tick EXCEPT ![t].stage = IF Dead(j, n) THEN "list" ELSE "finish"]
  BY Zenon DEF settleJob, requests, history
<1> HIDE DEF j, n
<1>4. /\ SettledRow(jobs[j], j, n) \in Row
      /\ SettledRow(jobs[j], j, n).status # "absent"
      /\ SettledRow(jobs[j], j, n).attempts = jobs[j].attempts
      /\ SettledRow(jobs[j], j, n).status = "dead_letter" => Dead(j, n)
  <2>1. jobs[j] \in Row
    BY Zenon, <1>0, <1>1
  <2> QED
    BY Zenon, <2>1 DEF SettledRow, Row, Status
<1>5. /\ jobs' \in [Jobs -> Row] /\ jobs'[j] = SettledRow(jobs[j], j, n)
      /\ \A k \in Jobs : k # j => jobs'[k] = jobs[k]
  BY Zenon, <1>0, <1>1, <1>3, <1>4
<1>6. \A k \in Jobs : Exists(jobs, k) => Exists(jobs', k)
  BY Zenon, <1>4, <1>5 DEF Exists
<1>7. Types'
  BY Zenon, <1>3, <1>5, <1>6 DEF CoreInv, WorkInv, Types
<1>8. j \notin Holding(t)'
  <2>1. tick'[t].stage \in {"list", "finish"} /\ tick'[t].batch = tick[t].batch
    BY Zenon, <1>0, <1>3 DEF Tick
  <2>2. j \notin Claims(t)
    BY Zenon, <1>0 DEF TickInv, j
  <2> QED
    BY Zenon, <2>1, <2>2 DEF Holding, Claims
<1>9. \A u \in Ticks : j \in Holding(u)' => j \in disturbed'
  BY Zenon, <1>1, <1>3, <1>8, LighterTouches DEF CoreInv, WorkInv, ExclusiveUnlessTaken
<1>10. WorkInv'
  BY ZenonT(40), <1>3, <1>5, <1>6, <1>7, <1>9, LighterKeepsWork DEF CoreInv
<1>11. Dead(j, n) => j \in Failing /\ starts[j] = MaxAttempts[j]
  <2>1. starts[j] \in Nat /\ MaxAttempts[j] \in Nat /\ starts[j] <= MaxAttempts[j]
    BY Zenon, <1>1, MaxAttemptsAssumption DEF CoreInv, ChargeInv
  <2> QED
    BY <2>1, <1>1, <1>2 DEF Dead, Charged
<1>12. ChargeInv'
  BY Zenon, <1>3, <1>4, <1>5, <1>7, <1>11, LighterKeepsCharges DEF CoreInv, WorkInv
<1> QED
  BY Zenon, <1>10, <1>12 DEF CoreInv

\* A job that is posted has no row, so no tick has it.
LEMMA InsertStep ==
  ASSUME CoreInv, NEW j \in Jobs, ~Exists(jobs, j),
         NEW kind \in {"immediate", "delayed"}, jobs' = [jobs EXCEPT ![j] = NewRow(kind)],
         tick' \in [Ticks -> Tick], \A u \in Ticks : Lighter(u),
         paused' = paused, retrying' = retrying, disturbed' = disturbed, starts' = starts
  PROVE  CoreInv'
<1>0. jobs \in [Jobs -> Row]
  BY Zenon DEF CoreInv, WorkInv, Types
<1>1. NewRow(kind) \in Row /\ NewRow(kind).status = "queued" /\ NewRow(kind).attempts = 0
  BY Zenon DEF NewRow, NoRow, Row, Status
<1>2. /\ jobs' \in [Jobs -> Row] /\ jobs'[j] = NewRow(kind)
      /\ \A k \in Jobs : k # j => jobs'[k] = jobs[k]
  BY Zenon, <1>0, <1>1
<1>3. \A k \in Jobs : Exists(jobs, k) => Exists(jobs', k)
  BY Zenon, <1>1, <1>2 DEF Exists
<1>4. Types'
  BY Zenon, <1>2, <1>3 DEF CoreInv, WorkInv, Types
<1>5. \A u \in Ticks : j \in Holding(u)' => j \in disturbed'
  BY Zenon, LighterTouches DEF CoreInv, WorkInv, HoldInv, Exists, Active
<1>6. WorkInv'
  BY Zenon, <1>2, <1>3, <1>4, <1>5, LighterKeepsWork DEF CoreInv
<1>7. ChargeInv'
  BY Zenon, <1>1, <1>2, <1>4, LighterKeepsCharges DEF CoreInv, WorkInv
<1> QED
  BY Zenon, <1>6, <1>7 DEF CoreInv

\* Whoever holds a job that is retried has lost it.
LEMMA RetryStep ==
  ASSUME CoreInv, NEW j \in Jobs, NEW i \in Instances, retryUpdate(j, i),
         tick' \in [Ticks -> Tick], \A u \in Ticks : Lighter(u)
  PROVE  CoreInv'
<1>0. jobs \in [Jobs -> Row] /\ Exists(jobs, j)
  BY Zenon DEF CoreInv, WorkInv, Types, retryUpdate
<1>1. /\ jobs' \in [Jobs -> Row] /\ jobs'[j].status = "queued" /\ jobs'[j].attempts = 0
      /\ \A k \in Jobs : k # j => jobs'[k] = jobs[k]
  BY ZenonT(40), <1>0 DEF retryUpdate, Row, Status
<1>2. /\ retrying' = retrying \ {j} /\ paused' = paused /\ starts' = starts
      /\ disturbed' = IF Touched(j) THEN disturbed \cup {j} ELSE disturbed
  BY Zenon DEF retryUpdate
<1>3. \A k \in Jobs : Exists(jobs, k) => Exists(jobs', k)
  BY Zenon, <1>1 DEF Exists
<1>4. Types'
  BY Zenon, <1>1, <1>2, <1>3 DEF CoreInv, WorkInv, Types
<1>5. ASSUME NEW u \in Ticks, j \in Holding(u)' PROVE j \in disturbed'
  <2>1. j \in Holding(u)
    BY Zenon, <1>5, LighterTouches
  <2>2. j \in Touching(u)
    <3>1. tick[u].stage \in {"record", "settle"} => tick[u].job # NoJob
      BY Zenon DEF CoreInv, WorkInv, TickInv, Working
    <3> QED
      BY Zenon, <2>1, <3>1 DEF Holding, Touching
  <2> QED
    BY Zenon, <2>2, <1>2 DEF Touched
<1>6. WorkInv'
  BY Zenon, <1>1, <1>2, <1>3, <1>4, <1>5, LighterKeepsWork DEF CoreInv
<1>7. ChargeInv'
  BY Zenon, <1>1, <1>2, <1>4, LighterKeepsCharges DEF CoreInv, WorkInv
<1> QED
  BY Zenon, <1>6, <1>7 DEF CoreInv

\* What is claimed was queued, so that no tick holds it that did not lose it.
LEMMA ClaimStep ==
  ASSUME CoreInv, NEW t \in Ticks, claim(t)
  PROVE  CoreInv' /\ \A k \in Jobs : Exists(jobs', k) <=> Exists(jobs, k)
<1>0. /\ jobs \in [Jobs -> Row] /\ tick \in [Ticks -> Tick] /\ tick[t] \in Tick
      /\ \A u \in Ticks : TickInv(u)
  BY Zenon DEF CoreInv, WorkInv, Types
<1> DEFINE copies(S) == {[job |-> j, attempts |-> jobs[j].attempts] : j \in S}
<1>1. PICK S \in ClaimChoices(jobs, tick[t].queue, tick[t].budget) :
        /\ jobs' = ClaimJobs(jobs, S, tick[t].worker)
        /\ tick' = [tick EXCEPT ![t].stage = "next", ![t].queue = NoQueue, ![t].budget = 0,
                                ![t].batch = copies(S)]
        /\ disturbed' = disturbed \cup (S \cap retrying)
  BY Zenon DEF claim
<1>2. /\ tick[t].stage = "claim"
      /\ retrying' = retrying /\ paused' = paused /\ starts' = starts
  BY Zenon DEF claim, At, requests
<1>3. S \subseteq Jobs /\ \A j \in S : jobs[j].status = "queued"
  BY Zenon, <1>1 DEF ClaimChoices, Claimable
<1>4. /\ \A j \in S : /\ jobs'[j] \in Row /\ jobs'[j].status = "claimed"
                      /\ jobs'[j].attempts = jobs[j].attempts
      /\ \A j \in Jobs \ S : jobs'[j] = jobs[j]
  <2>1. tick[t].worker \in Workers \cup {NoWorker}
    BY Zenon, <1>0 DEF Tick
  <2>2. ASSUME NEW j \in S
        PROVE  /\ jobs'[j] \in Row /\ jobs'[j].status = "claimed"
               /\ jobs'[j].attempts = jobs[j].attempts
    <3>1. jobs[j] \in Row
      BY Zenon, <1>0, <1>3
    <3>2. jobs'[j] = [jobs[j] EXCEPT !.status = "claimed", !.worker = tick[t].worker,
                                     !.lease = "live"]
      BY ZenonT(40), <1>1, <1>3 DEF ClaimJobs
    <3> QED
      BY ZenonT(40), <2>1, <3>1, <3>2 DEF Row, Status
  <2>3. \A j \in Jobs \ S : jobs'[j] = jobs[j]
    BY Zenon, <1>1 DEF ClaimJobs
  <2> QED
    BY Zenon, <2>2, <2>3
<1>5. jobs' \in [Jobs -> Row]
  <2>1. jobs' = [j \in Jobs |-> jobs'[j]]
    BY Zenon, <1>1 DEF ClaimJobs
  <2>2. \A j \in Jobs : jobs'[j] \in Row
    BY Zenon, <1>0, <1>4
  <2> QED
    BY Zenon, <2>1, <2>2
<1>6. copies(S) \subseteq Copy
  BY <1>0, <1>3 DEF Copy, Row
<1>7. tick[t].job = NoJob
  BY Zenon, <1>0, <1>2 DEF TickInv, Working
<1> DEFINE new == [tick[t] EXCEPT !.stage = "next", !.queue = NoQueue, !.budget = 0,
                                  !.batch = copies(S)]
<1>8. tick' = [tick EXCEPT ![t] = new]
  BY Zenon, <1>1
<1>9. new \in Tick /\ new.stage = "next" /\ new.batch = copies(S) /\ new.job = NoJob
  BY ZenonT(40), <1>0, <1>6, <1>7 DEF Tick, Stage
<1> HIDE DEF new
<1>10. /\ tick' \in [Ticks -> Tick] /\ tick'[t] = new
       /\ \A u \in Ticks : u # t => tick'[u] = tick[u]
  BY Zenon, <1>0, <1>8, <1>9
<1>11. Claims(t)' = S /\ Holding(t)' = S /\ Touching(t)' = S
  <2>1. {c.job : c \in copies(S)} = S
    <3>1. \A c \in copies(S) : c.job \in S
      OBVIOUS
    <3>2. ASSUME NEW j \in S PROVE \E c \in copies(S) : c.job = j
      <4> DEFINE c == [job |-> j, attempts |-> jobs[j].attempts]
      <4>1. c \in copies(S) /\ c.job = j
        BY Zenon
      <4> QED
        BY Zenon, <4>1
    <3> HIDE DEF copies
    <3> QED
      BY Zenon, <3>1, <3>2
  <2> HIDE DEF copies
  <2>2. Claims(t)' = S
    BY Zenon, <2>1, <1>9, <1>10 DEF Claims
  <2> QED
    BY Zenon, <2>2, <1>9, <1>10 DEF Claims, Holding, Touching
<1>12. \A u \in Ticks : u # t => /\ Holding(u)' = Holding(u) /\ Claims(u)' = Claims(u)
                                 /\ Touching(u)' = Touching(u)
  BY Zenon, <1>10 DEF Holding, Touching, Claims
<1>13. \A k \in Jobs : Exists(jobs', k) <=> Exists(jobs, k)
  BY Zenon, <1>3, <1>4 DEF Exists
<1>14. Types'
  BY Zenon, <1>2, <1>5, <1>10, <1>13 DEF Types, CoreInv, WorkInv
<1>15. ASSUME NEW u \in Ticks PROVE TickInv(u)'
  <2>1. CASE u # t
    <3>1. Touching(u) \subseteq Jobs
      <4>1. tick[u] \in Tick
        BY Zenon, <1>0
      <4> QED
        BY <4>1 DEF Touching, Tick, Copy
    <3>2. TickInv(u) /\ Touching(u)' = Touching(u) /\ Claims(u)' = Claims(u)
          /\ tick'[u] = tick[u]
      BY Zenon, <2>1, <1>0, <1>10, <1>12
    <3> QED
      BY Zenon, <3>1, <3>2, <1>13 DEF TickInv, Exists
  <2>2. CASE u = t
    <3>1. \A c, d \in copies(S) : c.job = d.job => c = d
      OBVIOUS
    <3> HIDE DEF copies
    <3>2. (\A c, d \in tick[t].batch : c.job = d.job => c = d)'
      BY Zenon, <3>1, <1>9, <1>10
    <3>3. (tick[t].job # NoJob <=> tick[t].stage \in Working)'
      BY Zenon, <1>9, <1>10 DEF Working
    <3>4. (tick[t].job \notin Claims(t))'
      BY Zenon, <1>3, <1>9, <1>10, <1>11, NullAssumption
    <3>5. (\A j \in Touching(t) : Exists(jobs, j))'
      BY Zenon, <1>3, <1>4, <1>11 DEF Exists
    <3> QED
      BY Zenon, <2>2, <3>2, <3>3, <3>4, <3>5 DEF TickInv
  <2> QED
    BY Zenon, <2>1, <2>2
<1>16. \A u \in Ticks : \A j \in S : j \in Holding(u) => j \in disturbed
  BY Zenon, <1>3 DEF CoreInv, WorkInv, HoldInv, Active
<1>17. HoldInv'
  <2> SUFFICES ASSUME NEW u \in Ticks, NEW j \in Holding(u)'
               PROVE  j \in disturbed' \/ jobs'[j].status \in Active
    BY Zenon DEF HoldInv
  <2>1. CASE j \in S
    BY Zenon, <2>1, <1>4 DEF Active
  <2>2. CASE j \notin S
    <3>1. u # t /\ j \in Holding(u)
      BY Zenon, <2>2, <1>11, <1>12
    <3>2. j \in Jobs
      <4>1. tick[u] \in Tick /\ TickInv(u)
        BY Zenon, <1>0
      <4> QED
        BY <3>1, <4>1 DEF Holding, Tick, Copy, TickInv, Working
    <3> QED
      BY Zenon, <2>2, <3>1, <3>2, <1>1, <1>4 DEF CoreInv, WorkInv, HoldInv
  <2> QED
    BY Zenon, <2>1, <2>2
<1>18. ExclusiveUnlessTaken'
  BY Zenon, <1>1, <1>11, <1>12, <1>16 DEF ExclusiveUnlessTaken, CoreInv, WorkInv
<1>19. ChargeInv'
  <2>1. (\A j \in Jobs : Charged(j, jobs[j].attempts))'
    BY Zenon, <1>2, <1>4 DEF CoreInv, ChargeInv, Charged
  <2>2. (\A u \in Ticks : \A c \in tick[u].batch : Charged(c.job, c.attempts))'
    <3>1. \A c \in copies(S) : Charged(c.job, c.attempts)
      BY SMTT(30), <1>3 DEF CoreInv, ChargeInv
    <3> HIDE DEF copies
    <3> QED
      BY SMTT(20), <3>1, <1>2, <1>9, <1>10 DEF CoreInv, ChargeInv, Charged
  <2>3. (\A u \in Ticks : tick[u].job # NoJob => Charged(tick[u].job, tick[u].attempt))'
    BY SMTT(30), <1>2, <1>9, <1>10 DEF CoreInv, ChargeInv, Charged
  <2>4. DeadLetterEarned'
    BY Zenon, <1>2, <1>4 DEF CoreInv, ChargeInv, DeadLetterEarned
  <2> QED
    BY Zenon, <1>2, <2>1, <2>2, <2>3, <2>4 DEF CoreInv, ChargeInv
<1> QED
  BY Zenon, <1>13, <1>14, <1>15, <1>17, <1>18, <1>19 DEF CoreInv, WorkInv

\* A start writes a row its tick holds.
LEMMA StartStep ==
  ASSUME CoreInv, NEW t \in Ticks, startJob(t)
  PROVE  CoreInv' /\ \A k \in Jobs : Exists(jobs', k) <=> Exists(jobs, k)
<1>0. /\ jobs \in [Jobs -> Row] /\ tick \in [Ticks -> Tick] /\ tick[t] \in Tick
      /\ \A u \in Ticks : TickInv(u)
  BY Zenon DEF CoreInv, WorkInv, Types
<1>1. PICK c \in tick[t].batch :
        /\ jobs' = [jobs EXCEPT ![c.job].status = "running",
                                ![c.job].attempts = c.attempts + 1]
        /\ starts' = [starts EXCEPT ![c.job] = CountUpTo(@, MaxAttempts[c.job])]
        /\ tick' = [tick EXCEPT ![t].stage = "record", ![t].batch = @ \ {c},
                                ![t].job = c.job, ![t].attempt = c.attempts + 1]
  BY Zenon DEF startJob
<1>2. /\ tick[t].stage = "next" /\ disturbed' = disturbed
      /\ retrying' = retrying /\ paused' = paused
  BY Zenon DEF startJob, At, requests
<1> DEFINE j == c.job
           n == c.attempts + 1
           new == [tick[t] EXCEPT !.stage = "record", !.batch = tick[t].batch \ {c},
                                  !.job = j, !.attempt = n]
<1>3. j \in Jobs /\ n \in Nat /\ n = c.attempts + 1 /\ c.attempts \in Nat
  BY <1>0 DEF Tick, Copy
<1>4. tick' = [tick EXCEPT ![t] = new] /\ c.job = j
  BY Zenon, <1>1
<1> HIDE DEF n
<1>5. /\ new \in Tick /\ new.stage = "record" /\ new.batch = tick[t].batch \ {c}
      /\ new.job = j /\ new.attempt = n
  BY ZenonT(40), <1>0, <1>3 DEF Tick, Stage
<1>6. /\ jobs' \in [Jobs -> Row] /\ jobs'[j].status = "running" /\ jobs'[j].attempts = n
      /\ \A k \in Jobs : k # j => jobs'[k] = jobs[k]
  <2> DEFINE row == [jobs[j] EXCEPT !.status = "running", !.attempts = n]
  <2>1. jobs' = [jobs EXCEPT ![j] = row]
    BY Zenon, <1>1 DEF n
  <2>2. row \in Row /\ row.status = "running" /\ row.attempts = n
    BY ZenonT(40), <1>0, <1>3 DEF Row, Status
  <2> HIDE DEF row
  <2> QED
    BY Zenon, <1>0, <1>3, <2>1, <2>2
<1> HIDE DEF new, j
<1>7. /\ tick' \in [Ticks -> Tick] /\ tick'[t] = new
      /\ \A u \in Ticks : u # t => tick'[u] = tick[u]
  BY Zenon, <1>0, <1>4, <1>5
<1>8. j \in Claims(t) /\ j \in Touching(t) /\ j \in Holding(t)
  BY Zenon, <1>4 DEF Claims, Touching, Holding
<1>9. Claims(t)' = Claims(t) \ {j}
  <2>1. \A d \in tick[t].batch : d.job = j => d = c
    BY Zenon, <1>0, <1>4 DEF TickInv
  <2> QED
    BY Zenon, <2>1, <1>4, <1>5, <1>7 DEF Claims
<1>10. Holding(t)' = Claims(t) /\ Touching(t)' = Claims(t)
  <2>1. j # NoJob
    BY Zenon, <1>3, NullAssumption
  <2>2. Holding(t)' = Claims(t)' \cup {j} /\ Touching(t)' = Claims(t)' \cup {j}
    BY Zenon, <2>1, <1>5, <1>7 DEF Claims, Holding, Touching
  <2> QED
    BY Zenon, <2>2, <1>8, <1>9
<1>11. tick[t].job = NoJob /\ Holding(t) = Claims(t)
  BY Zenon, <1>0, <1>2 DEF TickInv, Working, Holding, Claims
<1>12. \A u \in Ticks : Holding(u)' = Holding(u) /\ Touching(u)' \subseteq Touching(u)
  <2>1. \A u \in Ticks : u # t => Holding(u)' = Holding(u) /\ Touching(u)' = Touching(u)
    BY Zenon, <1>7 DEF Holding, Touching
  <2>2. Claims(t) \subseteq Touching(t)
    BY Zenon DEF Claims, Touching
  <2> QED
    BY Zenon, <2>1, <2>2, <1>10, <1>11
<1>13. Exists(jobs, j)
  BY Zenon, <1>0, <1>8 DEF TickInv
<1>14. \A k \in Jobs : Exists(jobs', k) <=> Exists(jobs, k)
  BY Zenon, <1>6, <1>13 DEF Exists
<1>15. Types'
  BY Zenon, <1>2, <1>6, <1>7, <1>14 DEF Types, CoreInv, WorkInv
<1>16. \A u \in Ticks : Touching(u) \subseteq Jobs /\ Holding(u) \subseteq Jobs
  <2> SUFFICES ASSUME NEW u \in Ticks
               PROVE  Touching(u) \subseteq Jobs /\ Holding(u) \subseteq Jobs
    BY Zenon
  <2>1. tick[u] \in Tick /\ TickInv(u)
    BY Zenon, <1>0
  <2> QED
    BY <2>1 DEF Touching, Holding, TickInv, Working, Tick, Copy
<1>17. ASSUME NEW u \in Ticks PROVE TickInv(u)'
  <2>1. (\A k \in Touching(u) : Exists(jobs, k))'
    <3> SUFFICES ASSUME NEW k \in Touching(u)' PROVE Exists(jobs', k)
      BY Zenon DEF Exists
    <3>1. k \in Touching(u) /\ k \in Jobs
      BY Zenon, <1>12, <1>16
    <3> QED
      BY Zenon, <3>1, <1>0, <1>14 DEF TickInv
  <2>2. CASE u # t
    <3>1. tick'[u] = tick[u] /\ TickInv(u)
      BY Zenon, <2>2, <1>0, <1>7
    <3>2. Claims(u)' = Claims(u)
      BY Zenon, <3>1 DEF Claims
    <3> QED
      BY Zenon, <2>1, <3>1, <3>2 DEF TickInv
  <2>3. CASE u = t
    <3>1. (tick[t].job # NoJob <=> tick[t].stage \in Working)'
      BY Zenon, <1>3, <1>5, <1>7, NullAssumption DEF Working
    <3>2. (\A a, b \in tick[t].batch : a.job = b.job => a = b)'
      BY Zenon, <1>0, <1>5, <1>7 DEF TickInv
    <3>3. (tick[t].job \notin Claims(t))'
      BY Zenon, <1>5, <1>7, <1>9
    <3> QED
      BY Zenon, <2>1, <2>3, <3>1, <3>2, <3>3 DEF TickInv
  <2> QED
    BY Zenon, <2>2, <2>3
<1>18. HoldInv'
  <2> SUFFICES ASSUME NEW u \in Ticks, NEW k \in Holding(u)'
               PROVE  k \in disturbed' \/ jobs'[k].status \in Active
    BY Zenon DEF HoldInv
  <2>1. k \in Holding(u) /\ k \in Jobs
    BY Zenon, <1>12, <1>16
  <2>2. k \in disturbed \/ jobs[k].status \in Active
    BY Zenon, <2>1 DEF CoreInv, WorkInv, HoldInv
  <2> QED
    BY Zenon, <2>1, <2>2, <1>2, <1>6 DEF Active
<1>19. ExclusiveUnlessTaken'
  BY Zenon, <1>2, <1>12 DEF ExclusiveUnlessTaken, CoreInv, WorkInv
<1>20. ChargeInv'
  <2>0. starts \in [Jobs -> Nat] /\ MaxAttempts[j] \in Nat /\ starts[j] <= MaxAttempts[j]
    BY Zenon, <1>3, MaxAttemptsAssumption DEF CoreInv, ChargeInv
  <2>1. /\ starts' \in [Jobs -> Nat]
        /\ starts'[j] = IF starts[j] < MaxAttempts[j] THEN starts[j] + 1 ELSE MaxAttempts[j]
        /\ \A k \in Jobs : k # j => starts'[k] = starts[k]
    BY SMTT(20), <2>0, <1>1, <1>3, <1>4 DEF CountUpTo
  <2>2. Charged(j, c.attempts)
    BY Zenon, <1>4 DEF CoreInv, ChargeInv
  <2>3. (n <= starts[j] \/ starts[j] = MaxAttempts[j])'
    BY <2>0, <2>1, <2>2, <1>3 DEF Charged, n
  <2>4. \A k \in Jobs : \A m \in Nat : Charged(k, m) => Charged(k, m)'
    BY <2>0, <2>1, <1>3, MaxAttemptsAssumption DEF Charged
  <2>5. (\A k \in Jobs : Charged(k, jobs[k].attempts))'
    <3> SUFFICES ASSUME NEW k \in Jobs PROVE Charged(k, jobs[k].attempts)'
      BY Zenon
    <3>1. CASE k = j
      BY Zenon, <3>1, <2>3, <1>6 DEF Charged
    <3>2. CASE k # j
      BY Zenon, <3>2, <2>1, <1>6 DEF CoreInv, ChargeInv, Charged
    <3> QED
      BY Zenon, <3>1, <3>2
  <2>6. (\A u \in Ticks : \A d \in tick[u].batch : Charged(d.job, d.attempts))'
    <3> SUFFICES ASSUME NEW u \in Ticks, NEW d \in tick'[u].batch
                 PROVE  Charged(d.job, d.attempts)'
      BY Zenon
    <3>1. d \in tick[u].batch
      BY Zenon, <1>5, <1>7
    <3>2. Charged(d.job, d.attempts) /\ d.job \in Jobs /\ d.attempts \in Nat
      BY <3>1, <1>0 DEF CoreInv, ChargeInv, Tick, Copy
    <3> QED
      BY Zenon, <3>2, <2>4 DEF Charged
  <2>7. (\A u \in Ticks : tick[u].job # NoJob => Charged(tick[u].job, tick[u].attempt))'
    <3> SUFFICES ASSUME NEW u \in Ticks, tick'[u].job # NoJob
                 PROVE  Charged(tick[u].job, tick[u].attempt)'
      BY Zenon
    <3>1. CASE u = t
      BY Zenon, <3>1, <2>3, <1>5, <1>7 DEF Charged
    <3>2. CASE u # t
      <4>1. /\ tick'[u] = tick[u] /\ Charged(tick[u].job, tick[u].attempt)
            /\ tick[u].job \in Jobs /\ tick[u].attempt \in Nat
        BY Zenon, <3>2, <1>0, <1>7 DEF CoreInv, ChargeInv, Tick
      <4> QED
        BY Zenon, <4>1, <2>4 DEF Charged
    <3> QED
      BY Zenon, <3>1, <3>2
  <2>8. DeadLetterEarned'
    BY Zenon, <2>0, <2>1, <1>6 DEF CoreInv, ChargeInv, DeadLetterEarned
  <2>9. \A k \in Jobs : starts'[k] <= MaxAttempts[k]
    BY <2>0, <2>1 DEF CoreInv, ChargeInv
  <2> QED
    BY Zenon, <2>1, <2>5, <2>6, <2>7, <2>8, <2>9 DEF ChargeInv
<1> QED
  BY Zenon, <1>14, <1>15, <1>17, <1>18, <1>19, <1>20 DEF CoreInv, WorkInv

-----------------------------------------------------------------------------
(* The whole invariant, action by action *)

\* The keys are a matter of which rows exist.
LEMMA KeysKept ==
  ASSUME KeyInv, submit' = submit, SameRowsExist
  PROVE  KeyInv'
<1>1. \A j \in Jobs : submit[j].job \in Jobs \cup {NoJob}
  BY Zenon DEF KeyInv
<1> QED
  BY Zenon, <1>1 DEF KeyInv, SameRowsExist, Exists

\* A step that changes neither statuses nor attempts, nor takes work.
LEMMA QuietKeeps ==
  ASSUME AllInv, tick' \in [Ticks -> Tick], \A u \in Ticks : Lighter(u),
         jobs' \in [Jobs -> Row], paused' \in [Queues -> BOOLEAN],
         \A j \in Jobs : /\ jobs'[j].status = jobs[j].status
                         /\ jobs'[j].attempts = jobs[j].attempts,
         \A j \in retrying' : j \in Jobs /\ Exists(jobs, j),
         disturbed \subseteq disturbed', starts' = starts,
         submit' = submit, ExecTypes'
  PROVE  StepKeeps
<1>1. CoreInv'
  BY Zenon, SameRows DEF AllInv
<1>2. KeyInv'
  BY Zenon, KeysKept DEF AllInv, SameRowsExist, Exists
<1> QED
  BY Zenon, <1>1, <1>2 DEF StepKeeps, AllInv, CompletedKept

\* The execution rows keep their type.
LEMMA ExecStep ==
  ASSUME AllInv, NEW t \in Ticks, recordStart(t) \/ finishJob(t)
  PROVE  ExecTypes'
<1> DEFINE j == tick[t].job
<1>0. j \in Jobs /\ executions \in [Jobs -> Seq(ExecStatus)]
  <2>1. tick[t] \in Tick /\ TickInv(t) /\ tick[t].stage \in Working
    BY Zenon DEF AllInv, CoreInv, WorkInv, Types, recordStart, finishJob, At, Working
  <2> QED
    BY Zenon, <2>1 DEF TickInv, Tick, AllInv, ExecTypes
<1>1. CASE recordStart(t)
  <2>1. executions[j] \o <<"running">> \in Seq(ExecStatus)
    BY <1>0 DEF ExecStatus
  <2> QED
    BY Zenon, <1>0, <1>1, <2>1 DEF recordStart, ExecTypes
<1>2. CASE finishJob(t)
  <2> DEFINE v == IF j \in Failing THEN "failed" ELSE "completed"
             new == [executions[j] EXCEPT ![tick[t].exec] = v]
  <2>1. executions' = [executions EXCEPT ![j] = new]
    BY Zenon, <1>2 DEF finishJob
  <2>2. executions[j] \in [1..Len(executions[j]) -> ExecStatus] /\ Len(executions[j]) \in Nat
    BY <1>0
  <2>3. v \in ExecStatus
    BY Zenon DEF ExecStatus
  <2> HIDE DEF v
  <2>4. new \in [1..Len(executions[j]) -> ExecStatus]
    BY ZenonT(40), <2>2, <2>3
  <2>5. new \in Seq(ExecStatus)
    BY <2>2, <2>4
  <2> HIDE DEF new
  <2> QED
    BY Zenon, <1>0, <2>1, <2>5 DEF ExecTypes
<1> QED
  BY Zenon, <1>1, <1>2

\* The steps of a tick.
LEMMA TickKeeps ==
  ASSUME AllInv, NEW t \in Ticks,
         TickStep(t) \/ runWorkerTickNow(t) \/ CronTick(t) \/ TickAborts(t),
         \A q \in Queues : Budget(q) \in Nat
  PROVE  StepKeeps
<1>0. /\ jobs \in [Jobs -> Row] /\ paused \in [Queues -> BOOLEAN] /\ TickInv(t) /\ Types
      /\ \A j \in retrying : j \in Jobs /\ Exists(jobs, j)
      /\ executions \in [Jobs -> Seq(ExecStatus)]
  BY Zenon DEF AllInv, CoreInv, WorkInv, Types, ExecTypes
<1>a. \A j \in Jobs : Len(executions[j]) \in Nat
  BY <1>0
<1>b. QuietStep(t) => tick' \in [Ticks -> Tick] /\ \A u \in Ticks : Lighter(u)
  BY Zenon, <1>0, <1>a, QuietIsLighter
<1>1. CASE reaper(t)
  <2>1. CoreInv'
    BY Zenon, <1>1, <1>b, ReaperStep DEF QuietStep, AllInv
  <2>2. \A j \in Jobs : IF j \in LeaseLost THEN jobs'[j].status = "queued"
                        ELSE jobs'[j] = jobs[j]
    BY ZenonT(40), <1>0, <1>1 DEF reaper, Row
  <2>3. SameRowsExist /\ CompletedKept
    BY Zenon, <2>2 DEF SameRowsExist, CompletedKept, Exists, LeaseLost, Active
  <2>4. submit' = submit /\ executions' = executions
    BY Zenon, <1>1 DEF reaper, requests
  <2> QED
    BY Zenon, <2>1, <2>3, <2>4, KeysKept DEF StepKeeps, AllInv, ExecTypes
<1>2. CASE findWorker(t) \/ beat(t) \/ enroll(t) \/ firstBeat(t) \/ listQueues(t)
             \/ readBudget(t) \/ tickDone(t) \/ parseThrows(t) \/ listDead(t) \/ runWorkerTickNow(t)
             \/ CronTick(t) \/ TickAborts(t)
  <2>1. /\ jobs' = jobs /\ paused' = paused /\ retrying' = retrying /\ submit' = submit
        /\ disturbed' = disturbed /\ starts' = starts /\ executions' = executions
    BY ZenonT(40), <1>2
       DEF findWorker, beat, enroll, firstBeat, listQueues, readBudget, tickDone, parseThrows,
           listDead, runWorkerTickNow, CronTick, TickAborts, tables, requests, history
  <2>2. QuietStep(t)
    BY Zenon, <1>2 DEF QuietStep
  <2> QED
    BY Zenon, <2>1, <2>2, <1>0, <1>b, QuietKeeps DEF ExecTypes
<1>3. CASE recordStart(t) \/ finishJob(t)
  <2>1. /\ jobs' = jobs /\ paused' = paused /\ retrying' = retrying /\ submit' = submit
        /\ disturbed' = disturbed /\ starts' = starts
    BY Zenon, <1>3 DEF recordStart, finishJob, requests, history
  <2>2. QuietStep(t) /\ ExecTypes'
    BY Zenon, <1>3, ExecStep DEF QuietStep
  <2> QED
    BY Zenon, <2>1, <2>2, <1>0, <1>b, QuietKeeps
<1>4. CASE claim(t)
  <2>1. CoreInv' /\ SameRowsExist
    BY Zenon, <1>4, ClaimStep DEF AllInv, SameRowsExist
  <2>2. submit' = submit /\ executions' = executions
    BY Zenon, <1>4 DEF claim, requests
  <2>3. CompletedKept
    BY ZenonT(40), <1>0, <1>4 DEF claim, ClaimChoices, Claimable, ClaimJobs, CompletedKept
  <2> QED
    BY Zenon, <2>1, <2>2, <2>3, KeysKept DEF StepKeeps, AllInv, ExecTypes
<1>5. CASE startJob(t)
  <2>1. CoreInv' /\ SameRowsExist
    BY Zenon, <1>5, StartStep DEF AllInv, SameRowsExist
  <2>2. submit' = submit /\ executions' = executions
    BY Zenon, <1>5 DEF startJob, requests
  <2>3. CompletedKept
    <3>1. PICK c \in tick[t].batch :
            jobs' = [jobs EXCEPT ![c.job].status = "running",
                                 ![c.job].attempts = c.attempts + 1]
      BY ZenonT(40), <1>5 DEF startJob
    <3>2. c.job \in Holding(t)
      BY Zenon DEF Holding
    <3>3. c.job \in disturbed \/ jobs[c.job].status \in Active
      BY Zenon, <3>2 DEF AllInv, CoreInv, WorkInv, HoldInv
    <3>4. \A k \in Jobs : k # c.job => jobs'[k] = jobs[k]
      BY Zenon, <3>1, <1>0
    <3> QED
      BY Zenon, <3>3, <3>4 DEF CompletedKept, Active
  <2> QED
    BY Zenon, <2>1, <2>2, <2>3, KeysKept DEF StepKeeps, AllInv, ExecTypes
<1>6. CASE settleJob(t)
  <2> DEFINE j == tick[t].job
  <2>1. CoreInv'
    BY Zenon, <1>6, <1>b, SettleStep DEF QuietStep, AllInv
  <2>2. j \in Holding(t) /\ j \in Touching(t) /\ j \in Jobs
    <3>1. tick[t] \in Tick
      BY Zenon, <1>0 DEF Types
    <3> QED
      BY Zenon, <3>1, <1>0, <1>6 DEF settleJob, At, Holding, Touching, TickInv, Working, Tick
  <2>3. /\ jobs' = [jobs EXCEPT ![j] = SettledRow(jobs[j], j, tick[t].attempt)]
        /\ submit' = submit /\ executions' = executions
    BY Zenon, <1>6 DEF settleJob, requests
  <2> HIDE DEF j
  <2>4. \A k \in Jobs : k # j => jobs'[k] = jobs[k]
    BY Zenon, <2>3, <1>0
  <2>5. jobs'[j].status # "absent" /\ Exists(jobs, j)
    <3>1. jobs[j] \in Row /\ jobs'[j] = SettledRow(jobs[j], j, tick[t].attempt)
      BY Zenon, <2>2, <2>3, <1>0
    <3>2. Exists(jobs, j)
      BY Zenon, <2>2, <1>0 DEF TickInv
    <3> QED
      BY Zenon, <3>1, <3>2 DEF SettledRow, Row
  <2>6. SameRowsExist
    BY Zenon, <2>4, <2>5 DEF SameRowsExist, Exists
  <2>7. CompletedKept
    BY Zenon, <2>2, <2>4 DEF CompletedKept, AllInv, CoreInv, WorkInv, HoldInv, Active
  <2> QED
    BY Zenon, <2>1, <2>3, <2>6, <2>7, KeysKept DEF StepKeeps, AllInv, ExecTypes
<1> QED
  BY Zenon, <1>1, <1>2, <1>3, <1>4, <1>5, <1>6 DEF TickStep

\* The steps of the job routes.
LEMMA RouteKeeps ==
  ASSUME AllInv, NEW j \in Jobs,
         \/ \E i \in Instances : insertJob(j, i) \/ retryUpdate(j, i)
         \/ checkKey(j) \/ retryDelete(j) \/ RetryAborts(j) \/ retryNotFound(j)
  PROVE  StepKeeps
<1>0. /\ jobs \in [Jobs -> Row] /\ paused \in [Queues -> BOOLEAN]
      /\ tick \in [Ticks -> Tick] /\ retrying \subseteq Jobs
      /\ \A k \in retrying : k \in Jobs /\ Exists(jobs, k)
      /\ submit \in [Jobs -> [stage : Answer, job : Jobs \cup {NoJob}]]
  BY Zenon DEF AllInv, CoreInv, WorkInv, Types, KeyInv
<1>a. UNCHANGED tick => tick' \in [Ticks -> Tick] /\ \A u \in Ticks : Lighter(u)
  BY <1>0 DEF Lighter
<1>1. ASSUME NEW i \in Instances, insertJob(j, i), ~Conflict(j) PROVE StepKeeps
  <2>1. PICK kind \in {"immediate", "delayed"} : jobs' = [jobs EXCEPT ![j] = NewRow(kind)]
    BY Zenon, <1>1 DEF insertJob
  <2>2. /\ submit[j].stage = "checked" /\ scheduleWorkerTick(i)
        /\ submit' = [submit EXCEPT ![j] = [stage |-> "created", job |-> j]]
        /\ paused' = paused /\ retrying' = retrying /\ disturbed' = disturbed
        /\ starts' = starts /\ executions' = executions
    BY Zenon, <1>1 DEF insertJob, history
  <2>3. ~Exists(jobs, j)
    BY Zenon, <2>2 DEF AllInv, KeyInv
  <2>4. CoreInv'
    <3>1. tick' \in [Ticks -> Tick] /\ \A u \in Ticks : Lighter(u)
      BY Zenon, <2>2, <1>0, ScheduleLighter
    <3> QED
      BY ZenonT(40), <3>1, <2>1, <2>2, <2>3, InsertStep DEF AllInv
  <2>5. /\ \A k \in Jobs : k # j => jobs'[k] = jobs[k]
        /\ jobs'[j].status = "queued"
    BY Zenon, <2>1, <1>0 DEF NewRow, NoRow
  <2>6. CompletedKept
    BY Zenon, <2>3, <2>5 DEF CompletedKept, Exists
  <2>7. \A k \in Jobs : Exists(jobs', k) <=> Exists(jobs, k) \/ k = j
    BY Zenon, <2>5 DEF Exists
  <2>8. KeyInv'
    <3>1. /\ submit' \in [Jobs -> [stage : Answer, job : Jobs \cup {NoJob}]]
          /\ submit'[j].stage = "created" /\ submit'[j].job = j
          /\ \A k \in Jobs : k # j => submit'[k] = submit[k]
      BY Zenon, <2>2, <1>0 DEF Answer
    <3>2. \A k \in Jobs : submit'[k].stage \in {"new", "checked"} => ~Exists(jobs', k)
      BY Zenon, <3>1, <2>7 DEF AllInv, KeyInv
    <3>3. \A k \in Jobs : submit'[k].job # NoJob =>
            /\ Exists(jobs', submit'[k].job)
            /\ KeyOf[submit'[k].job] = KeyOf[k] /\ QueueOf[submit'[k].job] = QueueOf[k]
      BY <3>1, <2>7 DEF AllInv, KeyInv
    <3>4. ~KeyTaken(jobs, j)
      BY Zenon, <1>1 DEF Conflict
    <3>5. \A k, l \in Jobs :
            /\ Exists(jobs', k) /\ Exists(jobs', l)
            /\ KeyOf[k] = KeyOf[l] /\ KeyOf[k] # NoKey /\ QueueOf[k] = QueueOf[l]
            => k = l
      BY <3>4, <2>7 DEF AllInv, KeyInv, KeyTaken
    <3> QED
      BY Zenon, <3>1, <3>2, <3>3, <3>5 DEF KeyInv, Exists
  <2> QED
    BY Zenon, <2>2, <2>4, <2>6, <2>8 DEF StepKeeps, AllInv, ExecTypes
<1>2. ASSUME NEW i \in Instances, insertJob(j, i), Conflict(j) PROVE StepKeeps
  <2>1. /\ jobs' = jobs /\ UNCHANGED tick /\ paused' = paused /\ retrying' = retrying
        /\ disturbed' = disturbed /\ starts' = starts /\ executions' = executions
        /\ submit' = [submit EXCEPT ![j].stage = "error"]
    BY Zenon, <1>2 DEF insertJob, history
  <2>2. CoreInv'
    BY Zenon, <2>1, <1>0, <1>a, SameRows DEF AllInv
  <2>3. /\ submit' \in [Jobs -> [stage : Answer, job : Jobs \cup {NoJob}]]
        /\ submit'[j].stage = "error"
        /\ \A k \in Jobs : submit'[k].job = submit[k].job
        /\ \A k \in Jobs : k # j => submit'[k] = submit[k]
    BY Zenon, <2>1, <1>0 DEF Answer
  <2>4. KeyInv'
    BY <2>1, <2>3 DEF AllInv, KeyInv, Exists
  <2> QED
    BY Zenon, <2>1, <2>2, <2>4 DEF StepKeeps, AllInv, ExecTypes, CompletedKept
<1>3. CASE checkKey(j)
  <2>1. /\ jobs' = jobs /\ UNCHANGED tick /\ paused' = paused /\ retrying' = retrying
        /\ disturbed' = disturbed /\ starts' = starts /\ executions' = executions
    BY Zenon, <1>3 DEF checkKey, tables, history
  <2>2. CoreInv'
    BY Zenon, <2>1, <1>0, <1>a, SameRows DEF AllInv
  <2>3. CASE submit' = [submit EXCEPT ![j].stage = "checked"]
    <3>1. /\ submit' \in [Jobs -> [stage : Answer, job : Jobs \cup {NoJob}]]
          /\ \A k \in Jobs : submit'[k].job = submit[k].job
          /\ \A k \in Jobs : k # j => submit'[k] = submit[k]
          /\ submit[j].stage = "new"
      BY Zenon, <2>3, <1>0, <1>3 DEF Answer, checkKey
    <3>2. KeyInv'
      BY <2>1, <3>1 DEF AllInv, KeyInv, Exists
    <3> QED
      BY Zenon, <2>1, <2>2, <3>2 DEF StepKeeps, AllInv, ExecTypes, CompletedKept
  <2>4. CASE \E k \in Jobs :
               /\ KeyOf[j] # NoKey /\ Exists(jobs, k)
               /\ QueueOf[k] = QueueOf[j] /\ KeyOf[k] = KeyOf[j]
               /\ submit' = [submit EXCEPT ![j] = [stage |-> "existing", job |-> k]]
    <3>1. PICK k \in Jobs :
               /\ Exists(jobs, k) /\ QueueOf[k] = QueueOf[j] /\ KeyOf[k] = KeyOf[j]
               /\ submit' = [submit EXCEPT ![j] = [stage |-> "existing", job |-> k]]
      BY ZenonT(40), <2>4
    <3>2. /\ submit' \in [Jobs -> [stage : Answer, job : Jobs \cup {NoJob}]]
          /\ submit'[j].stage = "existing" /\ submit'[j].job = k
          /\ \A l \in Jobs : l # j => submit'[l] = submit[l]
      BY <3>1, <1>0 DEF Answer
    <3>3. KeyInv'
      BY ZenonT(40), <2>1, <3>1, <3>2 DEF AllInv, KeyInv, Exists
    <3> QED
      BY Zenon, <2>1, <2>2, <3>3 DEF StepKeeps, AllInv, ExecTypes, CompletedKept
  <2> QED
    BY Zenon, <1>3, <2>3, <2>4 DEF checkKey
<1>4. ASSUME NEW i \in Instances, retryUpdate(j, i) PROVE StepKeeps
  <2>1. CoreInv'
    <3>1. tick' \in [Ticks -> Tick] /\ \A u \in Ticks : Lighter(u)
      BY Zenon, <1>4, <1>0, ScheduleLighter DEF retryUpdate
    <3> QED
      BY Zenon, <1>4, <3>1, RetryStep DEF AllInv
  <2>2. /\ \A k \in Jobs : k # j => jobs'[k] = jobs[k]
        /\ jobs'[j].status = "queued" /\ j \in retrying
        /\ submit' = submit /\ executions' = executions
    BY Zenon, <1>4, <1>0 DEF retryUpdate, Row
  <2>3. SameRowsExist /\ CompletedKept
    BY Zenon, <2>2, <1>0 DEF SameRowsExist, CompletedKept, Exists
  <2> QED
    BY <2>1, <2>2, <2>3, KeysKept DEF StepKeeps, AllInv, ExecTypes
<1>5. CASE retryDelete(j) \/ RetryAborts(j) \/ retryNotFound(j)
  <2>1. /\ jobs' = jobs /\ UNCHANGED tick /\ paused' = paused /\ submit' = submit
        /\ disturbed \subseteq disturbed' /\ starts' = starts /\ executions' = executions
        /\ \A k \in retrying' : k \in Jobs /\ Exists(jobs, k)
    BY Zenon, <1>0, <1>5 DEF retryDelete, RetryAborts, retryNotFound, tables
  <2> QED
    BY Zenon, <2>1, <1>0, <1>a, QuietKeeps DEF AllInv, ExecTypes
<1> QED
  BY Zenon, <1>1, <1>2, <1>3, <1>4, <1>5

\* Time, instances and the remaining routes.
LEMMA OtherKeeps ==
  ASSUME AllInv,
         \/ \E i \in Instances : IntervalPasses(i) \/ listJobs(i) \/ InstanceStops(i)
         \/ \E j \in Jobs : BecomesDue(j) \/ LeaseRunsOut(j) \/ LeaseLapses(j)
         \/ \E q \in Queues : pauseQueue(q) \/ resumeQueue(q)
         \/ UNCHANGED vars
  PROVE  StepKeeps
<1>0. /\ jobs \in [Jobs -> Row] /\ paused \in [Queues -> BOOLEAN]
      /\ tick \in [Ticks -> Tick] /\ executions \in [Jobs -> Seq(ExecStatus)]
      /\ \A k \in retrying : k \in Jobs /\ Exists(jobs, k)
  BY Zenon DEF AllInv, CoreInv, WorkInv, Types, ExecTypes
<1>a. UNCHANGED tick => tick' \in [Ticks -> Tick] /\ \A u \in Ticks : Lighter(u)
  BY <1>0 DEF Lighter
<1>1. ASSUME NEW i \in Instances, listJobs(i) PROVE StepKeeps
  <2>1. /\ jobs' = jobs /\ paused' = paused /\ retrying' = retrying /\ submit' = submit
        /\ disturbed' = disturbed /\ starts' = starts /\ executions' = executions
        /\ scheduleWorkerTick(i)
    BY Zenon, <1>1 DEF listJobs, tables, requests, history
  <2> QED
    BY Zenon, <2>1, <1>0, ScheduleLighter, QuietKeeps DEF ExecTypes
<1>2. ASSUME NEW i \in Instances, InstanceStops(i) PROVE StepKeeps
  <2>1. /\ jobs' = jobs /\ paused' = paused /\ retrying' = retrying /\ submit' = submit
        /\ disturbed' = disturbed /\ starts' = starts /\ executions' = executions
    BY Zenon, <1>2 DEF InstanceStops, tables, requests, history
  <2>2. tick' \in [Ticks -> Tick] /\ \A u \in Ticks : tick'[u] = tick[u] \/ tick'[u] = Idle
    BY Zenon, <1>0, <1>2, IdleTick DEF InstanceStops
  <2>3. \A u \in Ticks : Lighter(u)
    BY Zenon, <2>2, IdleTick DEF Lighter
  <2> QED
    BY Zenon, <2>1, <2>2, <2>3, <1>0, QuietKeeps DEF ExecTypes
<1>3. ASSUME NEW j \in Jobs, BecomesDue(j) \/ LeaseRunsOut(j) \/ LeaseLapses(j)
      PROVE  StepKeeps
  <2>1. /\ UNCHANGED tick /\ paused' = paused /\ retrying' = retrying /\ submit' = submit
        /\ disturbed' = disturbed /\ starts' = starts /\ executions' = executions
    BY Zenon, <1>3 DEF BecomesDue, LeaseRunsOut, LeaseLapses, requests, history
  <2>2. /\ jobs' \in [Jobs -> Row]
        /\ \A k \in Jobs : /\ jobs'[k].status = jobs[k].status
                           /\ jobs'[k].attempts = jobs[k].attempts
    <3>1. jobs[j] \in Row
      BY Zenon, <1>0
    <3>2. CASE jobs' = [jobs EXCEPT ![j].due = TRUE]
      BY Zenon, <1>0, <3>1, <3>2 DEF Row
    <3>3. CASE jobs' = [jobs EXCEPT ![j].lease = "expired"]
      BY ZenonT(40), <1>0, <3>1, <3>3 DEF Row
    <3> QED
      BY Zenon, <1>3, <3>2, <3>3 DEF BecomesDue, LeaseRunsOut, LeaseLapses
  <2> QED
    BY Zenon, <2>1, <2>2, <1>0, <1>a, QuietKeeps DEF ExecTypes
<1>4. ASSUME NEW q \in Queues, pauseQueue(q) \/ resumeQueue(q) PROVE StepKeeps
  <2>1. /\ UNCHANGED tick /\ jobs' = jobs /\ retrying' = retrying /\ submit' = submit
        /\ disturbed' = disturbed /\ starts' = starts /\ executions' = executions
    BY Zenon, <1>4 DEF pauseQueue, resumeQueue, requests, history
  <2>2. paused' \in [Queues -> BOOLEAN]
    BY ZenonT(40), <1>0, <1>4 DEF pauseQueue, resumeQueue
  <2> QED
    BY Zenon, <2>1, <2>2, <1>0, <1>a, QuietKeeps DEF ExecTypes
<1>5. ASSUME \/ \E i \in Instances : IntervalPasses(i)
             \/ UNCHANGED vars
      PROVE  StepKeeps
  <2>1. /\ jobs' = jobs /\ paused' = paused /\ retrying' = retrying /\ submit' = submit
        /\ disturbed' = disturbed /\ starts' = starts /\ executions' = executions
        /\ UNCHANGED tick
    BY Zenon, <1>5 DEF IntervalPasses, vars, tables, requests, history
  <2> QED
    BY Zenon, <2>1, <1>0, <1>a, QuietKeeps DEF ExecTypes
<1> QED
  BY Zenon, <1>1, <1>2, <1>3, <1>4, <1>5

-----------------------------------------------------------------------------
(* What leaves the scheduler, the list and the executions as they are *)

\* No scheduled tick starts or ends.
LEMMA FlightKept ==
  ASSUME FlightInv, inFlight' = inFlight,
         \A u \in Ticks : /\ tick'[u].scheduled <=> tick[u].scheduled
                          /\ tick[u].stage # "idle" => tick'[u].stage # "idle"
  PROVE  FlightInv'
<1>1. \A i \in Instances : Scheduled(i)' = Scheduled(i)
  BY Zenon DEF Scheduled
<1>2. \A u \in Ticks : tick'[u].scheduled =>
        tick'[u].stage # "idle" /\ inFlight'[InstanceOf[u]]
  BY Zenon DEF FlightInv
<1>3. \A i \in Instances : \A t, u \in Scheduled(i)' : t = u
  BY Zenon, <1>1 DEF FlightInv
<1>4. \A i \in Instances : inFlight'[i] => Scheduled(i)' # {}
  BY Zenon, <1>1 DEF FlightInv
<1> QED
  BY Zenon, <1>2, <1>3, <1>4 DEF FlightInv

\* The promise of a tick settles.
LEMMA FlightEnds ==
  ASSUME AllInv, SideTypes, FlightInv, NEW t \in Ticks, TickEnds(t)
  PROVE  FlightInv'
<1>1. /\ tick'[t].scheduled = FALSE /\ \A u \in Ticks : u # t => tick'[u] = tick[u]
      /\ \A i \in Instances : inFlight'[i] =
           (inFlight[i] /\ ~(i = InstanceOf[t] /\ tick[t].scheduled))
  BY Zenon DEF TickEnds, Idle, AllInv, CoreInv, WorkInv, Types, SideTypes
<1>2. \A i \in Instances : Scheduled(i)' = Scheduled(i) \ {t}
  BY Zenon, <1>1 DEF Scheduled
<1>3. t \in Scheduled(InstanceOf[t]) <=> tick[t].scheduled
  BY Zenon DEF Scheduled
<1>4. \A u \in Ticks : InstanceOf[u] \in Instances
  BY Zenon, InstanceOfAssumption
<1>5. ASSUME NEW u \in Ticks, tick'[u].scheduled
      PROVE  tick'[u].stage # "idle" /\ inFlight'[InstanceOf[u]]
  <2>1. u # t /\ tick[u].scheduled /\ tick'[u] = tick[u]
    BY Zenon, <1>1, <1>5
  <2>2. InstanceOf[u] = InstanceOf[t] => ~tick[t].scheduled
    BY Zenon, <2>1, <1>4 DEF FlightInv, Scheduled
  <2> QED
    BY Zenon, <2>1, <2>2, <1>1, <1>4 DEF FlightInv
<1>6. \A i \in Instances : inFlight'[i] => Scheduled(i)' # {}
  <2> SUFFICES ASSUME NEW i \in Instances, inFlight'[i] PROVE Scheduled(i)' # {}
    BY Zenon
  <2>1. inFlight[i] /\ ~(i = InstanceOf[t] /\ tick[t].scheduled)
    BY Zenon, <1>1
  <2>2. t \notin Scheduled(i) /\ Scheduled(i) # {}
    BY Zenon, <2>1 DEF Scheduled, FlightInv
  <2> QED
    BY Zenon, <2>2, <1>2
<1> QED
  BY Zenon, <1>2, <1>5, <1>6 DEF FlightInv

\* scheduleWorkerTick starts a tick only where none is in flight.
LEMMA FlightSchedules ==
  ASSUME AllInv, SideTypes, FlightInv, NEW i \in Instances, scheduleWorkerTick(i)
  PROVE  FlightInv'
<1>1. CASE UNCHANGED <<tick, scheduler>>
  BY Zenon, <1>1, FlightKept DEF scheduler
<1>2. CASE ~UNCHANGED <<tick, scheduler>>
  <2>1. PICK t \in Ticks :
          /\ InstanceOf[t] = i /\ ~inFlight[i]
          /\ tick' = [tick EXCEPT ![t].stage = "reap", ![t].scheduled = TRUE]
          /\ inFlight' = [inFlight EXCEPT ![i] = TRUE]
    BY Zenon, <1>2 DEF scheduleWorkerTick, Coalesced
  <2>2. /\ tick'[t].scheduled /\ tick'[t].stage = "reap"
        /\ \A u \in Ticks : u # t => tick'[u] = tick[u]
        /\ \A k \in Instances : inFlight'[k] <=> (inFlight[k] \/ k = i)
    <3>1. tick[t] \in Tick /\ tick \in [Ticks -> Tick]
      BY Zenon DEF AllInv, CoreInv, WorkInv, Types
    <3> QED
      BY Zenon, <3>1, <2>1 DEF Tick, SideTypes
  <2>3. Scheduled(i)' = {t}
    BY Zenon, <2>1, <2>2 DEF Scheduled, FlightInv
  <2>4. \A k \in Instances : k # i => Scheduled(k)' = Scheduled(k)
    BY Zenon, <2>1, <2>2 DEF Scheduled
  <2>5. \A u \in Ticks : tick'[u].scheduled =>
          tick'[u].stage # "idle" /\ inFlight'[InstanceOf[u]]
    <3> SUFFICES ASSUME NEW u \in Ticks, tick'[u].scheduled
                 PROVE  tick'[u].stage # "idle" /\ inFlight'[InstanceOf[u]]
      BY Zenon
    <3>1. InstanceOf[u] \in Instances
      BY Zenon, InstanceOfAssumption
    <3>2. CASE u = t
      BY Zenon, <3>1, <3>2, <2>1, <2>2
    <3>3. CASE u # t
      BY Zenon, <3>1, <3>3, <2>2 DEF FlightInv
    <3> QED
      BY Zenon, <3>2, <3>3
  <2>6. \A k \in Instances : \A u, v \in Scheduled(k)' : u = v
    BY <2>3, <2>4 DEF FlightInv
  <2>7. \A k \in Instances : inFlight'[k] => Scheduled(k)' # {}
    BY <2>2, <2>3, <2>4 DEF FlightInv
  <2> QED
    BY Zenon, <2>5, <2>6, <2>7 DEF FlightInv
<1> QED
  BY Zenon, <1>1, <1>2

\* Rows neither die nor leave death undisturbed, nobody reaches the list,
\* whoever leaves it has listed the job or was cut off, and what becomes
\* touched while it is retried is disturbed.
LEMMA ListKept ==
  ASSUME ListInv, SideTypes, disturbed \subseteq disturbed', cut \subseteq cut',
         dlq' = dlq, retrying' = retrying,
         \A j \in Jobs : j \in disturbed' \/
           (jobs'[j].status = "dead_letter" <=> jobs[j].status = "dead_letter"),
         \A u \in Ticks : tick'[u].stage = "list" =>
           tick[u].stage = "list" /\ tick'[u].job = tick[u].job,
         \A u \in Ticks : tick[u].stage = "list" =>
           \/ tick'[u].stage = "list" /\ tick'[u].job = tick[u].job
           \/ tick[u].job \in cut',
         \A u \in Ticks : tick[u].stage = "list" => tick[u].job \in Jobs,
         \A j \in retrying : Touched(j)' => Touched(j) \/ j \in disturbed'
  PROVE  ListInv'
<1>1. \A j \in dlq' : jobs'[j].status = "dead_letter" \/ j \in disturbed'
  BY Zenon DEF ListInv, SideTypes
<1>2. \A t \in Ticks : At(t, "list")' =>
        jobs'[tick'[t].job].status = "dead_letter" \/ tick'[t].job \in disturbed'
  BY Zenon DEF ListInv, At
<1>3. \A j \in retrying' : (j \in dlq' \/ Touched(j)') => j \in disturbed'
  BY Zenon DEF ListInv
<1>4. DeadListedUnlessCut'
  BY DEF ListInv, DeadListedUnlessCut, At
<1> QED
  BY Zenon, <1>1, <1>2, <1>3, <1>4 DEF ListInv

\* The execution rows stay; a tick keeps its execution, or leaves it cut off,
\* or had none.
LEMMA ExecKept ==
  ASSUME ExecInv, executions' = executions, cut \subseteq cut',
         \A u \in Ticks :
           \/ /\ tick'[u].exec = tick[u].exec /\ tick'[u].job = tick[u].job
              /\ tick'[u].stage \notin Recorded => tick[u].stage \notin Recorded
           \/ tick'[u].exec = 0 /\ tick[u].job \in cut' \cup {NoJob}
  PROVE  ExecInv'
<1>1. \A u \in Ticks : tick'[u].stage \notin Recorded => tick'[u].exec = 0
  BY Zenon DEF ExecInv
<1>2. OpenExecutionsOwned'
  BY NullAssumption DEF ExecInv, OpenExecutionsOwned
<1> QED
  BY Zenon, <1>1, <1>2 DEF ExecInv

-----------------------------------------------------------------------------
(* The steps of a tick *)

\* What the earlier invariants say of the ticks.
LEMMA TickFacts ==
  ASSUME AllInv, NEW t \in Ticks
  PROVE  /\ tick \in [Ticks -> Tick] /\ tick[t] \in Tick
         /\ tick[t].job # NoJob <=> tick[t].stage \in Working
         /\ jobs \in [Jobs -> Row] /\ executions \in [Jobs -> Seq(ExecStatus)]
         /\ \A j \in Holding(t) : j \in disturbed \/ jobs[j].status \in Active
  BY Zenon DEF AllInv, CoreInv, WorkInv, Types, TickInv, HoldInv, ExecTypes

\* A tick that works on no job goes on.
LEMMA MoveKeeps ==
  ASSUME AllInv, TableInv, NEW t \in Ticks, disturbed \subseteq disturbed',
         inFlight' = inFlight, dlq' = dlq, retrying' = retrying,
         executions' = executions, cut' = cut,
         \A j \in Jobs : \/ jobs'[j].status = jobs[j].status
                         \/ jobs[j].status \in Active /\ jobs'[j].status = "queued",
         tick[t].stage \notin Working, GoesOn(t)
  PROVE  Keeps
<1>1. FlightInv'
  BY Zenon, FlightKept DEF TableInv, GoesOn
<1>2. ListInv'
  <2>1. \A u \in Ticks : tick[u].stage = "list" => tick[u].job \in Jobs
    BY Zenon, TickFacts DEF Working, Tick
  <2>2. \A j \in retrying : Touched(j)' => Touched(j)
    BY Zenon DEF Touched, Touching, GoesOn
  <2>3. \A u \in Ticks : (tick[u].stage = "list" <=> tick'[u].stage = "list")
                         /\ tick'[u].job = tick[u].job
    BY Zenon DEF Working, GoesOn
  <2>4. \A j \in Jobs :
          jobs'[j].status = "dead_letter" <=> jobs[j].status = "dead_letter"
    BY Zenon DEF Active
  <2> QED
    BY Zenon, <2>1, <2>2, <2>3, <2>4, ListKept DEF TableInv
<1>3. ExecInv'
  BY Zenon, ExecKept DEF TableInv, Working, Recorded, GoesOn
<1>4. AdmitsNone
  BY Zenon DEF AdmitsNone, Active, GoesOn
<1> QED
  BY Zenon, <1>1, <1>2, <1>3, <1>4 DEF Keeps

\* A tick ends; the job it worked on, if any, is cut off.
LEMMA EndKeeps ==
  ASSUME AllInv, TableInv, NEW t \in Ticks, TickEnds(t), disturbed' = disturbed,
         jobs' = jobs, dlq' = dlq, retrying' = retrying, executions' = executions,
         cut \subseteq cut', tick[t].job \in cut' \cup {NoJob}
  PROVE  Keeps
<1>0. /\ tick'[t] = Idle /\ \A u \in Ticks : u # t => tick'[u] = tick[u]
  BY Zenon, TickFacts DEF TickEnds
<1>a. tick'[t].stage = "idle" /\ tick'[t].job = NoJob /\ tick'[t].batch = {}
      /\ tick'[t].exec = 0
  BY <1>0 DEF Idle
<1>1. FlightInv'
  BY Zenon, FlightEnds DEF TableInv
<1>2. ListInv'
  <2>1. \A u \in Ticks : tick[u].stage = "list" => tick[u].job \in Jobs
    BY Zenon, TickFacts DEF Working, Tick
  <2>2. \A j \in retrying : Touched(j)' => Touched(j)
    BY Zenon, <1>0, <1>a DEF Touched, Touching
  <2>3. tick[t].stage = "list" => tick[t].job \in cut'
    BY Zenon, <2>1, NullAssumption
  <2> QED
    BY Zenon, <2>1, <2>2, <2>3, <1>0, <1>a, ListKept DEF TableInv
<1>3. ExecInv'
  BY Zenon, <1>0, <1>a, ExecKept DEF TableInv
<1>4. AdmitsNone
  BY Zenon, <1>0, <1>a DEF AdmitsNone
<1> QED
  BY Zenon, <1>1, <1>2, <1>3, <1>4 DEF Keeps

\* Starting, reaping, finding the worker, listing the queues and ending.
LEMMA PollKeeps ==
  ASSUME AllInv, TableInv, NEW t \in Ticks,
         \/ reaper(t) \/ findWorker(t) \/ beat(t) \/ enroll(t) \/ firstBeat(t)
         \/ listQueues(t) \/ tickDone(t) \/ parseThrows(t) \/ runWorkerTickNow(t) \/ CronTick(t)
         \/ TickAborts(t)
  PROVE  Keeps
<1>0. /\ tick \in [Ticks -> Tick] /\ tick[t] \in Tick /\ jobs \in [Jobs -> Row]
      /\ tick[t].job # NoJob <=> tick[t].stage \in Working
  BY Zenon, TickFacts
<1>a. ASSUME NEW s \in {"worker", "beat", "enroll", "firstbeat", "queues", "next", "reap"},
             NEW w, NEW d,
             \/ tick' = [tick EXCEPT ![t].stage = s]
             \/ tick' = [tick EXCEPT ![t].stage = s, ![t].worker = w]
             \/ tick' = [tick EXCEPT ![t].stage = s, ![t].todo = d]
      PROVE  GoesOn(t)
  BY <1>0, <1>a DEF Tick, Working, GoesOn
<1>b. ASSUME jobs' = jobs, dlq' = dlq, retrying' = retrying, executions' = executions,
             disturbed' = disturbed, cut' = cut, inFlight' = inFlight,
             tick[t].stage \notin Working, GoesOn(t)
      PROVE  Keeps
  BY Zenon, <1>b, MoveKeeps
<1>1. CASE reaper(t)
  <2>1. /\ inFlight' = inFlight /\ dlq' = dlq /\ retrying' = retrying /\ cut' = cut
        /\ executions' = executions /\ disturbed \subseteq disturbed'
        /\ tick[t].stage \notin Working
    BY ZenonT(40), <1>1 DEF reaper, requests, scheduler, At, Working
  <2>2. GoesOn(t)
    BY ZenonT(40), <1>1, <1>a DEF reaper
  <2>3. \A j \in Jobs : \/ jobs'[j].status = jobs[j].status
                        \/ jobs[j].status \in Active /\ jobs'[j].status = "queued"
    <3>1. \A j \in Jobs : IF j \in LeaseLost THEN jobs'[j].status = "queued"
                          ELSE jobs'[j] = jobs[j]
      BY Zenon, <1>0, <1>1 DEF reaper, Row
    <3> QED
      BY Zenon, <3>1 DEF LeaseLost
  <2> QED
    BY Zenon, <2>1, <2>2, <2>3, MoveKeeps
<1>2. CASE findWorker(t) \/ listQueues(t) \/ CronTick(t)
  <2>1. tick[t].stage \notin Working /\ GoesOn(t)
    BY Zenon, <1>2, <1>a DEF findWorker, listQueues, CronTick, At, Working
  <2> QED
    BY Zenon, <2>1, <1>2, <1>b
       DEF findWorker, listQueues, CronTick, tables, requests, scheduler, history
<1>3. CASE beat(t) \/ enroll(t) \/ runWorkerTickNow(t)
  <2>1. tick[t].stage \notin Working /\ GoesOn(t)
    BY Zenon, <1>3, <1>a DEF beat, enroll, runWorkerTickNow, At, Working
  <2> QED
    BY Zenon, <2>1, <1>3, <1>b
       DEF beat, enroll, runWorkerTickNow, tables, requests, scheduler, history
<1>4. CASE firstBeat(t)
  <2>1. /\ jobs' = jobs /\ dlq' = dlq /\ retrying' = retrying /\ cut' = cut
        /\ executions' = executions /\ disturbed' = disturbed
        /\ tick[t].stage \notin Working
    BY Zenon, <1>4 DEF firstBeat, requests, history, At, Working
  <2>2. CASE TickEnds(t)
    BY Zenon, <2>1, <2>2, <1>0, EndKeeps
  <2>3. CASE tick' = [tick EXCEPT ![t].stage = "queues"] /\ UNCHANGED scheduler
    BY Zenon, <2>1, <2>3, <1>a, <1>b DEF scheduler
  <2> QED
    BY Zenon, <1>4, <2>2, <2>3 DEF firstBeat
<1>5. CASE tickDone(t) \/ parseThrows(t)
  BY Zenon, <1>5, <1>0, EndKeeps DEF tickDone, parseThrows, tables, requests, history, At, Working
<1>6. CASE TickAborts(t)
  BY Zenon, <1>6, EndKeeps DEF TickAborts, tables, requests
<1> QED
  BY Zenon, <1>1, <1>2, <1>3, <1>4, <1>5, <1>6

\* Reading a budget.
LEMMA BudgetKeeps ==
  ASSUME AllInv, TableInv, NEW t \in Ticks, readBudget(t)
  PROVE  RestInv'
<1>0. /\ tick \in [Ticks -> Tick] /\ tick[t] \in Tick /\ tick[t].stage = "next"
      /\ inFlight' = inFlight /\ dlq' = dlq /\ retrying' = retrying /\ cut' = cut
      /\ executions' = executions /\ disturbed' = disturbed /\ jobs' = jobs
  BY Zenon, TickFacts DEF readBudget, At, tables, requests, scheduler, history
<1>1. /\ \A u \in Ticks : u # t => tick'[u] = tick[u]
      /\ tick'[t].scheduled = tick[t].scheduled /\ tick'[t].batch = tick[t].batch
      /\ tick'[t].job = tick[t].job /\ tick'[t].exec = tick[t].exec
      /\ tick'[t].stage \in {"next", "claim"}
  BY <1>0 DEF readBudget, Tick
<1>2. FlightInv'
  BY Zenon, <1>0, <1>1, FlightKept DEF TableInv
<1>3. ListInv'
  <2>1. \A u \in Ticks : tick[u].stage = "list" => tick[u].job \in Jobs
    BY Zenon, TickFacts DEF Working, Tick
  <2>2. \A j \in retrying : Touched(j)' => Touched(j)
    BY Zenon, <1>1 DEF Touched, Touching
  <2> QED
    BY Zenon, <2>1, <2>2, <1>0, <1>1, ListKept DEF TableInv
<1>4. ExecInv'
  BY Zenon, <1>0, <1>1, ExecKept DEF TableInv, Recorded
<1> QED
  BY Zenon, <1>2, <1>3, <1>4 DEF RestInv

\* Claiming.
LEMMA ClaimKeeps ==
  ASSUME AllInv, TableInv, NEW t \in Ticks, claim(t)
  PROVE  RestInv'
<1>0. /\ tick \in [Ticks -> Tick] /\ tick[t] \in Tick /\ tick[t].stage = "claim"
      /\ jobs \in [Jobs -> Row] /\ tick[t].job = NoJob
      /\ inFlight' = inFlight /\ dlq' = dlq /\ retrying' = retrying /\ cut' = cut
      /\ executions' = executions
  BY ZenonT(40), TickFacts DEF claim, At, requests, scheduler, Working
<1>1. PICK S \in ClaimChoices(jobs, tick[t].queue, tick[t].budget) :
        /\ jobs' = ClaimJobs(jobs, S, tick[t].worker)
        /\ tick' = [tick EXCEPT ![t].stage = "next", ![t].queue = NoQueue, ![t].budget = 0,
                      ![t].batch = {[job |-> j, attempts |-> jobs[j].attempts] : j \in S}]
        /\ disturbed' = disturbed \cup (S \cap retrying)
  BY Zenon DEF claim
<1>2. /\ \A u \in Ticks : u # t => tick'[u] = tick[u]
      /\ tick'[t].scheduled = tick[t].scheduled /\ tick'[t].stage = "next"
      /\ tick'[t].job = tick[t].job /\ tick'[t].exec = tick[t].exec
      /\ tick'[t].batch = {[job |-> j, attempts |-> jobs[j].attempts] : j \in S}
  BY Zenon, <1>0, <1>1 DEF Tick
<1>3. FlightInv'
  BY Zenon, <1>0, <1>2, FlightKept DEF TableInv
<1>4. ListInv'
  <2>1. \A u \in Ticks : tick[u].stage = "list" => tick[u].job \in Jobs
    BY Zenon, TickFacts DEF Working, Tick
  <2>2. \A j \in retrying : Touched(j)' => Touched(j) \/ j \in disturbed'
    <3>1. Touching(t)' \subseteq S
      BY <1>0, <1>2 DEF Touching
    <3>2. \A u \in Ticks : u # t => Touching(u)' = Touching(u)
      BY Zenon, <1>2 DEF Touching
    <3> QED
      BY Zenon, <3>1, <3>2, <1>1 DEF Touched
  <2>3. \A j \in Jobs :
          jobs'[j].status = "dead_letter" <=> jobs[j].status = "dead_letter"
    <3>1. S \subseteq Claimable(jobs, tick[t].queue)
      BY Zenon DEF ClaimChoices
    <3>2. \A j \in Jobs : IF j \in S THEN jobs'[j].status = "claimed"
                          ELSE jobs'[j] = jobs[j]
      BY Zenon, <1>0, <1>1 DEF ClaimJobs, Row
    <3> QED
      BY Zenon, <3>1, <3>2 DEF Claimable
  <2> QED
    BY Zenon, <2>1, <2>2, <2>3, <1>0, <1>1, <1>2, ListKept DEF TableInv
<1>5. ExecInv'
  BY Zenon, <1>0, <1>2, ExecKept DEF TableInv, Recorded
<1> QED
  BY Zenon, <1>3, <1>4, <1>5 DEF RestInv

\* executeJob's first UPDATE: the row was active already, unless it was taken.
LEMMA StartKeeps ==
  ASSUME AllInv, TableInv, NEW t \in Ticks, startJob(t)
  PROVE  Keeps
<1>0. /\ tick \in [Ticks -> Tick] /\ tick[t] \in Tick /\ tick[t].stage = "next"
      /\ jobs \in [Jobs -> Row] /\ tick[t].job = NoJob
      /\ inFlight' = inFlight /\ dlq' = dlq /\ retrying' = retrying /\ cut' = cut
      /\ executions' = executions /\ disturbed' = disturbed
  BY ZenonT(40), TickFacts DEF startJob, At, requests, scheduler, Working
<1>1. PICK c \in tick[t].batch :
        /\ jobs' = [jobs EXCEPT ![c.job].status = "running",
                                ![c.job].attempts = c.attempts + 1]
        /\ tick' = [tick EXCEPT ![t].stage = "record", ![t].batch = @ \ {c},
                                ![t].job = c.job, ![t].attempt = c.attempts + 1]
  BY Zenon DEF startJob
<1>2. /\ \A u \in Ticks : u # t => tick'[u] = tick[u]
      /\ tick'[t].scheduled = tick[t].scheduled /\ tick'[t].stage = "record"
      /\ tick'[t].job = c.job /\ tick'[t].exec = tick[t].exec
      /\ tick'[t].batch = tick[t].batch \ {c}
  BY Zenon, <1>0, <1>1 DEF Tick
<1>3. \A k \in Jobs : k # c.job => jobs'[k] = jobs[k]
  BY Zenon, <1>0, <1>1
<1>4. c.job \in disturbed \/ jobs[c.job].status \in Active
  <2>1. c.job \in Holding(t)
    BY Zenon DEF Holding
  <2> QED
    BY Zenon, <2>1, TickFacts
<1>5. FlightInv'
  BY Zenon, <1>0, <1>2, FlightKept DEF TableInv
<1>6. ListInv'
  <2>1. \A u \in Ticks : tick[u].stage = "list" => tick[u].job \in Jobs
    BY Zenon, TickFacts DEF Working, Tick
  <2>2. \A j \in retrying : Touched(j)' => Touched(j)
    <3>1. Touching(t)' \subseteq Touching(t)
      BY Zenon, <1>2 DEF Touching
    <3>2. \A u \in Ticks : u # t => Touching(u)' = Touching(u)
      BY Zenon, <1>2 DEF Touching
    <3> QED
      BY Zenon, <3>1, <3>2 DEF Touched
  <2>3. ASSUME NEW j \in Jobs, j \notin disturbed
        PROVE  jobs'[j].status = "dead_letter" <=> jobs[j].status = "dead_letter"
    <3>1. CASE j = c.job
      <4>1. jobs'[j].status = "running"
        BY <3>1, <1>0, <1>1 DEF Row
      <4> QED
        BY Zenon, <4>1, <3>1, <2>3, <1>4 DEF Active
    <3> QED
      BY Zenon, <3>1, <1>3
  <2> QED
    BY Zenon, <2>1, <2>2, <2>3, <1>0, <1>2, ListKept DEF TableInv
<1>7. ExecInv'
  <2>1. tick[t].exec = 0
    BY Zenon, <1>0 DEF TableInv, ExecInv, Recorded
  <2> QED
    BY Zenon, <2>1, <1>0, <1>2, ExecKept DEF TableInv
<1>8. AdmitsNone
  <2>1. disturbed' = {} =>
          \A j \in Jobs : jobs'[j].status \in Active => jobs[j].status \in Active
    BY Zenon, <1>0, <1>3, <1>4
  <2> QED
    BY Zenon, <2>1, <1>0, <1>2 DEF AdmitsNone
<1> QED
  BY Zenon, <1>5, <1>6, <1>7, <1>8 DEF Keeps

\* The outcome: a job that dies is about to be listed by the tick that wrote it.
LEMMA SettleKeeps ==
  ASSUME AllInv, TableInv, NEW t \in Ticks, settleJob(t)
  PROVE  Keeps
<1>0. /\ tick \in [Ticks -> Tick] /\ tick[t] \in Tick /\ tick[t].stage = "settle"
      /\ jobs \in [Jobs -> Row] /\ tick[t].job # NoJob
      /\ inFlight' = inFlight /\ dlq' = dlq /\ retrying' = retrying /\ cut' = cut
      /\ executions' = executions /\ disturbed' = disturbed
  BY ZenonT(40), TickFacts DEF settleJob, At, requests, scheduler, history, Working
<1>j. PICK j \in Jobs : j = tick[t].job
  BY Zenon, <1>0 DEF Tick
<1>1. /\ jobs' = [jobs EXCEPT ![j] = SettledRow(jobs[j], j, tick[t].attempt)]
      /\ tick' = [tick EXCEPT ![t].stage = IF Dead(j, tick[t].attempt)
                                           THEN "list" ELSE "finish"]
  BY Zenon, <1>j DEF settleJob
<1>2. /\ \A u \in Ticks : u # t => tick'[u] = tick[u]
      /\ tick'[t].scheduled = tick[t].scheduled /\ tick'[t].batch = tick[t].batch
      /\ tick'[t].job = j /\ tick'[t].exec = tick[t].exec
      /\ tick'[t].stage = IF Dead(j, tick[t].attempt) THEN "list" ELSE "finish"
  BY Zenon, <1>0, <1>1, <1>j DEF Tick
<1>3. \A k \in Jobs : k # j => jobs'[k] = jobs[k]
  BY Zenon, <1>0, <1>1
<1>4. /\ jobs'[j].status \notin Active
      /\ jobs'[j].status = "dead_letter" <=> tick'[t].stage = "list"
  <2>1. jobs[j] \in Row /\ jobs'[j] = SettledRow(jobs[j], j, tick[t].attempt)
    BY Zenon, <1>0, <1>1
  <2> QED
    BY <2>1, <1>2 DEF SettledRow, Row, Active, Dead
<1>5. j \in disturbed \/ jobs[j].status \in Active
  <2>1. j \in Holding(t)
    BY Zenon, <1>0, <1>j DEF Holding
  <2> QED
    BY Zenon, <2>1, TickFacts
<1>6. FlightInv'
  BY Zenon, <1>0, <1>2, FlightKept DEF TableInv
<1>7. ListInv'
  <2>0. ListInv /\ \A u \in Ticks : tick[u].stage = "list" => tick[u].job \in Jobs
    BY Zenon, TickFacts DEF Working, Tick, TableInv
  <2>1. \A k \in dlq' : jobs'[k].status = "dead_letter" \/ k \in disturbed'
    BY Zenon, <2>0, <1>0, <1>3, <1>5 DEF ListInv, Active, TableInv, SideTypes
  <2>2. \A u \in Ticks : At(u, "list")' =>
          jobs'[tick'[u].job].status = "dead_letter" \/ tick'[u].job \in disturbed'
    BY <2>0, <1>0, <1>2, <1>3, <1>4, <1>5 DEF ListInv, At, Active
  <2>3. \A k \in retrying' : (k \in dlq' \/ Touched(k)') => k \in disturbed'
    <3>1. \A k : Touched(k)' => Touched(k)
      BY Zenon, <1>2, <1>j DEF Touched, Touching
    <3> QED
      BY Zenon, <3>1, <2>0, <1>0 DEF ListInv
  <2>4. DeadListedUnlessCut'
    <3> SUFFICES ASSUME NEW k \in Jobs, jobs'[k].status = "dead_letter",
                        k \notin dlq \cup retrying \cup cut \cup disturbed
                 PROVE  \E u \in Ticks : tick'[u].stage = "list" /\ tick'[u].job = k
      BY Zenon, <1>0 DEF DeadListedUnlessCut, At
    <3>1. CASE k = j
      BY Zenon, <3>1, <1>2, <1>4
    <3>2. CASE k # j
      <4>1. PICK u \in Ticks : tick[u].stage = "list" /\ tick[u].job = k
        BY Zenon, <3>2, <1>3, <2>0 DEF ListInv, DeadListedUnlessCut, At
      <4> QED
        BY Zenon, <4>1, <1>0, <1>2
    <3> QED
      BY Zenon, <3>1, <3>2
  <2> QED
    BY Zenon, <2>1, <2>2, <2>3, <2>4 DEF ListInv
<1>8. ExecInv'
  BY Zenon, <1>0, <1>2, <1>j, ExecKept DEF TableInv, Recorded
<1>9. AdmitsNone
  BY Zenon, <1>0, <1>2, <1>3, <1>4 DEF AdmitsNone
<1> QED
  BY Zenon, <1>6, <1>7, <1>8, <1>9 DEF Keeps

\* The steps of executeJob that write no row of the jobs table.
LEMMA RecordKeeps ==
  ASSUME AllInv, TableInv, NEW t \in Ticks, recordStart(t) \/ listDead(t) \/ finishJob(t)
  PROVE  Keeps
<1>0. /\ tick \in [Ticks -> Tick] /\ tick[t] \in Tick /\ jobs' = jobs
      /\ executions \in [Jobs -> Seq(ExecStatus)]
      /\ inFlight' = inFlight /\ retrying' = retrying /\ cut' = cut
      /\ disturbed' = disturbed
      /\ tick[t].stage \in Working \ {"settle"} /\ tick[t].job # NoJob
  BY ZenonT(40), TickFacts DEF recordStart, listDead, finishJob, At, requests, scheduler,
                               history, Working
<1>j. PICK j \in Jobs : j = tick[t].job
  BY Zenon, <1>0 DEF Tick
<1>a. /\ \A u \in Ticks : u # t => tick'[u] = tick[u]
      /\ tick'[t].scheduled = tick[t].scheduled /\ tick'[t].batch = tick[t].batch
      /\ tick'[t].job \in {j, NoJob}
      /\ tick'[t].stage \in {"settle", "finish", "next"}
  BY <1>0, <1>j DEF recordStart, listDead, finishJob, Tick
<1>b. \A u \in Ticks : tick[u].stage = "list" => tick[u].job \in Jobs
  BY Zenon, TickFacts DEF Working, Tick
<1>c. \A k \in Jobs : Touched(k)' => Touched(k)
  BY Zenon, <1>a, <1>j, NullAssumption DEF Touched, Touching
<1>1. FlightInv'
  BY Zenon, <1>0, <1>a, FlightKept DEF TableInv
<1>2. AdmitsNone
  BY Zenon, <1>0, <1>a DEF AdmitsNone
<1>3. ListInv'
  <2>1. CASE ~listDead(t)
    <3>1. dlq' = dlq /\ tick[t].stage # "list"
      BY Zenon, <2>1 DEF recordStart, finishJob, At
    <3> QED
      BY ZenonT(40), <3>1, <1>0, <1>a, <1>b, <1>c, ListKept
         DEF TableInv, AllInv, CoreInv, WorkInv, Types
  <2>2. CASE listDead(t)
    <3>0. ListInv /\ dlq' = dlq \cup {j} /\ tick[t].stage = "list"
      BY Zenon, <2>2, <1>j DEF TableInv, listDead, At
    <3>1. \A k \in dlq' : jobs'[k].status = "dead_letter" \/ k \in disturbed'
      BY Zenon, <3>0, <1>0, <1>j DEF ListInv, At
    <3>2. \A u \in Ticks : At(u, "list")' =>
            jobs'[tick'[u].job].status = "dead_letter" \/ tick'[u].job \in disturbed'
      BY Zenon, <3>0, <1>0, <1>a DEF ListInv, At
    <3>3. \A k \in retrying' : (k \in dlq' \/ Touched(k)') => k \in disturbed'
      <4>1. Touched(j)
        <5>1. tick[t].job # NoJob
          BY Zenon, <1>0
        <5> QED
          BY Zenon, <5>1, <1>j DEF Touched, Touching
      <4>2. retrying \subseteq Jobs
        BY Zenon DEF AllInv, CoreInv, WorkInv, Types
      <4> QED
        BY Zenon, <4>1, <4>2, <3>0, <1>0, <1>c DEF ListInv
    <3>4. DeadListedUnlessCut'
      BY <3>0, <1>0, <1>a, <1>j DEF ListInv, DeadListedUnlessCut, At
    <3> QED
      BY Zenon, <3>1, <3>2, <3>3, <3>4 DEF ListInv
  <2> QED
    BY Zenon, <2>1, <2>2
<1>4. ExecInv'
  <2>0. ExecInv
    BY Zenon DEF TableInv
  <2>1. CASE listDead(t)
    <3>1. /\ executions' = executions /\ tick[t].stage = "list"
          /\ tick'[t].exec = tick[t].exec /\ tick'[t].job = j /\ tick'[t].stage = "finish"
      <4>1. /\ tick' = [tick EXCEPT ![t].stage = "finish"]
            /\ executions' = executions /\ tick[t].stage = "list"
        BY Zenon, <2>1 DEF listDead, At
      <4> QED
        BY Zenon, <4>1, <1>0, <1>j DEF Tick
    <3> QED
      BY Zenon, <3>1, <2>0, <1>0, <1>a, <1>j, ExecKept DEF Recorded
  <2>2. CASE recordStart(t)
    <3>1. /\ executions' = [executions EXCEPT ![j] = executions[j] \o <<"running">>]
          /\ tick'[t].exec = Len(executions[j]) + 1
          /\ tick'[t].job = j /\ tick'[t].stage = "settle" /\ tick[t].exec = 0
      BY ZenonT(40), <2>0, <2>2, <1>0, <1>j DEF recordStart, At, Tick, ExecInv, Recorded
    <3>2. executions[j] \in Seq(ExecStatus) /\ Len(executions[j]) \in Nat
      BY <1>0
    <3>3. /\ DOMAIN executions'[j] = 1..(Len(executions[j]) + 1)
          /\ \A n \in 1..Len(executions[j]) : executions'[j][n] = executions[j][n]
          /\ \A k \in Jobs : k # j => executions'[k] = executions[k]
      BY <3>1, <3>2, <1>0
    <3>4. \A u \in Ticks : tick'[u].stage \notin Recorded => tick'[u].exec = 0
      BY Zenon, <2>0, <3>1, <1>a DEF ExecInv, Recorded
    <3>5. ASSUME NEW k \in Jobs \ cut, NEW n \in DOMAIN executions'[k],
                 executions'[k][n] = "running"
          PROVE  \E u \in Ticks : tick'[u].job = k /\ tick'[u].exec = n
      <4>1. CASE k = j /\ n = Len(executions[j]) + 1
        BY Zenon, <4>1, <3>1
      <4>2. CASE ~(k = j /\ n = Len(executions[j]) + 1)
        <5>1. n \in DOMAIN executions[k] /\ executions[k][n] = "running"
          BY <3>2, <3>3, <3>5, <4>2
        <5>2. PICK u \in Ticks : tick[u].job = k /\ tick[u].exec = n
          BY Zenon, <5>1, <2>0 DEF ExecInv, OpenExecutionsOwned
        <5>3. n # 0
          BY <5>1, <1>0
        <5> QED
          BY Zenon, <5>2, <5>3, <3>1, <1>a
      <4> QED
        BY Zenon, <4>1, <4>2
    <3> QED
      BY Zenon, <3>4, <3>5, <1>0 DEF ExecInv, OpenExecutionsOwned
  <2>3. CASE finishJob(t)
    <3> DEFINE v == IF j \in Failing THEN "failed" ELSE "completed"
    <3>1. /\ executions' = [executions EXCEPT ![j] =
                              [executions[j] EXCEPT ![tick[t].exec] = v]]
          /\ tick'[t].exec = 0
      BY Zenon, <2>3, <1>0, <1>j DEF finishJob, Tick
    <3>2. v # "running"
      BY Zenon
    <3> HIDE DEF v
    <3>3. \A k \in Jobs : \A n \in DOMAIN executions'[k] : executions'[k][n] = "running" =>
            /\ n \in DOMAIN executions[k] /\ executions[k][n] = "running"
            /\ ~(k = j /\ n = tick[t].exec)
      BY Zenon, <3>1, <3>2, <1>0
    <3>4. \A u \in Ticks : tick'[u].stage \notin Recorded => tick'[u].exec = 0
      BY Zenon, <2>0, <3>1, <1>a DEF ExecInv
    <3>5. OpenExecutionsOwned'
      BY <2>0, <3>3, <1>0, <1>a, <1>j DEF ExecInv, OpenExecutionsOwned
    <3> QED
      BY Zenon, <3>4, <3>5 DEF ExecInv
  <2> QED
    BY Zenon, <2>1, <2>2, <2>3
<1> QED
  BY Zenon, <1>1, <1>2, <1>3, <1>4 DEF Keeps

-----------------------------------------------------------------------------
(* The routes, the clock and the platform *)

\* A request that ends may start a coalesced tick, which has no work yet.
LEMMA StartFacts ==
  ASSUME AllInv, TableInv, MayStart
  PROVE  /\ FlightInv'
         /\ \A u \in Ticks :
              /\ tick'[u].job = tick[u].job /\ tick'[u].exec = tick[u].exec
              /\ tick'[u].batch = tick[u].batch /\ tick'[u].queue = tick[u].queue
              /\ tick'[u].budget = tick[u].budget
              /\ \/ tick'[u].stage = tick[u].stage
                 \/ tick[u].stage = "idle" /\ tick'[u].stage = "reap"
<1>1. CASE UNCHANGED <<tick, inFlight>>
  BY Zenon, <1>1, FlightKept DEF TableInv
<1>2. ASSUME NEW i \in Instances, scheduleWorkerTick(i), ~UNCHANGED <<tick, inFlight>>
      PROVE  /\ FlightInv'
             /\ \A u \in Ticks :
                  /\ tick'[u].job = tick[u].job /\ tick'[u].exec = tick[u].exec
                  /\ tick'[u].batch = tick[u].batch /\ tick'[u].queue = tick[u].queue
                  /\ tick'[u].budget = tick[u].budget
                  /\ \/ tick'[u].stage = tick[u].stage
                     \/ tick[u].stage = "idle" /\ tick'[u].stage = "reap"
  <2>1. FlightInv'
    BY Zenon, <1>2, FlightSchedules DEF TableInv
  <2>2. PICK t \in Ticks : /\ tick[t].stage = "idle"
                           /\ tick' = [tick EXCEPT ![t].stage = "reap", ![t].scheduled = TRUE]
    BY Zenon, <1>2 DEF scheduleWorkerTick, scheduler
  <2>3. tick \in [Ticks -> Tick] /\ tick[t] \in Tick
    BY Zenon, TickFacts
  <2> QED
    BY Zenon, <2>1, <2>2, <2>3 DEF Tick
<1> QED
  BY Zenon, <1>1, <1>2 DEF MayStart

\* A route or the clock: rows neither die nor become active.
LEMMA RouteSteps ==
  ASSUME AllInv, TableInv, MayStart,
         executions' = executions, cut' = cut, dlq' = dlq, retrying' = retrying,
         disturbed' = disturbed,
         \A j \in Jobs : \/ jobs'[j].status = jobs[j].status
                         \/ jobs[j].status = "absent" /\ jobs'[j].status = "queued"
  PROVE  Keeps
<1>1. /\ FlightInv'
      /\ \A u \in Ticks :
              /\ tick'[u].job = tick[u].job /\ tick'[u].exec = tick[u].exec
              /\ tick'[u].batch = tick[u].batch /\ tick'[u].queue = tick[u].queue
              /\ tick'[u].budget = tick[u].budget
              /\ \/ tick'[u].stage = tick[u].stage
                 \/ tick[u].stage = "idle" /\ tick'[u].stage = "reap"
  BY Zenon, StartFacts
<1>2. ListInv'
  <2>1. \A u \in Ticks : tick[u].stage = "list" => tick[u].job \in Jobs
    BY Zenon, TickFacts DEF Working, Tick
  <2>2. \A j : Touched(j)' => Touched(j)
    BY Zenon, <1>1 DEF Touched, Touching
  <2>3. \A j \in Jobs :
          jobs'[j].status = "dead_letter" <=> jobs[j].status = "dead_letter"
    BY Zenon
  <2> QED
    BY Zenon, <2>1, <2>2, <2>3, <1>1, ListKept DEF TableInv
<1>3. ExecInv'
  BY Zenon, <1>1, ExecKept DEF TableInv, Recorded
<1>4. AdmitsNone
  BY Zenon, <1>1 DEF AdmitsNone, Active
<1> QED
  BY Zenon, <1>1, <1>2, <1>3, <1>4 DEF Keeps

\* POST /jobs/{id}/retry takes the job off the list before it requeues it.
LEMMA RetryKeeps ==
  ASSUME AllInv, TableInv, NEW j \in Jobs,
         retryDelete(j) \/ RetryAborts(j) \/ retryNotFound(j) \/ \E i \in Instances : retryUpdate(j, i)
  PROVE  Keeps
<1>0. /\ executions' = executions /\ cut \subseteq cut' /\ disturbed \subseteq disturbed'
      /\ dlq' \subseteq dlq
  BY Zenon DEF retryDelete, RetryAborts, retryNotFound, retryUpdate, tables
<1>1. MayStart
  BY Zenon DEF retryDelete, RetryAborts, retryNotFound, retryUpdate, scheduler, MayStart
<1>2. /\ FlightInv'
      /\ \A u \in Ticks :
           /\ tick'[u].job = tick[u].job /\ tick'[u].exec = tick[u].exec
           /\ tick'[u].batch = tick[u].batch /\ tick'[u].queue = tick[u].queue
           /\ tick'[u].budget = tick[u].budget
           /\ \/ tick'[u].stage = tick[u].stage
              \/ tick[u].stage = "idle" /\ tick'[u].stage = "reap"
  BY Zenon, <1>1, StartFacts
<1>3. \A k : Touched(k)' <=> Touched(k)
  BY Zenon, <1>2 DEF Touched, Touching
<1>4. jobs \in [Jobs -> Row] /\ dlq \subseteq Jobs
  BY Zenon DEF TableInv, SideTypes, AllInv, CoreInv, WorkInv, Types
<1>a. \A u \in Ticks : tick[u].stage = "list" => tick[u].job \in Jobs /\ Touched(tick[u].job)
  BY Zenon, TickFacts DEF Working, Tick, Touched, Touching
<1>b. \A k \in dlq : jobs[k].status = "dead_letter" \/ k \in disturbed
  BY Zenon DEF TableInv, ListInv
<1>c. \A u \in Ticks : tick[u].stage = "list" =>
        jobs[tick[u].job].status = "dead_letter" \/ tick[u].job \in disturbed
  BY Zenon DEF TableInv, ListInv, At
<1>d. \A k \in retrying : (k \in dlq \/ Touched(k)) => k \in disturbed
  BY Zenon DEF TableInv, ListInv
<1>e. \A k \in Jobs : jobs[k].status = "dead_letter"
                      /\ k \notin dlq \cup retrying \cup cut \cup disturbed
        => \E u \in Ticks : tick[u].stage = "list" /\ tick[u].job = k
  BY Zenon DEF TableInv, ListInv, DeadListedUnlessCut, At
<1>5. ExecInv'
  BY Zenon, <1>0, <1>2, ExecKept DEF TableInv, Recorded
<1>6. jobs' = jobs \/ /\ jobs'[j].status = "queued"
                      /\ \A k \in Jobs : k # j => jobs'[k] = jobs[k]
  <2>1. CASE retryDelete(j) \/ RetryAborts(j) \/ retryNotFound(j)
    BY Zenon, <2>1 DEF retryDelete, RetryAborts, retryNotFound, tables
  <2>2. ASSUME NEW i \in Instances, retryUpdate(j, i)
        PROVE  jobs'[j].status = "queued" /\ \A k \in Jobs : k # j => jobs'[k] = jobs[k]
    BY Zenon, <2>2, <1>4 DEF retryUpdate, Row
  <2> QED
    BY Zenon, <2>1, <2>2
<1>7. AdmitsNone
  BY Zenon, <1>0, <1>2, <1>6 DEF AdmitsNone, Active
<1>8. ASSUME \A k \in dlq' : jobs'[k].status = "dead_letter" \/ k \in disturbed',
             \A u \in Ticks : tick'[u].stage = "list" =>
               jobs'[tick'[u].job].status = "dead_letter" \/ tick'[u].job \in disturbed',
             \A k \in retrying' : (k \in dlq' \/ Touched(k)') => k \in disturbed',
             \A k \in Jobs : jobs'[k].status = "dead_letter"
                             /\ k \notin dlq' \cup retrying' \cup cut' \cup disturbed'
               => \E u \in Ticks : tick'[u].stage = "list" /\ tick'[u].job = k
      PROVE  ListInv'
  BY Zenon, <1>8 DEF ListInv, DeadListedUnlessCut, At
<1>9. ASSUME retryDelete(j) \/ RetryAborts(j) \/ retryNotFound(j) PROVE ListInv'
  <2>1. /\ jobs' = jobs /\ tick' = tick
        /\ dlq' \cup retrying' \cup cut' = dlq \cup retrying \cup cut \cup {j}
        /\ \/ /\ dlq' = dlq \ {j} /\ retrying' = retrying \cup {j}
              /\ Touched(j) => j \in disturbed'
           \/ dlq' = dlq /\ retrying' = retrying \ {j}
    <3>1. CASE retryDelete(j)
      BY Zenon, <3>1 DEF retryDelete
    <3>2. CASE RetryAborts(j) \/ retryNotFound(j)
      BY Zenon, <3>2 DEF RetryAborts, retryNotFound, tables
    <3> QED
      BY Zenon, <1>9, <3>1, <3>2
  <2>2. \A k \in dlq' : jobs'[k].status = "dead_letter" \/ k \in disturbed'
    BY Zenon, <2>1, <1>0, <1>b
  <2>3. \A u \in Ticks : tick'[u].stage = "list" =>
          jobs'[tick'[u].job].status = "dead_letter" \/ tick'[u].job \in disturbed'
    BY Zenon, <2>1, <1>0, <1>c
  <2>4. \A k \in retrying' : (k \in dlq' \/ Touched(k)') => k \in disturbed'
    BY Zenon, <2>1, <1>0, <1>3, <1>d
  <2>5. \A k \in Jobs : jobs'[k].status = "dead_letter"
                        /\ k \notin dlq' \cup retrying' \cup cut' \cup disturbed'
          => \E u \in Ticks : tick'[u].stage = "list" /\ tick'[u].job = k
    BY Zenon, <2>1, <1>0, <1>e
  <2> QED
    BY Zenon, <2>2, <2>3, <2>4, <2>5, <1>8
<1>10. ASSUME NEW i \in Instances, retryUpdate(j, i) PROVE ListInv'
  <2>1. /\ dlq' = dlq /\ retrying' = retrying \ {j} /\ j \in retrying
        /\ Touched(j) => j \in disturbed'
    BY Zenon, <1>10 DEF retryUpdate
  <2>2. jobs'[j].status = "queued" /\ \A k \in Jobs : k # j => jobs'[k] = jobs[k]
    BY Zenon, <1>10, <1>4 DEF retryUpdate, Row
  <2>3. \A k \in dlq' : jobs'[k].status = "dead_letter" \/ k \in disturbed'
    BY Zenon, <2>1, <2>2, <1>0, <1>4, <1>b, <1>d
  <2>4. \A u \in Ticks : tick'[u].stage = "list" =>
          jobs'[tick'[u].job].status = "dead_letter" \/ tick'[u].job \in disturbed'
    BY SMTT(20), <2>1, <2>2, <1>0, <1>2, <1>a, <1>c
  <2>5. \A k \in retrying' : (k \in dlq' \/ Touched(k)') => k \in disturbed'
    BY Zenon, <2>1, <1>0, <1>3, <1>d
  <2>6. \A k \in Jobs : jobs'[k].status = "dead_letter"
                        /\ k \notin dlq' \cup retrying' \cup cut' \cup disturbed'
          => \E u \in Ticks : tick'[u].stage = "list" /\ tick'[u].job = k
    <3> SUFFICES ASSUME NEW k \in Jobs, jobs'[k].status = "dead_letter",
                        k \notin dlq' \cup retrying' \cup cut' \cup disturbed'
                 PROVE  \E u \in Ticks : tick'[u].stage = "list" /\ tick'[u].job = k
      BY Zenon
    <3>1. jobs[k].status = "dead_letter" /\ k \notin dlq \cup retrying \cup cut \cup disturbed
      BY Zenon, <2>1, <2>2, <1>0
    <3> QED
      BY <3>1, <1>2, <1>e
  <2> QED
    BY Zenon, <2>3, <2>4, <2>5, <2>6, <1>8
<1> QED
  BY Zenon, <1>2, <1>5, <1>7, <1>9, <1>10 DEF Keeps

\* The platform stops an instance.
LEMMA StopKeeps ==
  ASSUME AllInv, TableInv, NEW i \in Instances, InstanceStops(i)
  PROVE  Keeps
<1>0. /\ jobs' = jobs /\ dlq' = dlq /\ retrying' = retrying /\ executions' = executions
      /\ disturbed' = disturbed /\ cut \subseteq cut'
      /\ inFlight' = [inFlight EXCEPT ![i] = FALSE]
      /\ \A t \in Ticks : InstanceOf[t] = i => tick[t].job \in cut' \cup {NoJob}
      /\ \A t \in Ticks : tick'[t] = IF InstanceOf[t] = i THEN Idle ELSE tick[t]
  BY ZenonT(40) DEF InstanceStops, tables, requests
<1>1. Idle.stage = "idle" /\ Idle.job = NoJob /\ Idle.batch = {} /\ Idle.exec = 0
      /\ Idle.scheduled = FALSE
  BY Zenon DEF Idle
<1>2. FlightInv'
  <2>1. Scheduled(i)' = {} /\ \A k \in Instances : k # i => Scheduled(k)' = Scheduled(k)
    BY Zenon, <1>0, <1>1 DEF Scheduled
  <2>2. /\ inFlight'[i] = FALSE /\ \A k \in Instances : k # i => inFlight'[k] = inFlight[k]
    BY Zenon, <1>0 DEF TableInv, SideTypes
  <2>3. \A u \in Ticks : tick'[u].scheduled =>
          tick'[u].stage # "idle" /\ inFlight'[InstanceOf[u]]
    BY <1>0, <1>1, <2>2, InstanceOfAssumption DEF TableInv, FlightInv
  <2>4. \A k \in Instances : \A t, u \in Scheduled(k)' : t = u
    BY <2>1 DEF TableInv, FlightInv
  <2>5. \A k \in Instances : inFlight'[k] => Scheduled(k)' # {}
    BY <2>1, <2>2 DEF TableInv, FlightInv
  <2> QED
    BY Zenon, <2>3, <2>4, <2>5 DEF FlightInv
<1>3. ListInv'
  <2>1. \A u \in Ticks : tick[u].stage = "list" => tick[u].job \in Jobs
    BY Zenon, TickFacts DEF Working, Tick
  <2>2. \A j : Touched(j)' => Touched(j)
    BY Zenon, <1>0, <1>1 DEF Touched, Touching
  <2> QED
    BY ZenonT(40), <2>1, <2>2, <1>0, <1>1, NullAssumption, ListKept DEF TableInv
<1>4. ExecInv'
  BY Zenon, <1>0, <1>1, ExecKept DEF TableInv
<1>5. AdmitsNone
  BY Zenon, <1>0, <1>1 DEF AdmitsNone
<1> QED
  BY Zenon, <1>2, <1>3, <1>4, <1>5 DEF Keeps

\* The types of the tables and module variables no earlier invariant speaks of.
LEMMA SideKept ==
  ASSUME AllInv, SideTypes, Next
  PROVE  SideTypes'
<1>a. ASSUME UNCHANGED <<dlq, disturbed, cut, workers, inFlight, recent, faults>>
      PROVE  SideTypes'
  BY Zenon, <1>a DEF SideTypes
<1>b. Fault => faults' \in Nat
  BY DEF Fault, SideTypes
<1>1. ASSUME NEW t \in Ticks,
             \/ findWorker(t) \/ listQueues(t) \/ readBudget(t) \/ CronTick(t)
             \/ startJob(t) \/ recordStart(t) \/ settleJob(t) \/ finishJob(t)
      PROVE  SideTypes'
  BY ZenonT(40), <1>1, <1>a DEF findWorker, listQueues, readBudget, CronTick, startJob,
       recordStart, settleJob, finishJob, tables, scheduler, history
<1>2. ASSUME NEW t \in Ticks, reaper(t) \/ claim(t) \/ listDead(t) PROVE SideTypes'
  <2>1. CASE reaper(t)
    BY Zenon, <2>1 DEF reaper, Orphaned, SideTypes, scheduler
  <2>2. CASE claim(t)
    <3>1. retrying \subseteq Jobs
      BY Zenon DEF AllInv, CoreInv, WorkInv, Types
    <3> QED
      BY Zenon, <2>2, <3>1 DEF claim, SideTypes, scheduler
  <2>3. CASE listDead(t)
    <3>1. tick[t].job \in Jobs
      BY Zenon, <2>3, TickFacts DEF listDead, At, Working, Tick
    <3> QED
      BY Zenon, <2>3, <3>1 DEF listDead, SideTypes, scheduler, history
  <2> QED
    BY Zenon, <1>2, <2>1, <2>2, <2>3
<1>3. ASSUME NEW t \in Ticks,
             \/ beat(t) \/ enroll(t) \/ firstBeat(t) \/ tickDone(t) \/ parseThrows(t) \/ TickAborts(t)
             \/ runWorkerTickNow(t)
      PROVE  SideTypes'
  <2>1. TickEnds(t) => inFlight' \in [Instances -> BOOLEAN] /\ recent' = recent
    BY Zenon DEF TickEnds, SideTypes
  <2>2. CASE beat(t) \/ enroll(t) \/ firstBeat(t)
    BY Zenon, <2>1, <2>2 DEF beat, enroll, firstBeat, SideTypes, scheduler, history
  <2>3. CASE tickDone(t) \/ parseThrows(t) \/ runWorkerTickNow(t)
    BY ZenonT(40), <2>1, <2>3 DEF tickDone, parseThrows, runWorkerTickNow, SideTypes, tables, history
  <2>4. CASE TickAborts(t)
    <3>1. tick[t].job \in Jobs \cup {NoJob}
      BY Zenon, TickFacts DEF Tick
    <3> QED
      BY Zenon, <2>1, <2>4, <3>1, <1>b DEF TickAborts, SideTypes, tables
  <2> QED
    BY Zenon, <1>3, <2>2, <2>3, <2>4
<1>4. ASSUME NEW i \in Instances,
             \/ IntervalPasses(i) \/ listJobs(i) \/ InstanceStops(i)
             \/ \E j \in Jobs : insertJob(j, i) \/ retryUpdate(j, i)
      PROVE  SideTypes'
  <2>1. scheduleWorkerTick(i) => /\ inFlight' \in [Instances -> BOOLEAN]
                                 /\ recent' \in [Instances -> BOOLEAN]
    BY Zenon DEF scheduleWorkerTick, scheduler, SideTypes
  <2>2. CASE IntervalPasses(i) \/ listJobs(i)
    BY ZenonT(40), <2>1, <2>2 DEF IntervalPasses, listJobs, SideTypes, tables, history
  <2>3. CASE InstanceStops(i)
    <3>1. \A t \in Ticks : tick[t].job \in Jobs \cup {NoJob}
      BY Zenon, TickFacts DEF Tick
    <3> QED
      BY Zenon, <2>3, <3>1, <1>b DEF InstanceStops, SideTypes, tables
  <2>4. ASSUME NEW j \in Jobs, insertJob(j, i) \/ retryUpdate(j, i) PROVE SideTypes'
    BY Zenon, <2>1, <2>4 DEF insertJob, retryUpdate, SideTypes, scheduler, history
  <2> QED
    BY Zenon, <1>4, <2>2, <2>3, <2>4
<1>5. ASSUME NEW j \in Jobs, checkKey(j) \/ retryDelete(j) \/ RetryAborts(j) \/ retryNotFound(j)
      PROVE  SideTypes'
  BY Zenon, <1>5, <1>b DEF checkKey, retryDelete, RetryAborts, retryNotFound, SideTypes,
     tables, scheduler, history
<1>6. ASSUME NEW j \in Jobs, BecomesDue(j) \/ LeaseRunsOut(j) \/ LeaseLapses(j)
      PROVE  SideTypes'
  BY Zenon, <1>6, <1>b DEF BecomesDue, LeaseRunsOut, LeaseLapses, SideTypes, scheduler, history
<1>7. ASSUME NEW q \in Queues, pauseQueue(q) \/ resumeQueue(q) PROVE SideTypes'
  BY Zenon, <1>7, <1>b DEF pauseQueue, resumeQueue, SideTypes, scheduler, history
<1> QED
  BY Zenon, <1>1, <1>2, <1>3, <1>4, <1>5, <1>6, <1>7 DEF Next, TickStep

\* Every step keeps the invariant but for the admission, and admits nobody
\* unless it reads a budget or claims.
LEMMA TableStep ==
  ASSUME AllInv, TableInv, [Next]_vars
  PROVE  /\ SideTypes' /\ RestInv'
         /\ AdmitsNone \/ \E t \in Ticks : readBudget(t) \/ claim(t)
<1>0. SideTypes'
  BY Zenon, SideKept DEF TableInv, SideTypes, vars
<1>1. ASSUME NEW t \in Ticks, ~(readBudget(t) \/ claim(t)),
             TickStep(t) \/ runWorkerTickNow(t) \/ CronTick(t) \/ TickAborts(t)
      PROVE  Keeps
  BY Zenon, <1>1, PollKeeps, StartKeeps, SettleKeeps, RecordKeeps DEF TickStep
<1>2. ASSUME NEW i \in Instances, IntervalPasses(i) \/ listJobs(i) PROVE Keeps
  BY Zenon, <1>2, RouteSteps
     DEF IntervalPasses, listJobs, MayStart, tables, requests, history
<1>3. ASSUME NEW i \in Instances, InstanceStops(i) PROVE Keeps
  BY Zenon, <1>3, StopKeeps
<1>4. ASSUME NEW j \in Jobs, NEW i \in Instances, insertJob(j, i) PROVE Keeps
  <2>0. jobs \in [Jobs -> Row] /\ ~Exists(jobs, j)
    BY Zenon, <1>4 DEF AllInv, CoreInv, WorkInv, Types, KeyInv, insertJob
  <2>1. \A k \in Jobs : \/ jobs'[k].status = jobs[k].status
                        \/ jobs[k].status = "absent" /\ jobs'[k].status = "queued"
    BY ZenonT(40), <1>4, <2>0 DEF insertJob, NewRow, NoRow, Exists
  <2>2. MayStart
    BY Zenon, <1>4 DEF insertJob, MayStart, scheduler
  <2> QED
    BY Zenon, <1>4, <2>1, <2>2, RouteSteps DEF insertJob, history
<1>5. ASSUME NEW j \in Jobs,
             \/ retryDelete(j) \/ RetryAborts(j) \/ retryNotFound(j)
             \/ \E i \in Instances : retryUpdate(j, i)
      PROVE  Keeps
  BY Zenon, <1>5, RetryKeeps
<1>6. ASSUME NEW j \in Jobs,
             checkKey(j) \/ BecomesDue(j) \/ LeaseRunsOut(j) \/ LeaseLapses(j)
      PROVE  Keeps
  <2>0. jobs \in [Jobs -> Row]
    BY Zenon DEF AllInv, CoreInv, WorkInv, Types
  <2>1. \A k \in Jobs : jobs'[k].status = jobs[k].status
    BY <1>6, <2>0 DEF checkKey, BecomesDue, LeaseRunsOut, LeaseLapses, tables, Row
  <2> QED
    BY Zenon, <1>6, <2>1, RouteSteps DEF checkKey, BecomesDue, LeaseRunsOut, LeaseLapses,
          MayStart, tables, requests, scheduler, history
<1>7. ASSUME NEW q \in Queues, pauseQueue(q) \/ resumeQueue(q) PROVE Keeps
  BY Zenon, <1>7, RouteSteps
     DEF pauseQueue, resumeQueue, MayStart, requests, scheduler, history
<1>8. ASSUME UNCHANGED vars PROVE Keeps
  BY Zenon, <1>8, RouteSteps DEF vars, MayStart
<1>9. ASSUME NEW t \in Ticks, readBudget(t) \/ claim(t) PROVE RestInv'
  BY Zenon, <1>9, BudgetKeeps, ClaimKeeps
<1>10. Keeps \/ \E t \in Ticks : readBudget(t) \/ claim(t)
  BY Zenon, <1>1, <1>2, <1>3, <1>4, <1>5, <1>6, <1>7, <1>8 DEF Next
<1> QED
  BY Zenon, <1>0, <1>9, <1>10 DEF Keeps, RestInv
=============================================================================
