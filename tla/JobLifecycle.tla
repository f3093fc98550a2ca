---------------------------- MODULE JobLifecycle ----------------------------
(***************************************************************************)
(* The life cycle the code gives ONE job at a time, with the statuses it   *)
(* stores.  A job is in the hands of at most one worker, changes hands     *)
(* only through the queue, is charged one attempt per failed run and never *)
(* more than MaxAttempts, and once completed stays completed.  It differs  *)
(* from docs/DESIGN.md section 4 in one move: there a job taken from a     *)
(* dead worker is charged an attempt and may be dead-lettered (Scheduler:  *)
(* ReapedIsCharged), here as in the code it is given back as it was.       *)
(*                                                                         *)
(* One database statement may move several jobs (a claim, a release, a     *)
(* reaper sweep), so a step lets every job make at most one move.          *)
(***************************************************************************)
EXTENDS Naturals

CONSTANTS Jobs, Workers, NoWorker, MaxAttempts

VARIABLES status, attempts, holder

vars == <<status, attempts, holder>>

\* The value job j gets in each of the three variables.
Becomes(j, st, n, w) == /\ status'[j] = st
                        /\ attempts'[j] = n
                        /\ holder'[j] = w

Submit(j) == /\ status[j] = "absent"
             /\ \E st \in {"queued", "scheduled"} : Becomes(j, st, 0, NoWorker)

Claim(j) == /\ status[j] = "queued"
            /\ \E w \in Workers : Becomes(j, "claimed", attempts[j], w)

Run(j) == /\ status[j] = "claimed"
          /\ Becomes(j, "running", attempts[j], holder[j])

\* From "claimed" when the idempotency gate hits.
Complete(j) == /\ status[j] \in {"claimed", "running"}
               /\ Becomes(j, "completed", attempts[j], NoWorker)

\* A failed attempt is charged once, and only if another one remains.
Fail(j) == /\ status[j] = "running"
           /\ attempts[j] + 1 < MaxAttempts[j]
           /\ \E st \in {"failed", "queued"} :
                Becomes(j, st, attempts[j] + 1, NoWorker)

Retry(j) == /\ status[j] = "failed"
            /\ Becomes(j, "queued", attempts[j], NoWorker)

\* The last attempt failed.
Exhaust(j) == /\ status[j] = "running"
              /\ attempts[j] + 1 = MaxAttempts[j]
              /\ Becomes(j, "dead_letter", MaxAttempts[j], NoWorker)

\* Given back by a worker that stops, or taken from a dead one by the reaper.
\* RequeueOrphanedJobs leaves attempts alone, against docs/DESIGN.md:203.
GiveBack(j) == /\ status[j] \in {"claimed", "running"}
               /\ Becomes(j, "queued", attempts[j], NoWorker)

\* An operator retries a dead-lettered job.
Revive(j) == /\ status[j] = "dead_letter"
             /\ Becomes(j, "queued", 0, NoWorker)

Move(j) == \/ Submit(j) \/ Claim(j) \/ Run(j) \/ Complete(j) \/ Fail(j)
           \/ Retry(j) \/ Exhaust(j) \/ GiveBack(j) \/ Revive(j)

Stay(j) == Becomes(j, status[j], attempts[j], holder[j])

Init == /\ status = [j \in Jobs |-> "absent"]
        /\ attempts = [j \in Jobs |-> 0]
        /\ holder = [j \in Jobs |-> NoWorker]

Next == \A j \in Jobs : Move(j) \/ Stay(j)

Spec == Init /\ [][Next]_vars
=============================================================================
