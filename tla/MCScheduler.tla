----------------------------- MODULE MCScheduler -----------------------------
(***************************************************************************)
(* Small instances of Scheduler for TLC.  Every .cfg chooses the sets and  *)
(* the faults; the functions below give the per-job and per-queue columns. *)
(***************************************************************************)
EXTENDS Scheduler, TLC

CONSTANTS j1, j2, j3, w1, w2, s1, s2, q1, q2, k1

OneQueue == [j \in Jobs |-> q1]
QueuePerJob == [j \in Jobs |-> IF j = j1 THEN q1 ELSE q2]
NoKeys == [j \in Jobs |-> NoKey]
SameKey == [j \in Jobs |-> k1]
FlatPriority == [j \in Jobs |-> 0]
OneAttempt == [j \in Jobs |-> 1]
FirstTwice == [j \in Jobs |-> IF j = j1 THEN 2 ELSE 1]
TwoAttempts == [j \in Jobs |-> 2]
LimitOne == [q \in Queues |-> 1]

\* One slot per worker.
OwnerTwo == s1 :> w1 @@ s2 :> w2
=============================================================================
