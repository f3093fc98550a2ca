---------------------------- MODULE MCServerless ----------------------------
(***************************************************************************)
(* Small instances of ServerlessWorker for TLC.  s1, s2 and s3 are seeded, *)
(* p1 and p2 are posted with one idempotency key; s1 and p1 fail, and the  *)
(* payload of u1 is a string.                                              *)
(***************************************************************************)
EXTENDS ServerlessWorker, TLC

CONSTANTS s1, s2, s3, u1, p1, p2, t1, t2, i1, q1, k1, w1, w2

OneQueue == [j \in Jobs |-> q1]
KeyOfPosted == [j \in Jobs |-> IF j \in {p1, p2} THEN k1 ELSE NoKey]
FlatPriority == [j \in Jobs |-> 0]
SomeTwoAttempts == [j \in Jobs |-> IF j = s1 THEN 2 ELSE 1]
LimitOne == [q \in Queues |-> 1]
OneInstance == [t \in Ticks |-> i1]

\* Contention for one slot; a failing job with two attempts; a failing and a
\* successful one under faults; a string payload posted beside a job; a race for
\* one key in an unseeded database.
SixWorkloads ==
  {[seeded |-> {s2, s3, p1}, posted |-> {}, faults |-> 0],
   [seeded |-> {s1}, posted |-> {}, faults |-> 1],
   [seeded |-> {p1}, posted |-> {}, faults |-> 2],
   [seeded |-> {s2}, posted |-> {}, faults |-> 1],
   [seeded |-> {s2}, posted |-> {u1}, faults |-> 0],
   [seeded |-> {}, posted |-> {p1, p2}, faults |-> 0]}
=============================================================================
