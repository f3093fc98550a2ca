----------------------------- MODULE MCConsole -----------------------------
(***************************************************************************)
(* Small instances of Console for TLC: one episode for each page and one   *)
(* for the palette.                                                        *)
(***************************************************************************)
EXTENDS Console, TLC

CONSTANTS q1, q2, n1, l1

Row(limit) == [paused |-> FALSE, limit |-> limit]
Job(q, status) == [queue |-> q, name |-> NoName, status |-> status]
OneQueue == q1 :> Row(NoLimit)

Quiet == [paths |-> {"overview"}, does |-> {}, projects |-> TRUE, queues |-> OneQueue,
          jobs |-> <<>>, letters |-> <<>>, changes |-> 0, faults |-> 0]

On(paths, does) == [Quiet EXCEPT !.paths = {"overview"} \cup paths, !.does = does]
TwoQueues == OneQueue @@ (q2 :> Row(l1))

\* Two queues in the drawer: saved while the page may break, paused and
\* resumed while another operator changes one of them.
Saving == [On({"queues"}, {"save"}) EXCEPT !.queues = TwoQueues, !.faults = 1]
Pausing == [On({"queues"}, {"pause"}) EXCEPT !.queues = TwoQueues, !.changes = 1]

\* From an empty organization to its first queue, and on to the next.
First == [On({}, {"create", "project"}) EXCEPT
            !.paths = {"queues"}, !.projects = FALSE, !.queues = NoQueues]
Creating == [On({}, {"create"}) EXCEPT !.paths = {"queues"}, !.faults = 1]

\* The palette opens a form over a drawer; it pauses a queue.
Both == [On({}, {"create", "save", "command"}) EXCEPT !.paths = {"queues"}]
Toggling == On({"queues"}, {"pause", "command"})

\* Three jobs where the page holds two.
ThreeJobs(q) == <<Job(q1, "dead_letter"), Job(q, "queued"), Job(q1, "completed")>>
Filtering == [On({"jobs"}, {"filter"}) EXCEPT !.queues = TwoQueues, !.changes = 1,
                !.jobs = ThreeJobs(q2), !.letters = <<1>>]
Looking == [On({"jobs"}, {"filter", "detail"}) EXCEPT !.faults = 1,
              !.jobs = ThreeJobs(q1), !.letters = <<1>>]

Submitting == [On({"jobs"}, {"submit"}) EXCEPT !.faults = 1]

\* Three dead letters where the page holds two, retried from the page and from
\* the palette, while a worker goes on, and while the page may break or a
\* retry be cut off.
ThreeDead == [j \in 1 .. 3 |-> Job(q1, "dead_letter")]
OnDead(does) == [On({"dlq"}, does) EXCEPT !.jobs = ThreeDead, !.letters = <<2, 3, 1>>]
Retrying == OnDead({"command"})
Working == [OnDead({}) EXCEPT !.changes = 1]
Failing == [OnDead({}) EXCEPT !.faults = 1]

AllEpisodes ==
  {Saving, Pausing, First, Creating, Both, Toggling, Filtering, Looking, Submitting,
   Retrying, Working, Failing}
=============================================================================
