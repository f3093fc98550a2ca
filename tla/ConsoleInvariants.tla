------------------------- MODULE ConsoleInvariants --------------------------
(***************************************************************************)
(* The inductive invariant of Console.                                     *)
(***************************************************************************)
EXTENDS Console

\* Only jobs are dead letters.
LetterTypes == letters \in Seq(DOMAIN jobs) /\ burying \subseteq DOMAIN jobs

\* The tables are well typed, and so is what SWR holds or is about to get.
DataInv ==
  /\ projects \in BOOLEAN /\ queues \in QueueTables
  /\ jobs \in Seq(JobRow) /\ past \subseteq Seq(JobRow) /\ jobs \in past
  /\ LetterTypes
  /\ cache \in [queues : QueueTables, projects : BOOLEAN, dlq : SUBSET DOMAIN jobs]
  /\ DOMAIN fetch = Keys
  /\ fetch["queues"] # NoFetch => fetch["queues"][1] \in QueueTables
  /\ fetch["projects"] # NoFetch => fetch["projects"][1] \in BOOLEAN
  /\ fetch["dlq"] # NoFetch => fetch["dlq"][1] \subseteq DOMAIN jobs
  /\ changes \in Nat /\ faults \in Nat /\ episode \in Episodes

\* What the jobs page has, and what it will get, answers its present key.
ListingInv ==
  /\ listing = NoPage \/ \E table \in past : listing = Page(JobsKey(page), table)
  /\ fetch["jobs"] # NoFetch =>
       \E table \in past : fetch["jobs"] = <<Page(JobsKey(page), table)>>

\* A request carries what its route expects, and a save the queue its fields
\* came from.
Carries(r) ==
  /\ r \in Request
  /\ r.op = "save" => r.queue \in Queues /\ r.of = r.queue /\ r.value \in Limit
  /\ r.op = "create" => r.queue \in Queues /\ r.value \in Limit
  /\ r.op = "submit" => r.queue \in Queues /\ r.value \in Names \cup {NoName}
  /\ r.state \in {"sent", "half"} => ~r.inserted

Named(r, table) == r.op \in {"retry", "command"} => r.job \in DOMAIN table

ReqInv ==
  /\ req \in [Slots -> Request]
  /\ \A s \in Slots : Carries(req[s]) /\ Named(req[s], jobs)

\* React's state: what the page asks for is mounted, and nothing else.
UiTypes ==
  /\ page \in PageState /\ failed \subseteq Keys
  /\ asked \subseteq {"queues", "jobs"} /\ command \in BOOLEAN

MountInv ==
  /\ form \in Form \cup {NoForm} /\ drawer \in DrawerState \cup {NoDrawer}
  /\ form # NoForm <=> FormShown(page, failed)
  /\ drawer # NoDrawer <=> DrawerShown(page, failed)
  /\ drawer # NoDrawer => drawer.of = page.selected.queue

\* A request whose sender waits for it.
Waiting(r, ops) == r.op \in ops /\ r.live = "form" /\ r.state # "done"

\* A control is disabled while its one request is unanswered.
Busy(flag, rs, ops) ==
  /\ flag = \E s \in Slots : Waiting(rs[s], ops)
  /\ \A s, t \in Slots : Waiting(rs[s], ops) /\ Waiting(rs[t], ops) => s = t

FormBusy(f, rs) ==
  Busy(f.saving, rs, {"submit", "create"}) /\ Busy(f.inline, rs, {"project"})
DrawerBusy(d, rs) == Busy(d.saving, rs, {"save"})
RetryBusy(pg, rs) ==
  pg.retrying # 0 =>
    \E s \in Slots : Waiting(rs[s], {"retry"}) /\ rs[s].job = pg.retrying

\* A job that a form has inserted is still to be answered, or its answer was
\* lost: once it is answered the form is gone.
Unanswered(rs) ==
  \A s \in Slots :
    /\ rs[s].op = "submit" /\ rs[s].live = "form" /\ rs[s].inserted /\ ~rs[s].lost
    => rs[s].state = "ok"

BusyInv ==
  FormBusy(form, req) /\ DrawerBusy(drawer, req) /\ RetryBusy(page, req) /\ Unanswered(req)

\* The part of a component that sent a request with op and is still there.
Kept(op, here, formKept, drawerKept) ==
  CASE op \in {"submit", "create", "project"} -> formKept
    [] op = "save" -> drawerKept
    [] OTHER -> here

\* What a rendering establishes.
Rendered == page' \in PageState /\ failed' \subseteq Keys /\ ReqInv' /\ MountInv' /\ BusyInv'

\* The flag of a control when r is sent: raised if the control waits for r.
Raised(new, old, r, ops) ==
  IF Waiting(r, ops) THEN new = TRUE /\ old = FALSE ELSE new = old

\* A handler that sends r leaves the page pg, the form f and the drawer d.
Sends(pg, f, d, r) ==
  /\ Carries(r) /\ Named(r, jobs) /\ r.state = "sent"
  /\ form # NoForm => f \in Form
  /\ drawer # NoDrawer => d \in DrawerState
  /\ d.of = drawer.of
  /\ pg \in PageState /\ pg.selected = page.selected /\ JobsKey(pg) = JobsKey(page)
  /\ Raised(f.saving, form.saving, r, {"submit", "create"})
  /\ Raised(f.inline, form.inline, r, {"project"})
  /\ Raised(d.saving, drawer.saving, r, {"save"})
  /\ \/ pg.retrying = page.retrying
     \/ Waiting(r, {"retry"}) /\ pg.retrying = r.job

\* A request r under way becomes t when it is served or lost.
Answers(r, t) ==
  /\ t \in Request /\ r.state # "done" /\ t.state \in {"half", "ok", "error"}
  /\ t.op = r.op /\ t.live = r.live /\ t.queue = r.queue /\ t.of = r.of /\ t.value = r.value
  /\ t.job = r.job \/ r.op = "submit"
  /\ t.inserted /\ ~t.lost => t.state = "ok"
  /\ t.state = "half" => ~t.inserted

\* A submitted request r is answered with a job, found or inserted.
Submitted(r, t) ==
  /\ r.op = "submit"
  /\ \E b \in BOOLEAN, id \in Nat :
       t = [r EXCEPT !.state = "ok", !.inserted = b, !.job = id]

ConsoleInv ==
  DataInv /\ ListingInv /\ ReqInv /\ UiTypes /\ MountInv /\ BusyInv
=============================================================================
