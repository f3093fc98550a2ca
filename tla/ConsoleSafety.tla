--------------------------- MODULE ConsoleSafety ----------------------------
(***************************************************************************)
(* Theorems about Console for any number of queues, jobs, requests and     *)
(* pages, and any episodes.                                                *)
(***************************************************************************)
EXTENDS ConsoleInvariants, FiniteSetTheorems, TLAPS

-----------------------------------------------------------------------------
(* Rendering *)

\* A request loses its sender when the sender is unmounted, and keeps it
\* otherwise.
LEMMA Detaching ==
  ASSUME NEW r \in Request, NEW here \in BOOLEAN, NEW fk \in BOOLEAN, NEW dk \in BOOLEAN,
         NEW t, t = Detached(r, here, fk, dk)
  PROVE  /\ t \in Request
         /\ t.live = "form" => t = r /\ Kept(r.op, here, fk, dk)
         /\ r.live = "form" /\ Kept(r.op, here, fk, dk) => t = r
         /\ Carries(r) => Carries(t)
         /\ \A table : Named(r, table) => Named(t, table)
<1> DEFINE kept == Kept(r.op, here, fk, dk)
<1>1. t = IF r = Unsent \/ (r.live = "form" /\ kept) THEN r
          ELSE IF r.state = "done" THEN Over
          ELSE [r EXCEPT !.live = IF here /\ r.live # "gone" THEN "page" ELSE "gone"]
  BY DEF Detached, Kept
<1>2. /\ Over \in Request /\ Over.op = "project" /\ Over.live = "gone" /\ Over.state = "done"
      /\ Unsent.live = "page"
  BY ZenonT(30) DEF Over, Unsent, Blank, Request, Ops
<1> HIDE DEF kept
<1>3. CASE t = r /\ (r = Unsent \/ (r.live = "form" /\ kept))
  BY <1>2, <1>3 DEF kept
<1>4. CASE t = Over /\ ~(r.live = "form" /\ kept)
  BY <1>2, <1>4 DEF kept, Carries, Named
<1>5. CASE /\ t = [r EXCEPT !.live = IF here /\ r.live # "gone" THEN "page" ELSE "gone"]
           /\ ~(r.live = "form" /\ kept)
  <2>1. PICK l \in {"page", "gone"} : t = [r EXCEPT !.live = l]
    BY Zenon, <1>5
  <2>2. /\ t \in Request /\ t.live = l /\ t.op = r.op /\ t.queue = r.queue /\ t.of = r.of
        /\ t.value = r.value /\ t.job = r.job /\ t.state = r.state /\ t.inserted = r.inserted
    BY <2>1 DEF Request
  <2> QED
    BY <1>5, <2>2 DEF kept, Carries, Named
<1> QED
  BY Zenon, <1>1, <1>3, <1>4, <1>5

\* What a page asks for is mounted; a form or drawer that is mounted anew is a
\* fresh one.
LEMMA RenderMounts ==
  ASSUME NEW pg \in PageState, NEW here \in BOOLEAN, NEW broken \in SUBSET Keys,
         NEW f, NEW d, NEW rs, Render(pg, here, broken, f, d, rs),
         form # NoForm => f \in Form,
         drawer # NoDrawer => d \in DrawerState,
         here /\ drawer # NoDrawer /\ DrawerShown(pg, broken) => d.of = pg.selected.queue
  PROVE  MountInv'
<1>1. /\ FreshForm \in Form /\ NoForm \notin Form
      /\ NoDrawer \notin DrawerState
  BY UnmountedAssumption, UnsetAssumption
  DEF FreshForm, NoForm, Form, NoDrawer, DrawerState
<1>2. pg.selected # NoQueue => /\ NewDrawer(pg.selected) \in DrawerState
                               /\ NewDrawer(pg.selected).of = pg.selected.queue
  <2>1. SUFFICES ASSUME pg.selected \in [queue : Queues, row : QueueRow]
                 PROVE  /\ NewDrawer(pg.selected) \in DrawerState
                        /\ NewDrawer(pg.selected).of = pg.selected.queue
    BY DEF PageState
  <2> QED
    BY <2>1 DEF NewDrawer, DrawerState, QueueRow
<1>3. /\ page' = pg /\ failed' = broken
      /\ FormShown(page, failed)' = FormShown(pg, broken)
      /\ DrawerShown(page, failed)' = DrawerShown(pg, broken)
  BY Zenon DEF Render, FormShown, DrawerShown, Broken
<1>4. form' = IF here /\ form # NoForm /\ FormShown(pg, broken) THEN f
              ELSE IF FormShown(pg, broken) THEN FreshForm ELSE NoForm
  BY Zenon DEF Render
<1>5. drawer' = IF here /\ drawer # NoDrawer /\ DrawerShown(pg, broken) THEN d
                ELSE IF DrawerShown(pg, broken) THEN NewDrawer(pg.selected) ELSE NoDrawer
  BY Zenon DEF Render
<1>6. form' \in Form \cup {NoForm} /\ (form' # NoForm <=> FormShown(pg, broken))
  BY Zenon, <1>1, <1>4
<1>7. /\ drawer' \in DrawerState \cup {NoDrawer}
      /\ drawer' # NoDrawer <=> DrawerShown(pg, broken)
      /\ drawer' # NoDrawer => drawer'.of = pg.selected.queue
  BY Zenon, <1>1, <1>2, <1>5 DEF DrawerShown
<1> QED
  BY Zenon, <1>3, <1>6, <1>7 DEF MountInv

\* A control waits after a rendering as it did before, unless it is fresh.
LEMMA RenderBusy ==
  ASSUME NEW pg, NEW here \in BOOLEAN, NEW broken,
         NEW f, NEW d, NEW rs \in [Slots -> Request], Render(pg, here, broken, f, d, rs),
         here /\ form # NoForm /\ FormShown(pg, broken) => FormBusy(f, rs) /\ Unanswered(rs),
         here /\ drawer # NoDrawer /\ DrawerShown(pg, broken) => DrawerBusy(d, rs),
         RetryBusy(pg, rs), here \/ pg.retrying = 0
  PROVE  BusyInv'
<1>k. PICK fk \in BOOLEAN : fk = (here /\ form # NoForm /\ FormShown(pg, broken))
  BY Zenon
<1>l. PICK dk \in BOOLEAN : dk = (here /\ drawer # NoDrawer /\ DrawerShown(pg, broken))
  BY Zenon
<1>1. /\ page' = pg
      /\ form' = IF fk THEN f ELSE IF FormShown(pg, broken) THEN FreshForm ELSE NoForm
      /\ drawer' = IF dk THEN d
                   ELSE IF DrawerShown(pg, broken) THEN NewDrawer(pg.selected) ELSE NoDrawer
      /\ req' = [s \in Slots |-> Detached(rs[s], here, fk, dk)]
  BY Zenon, <1>k, <1>l DEF Render
<1>2. /\ form'.saving = IF fk THEN f.saving ELSE FALSE
      /\ form'.inline = IF fk THEN f.inline ELSE FALSE
      /\ drawer'.saving = IF dk THEN d.saving ELSE FALSE
  BY Zenon, <1>1 DEF FreshForm, NoForm, NewDrawer, NoDrawer
<1>3. /\ Kept("submit", here, fk, dk) = fk /\ Kept("create", here, fk, dk) = fk
      /\ Kept("project", here, fk, dk) = fk /\ Kept("save", here, fk, dk) = dk
      /\ Kept("retry", here, fk, dk) = here
  BY DEF Kept
<1>4. ASSUME NEW s \in Slots
      PROVE  /\ req'[s].live = "form" => req'[s] = rs[s] /\ Kept(rs[s].op, here, fk, dk)
             /\ rs[s].live = "form" /\ Kept(rs[s].op, here, fk, dk) => req'[s] = rs[s]
  <2>1. rs[s] \in Request /\ req'[s] = Detached(rs[s], here, fk, dk)
    BY Zenon, <1>1
  <2> QED
    BY <2>1, Detaching
<1>5. Busy(IF fk THEN f.saving ELSE FALSE, req', {"submit", "create"})
  <2>1. ASSUME NEW s \in Slots
        PROVE  Waiting(req'[s], {"submit", "create"})
                 <=> fk /\ Waiting(rs[s], {"submit", "create"})
    BY Zenon, <1>3, <1>4 DEF Waiting
  <2> QED
    BY Zenon, <1>k, <2>1 DEF FormBusy, Busy
<1>6. Busy(IF fk THEN f.inline ELSE FALSE, req', {"project"})
  <2>1. ASSUME NEW s \in Slots
        PROVE  Waiting(req'[s], {"project"}) <=> fk /\ Waiting(rs[s], {"project"})
    BY Zenon, <1>3, <1>4 DEF Waiting
  <2> QED
    BY Zenon, <1>k, <2>1 DEF FormBusy, Busy
<1>7. Busy(IF dk THEN d.saving ELSE FALSE, req', {"save"})
  <2>1. ASSUME NEW s \in Slots
        PROVE  Waiting(req'[s], {"save"}) <=> dk /\ Waiting(rs[s], {"save"})
    BY Zenon, <1>3, <1>4 DEF Waiting
  <2> QED
    BY Zenon, <1>l, <2>1 DEF DrawerBusy, Busy
<1>8. RetryBusy(pg, req')
  BY Zenon, <1>3, <1>4 DEF RetryBusy, Waiting
<1>9. Unanswered(req')
  BY Zenon, <1>k, <1>3, <1>4 DEF Unanswered
<1>10. FormBusy(form', req') /\ DrawerBusy(drawer', req')
  BY Zenon, <1>2, <1>5, <1>6, <1>7 DEF FormBusy, DrawerBusy
<1> QED
  BY Zenon, <1>1, <1>8, <1>9, <1>10 DEF BusyInv

\* A rendering keeps the invariant, if what it is given has it.
LEMMA RenderKeeps ==
  ASSUME NEW pg \in PageState, NEW here \in BOOLEAN, NEW broken \in SUBSET Keys,
         NEW f, NEW d, NEW rs \in [Slots -> Request], Render(pg, here, broken, f, d, rs),
         \A s \in Slots : Carries(rs[s]) /\ Named(rs[s], jobs'),
         form # NoForm => f \in Form,
         drawer # NoDrawer => d \in DrawerState,
         here /\ form # NoForm /\ FormShown(pg, broken) => FormBusy(f, rs) /\ Unanswered(rs),
         here /\ drawer # NoDrawer /\ DrawerShown(pg, broken) =>
           d.of = pg.selected.queue /\ DrawerBusy(d, rs),
         RetryBusy(pg, rs), here \/ pg.retrying = 0
  PROVE  Rendered
<1>1. page' = pg /\ failed' = broken
  BY Zenon DEF Render
<1>2. MountInv'
  BY Zenon, RenderMounts
<1>3. BusyInv'
  BY Zenon, RenderBusy
<1>k. PICK fk \in BOOLEAN : fk = (here /\ form # NoForm /\ FormShown(pg, broken))
  BY Zenon
<1>l. PICK dk \in BOOLEAN : dk = (here /\ drawer # NoDrawer /\ DrawerShown(pg, broken))
  BY Zenon
<1>4. req' = [s \in Slots |-> Detached(rs[s], here, fk, dk)]
  BY Zenon, <1>k, <1>l DEF Render
<1>5. ASSUME NEW s \in Slots
      PROVE  req'[s] \in Request /\ Carries(req'[s]) /\ Named(req'[s], jobs')
  BY Zenon, <1>4, Detaching
<1>6. ReqInv'
  BY Zenon, <1>4, <1>5 DEF ReqInv
<1> QED
  BY Zenon, <1>1, <1>2, <1>3, <1>6 DEF Rendered

\* The forms, the drawer and the requests are left as they are.
LEMMA PlainRender ==
  ASSUME ConsoleInv, NEW pg \in PageState, NEW here \in BOOLEAN, NEW broken \in SUBSET Keys,
         Render(pg, here, broken, form, drawer, req), jobs' = jobs,
         pg.retrying = IF here THEN page.retrying ELSE 0,
         here /\ drawer # NoDrawer /\ DrawerShown(pg, broken) => pg.selected = page.selected
  PROVE  Rendered
<1>1. /\ req \in [Slots -> Request] /\ \A s \in Slots : Carries(req[s]) /\ Named(req[s], jobs')
      /\ form # NoForm => form \in Form
      /\ drawer # NoDrawer => drawer \in DrawerState
  BY Zenon DEF ConsoleInv, ReqInv, MountInv
<1>2. /\ FormBusy(form, req) /\ Unanswered(req) /\ DrawerBusy(drawer, req)
      /\ drawer # NoDrawer => drawer.of = page.selected.queue
  BY Zenon DEF ConsoleInv, MountInv, BusyInv
<1>3. RetryBusy(pg, req)
  BY Zenon DEF ConsoleInv, BusyInv, RetryBusy
<1> QED
  BY Zenon, <1>1, <1>2, <1>3, RenderKeeps

-----------------------------------------------------------------------------
(* The tables and the cache *)

\* Fetches are dropped and nothing else changes.
LEMMA FetchesDropped ==
  ASSUME DataInv, UNCHANGED <<tables, cache, changes, episode>>, faults' \in Nat,
         DOMAIN fetch' = Keys, \A k \in Keys : fetch'[k] \in {fetch[k], NoFetch}
  PROVE  DataInv'
BY Zenon DEF DataInv, LetterTypes, tables, Keys

\* A step of the console changes no table and drops fetches at most.
LEMMA DataKept ==
  ASSUME DataInv, UNCHANGED <<tables, cache, changes, faults, episode>>,
         UNCHANGED fetch \/ \E keys : fetch' = Mutated(keys)
  PROVE  DataInv' /\ fetch'["jobs"] \in {fetch["jobs"], NoFetch}
<1>1. DOMAIN fetch' = Keys /\ \A k \in Keys : fetch'[k] \in {fetch[k], NoFetch}
  BY Zenon DEF DataInv, Mutated
<1>2. faults' \in Nat
  BY Zenon DEF DataInv
<1> QED
  BY Zenon, <1>1, <1>2, FetchesDropped DEF Keys

\* The page looks under the key it looked under.
LEMMA ListingKept ==
  ASSUME ListingInv, past' = past, listing' = listing,
         fetch'["jobs"] \in {fetch["jobs"], NoFetch}, JobsKey(page') = JobsKey(page)
  PROVE  ListingInv'
<1>1. PICK key : key = JobsKey(page) /\ key = JobsKey(page')
  BY Zenon
<1>2. JobsKey(page)' = JobsKey(page')
  BY Zenon DEF JobsKey
<1> QED
  BY Zenon, <1>1, <1>2 DEF ListingInv

\* The key of the jobs page depends on its filters and its queue alone.
LEMMA SameKey ==
  ASSUME NEW pg, NEW old, pg.filters = old.filters, pg.queueId = old.queueId
  PROVE  JobsKey(pg) = JobsKey(old)
BY DEF JobsKey

\* Nothing that is displayed changes.
LEMMA ViewKept ==
  ASSUME ConsoleInv, UNCHANGED <<page, failed, form, drawer, asked>>, command' \in BOOLEAN
  PROVE  UiTypes' /\ MountInv'
<1>1. /\ FormShown(page, failed)' = FormShown(page, failed)
      /\ DrawerShown(page, failed)' = DrawerShown(page, failed)
  BY Zenon DEF FormShown, DrawerShown, Broken
<1> QED
  BY Zenon, <1>1 DEF ConsoleInv, UiTypes, MountInv

\* What is left to show after a rendering.
LEMMA Assembled ==
  ASSUME Rendered, DataInv', ListingInv', asked' \subseteq {"queues", "jobs"},
         command' \in BOOLEAN
  PROVE  ConsoleInv'
BY Zenon DEF Rendered, ConsoleInv, UiTypes

-----------------------------------------------------------------------------
(* The kinds of handler *)

\* A handler that sets the state of the page.
LEMMA SetKeeps ==
  ASSUME ConsoleInv, NEW pg \in PageState, Set(pg), asked' \subseteq {"queues", "jobs"},
         pg.retrying = page.retrying, JobsKey(pg) = JobsKey(page),
         drawer # NoDrawer /\ DrawerShown(pg, failed) => pg.selected = page.selected
  PROVE  ConsoleInv'
<1>1. /\ Render(pg, TRUE, failed, form, drawer, req)
      /\ UNCHANGED <<tables, cache, fetch, listing, changes, faults, command, episode>>
  BY Zenon DEF Set
<1>2. failed \in SUBSET Keys /\ command' \in BOOLEAN /\ jobs' = jobs /\ past' = past /\ page' = pg
  BY Zenon, <1>1 DEF ConsoleInv, UiTypes, tables, Render
<1>3. Rendered
  BY Zenon, <1>1, <1>2, PlainRender
<1>4. DataInv' /\ ListingInv'
  BY Zenon, <1>1, <1>2, DataKept, ListingKept DEF ConsoleInv
<1> QED
  BY Zenon, <1>2, <1>3, <1>4, Assembled

\* A handler that sets a field of the form or of the drawer.
LEMMA TypeKeeps ==
  ASSUME ConsoleInv, NEW f, NEW d, Type(f, d),
         form # NoForm => f \in Form, drawer # NoDrawer => d \in DrawerState,
         f.saving = form.saving, f.inline = form.inline, d.saving = drawer.saving,
         d.of = drawer.of
  PROVE  ConsoleInv'
<1>1. /\ Render(page, TRUE, failed, f, d, req)
      /\ UNCHANGED <<tables, cache, fetch, listing, changes, faults, asked, command, episode>>
  BY Zenon DEF Type
<1>2. /\ failed \in SUBSET Keys /\ page \in PageState /\ req \in [Slots -> Request]
      /\ jobs' = jobs /\ past' = past /\ page' = page
      /\ asked' \subseteq {"queues", "jobs"} /\ command' \in BOOLEAN
  BY Zenon, <1>1 DEF ConsoleInv, UiTypes, ReqInv, tables, Render
<1>3. /\ \A s \in Slots : Carries(req[s]) /\ Named(req[s], jobs')
      /\ FormBusy(f, req) /\ Unanswered(req) /\ DrawerBusy(d, req) /\ RetryBusy(page, req)
      /\ drawer # NoDrawer => d.of = page.selected.queue
  BY Zenon, <1>2 DEF ConsoleInv, ReqInv, BusyInv, MountInv, FormBusy, DrawerBusy
<1>4. Rendered
  BY Zenon, <1>1, <1>2, <1>3, RenderKeeps
<1>5. DataInv' /\ ListingInv'
  BY Zenon, <1>1, <1>2, DataKept, ListingKept DEF ConsoleInv
<1> QED
  BY Zenon, <1>2, <1>4, <1>5, Assembled

\* A control that sends a request in a free slot waits for it alone.
LEMMA BusySent ==
  ASSUME NEW n \in Slots, NEW r, NEW rs, NEW ops, NEW old, NEW new,
         ~Waiting(req[n], ops), rs[n] = r, \A s \in Slots : s # n => rs[s] = req[s],
         Busy(old, req, ops), Raised(new, old, r, ops)
  PROVE  Busy(new, rs, ops)
BY Zenon DEF Busy, Raised

\* A handler that sends a request.
LEMMA SendKeeps ==
  ASSUME ConsoleInv, NEW pg, NEW f, NEW d, NEW r, Send(pg, f, d, r), Sends(pg, f, d, r),
         command' \in BOOLEAN
  PROVE  ConsoleInv'
<1>1. /\ FreeSlots # {} /\ Render(pg, TRUE, failed, f, d, Sending(r))
      /\ UNCHANGED <<tables, cache, fetch, listing, changes, faults, asked, episode>>
  BY Zenon DEF Send
<1>2. /\ failed \in SUBSET Keys /\ page \in PageState /\ req \in [Slots -> Request]
      /\ jobs' = jobs /\ past' = past /\ page' = pg
      /\ asked' \subseteq {"queues", "jobs"}
  BY Zenon, <1>1 DEF ConsoleInv, UiTypes, ReqInv, tables, Render
<1>3. PICK n \in FreeSlots, rs \in {Sending(r)} : rs = [req EXCEPT ![n] = r]
  BY Zenon, <1>1 DEF Sending
<1>4. n \in Slots /\ req[n].state = "done"
  BY Zenon, <1>3 DEF FreeSlots, Unsent, Blank
<1>5. rs \in [Slots -> Request] /\ rs[n] = r /\ \A s \in Slots : s # n => rs[s] = req[s]
  BY Zenon, <1>2, <1>3, <1>4 DEF Sends, Carries
<1>6. \A ops : ~Waiting(req[n], ops)
  BY Zenon, <1>4 DEF Waiting
<1>7. FormBusy(f, rs)
  <2>1. Busy(form.saving, req, {"submit", "create"}) /\ Busy(form.inline, req, {"project"})
    BY Zenon DEF ConsoleInv, BusyInv, FormBusy
  <2>2. /\ Raised(f.saving, form.saving, r, {"submit", "create"})
        /\ Raised(f.inline, form.inline, r, {"project"})
    BY Zenon DEF Sends
  <2>3. Busy(f.saving, rs, {"submit", "create"})
    BY <1>4, <1>5, <1>6, <2>1, <2>2, BusySent
  <2>4. Busy(f.inline, rs, {"project"})
    BY <1>4, <1>5, <1>6, <2>1, <2>2, BusySent
  <2> QED
    BY Zenon, <2>3, <2>4 DEF FormBusy
<1>8. DrawerBusy(d, rs)
  <2>1. Busy(drawer.saving, req, {"save"})
    BY Zenon DEF ConsoleInv, BusyInv, DrawerBusy
  <2>2. Raised(d.saving, drawer.saving, r, {"save"})
    BY Zenon DEF Sends
  <2> QED
    BY <1>4, <1>5, <1>6, <2>1, <2>2, BusySent DEF DrawerBusy
<1>9. RetryBusy(pg, rs)
  BY Zenon, <1>4, <1>5 DEF ConsoleInv, BusyInv, Sends, RetryBusy, Waiting
<1>10. Unanswered(rs)
  <2>1. Unanswered(req) /\ ~r.inserted
    BY Zenon DEF ConsoleInv, BusyInv, Sends, Carries
  <2> QED
    BY Zenon, <1>4, <1>5, <2>1 DEF Unanswered
<1>11. /\ \A s \in Slots : Carries(rs[s]) /\ Named(rs[s], jobs')
       /\ drawer # NoDrawer => d.of = pg.selected.queue
  BY Zenon, <1>2, <1>5 DEF ConsoleInv, ReqInv, MountInv, Sends
<1>12. /\ Render(pg, TRUE, failed, f, d, rs) /\ pg \in PageState
       /\ form # NoForm => f \in Form
       /\ drawer # NoDrawer => d \in DrawerState
  BY Zenon, <1>1 DEF Sends
<1>13. Rendered
  BY Zenon, <1>2, <1>5, <1>7, <1>8, <1>9, <1>10, <1>11, <1>12, RenderKeeps
<1>14. DataInv' /\ ListingInv'
  BY Zenon, <1>1, <1>2, DataKept, ListingKept DEF ConsoleInv, Sends
<1> QED
  BY Zenon, <1>2, <1>13, <1>14, Assembled

-----------------------------------------------------------------------------
(* The shell *)

\* The jobs page turns to another key, or is mounted.
LEMMA TurnsKeep ==
  ASSUME ConsoleInv, NEW pg \in PageState, NEW here \in BOOLEAN, TurnsTo(pg, here),
         UNCHANGED <<tables, cache, changes, faults, asked, episode>>, command' \in BOOLEAN,
         pg.retrying = IF here THEN page.retrying ELSE 0,
         here => pg.selected = page.selected
  PROVE  ConsoleInv'
<1>1. /\ fetch' = Mutated({"jobs"})
      /\ listing' \in {NoPage} \cup {Page(JobsKey(pg), table) : table \in past}
  BY Zenon DEF TurnsTo
<1>2. PICK broken \in SUBSET Keys : Render(pg, here, broken, form, drawer, req)
  BY Zenon DEF TurnsTo, ConsoleInv, UiTypes, Keys
<1>3. jobs' = jobs /\ past' = past /\ page' = pg /\ asked' \subseteq {"queues", "jobs"}
  BY Zenon, <1>2 DEF tables, Render, ConsoleInv, UiTypes
<1>4. Rendered
  BY Zenon, <1>2, <1>3, PlainRender
<1>5. DataInv'
  BY Zenon, <1>1, DataKept DEF ConsoleInv
<1>6. fetch'["jobs"] = NoFetch
  BY Zenon, <1>1 DEF Mutated, Keys
<1>7. JobsKey(page)' = JobsKey(pg)
  BY <1>3 DEF JobsKey
<1>8. ListingInv'
  BY Zenon, <1>1, <1>3, <1>6, <1>7 DEF ListingInv
<1> QED
  BY Zenon, <1>3, <1>4, <1>5, <1>8, Assembled

\* A page that has just been mounted.
LEMMA FreshTypes ==
  ASSUME NEW path \in Paths, NEW param \in Param
  PROVE  /\ FreshPage(path, param) \in PageState
         /\ FreshPage(path, param).retrying = 0
BY DEF FreshPage, PageState, Param

\* Every way to another page.
LEMMA GoesKeeps ==
  ASSUME ConsoleInv, NEW path \in Paths, NEW param \in Param, Goes(path, param),
         UNCHANGED <<tables, cache, changes, faults, asked, episode>>, command' \in BOOLEAN
  PROVE  ConsoleInv'
<1>0. page \in PageState /\ failed \in SUBSET Keys /\ asked' \subseteq {"queues", "jobs"}
  BY Zenon DEF ConsoleInv, UiTypes
<1>1. ASSUME NEW pg \in {page, [page EXCEPT !.param = param, !.open = @ \/ param.form,
                                   !.detail = IF param.job = 0 THEN @ ELSE param.job]},
             Render(pg, TRUE, failed, form, drawer, req), UNCHANGED <<fetch, listing>>
      PROVE  ConsoleInv'
  <2>1. /\ pg \in PageState /\ pg.retrying = page.retrying /\ pg.selected = page.selected
        /\ pg.filters = page.filters /\ pg.queueId = page.queueId
    BY ZenonT(30), <1>0 DEF PageState, Param
  <2>2. page' = pg /\ jobs' = jobs /\ past' = past
    BY Zenon, <1>1 DEF Render, tables
  <2>3. Rendered
    BY Zenon, <1>0, <1>1, <2>1, <2>2, PlainRender
  <2>4. JobsKey(page') = JobsKey(page)
    BY Zenon, <2>1, <2>2, SameKey
  <2>5. DataInv' /\ ListingInv'
    BY Zenon, <1>1, <2>2, <2>4, DataKept, ListingKept DEF ConsoleInv
  <2> QED
    BY Zenon, <1>0, <2>3, <2>5, Assembled
<1>2. CASE TurnsTo(FreshPage(path, param), FALSE)
  BY Zenon, <1>2, FreshTypes, TurnsKeep
<1>3. CASE /\ Render(FreshPage(path, param), FALSE, failed \ {"jobs"}, form, drawer, req)
           /\ fetch' = Mutated({"jobs"}) /\ listing' = NoPage
  <2>1. jobs' = jobs /\ failed \ {"jobs"} \in SUBSET Keys
    BY Zenon, <1>0 DEF tables
  <2>2. Rendered
    BY Zenon, <1>3, <2>1, FreshTypes, PlainRender
  <2>3. DataInv'
    BY Zenon, <1>3, DataKept DEF ConsoleInv
  <2>4. ListingInv'
    BY Zenon, <1>3 DEF ListingInv, Mutated, Keys
  <2> QED
    BY Zenon, <1>0, <2>2, <2>3, <2>4, Assembled
<1> QED
  BY Zenon, <1>1, <1>2, <1>3 DEF Goes

\* Navigation, buttons and keys of the shell, and the palette's commands.
LEMMA ShellKeeps == ConsoleInv /\ Shell => ConsoleInv'
<1> SUFFICES ASSUME ConsoleInv, Shell PROVE ConsoleInv'
  BY Zenon
<1>0. /\ page \in PageState /\ asked \subseteq {"queues", "jobs"} /\ command \in BOOLEAN
      /\ page.retrying = page.retrying
  BY Zenon DEF ConsoleInv, UiTypes
<1>1. ASSUME NEW path \in episode.paths, NEW param \in Params(path),
             Navigate(path, param) \/ RunNavigation(path, param)
      PROVE  ConsoleInv'
  <2>1. path \in Paths
    BY Zenon, EpisodesAssumption DEF ConsoleInv, DataInv
  <2>2. param \in Param
    <3>1. DOMAIN jobs \subseteq Nat
      BY DEF ConsoleInv, DataInv
    <3>2. NoParam \in Param /\ ForForm \in Param /\ \A j \in Nat : ForJob(j) \in Param
      BY DEF NoParam, ForForm, ForJob, Param
    <3> QED
      BY Zenon, <3>1, <3>2 DEF Params
  <2>3. /\ Goes(path, param) /\ command' \in BOOLEAN
        /\ UNCHANGED <<tables, cache, changes, faults, asked, episode>>
    BY Zenon, <1>0, <1>1 DEF Navigate, RunNavigation
  <2> QED
    BY Zenon, <2>1, <2>2, <2>3, GoesKeeps
<1>2. ASSUME NEW path \in {"queues", "jobs"}, TopBarButton(path) \/ OpenForm(path)
      PROVE  ConsoleInv'
  <2> DEFINE pg == [page EXCEPT !.open = TRUE]
  <2>1. /\ pg \in PageState /\ pg.retrying = page.retrying /\ pg.selected = page.selected
        /\ pg.filters = page.filters /\ pg.queueId = page.queueId
    BY Zenon, <1>0 DEF PageState
  <2>2. Set(pg) /\ asked' \subseteq {"queues", "jobs"}
    BY Zenon, <1>0, <1>2 DEF TopBarButton, OpenForm, Opens
  <2> HIDE DEF pg
  <2> QED
    BY Zenon, <2>1, <2>2, SameKey, SetKeeps
<1>3. CASE ToggleCommand
  <2>1. /\ UNCHANGED <<apiVars, page, asked, form, drawer, episode>> /\ command' \in BOOLEAN
    BY Zenon, <1>3 DEF ToggleCommand
  <2>2. DataInv' /\ ListingInv'
    BY Zenon, <2>1, DataKept, ListingKept DEF apiVars, tables, ConsoleInv
  <2>3. ReqInv' /\ BusyInv'
    BY Zenon, <2>1 DEF apiVars, ConsoleInv, ReqInv, BusyInv
  <2>4. UiTypes' /\ MountInv'
    BY Zenon, <2>1, ViewKept DEF apiVars
  <2> QED
    BY Zenon, <2>2, <2>3, <2>4 DEF ConsoleInv
<1>4. CASE Escape
  <2> DEFINE pg == [page EXCEPT !.open = @ /\ Broken(page, failed),
                                !.selected = IF Broken(page, failed) THEN @ ELSE NoQueue,
                                !.detail = IF Broken(page, failed) THEN @ ELSE 0]
  <2>1. /\ pg \in PageState /\ pg.retrying = page.retrying
        /\ pg.filters = page.filters /\ pg.queueId = page.queueId
        /\ pg.selected # NoQueue => pg.selected = page.selected
    BY Zenon, <1>0 DEF PageState
  <2>2. /\ Render(pg, TRUE, failed, form, drawer, req) /\ command' = FALSE
        /\ UNCHANGED <<tables, cache, fetch, listing, changes, faults, asked, episode>>
    BY Zenon, <1>4 DEF Escape
  <2> HIDE DEF pg
  <2>3. /\ page' = pg /\ jobs' = jobs /\ past' = past /\ failed \in SUBSET Keys
        /\ asked' \subseteq {"queues", "jobs"} /\ command' \in BOOLEAN
    BY Zenon, <2>2, <1>0 DEF Render, tables, ConsoleInv, UiTypes
  <2>4. Rendered
    BY Zenon, <2>1, <2>2, <2>3, PlainRender DEF DrawerShown
  <2>5. JobsKey(page') = JobsKey(page)
    BY Zenon, <2>1, <2>3, SameKey
  <2>6. DataInv' /\ ListingInv'
    BY Zenon, <2>2, <2>3, <2>5, DataKept, ListingKept DEF ConsoleInv
  <2> QED
    BY Zenon, <2>3, <2>4, <2>6, Assembled
<1>5. CASE CloseForm
  <2> DEFINE pg == [page EXCEPT !.open = FALSE]
  <2>1. /\ pg \in PageState /\ pg.retrying = page.retrying /\ pg.selected = page.selected
        /\ pg.filters = page.filters /\ pg.queueId = page.queueId
    BY Zenon, <1>0 DEF PageState
  <2>2. Set(pg) /\ asked' \subseteq {"queues", "jobs"}
    BY Zenon, <1>0, <1>5 DEF CloseForm, Closes
  <2> HIDE DEF pg
  <2> QED
    BY Zenon, <2>1, <2>2, SameKey, SetKeeps
<1>6. ASSUME NEW r \in Request, Send(page, form, drawer, r), command' = FALSE,
             r.op \in {"pause", "resume", "command"}, r.live = "gone", r.state = "sent",
             ~r.inserted, Named(r, jobs)
      PROVE  ConsoleInv'
  <2>1. Carries(r)
    BY Zenon, <1>6 DEF Carries
  <2>2. \A ops, flag : Raised(flag, flag, r, ops)
    BY Zenon, <1>6 DEF Raised, Waiting
  <2>3. Sends(page, form, drawer, r)
    BY Zenon, <1>0, <1>6, <2>1, <2>2 DEF Sends, ConsoleInv, MountInv
  <2> QED
    BY Zenon, <1>6, <2>3, SendKeeps
<1>7. ASSUME NEW q \in Queues, RunToggle(q)
      PROVE  ConsoleInv'
  <2> DEFINE r == [Blank EXCEPT !.op = IF cache.queues[q].paused THEN "resume" ELSE "pause",
                                !.queue = q, !.live = "gone"]
  <2>1. /\ r \in Request /\ r.op \in {"pause", "resume"} /\ r.live = "gone"
        /\ r.state = "sent" /\ ~r.inserted
    BY Zenon DEF Blank, Request, Ops
  <2>2. Send(page, form, drawer, r) /\ command' = FALSE
    BY Zenon, <1>7 DEF RunToggle
  <2> HIDE DEF r
  <2> QED
    BY Zenon, <1>6, <2>1, <2>2 DEF Named
<1>8. ASSUME NEW j \in DOMAIN jobs, RunRetry(j)
      PROVE  ConsoleInv'
  <2> DEFINE r == [Blank EXCEPT !.op = "command", !.job = j, !.live = "gone"]
  <2>1. j \in Nat
    BY DEF ConsoleInv, DataInv
  <2>2. /\ r \in Request /\ r.op = "command" /\ r.live = "gone" /\ r.job = j
        /\ r.state = "sent" /\ ~r.inserted
    BY Zenon, <2>1 DEF Blank, Request, Ops
  <2>3. Send(page, form, drawer, r) /\ command' = FALSE
    BY Zenon, <1>8 DEF RunRetry
  <2> HIDE DEF r
  <2> QED
    BY Zenon, <1>6, <2>2, <2>3 DEF Named
<1> QED
  BY Zenon, <1>1, <1>2, <1>3, <1>4, <1>5, <1>7, <1>8 DEF Shell

-----------------------------------------------------------------------------
(* The pages *)

\* A row of a table of queues.
LEMMA TableRows ==
  ASSUME NEW t \in QueueTables, NEW q \in DOMAIN t
  PROVE  q \in Queues /\ t[q] \in QueueRow
<1>1. PICK Q \in SUBSET Queues : t \in [Q -> QueueRow]
  BY Zenon DEF QueueTables
<1> QED
  BY Zenon, <1>1

\* The queues page, its drawer and its forms.
LEMMA QueuesPageKeeps == ConsoleInv /\ QueuesPage => ConsoleInv'
<1> SUFFICES ASSUME ConsoleInv, QueuesPage PROVE ConsoleInv'
  BY Zenon
<1>0. /\ page \in PageState /\ asked \subseteq {"queues", "jobs"} /\ command \in BOOLEAN
      /\ form # NoForm => form \in Form
      /\ drawer # NoDrawer => drawer \in DrawerState /\ drawer.of = page.selected.queue
  BY Zenon DEF ConsoleInv, UiTypes, MountInv
<1>1. ASSUME NEW selected \in {NoQueue} \cup [queue : Queues, row : QueueRow],
             Set([page EXCEPT !.selected = selected]), UNCHANGED asked,
             selected = NoQueue \/ drawer = NoDrawer
      PROVE  ConsoleInv'
  <2> DEFINE pg == [page EXCEPT !.selected = selected]
  <2>1. /\ pg \in PageState /\ pg.retrying = page.retrying /\ pg.selected = selected
        /\ pg.filters = page.filters /\ pg.queueId = page.queueId
    BY <1>0 DEF PageState
  <2>2. Set(pg) /\ asked' \subseteq {"queues", "jobs"}
    BY Zenon, <1>0, <1>1
  <2> HIDE DEF pg
  <2>3. JobsKey(pg) = JobsKey(page)
    BY Zenon, <2>1, SameKey
  <2>4. ~(drawer # NoDrawer /\ DrawerShown(pg, failed))
    BY Zenon, <1>1, <2>1 DEF DrawerShown
  <2> QED
    BY Zenon, <2>1, <2>2, <2>3, <2>4, SetKeeps
<1>2. ASSUME NEW q \in Queues, OpenQueue(q)
      PROVE  ConsoleInv'
  <2>1. cache.queues \in QueueTables
    BY Zenon DEF ConsoleInv, DataInv
  <2>2. cache.queues[q] \in QueueRow
    BY Zenon, <1>2, <2>1, TableRows DEF OpenQueue
  <2>3. drawer = NoDrawer
    BY Zenon, <1>2 DEF OpenQueue, OnPage, Covered
  <2> QED
    BY Zenon, <1>1, <1>2, <2>2, <2>3 DEF OpenQueue
<1>3. CASE CloseQueue
  BY Zenon, <1>1, <1>3 DEF CloseQueue
<1>4. ASSUME NEW limit \in Limit, EditLimit(limit)
      PROVE  ConsoleInv'
  <2> DEFINE d == [drawer EXCEPT !.limit = limit]
  <2>1. drawer # NoDrawer /\ Type(form, d)
    BY Zenon, <1>4 DEF EditLimit, InDrawer
  <2>2. d \in DrawerState /\ d.saving = drawer.saving /\ d.of = drawer.of
    BY Zenon, <1>0, <2>1 DEF DrawerState
  <2> HIDE DEF d
  <2> QED
    BY Zenon, <1>0, <2>1, <2>2, TypeKeeps
<1>5. CASE SaveQueue
  <2> DEFINE d == [drawer EXCEPT !.saving = TRUE]
             r == [Blank EXCEPT !.op = "save", !.queue = page.selected.queue,
                                !.of = drawer.of, !.value = drawer.limit]
  <2>1. drawer # NoDrawer /\ ~drawer.saving /\ Send(page, form, d, r) /\ command' = command
    BY Zenon, <1>5 DEF SaveQueue, InDrawer
  <2>2. d \in DrawerState /\ d.saving = TRUE /\ drawer.saving = FALSE /\ d.of = drawer.of
    BY Zenon, <1>0, <2>1 DEF DrawerState
  <2>3. /\ r \in Request /\ r.op = "save" /\ r.state = "sent" /\ r.inserted = FALSE
        /\ r.live = "form" /\ r.queue \in Queues /\ r.of = r.queue /\ r.value \in Limit
    BY Zenon, <1>0, <2>1 DEF DrawerState, Blank, Request, Ops
  <2> HIDE DEF d, r
  <2>4. Sends(page, form, d, r)
    BY Zenon, <1>0, <2>2, <2>3 DEF Sends, Carries, Named, Raised, Waiting
  <2> QED
    BY Zenon, <1>0, <2>1, <2>4, SendKeeps
<1>6. CASE TogglePause
  <2> DEFINE r == [Blank EXCEPT
                     !.op = IF page.selected.row.paused THEN "resume" ELSE "pause",
                     !.queue = page.selected.queue, !.live = "gone"]
  <2>1. drawer # NoDrawer /\ Send(page, form, drawer, r) /\ command' = command
    BY Zenon, <1>6 DEF TogglePause, InDrawer
  <2>2. page.selected.queue \in Queues
    BY Zenon, <1>0, <2>1 DEF DrawerState
  <2>3. /\ r \in Request /\ r.op \in {"pause", "resume"} /\ r.state = "sent"
        /\ r.inserted = FALSE /\ r.live = "gone"
    BY Zenon, <2>2 DEF Blank, Request, Ops
  <2> HIDE DEF r
  <2>4. Sends(page, form, drawer, r)
    BY Zenon, <1>0, <2>3 DEF Sends, Carries, Named, Raised, Waiting
  <2> QED
    BY Zenon, <1>0, <2>1, <2>4, SendKeeps
<1>7. ASSUME NEW q \in Queues, NEW limit \in Limit, CreateQueue(q, limit)
      PROVE  ConsoleInv'
  <2> DEFINE f == [form EXCEPT !.saving = TRUE]
             r == [Blank EXCEPT !.op = "create", !.queue = q, !.value = limit]
  <2>1. form # NoForm /\ ~form.saving /\ Send(page, f, drawer, r) /\ command' = command
    BY Zenon, <1>7 DEF CreateQueue, InForm
  <2>2. f \in Form /\ f.saving = TRUE /\ form.saving = FALSE /\ f.inline = form.inline
    BY Zenon, <1>0, <2>1 DEF Form
  <2>3. /\ r \in Request /\ r.op = "create" /\ r.state = "sent" /\ r.inserted = FALSE
        /\ r.live = "form" /\ r.queue \in Queues /\ r.value \in Limit
    BY Zenon DEF Blank, Request, Ops, Limit
  <2> HIDE DEF f, r
  <2>4. Sends(page, f, drawer, r)
    BY Zenon, <1>0, <2>2, <2>3 DEF Sends, Carries, Named, Raised, Waiting
  <2> QED
    BY Zenon, <1>0, <2>1, <2>4, SendKeeps
<1>8. CASE CreateProject
  <2> DEFINE f == [form EXCEPT !.inline = TRUE]
  <2>1. form # NoForm /\ ~form.inline /\ Send(page, f, drawer, Blank) /\ command' = command
    BY Zenon, <1>8 DEF CreateProject, InForm
  <2>2. f \in Form /\ f.inline = TRUE /\ form.inline = FALSE /\ f.saving = form.saving
    BY Zenon, <1>0, <2>1 DEF Form
  <2>3. /\ Blank \in Request /\ Blank.op = "project" /\ Blank.state = "sent"
        /\ Blank.inserted = FALSE /\ Blank.live = "form"
    BY DEF Blank, Request, Ops
  <2> HIDE DEF f
  <2>4. Sends(page, f, drawer, Blank)
    BY Zenon, <1>0, <2>2, <2>3 DEF Sends, Carries, Named, Raised, Waiting
  <2> QED
    BY Zenon, <1>0, <2>1, <2>4, SendKeeps
<1> QED
  BY Zenon, <1>2, <1>3, <1>4, <1>5, <1>6, <1>7, <1>8 DEF QueuesPage

\* The jobs page, its filters, its detail drawer and its form.
LEMMA JobsPageKeeps == ConsoleInv /\ JobsPage => ConsoleInv'
<1> SUFFICES ASSUME ConsoleInv, JobsPage PROVE ConsoleInv'
  BY Zenon
<1>0. /\ page \in PageState /\ asked \subseteq {"queues", "jobs"} /\ command \in BOOLEAN
      /\ form # NoForm => form \in Form
      /\ drawer # NoDrawer => drawer \in DrawerState
  BY Zenon DEF ConsoleInv, UiTypes, MountInv
<1>1. ASSUME NEW pg \in PageState, Filters(pg), pg.retrying = page.retrying,
             pg.selected = page.selected
      PROVE  ConsoleInv'
  <2>1. UNCHANGED asked /\ asked' \subseteq {"queues", "jobs"}
    BY Zenon, <1>0, <1>1 DEF Filters
  <2>2. CASE JobsKey(pg) = JobsKey(page) /\ Set(pg)
    BY Zenon, <1>1, <2>1, <2>2, SetKeeps
  <2>3. CASE /\ TurnsTo(pg, TRUE)
             /\ UNCHANGED <<tables, cache, changes, faults, command, episode>>
    BY Zenon, <1>0, <1>1, <2>1, <2>3, TurnsKeep
  <2> QED
    BY Zenon, <1>1, <2>2, <2>3 DEF Filters
<1>2. ASSUME NEW x \in Statuses, toggleStatus(x)
      PROVE  ConsoleInv'
  <2> DEFINE pg == [page EXCEPT !.filters = IF x \in @ THEN @ \ {x} ELSE @ \cup {x}]
  <2>1. pg \in PageState /\ pg.retrying = page.retrying /\ pg.selected = page.selected
    BY <1>0 DEF PageState
  <2>2. Filters(pg)
    BY Zenon, <1>2 DEF toggleStatus
  <2> HIDE DEF pg
  <2> QED
    BY Zenon, <1>1, <2>1, <2>2
<1>3. ASSUME NEW q \in Queues \cup {Unset}, SelectQueue(q)
      PROVE  ConsoleInv'
  <2> DEFINE pg == [page EXCEPT !.queueId = q]
  <2>1. pg \in PageState /\ pg.retrying = page.retrying /\ pg.selected = page.selected
    BY <1>0 DEF PageState
  <2>2. Filters(pg)
    BY Zenon, <1>3 DEF SelectQueue
  <2> HIDE DEF pg
  <2> QED
    BY Zenon, <1>1, <2>1, <2>2
<1>4. ASSUME NEW q \in Queues, SubmitJob(q)
      PROVE  ConsoleInv'
  <2> DEFINE f == [form EXCEPT !.saving = TRUE]
             r == [Blank EXCEPT !.op = "submit", !.queue = q, !.value = form.name]
  <2>1. form # NoForm /\ ~form.saving /\ Send(page, f, drawer, r) /\ command' = command
    BY Zenon, <1>4 DEF SubmitJob, InForm
  <2>2. f \in Form /\ f.saving = TRUE /\ form.saving = FALSE /\ f.inline = form.inline
    BY Zenon, <1>0, <2>1 DEF Form
  <2>3. /\ r \in Request /\ r.op = "submit" /\ r.state = "sent" /\ r.inserted = FALSE
        /\ r.live = "form" /\ r.queue \in Queues /\ r.value \in Names \cup {NoName}
    BY Zenon, <1>0, <2>1 DEF Form, Blank, Request, Ops
  <2> HIDE DEF f, r
  <2>4. Sends(page, f, drawer, r)
    BY Zenon, <1>0, <2>2, <2>3 DEF Sends, Carries, Named, Raised, Waiting
  <2> QED
    BY Zenon, <1>0, <2>1, <2>4, SendKeeps
<1>5. ASSUME NEW j \in Nat, Set([page EXCEPT !.detail = j]), UNCHANGED asked
      PROVE  ConsoleInv'
  <2> DEFINE pg == [page EXCEPT !.detail = j]
  <2>1. /\ pg \in PageState /\ pg.retrying = page.retrying /\ pg.selected = page.selected
        /\ pg.filters = page.filters /\ pg.queueId = page.queueId
    BY <1>0 DEF PageState
  <2>2. Set(pg) /\ asked' \subseteq {"queues", "jobs"}
    BY Zenon, <1>0, <1>5
  <2> HIDE DEF pg
  <2> QED
    BY Zenon, <2>1, <2>2, SameKey, SetKeeps
<1>6. ASSUME NEW j \in DOMAIN jobs, OpenDetail(j)
      PROVE  ConsoleInv'
  <2>1. j \in Nat
    BY DEF ConsoleInv, DataInv
  <2> QED
    BY Zenon, <1>5, <1>6, <2>1 DEF OpenDetail
<1>7. CASE CloseDetail
  <2>1. 0 \in Nat
    OBVIOUS
  <2> QED
    BY Zenon, <1>5, <1>7, <2>1 DEF CloseDetail
<1>8. ASSUME NEW name \in Names \cup {NoName}, EditName(name)
      PROVE  ConsoleInv'
  <2> DEFINE f == [form EXCEPT !.name = name]
  <2>1. form # NoForm /\ Type(f, drawer)
    BY Zenon, <1>8 DEF EditName, InForm
  <2>2. f \in Form /\ f.saving = form.saving /\ f.inline = form.inline
    BY Zenon, <1>0, <2>1 DEF Form
  <2> HIDE DEF f
  <2> QED
    BY Zenon, <1>0, <2>1, <2>2, TypeKeeps
<1> QED
  BY Zenon, <1>2, <1>3, <1>4, <1>6, <1>7, <1>8 DEF JobsPage

\* The dead-letter page.
LEMMA RetryJobKeeps ==
  ASSUME ConsoleInv, NEW j \in DOMAIN jobs, RetryJob(j)
  PROVE  ConsoleInv'
<1> DEFINE pg == [page EXCEPT !.retrying = j]
           r == [Blank EXCEPT !.op = "retry", !.job = j]
<1>0. /\ page \in PageState /\ command \in BOOLEAN
      /\ form # NoForm => form \in Form
      /\ drawer # NoDrawer => drawer \in DrawerState
  BY Zenon DEF ConsoleInv, UiTypes, MountInv
<1>1. j \in Nat
  BY DEF ConsoleInv, DataInv
<1>2. /\ pg \in PageState /\ pg.retrying = j /\ pg.selected = page.selected
      /\ pg.filters = page.filters /\ pg.queueId = page.queueId
  BY <1>0, <1>1 DEF PageState
<1>3. /\ r \in Request /\ r.op = "retry" /\ r.state = "sent" /\ r.inserted = FALSE
      /\ r.live = "form" /\ r.job = j
  BY Zenon, <1>1 DEF Blank, Request, Ops
<1>4. Send(pg, form, drawer, r) /\ command' = command
  BY Zenon DEF RetryJob
<1> HIDE DEF pg, r
<1>5. JobsKey(pg) = JobsKey(page)
  BY Zenon, <1>2, SameKey
<1>6. Sends(pg, form, drawer, r)
  BY Zenon, <1>0, <1>2, <1>3, <1>5 DEF Sends, Carries, Named, Raised, Waiting
<1> QED
  BY Zenon, <1>0, <1>4, <1>6, SendKeeps

-----------------------------------------------------------------------------
(* Answers *)

\* The page after an answer.
LEMMA AfterTypes ==
  ASSUME page \in PageState, NEW r \in Request, NEW pg, pg = After(r)
  PROVE  /\ pg \in PageState /\ JobsKey(pg) = JobsKey(page)
         /\ pg.selected \in {page.selected, NoQueue}
         /\ pg.retrying = IF r.op = "retry" /\ r.live # "gone" THEN 0 ELSE page.retrying
         /\ r.op = "submit" /\ r.state = "ok" /\ r.live # "gone" => pg.open = FALSE
<1>1. CASE pg = page /\ ~(r.op = "retry" /\ r.live # "gone")
                     /\ ~(r.op = "submit" /\ r.state = "ok" /\ r.live # "gone")
  BY Zenon, <1>1
<1>2. CASE r.op = "submit" /\ pg = [page EXCEPT !.open = FALSE, !.detail = r.job]
  <2>1. /\ pg \in PageState /\ pg.retrying = page.retrying /\ pg.selected = page.selected
        /\ pg.filters = page.filters /\ pg.queueId = page.queueId /\ pg.open = FALSE
    BY Zenon, <1>2 DEF PageState, Request
  <2> QED
    BY Zenon, <1>2, <2>1, SameKey
<1>3. CASE r.op = "create" /\ pg = [page EXCEPT !.open = FALSE]
  <2>1. /\ pg \in PageState /\ pg.retrying = page.retrying /\ pg.selected = page.selected
        /\ pg.filters = page.filters /\ pg.queueId = page.queueId /\ pg.open = FALSE
    BY Zenon, <1>3 DEF PageState
  <2> QED
    BY Zenon, <1>3, <2>1, SameKey
<1>4. CASE r.op = "save" /\ pg = [page EXCEPT !.selected = NoQueue]
  <2>1. /\ pg \in PageState /\ pg.retrying = page.retrying /\ pg.selected = NoQueue
        /\ pg.filters = page.filters /\ pg.queueId = page.queueId
    BY <1>4 DEF PageState
  <2> QED
    BY Zenon, <1>4, <2>1, SameKey
<1>5. CASE r.op = "retry" /\ r.live # "gone" /\ pg = [page EXCEPT !.retrying = 0]
  <2>1. /\ pg \in PageState /\ pg.retrying = 0 /\ pg.selected = page.selected
        /\ pg.filters = page.filters /\ pg.queueId = page.queueId
    BY <1>5 DEF PageState
  <2> QED
    BY Zenon, <1>5, <2>1, SameKey
<1>6. CASE r.live = "gone"
  BY Zenon, <1>1, <1>6 DEF After
<1>7. CASE r.live # "gone" /\ r.op = "submit" /\ r.state = "ok"
  BY Zenon, <1>2, <1>7 DEF After
<1>8. CASE r.live # "gone" /\ r.op = "create" /\ r.state = "ok"
  BY Zenon, <1>3, <1>8 DEF After, Closes
<1>9. CASE r.live # "gone" /\ r.op = "save" /\ r.state = "ok"
  BY Zenon, <1>4, <1>9 DEF After
<1>10. CASE r.live # "gone" /\ r.op = "retry"
  BY Zenon, <1>5, <1>10 DEF After
<1>11. CASE /\ r.live # "gone" /\ r.op # "retry"
            /\ ~(r.op \in {"submit", "create", "save"} /\ r.state = "ok")
  <2>1. pg = page
    BY <1>11 DEF After
  <2> QED
    BY Zenon, <1>1, <1>11, <2>1
<1> QED
  BY Zenon, <1>6, <1>7, <1>8, <1>9, <1>10, <1>11

\* The form after the answer to a request of its own.
LEMMA FreedTypes ==
  ASSUME form \in Form, NEW r \in Request, NEW f, f = Freed(r)
  PROVE  /\ f \in Form
         /\ f.saving = IF r.op \in {"submit", "create"} THEN FALSE ELSE form.saving
         /\ f.inline = IF r.op = "project" THEN FALSE ELSE form.inline
BY Zenon DEF Freed, Form

\* Once its request is answered a control waits for nothing.
LEMMA BusyAnswered ==
  ASSUME NEW n \in Slots, NEW rs, NEW ops, NEW old, NEW new,
         ~Waiting(rs[n], ops), \A s \in Slots : s # n => rs[s] = req[s],
         Busy(old, req, ops), Waiting(req[n], ops) => new = FALSE,
         ~Waiting(req[n], ops) => new = old
  PROVE  Busy(new, rs, ops)
BY Zenon DEF Busy

\* An answer reaches what is left of its sender.
LEMMA ReceiveKeeps ==
  ASSUME ConsoleInv, NEW n \in Slots, Receive(n)
  PROVE  ConsoleInv'
<1>r. PICK r \in Request : r = req[n]
  BY Zenon DEF ConsoleInv, ReqInv
<1>f. PICK f : f = IF r.live = "form" THEN Freed(r) ELSE form
  BY Zenon
<1>d. PICK d : d = IF r.live = "form" /\ r.op = "save"
                   THEN [drawer EXCEPT !.saving = FALSE] ELSE drawer
  BY Zenon
<1>p. PICK pg : pg = After(r)
  BY Zenon
<1>t. PICK rs : rs = [req EXCEPT ![n].state = "done"]
  BY Zenon
<1>1. /\ r.state \in {"ok", "error"} /\ fetch' = Mutated(Refreshed(r))
      /\ Render(pg, TRUE, failed, f, d, rs)
      /\ UNCHANGED <<tables, cache, listing, changes, faults, asked, command, episode>>
  BY Zenon, <1>r, <1>f, <1>d, <1>p, <1>t DEF Receive
<1>2. /\ page \in PageState /\ failed \in SUBSET Keys /\ req \in [Slots -> Request]
      /\ page' = pg /\ jobs' = jobs /\ past' = past
      /\ asked' \subseteq {"queues", "jobs"} /\ command' \in BOOLEAN
      /\ form # NoForm => form \in Form
      /\ drawer # NoDrawer => drawer \in DrawerState /\ drawer.of = page.selected.queue
  BY Zenon, <1>1 DEF ConsoleInv, UiTypes, ReqInv, MountInv, Render, tables
<1>3. /\ pg \in PageState /\ JobsKey(pg) = JobsKey(page)
      /\ pg.selected \in {page.selected, NoQueue}
      /\ pg.retrying = IF r.op = "retry" /\ r.live # "gone" THEN 0 ELSE page.retrying
      /\ r.op = "submit" /\ r.state = "ok" /\ r.live # "gone" => pg.open = FALSE
  BY Zenon, <1>2, <1>p, AfterTypes
<1>4. rs \in [Slots -> Request] /\ \A s \in Slots : s # n => rs[s] = req[s]
  BY ZenonT(30), <1>2, <1>t DEF Request
<1>5. /\ rs[n].op = r.op /\ rs[n].live = r.live /\ rs[n].queue = r.queue /\ rs[n].of = r.of
      /\ rs[n].value = r.value /\ rs[n].job = r.job /\ rs[n].state = "done"
      /\ rs[n].inserted = r.inserted /\ rs[n].lost = r.lost
  BY Zenon, <1>2, <1>r, <1>t DEF Request
<1>6. \A s \in Slots : Carries(rs[s]) /\ Named(rs[s], jobs')
  <2>1. Carries(r) /\ Named(r, jobs) /\ \A s \in Slots : Carries(req[s]) /\ Named(req[s], jobs)
    BY Zenon, <1>r DEF ConsoleInv, ReqInv
  <2>2. Carries(rs[n]) /\ Named(rs[n], jobs)
    BY <1>4, <1>5, <2>1 DEF Carries, Named
  <2> QED
    BY Zenon, <1>2, <1>4, <2>1, <2>2
<1>7. /\ \A ops : ~Waiting(rs[n], ops)
      /\ Waiting(req[n], {"submit", "create"})
           <=> r.op \in {"submit", "create"} /\ r.live = "form"
      /\ Waiting(req[n], {"project"}) <=> r.op = "project" /\ r.live = "form"
      /\ Waiting(req[n], {"save"}) <=> r.op = "save" /\ r.live = "form"
      /\ Waiting(req[n], {"retry"}) <=> r.op = "retry" /\ r.live = "form"
  BY Zenon, <1>1, <1>5, <1>r DEF Waiting
<1>8. ASSUME form # NoForm
      PROVE  f \in Form /\ FormBusy(f, rs)
  <2>1. /\ f \in Form
        /\ f.saving = IF r.op \in {"submit", "create"} /\ r.live = "form" THEN FALSE
                      ELSE form.saving
        /\ f.inline = IF r.op = "project" /\ r.live = "form" THEN FALSE ELSE form.inline
    BY Zenon, <1>2, <1>8, <1>f, FreedTypes
  <2>2. Busy(form.saving, req, {"submit", "create"}) /\ Busy(form.inline, req, {"project"})
    BY Zenon DEF ConsoleInv, BusyInv, FormBusy
  <2>3. /\ Waiting(req[n], {"submit", "create"}) => f.saving = FALSE
        /\ ~Waiting(req[n], {"submit", "create"}) => f.saving = form.saving
        /\ Waiting(req[n], {"project"}) => f.inline = FALSE
        /\ ~Waiting(req[n], {"project"}) => f.inline = form.inline
    BY Zenon, <1>7, <2>1
  <2>4. Busy(f.saving, rs, {"submit", "create"})
    BY Zenon, <1>4, <1>7, <2>2, <2>3, BusyAnswered
  <2>5. Busy(f.inline, rs, {"project"})
    BY Zenon, <1>4, <1>7, <2>2, <2>3, BusyAnswered
  <2> QED
    BY Zenon, <2>1, <2>4, <2>5 DEF FormBusy
<1>9. ASSUME drawer # NoDrawer
      PROVE  d \in DrawerState /\ d.of = page.selected.queue /\ DrawerBusy(d, rs)
  <2>1. /\ d \in DrawerState /\ d.of = drawer.of
        /\ d.saving = IF r.op = "save" /\ r.live = "form" THEN FALSE ELSE drawer.saving
    BY Zenon, <1>2, <1>9, <1>d DEF DrawerState
  <2>2. Busy(drawer.saving, req, {"save"})
    BY Zenon DEF ConsoleInv, BusyInv, DrawerBusy
  <2>3. /\ Waiting(req[n], {"save"}) => d.saving = FALSE
        /\ ~Waiting(req[n], {"save"}) => d.saving = drawer.saving
    BY Zenon, <1>7, <2>1
  <2>4. Busy(d.saving, rs, {"save"})
    BY Zenon, <1>4, <1>7, <2>2, <2>3, BusyAnswered
  <2> QED
    BY Zenon, <1>2, <1>9, <2>1, <2>4 DEF DrawerBusy
<1>10. RetryBusy(pg, rs)
  BY Zenon, <1>3, <1>4, <1>7, <1>r DEF ConsoleInv, BusyInv, RetryBusy, Waiting
<1>11. FormShown(pg, failed) => Unanswered(rs)
  <2>1. Unanswered(req)
    BY Zenon DEF ConsoleInv, BusyInv
  <2>2. r.op = "submit" /\ r.live = "form" /\ r.inserted /\ ~r.lost => pg.open = FALSE
    BY Zenon, <1>3, <1>r, <2>1 DEF Unanswered
  <2> QED
    BY ZenonT(30), <1>4, <1>5, <2>1, <2>2 DEF Unanswered, FormShown
<1>12. DrawerShown(pg, failed) => pg.selected = page.selected
  BY Zenon, <1>3 DEF DrawerShown
<1>13. Rendered
  BY Zenon, <1>1, <1>2, <1>3, <1>4, <1>6, <1>8, <1>9, <1>10, <1>11, <1>12, RenderKeeps
<1>14. DataInv' /\ ListingInv'
  BY Zenon, <1>1, <1>2, <1>3, DataKept, ListingKept DEF ConsoleInv
<1> QED
  BY Zenon, <1>2, <1>13, <1>14, Assembled

\* The palette's retry is answered, and the dead-letter page is opened.
LEMMA ReceiveCommandKeeps ==
  ASSUME ConsoleInv, NEW n \in Slots, ReceiveCommand(n)
  PROVE  ConsoleInv'
<1>t. PICK rs : rs = [req EXCEPT ![n] = Over]
  BY Zenon
<1>1. /\ req[n].op = "command" /\ fetch' = Mutated({"dlq", "jobs"})
      /\ UNCHANGED <<tables, cache, changes, faults, asked, command, episode>>
      /\ \/ Render(page, TRUE, failed, form, drawer, rs) /\ UNCHANGED listing
         \/ /\ Render(FreshPage("dlq", NoParam), FALSE, failed \ {"jobs"}, form, drawer, rs)
            /\ listing' = NoPage
  BY Zenon, <1>t DEF ReceiveCommand
<1>2. /\ page \in PageState /\ failed \in SUBSET Keys /\ failed \ {"jobs"} \in SUBSET Keys
      /\ req \in [Slots -> Request] /\ jobs' = jobs /\ past' = past
      /\ asked' \subseteq {"queues", "jobs"} /\ command' \in BOOLEAN
      /\ form # NoForm => form \in Form
      /\ drawer # NoDrawer => drawer \in DrawerState /\ drawer.of = page.selected.queue
  BY Zenon, <1>1 DEF ConsoleInv, UiTypes, ReqInv, MountInv, tables
<1>3. Over \in Request /\ Over.op = "project" /\ Over.live = "gone" /\ Over.state = "done"
  BY ZenonT(30) DEF Over, Blank, Request, Ops
<1>4. /\ rs \in [Slots -> Request] /\ rs[n] = Over
      /\ \A s \in Slots : s # n => rs[s] = req[s]
  BY Zenon, <1>2, <1>3, <1>t
<1>5. \A s \in Slots : Carries(rs[s]) /\ Named(rs[s], jobs')
  BY Zenon, <1>2, <1>3, <1>4 DEF ConsoleInv, ReqInv, Carries, Named
<1>6. ASSUME NEW s \in Slots
      PROVE  /\ Waiting(rs[s], {"submit", "create"}) <=> Waiting(req[s], {"submit", "create"})
             /\ Waiting(rs[s], {"project"}) <=> Waiting(req[s], {"project"})
             /\ Waiting(rs[s], {"save"}) <=> Waiting(req[s], {"save"})
             /\ Waiting(rs[s], {"retry"}) <=> Waiting(req[s], {"retry"})
             /\ Waiting(rs[s], {"retry"}) => rs[s] = req[s]
  BY Zenon, <1>1, <1>3, <1>4 DEF Waiting
<1>7. /\ FormBusy(form, req) /\ DrawerBusy(drawer, req) /\ RetryBusy(page, req)
      /\ Unanswered(req)
  BY Zenon DEF ConsoleInv, BusyInv
<1>8. FormBusy(form, rs) /\ DrawerBusy(drawer, rs) /\ RetryBusy(page, rs)
  BY Zenon, <1>6, <1>7 DEF FormBusy, DrawerBusy, RetryBusy, Busy
<1>9. Unanswered(rs)
  BY Zenon, <1>3, <1>4, <1>7 DEF Unanswered
<1>10. DataInv' /\ fetch'["jobs"] = NoFetch
  BY Zenon, <1>1, DataKept DEF ConsoleInv, Mutated, Keys
<1>11. CASE Render(page, TRUE, failed, form, drawer, rs) /\ UNCHANGED listing
  <2>1. Rendered
    BY Zenon, <1>2, <1>4, <1>5, <1>8, <1>9, <1>11, RenderKeeps
  <2>2. ListingInv'
    BY Zenon, <1>2, <1>10, <1>11, ListingKept DEF Render, ConsoleInv
  <2> QED
    BY Zenon, <1>2, <1>10, <2>1, <2>2, Assembled
<1>12. CASE /\ Render(FreshPage("dlq", NoParam), FALSE, failed \ {"jobs"}, form, drawer, rs)
            /\ listing' = NoPage
  <2>1. "dlq" \in Paths /\ NoParam \in Param
    BY DEF Paths, NoParam, Param
  <2>2. PICK pg \in PageState : pg = FreshPage("dlq", NoParam) /\ pg.retrying = 0
    BY Zenon, <2>1, FreshTypes
  <2>3. RetryBusy(pg, rs)
    BY Zenon, <2>2 DEF RetryBusy
  <2>4. Rendered
    BY Zenon, <1>2, <1>4, <1>5, <1>12, <2>2, <2>3, RenderKeeps
  <2>5. ListingInv'
    BY Zenon, <1>10, <1>12 DEF ListingInv
  <2> QED
    BY Zenon, <1>2, <1>10, <2>4, <2>5, Assembled
<1> QED
  BY Zenon, <1>1, <1>11, <1>12

-----------------------------------------------------------------------------
(* Polling *)

\* A row of a table is one, and its index a number.
LEMMA SeqRow ==
  ASSUME NEW S, NEW t \in Seq(S), NEW j \in DOMAIN t
  PROVE  t[j] \in S /\ j \in Nat
OBVIOUS

\* What a fetch brings is of the kind its key holds.
LEMMA ReadKeeps ==
  ASSUME ConsoleInv, NEW k \in Keys, Read(k, JobsKey(page)), UNCHANGED <<uiVars, episode>>
  PROVE  ConsoleInv'
<1>1. /\ fetch' = [fetch EXCEPT ![k] = <<Truth(k, JobsKey(page))>>]
      /\ UNCHANGED <<tables, cache, failed, listing, req, changes, faults>>
  BY Zenon DEF Read
<1>2. /\ UNCHANGED <<page, asked, form, drawer, command, projects, queues, jobs, letters,
                   burying, past>>
  BY Zenon, <1>1 DEF uiVars, tables
<1>3. DOMAIN fetch = Keys /\ command' \in BOOLEAN
  BY Zenon, <1>2 DEF ConsoleInv, DataInv, UiTypes
<1>4. DataInv'
  <2>1. /\ DOMAIN fetch' = Keys
        /\ \A x \in Keys : x # k => fetch'[x] = fetch[x]
        /\ fetch'[k] = <<Truth(k, JobsKey(page))>> /\ fetch'[k][1] = Truth(k, JobsKey(page))
    BY <1>1, <1>3
  <2>2. /\ Truth("queues", JobsKey(page)) = queues /\ Truth("projects", JobsKey(page)) = projects
        /\ Truth("dlq", JobsKey(page)) = GetDlq
    BY Zenon DEF Truth, GetQueues, GetProjects
  <2>3. GetDlq \subseteq DOMAIN jobs
    <3>1. letters \in Seq(DOMAIN jobs)
      BY Zenon DEF ConsoleInv, DataInv, LetterTypes
    <3> QED
      BY Zenon, <3>1, SeqRow DEF GetDlq
  <2> QED
    BY Zenon, <1>1, <1>2, <2>1, <2>2, <2>3 DEF ConsoleInv, DataInv, LetterTypes, Keys
<1>5. ListingInv'
  <2>1. jobs \in past /\ Truth("jobs", JobsKey(page)) = Page(JobsKey(page), jobs)
    BY Zenon DEF ConsoleInv, DataInv, Truth
  <2>2. \/ k # "jobs" /\ fetch'["jobs"] = fetch["jobs"]
        \/ fetch'["jobs"] = <<Page(JobsKey(page), jobs)>>
    BY Zenon, <1>1, <1>3, <2>1 DEF Keys
  <2>3. JobsKey(page)' = JobsKey(page)
    BY <1>2 DEF JobsKey
  <2> QED
    BY Zenon, <1>1, <1>2, <2>1, <2>2, <2>3 DEF ConsoleInv, ListingInv
<1>6. ReqInv' /\ BusyInv'
  BY Zenon, <1>1, <1>2 DEF ConsoleInv, ReqInv, BusyInv
<1>7. UiTypes' /\ MountInv'
  BY Zenon, <1>1, <1>2, <1>3, ViewKept
<1> QED
  BY Zenon, <1>4, <1>5, <1>6, <1>7 DEF ConsoleInv

\* A fetch fails: the page may be replaced by its error panel.
LEMMA FetchFailsKeeps ==
  ASSUME ConsoleInv, NEW k \in Keys, FetchFails(k)
  PROVE  ConsoleInv'
<1>1. /\ fetch' = [fetch EXCEPT ![k] = NoFetch]
      /\ Render(page, TRUE, failed \cup {k}, form, drawer, req)
      /\ UNCHANGED <<tables, cache, listing, changes, asked, command, episode>>
  BY Zenon DEF FetchFails
<1>2. /\ page \in PageState /\ failed \cup {k} \in SUBSET Keys /\ page' = page
      /\ jobs' = jobs /\ past' = past /\ asked' \subseteq {"queues", "jobs"}
      /\ command' \in BOOLEAN /\ DOMAIN fetch = Keys
  BY Zenon, <1>1 DEF ConsoleInv, UiTypes, DataInv, tables, Render
<1>3. faults' \in Nat
  BY DEF FetchFails, Fault, ConsoleInv, DataInv
<1>4. DOMAIN fetch' = Keys /\ \A x \in Keys : fetch'[x] \in {fetch[x], NoFetch}
  BY Zenon, <1>1, <1>2
<1>5. Rendered
  BY Zenon, <1>1, <1>2, PlainRender
<1>6. DataInv'
  BY Zenon, <1>1, <1>3, <1>4, FetchesDropped DEF ConsoleInv
<1>7. fetch'["jobs"] \in {fetch["jobs"], NoFetch}
  BY Zenon, <1>4 DEF Keys
<1>8. ListingInv'
  BY Zenon, <1>1, <1>2, <1>7, ListingKept DEF ConsoleInv
<1> QED
  BY Zenon, <1>2, <1>5, <1>6, <1>8, Assembled

\* Data arrives.  With a first project its inline form is gone, and the
\* request of that form has no sender.
LEMMA ArriveKeeps ==
  ASSUME ConsoleInv, NEW k \in Keys, Arrive(k)
  PROVE  ConsoleInv'
<1>k. PICK known \in BOOLEAN : known = (k = "projects" /\ fetch[k][1])
  <2>1. k = "projects" => fetch[k][1] \in BOOLEAN
    BY Zenon DEF Arrive, ConsoleInv, DataInv
  <2> QED
    BY Zenon, <2>1
<1>f. PICK f : f = IF known /\ form # NoForm THEN [form EXCEPT !.inline = FALSE] ELSE form
  BY Zenon
<1>t. PICK rs : rs = [s \in Slots |-> IF known /\ req[s].op = "project" /\ req[s] # Unsent
                                      THEN [req[s] EXCEPT !.live = "gone"] ELSE req[s]]
  BY Zenon
<1>1. /\ fetch[k] # NoFetch /\ fetch' = [fetch EXCEPT ![k] = NoFetch]
      /\ \/ k = "jobs" /\ listing' = fetch[k][1] /\ UNCHANGED cache
         \/ k # "jobs" /\ cache' = [cache EXCEPT ![k] = fetch[k][1]] /\ UNCHANGED listing
      /\ Render(page, TRUE, failed \ {k}, f, drawer, rs)
      /\ UNCHANGED <<tables, changes, faults, asked, command, episode>>
  BY Zenon, <1>k, <1>f, <1>t DEF Arrive
<1>2. /\ page \in PageState /\ failed \ {k} \in SUBSET Keys /\ page' = page
      /\ req \in [Slots -> Request]
      /\ jobs' = jobs /\ past' = past /\ asked' \subseteq {"queues", "jobs"}
      /\ command' \in BOOLEAN /\ DOMAIN fetch = Keys
      /\ form # NoForm => form \in Form
      /\ drawer # NoDrawer => drawer \in DrawerState /\ drawer.of = page.selected.queue
  BY Zenon, <1>1 DEF ConsoleInv, UiTypes, DataInv, ReqInv, MountInv, tables, Render
<1>3. ASSUME NEW s \in Slots
      PROVE  /\ rs[s] \in Request /\ Carries(rs[s]) /\ Named(rs[s], jobs')
             /\ rs[s] = req[s] \/ (known /\ req[s].op = "project" /\ rs[s].op = "project"
                                         /\ rs[s].live = "gone")
             /\ known /\ req[s].op = "project" => rs[s].live # "form"
  <2>1. Carries(req[s]) /\ Named(req[s], jobs') /\ req[s] \in Request
    BY Zenon, <1>2 DEF ConsoleInv, ReqInv
  <2>2. CASE known /\ req[s].op = "project" /\ req[s] # Unsent
    <3>1. rs[s] = [req[s] EXCEPT !.live = "gone"]
      BY Zenon, <1>t, <2>2
    <3>2. /\ rs[s] \in Request /\ rs[s].op = "project" /\ rs[s].live = "gone"
          /\ rs[s].state = req[s].state /\ rs[s].inserted = req[s].inserted
      BY <2>1, <2>2, <3>1 DEF Request
    <3> QED
      BY <2>1, <2>2, <3>2 DEF Carries, Named
  <2>3. CASE ~(known /\ req[s].op = "project" /\ req[s] # Unsent)
    <3>1. rs[s] = req[s]
      BY Zenon, <1>t, <2>3
    <3>2. Unsent.live = "page"
      BY DEF Unsent, Blank
    <3> QED
      BY Zenon, <2>1, <2>3, <3>1, <3>2
  <2> QED
    BY Zenon, <2>2, <2>3
<1>4. rs \in [Slots -> Request]
  BY Zenon, <1>3, <1>t
<1>5. ASSUME NEW s \in Slots
      PROVE  /\ Waiting(rs[s], {"submit", "create"}) <=> Waiting(req[s], {"submit", "create"})
             /\ Waiting(rs[s], {"project"}) <=> ~known /\ Waiting(req[s], {"project"})
             /\ Waiting(rs[s], {"save"}) <=> Waiting(req[s], {"save"})
             /\ Waiting(rs[s], {"retry"}) <=> Waiting(req[s], {"retry"})
             /\ Waiting(req[s], {"retry"}) => rs[s] = req[s]
  BY Zenon, <1>3 DEF Waiting
<1>6. /\ FormBusy(form, req) /\ DrawerBusy(drawer, req) /\ RetryBusy(page, req)
      /\ Unanswered(req)
  BY Zenon DEF ConsoleInv, BusyInv
<1>7. DrawerBusy(drawer, rs) /\ RetryBusy(page, rs) /\ Unanswered(rs)
  <2>1. DrawerBusy(drawer, rs)
    BY Zenon, <1>5, <1>6 DEF DrawerBusy, Busy
  <2>2. RetryBusy(page, rs)
    BY Zenon, <1>5, <1>6 DEF RetryBusy
  <2>3. Unanswered(rs)
    BY Zenon, <1>3, <1>6 DEF Unanswered
  <2> QED
    BY Zenon, <2>1, <2>2, <2>3
<1>8. ASSUME form # NoForm
      PROVE  f \in Form /\ FormBusy(f, rs)
  <2>1. /\ f \in Form /\ f.saving = form.saving
        /\ f.inline = IF known THEN FALSE ELSE form.inline
    BY Zenon, <1>2, <1>8, <1>f DEF Form
  <2> QED
    BY Zenon, <1>5, <1>6, <2>1 DEF FormBusy, Busy
<1>9. Rendered
  BY Zenon, <1>1, <1>2, <1>3, <1>4, <1>7, <1>8, RenderKeeps
<1>10. DOMAIN fetch' = Keys /\ \A x \in Keys : fetch'[x] \in {fetch[x], NoFetch}
  BY Zenon, <1>1, <1>2
<1>11. /\ cache' \in [queues : QueueTables, projects : BOOLEAN, dlq : SUBSET DOMAIN jobs]
  BY <1>1 DEF ConsoleInv, DataInv, Keys
<1>12. DataInv'
  BY Zenon, <1>1, <1>10, <1>11 DEF ConsoleInv, DataInv, LetterTypes, tables, Keys
<1>13. ListingInv'
  <2>1. fetch'["jobs"] \in {fetch["jobs"], NoFetch}
    BY Zenon, <1>10 DEF Keys
  <2>2. CASE UNCHANGED listing
    BY Zenon, <1>2, <2>1, <2>2, ListingKept DEF ConsoleInv
  <2>3. CASE k = "jobs" /\ listing' = fetch[k][1]
    <3>1. PICK table \in past : fetch["jobs"] = <<Page(JobsKey(page), table)>>
      BY Zenon, <1>1, <2>3 DEF ConsoleInv, ListingInv
    <3>2. listing' = Page(JobsKey(page), table)
      BY <2>3, <3>1
    <3>3. fetch'["jobs"] = NoFetch /\ JobsKey(page)' = JobsKey(page)
      BY <1>1, <1>2, <2>3 DEF JobsKey
    <3> QED
      BY Zenon, <1>2, <3>2, <3>3 DEF ListingInv
  <2> QED
    BY Zenon, <1>1, <2>2, <2>3
<1> QED
  BY Zenon, <1>2, <1>9, <1>12, <1>13, Assembled

-----------------------------------------------------------------------------
(* The routes, the network, other operators and the workers *)

\* Behind the tab's back tables grow and requests are answered.
LEMMA BackendKeeps ==
  ASSUME ConsoleInv, UNCHANGED <<uiVars, swr, episode>>,
         projects' \in BOOLEAN, queues' \in QueueTables, jobs' \in Seq(JobRow),
         DOMAIN jobs \subseteq DOMAIN jobs', past' = past \cup {jobs'}, LetterTypes',
         changes' \in Nat, faults' \in Nat, req' \in [Slots -> Request],
         \A s \in Slots : req'[s] = req[s] \/ Answers(req[s], req'[s])
  PROVE  ConsoleInv'
<1>1. UNCHANGED <<page, asked, form, drawer, command, cache, fetch, failed, listing, episode>>
  BY Zenon DEF uiVars, swr
<1>2. DataInv'
  <2>1. past' \subseteq Seq(JobRow) /\ jobs' \in past'
    BY Zenon DEF ConsoleInv, DataInv
  <2>2. cache' \in [queues : QueueTables, projects : BOOLEAN, dlq : SUBSET DOMAIN jobs']
    BY <1>1 DEF ConsoleInv, DataInv
  <2>3. fetch'["dlq"] # NoFetch => fetch'["dlq"][1] \subseteq DOMAIN jobs'
    BY Zenon, <1>1 DEF ConsoleInv, DataInv
  <2> QED
    BY Zenon, <1>1, <2>1, <2>2, <2>3 DEF ConsoleInv, DataInv
<1>3. ListingInv'
  <2>1. JobsKey(page)' = JobsKey(page)
    BY <1>1 DEF JobsKey
  <2>2. past \subseteq past'
    BY Zenon
  <2> QED
    BY Zenon, <1>1, <2>1, <2>2 DEF ConsoleInv, ListingInv
<1>4. ReqInv'
  <2>1. ASSUME NEW s \in Slots
        PROVE  Carries(req'[s]) /\ Named(req'[s], jobs')
    <3>1. Carries(req[s]) /\ Named(req[s], jobs)
      BY Zenon DEF ConsoleInv, ReqInv
    <3>2. CASE req'[s] = req[s]
      BY Zenon, <3>1, <3>2 DEF Named
    <3>3. CASE Answers(req[s], req'[s])
      BY Zenon, <3>1, <3>3 DEF Named, Carries, Answers
    <3> QED
      BY Zenon, <3>2, <3>3
  <2> QED
    BY Zenon, <2>1 DEF ReqInv
<1>5. ASSUME NEW s \in Slots, NEW ops
      PROVE  Waiting(req'[s], ops) <=> Waiting(req[s], ops)
  BY Zenon DEF Waiting, Answers
<1>6. ASSUME NEW s \in Slots, Waiting(req[s], {"retry"})
      PROVE  req'[s].job = req[s].job
  BY Zenon, <1>6 DEF Waiting, Answers
<1>7. FormBusy(form, req)' /\ DrawerBusy(drawer, req)'
  BY Zenon, <1>1, <1>5 DEF ConsoleInv, BusyInv, FormBusy, DrawerBusy, Busy
<1>8. RetryBusy(page, req)'
  BY Zenon, <1>1, <1>5, <1>6 DEF ConsoleInv, BusyInv, RetryBusy
<1>9. Unanswered(req)'
  <2>1. Unanswered(req)
    BY Zenon DEF ConsoleInv, BusyInv
  <2>2. ASSUME NEW s \in Slots, Answers(req[s], req'[s]), req'[s].inserted, ~req'[s].lost
        PROVE  req'[s].state = "ok"
    BY Zenon, <2>2 DEF Answers
  <2> QED
    BY Zenon, <2>1, <2>2 DEF Unanswered
<1>10. command' \in BOOLEAN
  BY Zenon, <1>1 DEF ConsoleInv, UiTypes
<1> QED
  BY Zenon, <1>1, <1>2, <1>3, <1>4, <1>7, <1>8, <1>9, <1>10, ViewKept DEF ConsoleInv, BusyInv

\* dead_letter_queue is left alone while jobs are added.
LEMMA LettersKept ==
  ASSUME ConsoleInv, UNCHANGED <<letters, burying>>, DOMAIN jobs \subseteq DOMAIN jobs'
  PROVE  LetterTypes'
<1>1. LetterTypes
  BY Zenon DEF ConsoleInv, DataInv
<1> QED
  BY <1>1 DEF LetterTypes

\* A row of dead_letter_queue is deleted.
LEMMA LetterDeleted ==
  ASSUME NEW S, letters \in Seq(S), NEW j, Listed(j)
  PROVE  Without(j) \in Seq(S)
<1>1. Len(letters) \in Nat /\ Len(letters) # 0
  BY DEF Listed
<1>2. ASSUME NEW k \in 1 .. Len(letters) - 1
      PROVE  letters[k] \in S /\ letters[k + 1] \in S
  BY <1>1
<1>3. Without(j) \in [1 .. Len(letters) - 1 -> S]
  BY Zenon, <1>2 DEF Without
<1>4. Len(letters) - 1 \in Nat
  BY <1>1
<1> QED
  BY <1>3, <1>4

\* A table of queues stays one when a row of it is replaced.
LEMMA RowReplaced ==
  ASSUME NEW t \in QueueTables, NEW q, NEW row, q \in DOMAIN t => row \in QueueRow
  PROVE  [t EXCEPT ![q] = row] \in QueueTables
<1>1. PICK Q \in SUBSET Queues : t \in [Q -> QueueRow]
  BY Zenon DEF QueueTables
<1>2. [t EXCEPT ![q] = row] \in [Q -> QueueRow]
  BY Zenon, <1>1
<1> QED
  BY Zenon, <1>2 DEF QueueTables

\* A table of jobs stays one when the status of a row is set.
LEMMA StatusSet ==
  ASSUME NEW t \in Seq(JobRow), NEW j \in DOMAIN t, NEW status \in Statuses
  PROVE  /\ [t EXCEPT ![j].status = status] \in Seq(JobRow)
         /\ DOMAIN [t EXCEPT ![j].status = status] = DOMAIN t
<1>1. t[j] \in JobRow
  BY Zenon, SeqRow
<1>2. [t[j] EXCEPT !.status = status] \in JobRow
  BY <1>1 DEF JobRow
<1> QED
  BY <1>2

\* A table of jobs stays one when a row is appended.
LEMMA RowAppended ==
  ASSUME NEW t \in Seq(JobRow), NEW row \in JobRow
  PROVE  Append(t, row) \in Seq(JobRow) /\ DOMAIN t \subseteq DOMAIN Append(t, row)
OBVIOUS

\* A request that is answered has changed as Answers says.
LEMMA AnsweredSo ==
  ASSUME ConsoleInv, NEW s \in Slots, req[s].state \in {"sent", "half"},
         NEW state \in {"half", "ok", "error"}, Answered(s, state)
  PROVE  /\ req' \in [Slots -> Request]
         /\ \A x \in Slots : req'[x] = req[x] \/ Answers(req[x], req'[x])
<1>1. req \in [Slots -> Request] /\ ~req[s].inserted
  BY Zenon DEF ConsoleInv, ReqInv, Carries
<1>2. PICK r \in Request : r = req[s]
  BY Zenon, <1>1
<1>3. PICK t : t = [r EXCEPT !.state = state]
  BY Zenon
<1>4. /\ t \in Request /\ t.state = state /\ t.inserted = r.inserted
      /\ t.op = r.op /\ t.live = r.live /\ t.queue = r.queue /\ t.of = r.of
      /\ t.value = r.value /\ t.job = r.job
  BY <1>2, <1>3 DEF Request
<1>5. /\ req' = [req EXCEPT ![s] = t]
  BY Zenon, <1>2, <1>3 DEF Answered
<1>6. Answers(r, t)
  BY Zenon, <1>1, <1>2, <1>4 DEF Answers
<1> QED
  BY Zenon, <1>1, <1>2, <1>4, <1>5, <1>6

\* A route serves a request.
LEMMA ServeKeeps ==
  ASSUME ConsoleInv, NEW s \in Slots, Serve(s), UNCHANGED <<uiVars, episode>>
  PROVE  ConsoleInv'
<1>1. /\ req[s].state \in {"sent", "half"} /\ UNCHANGED <<uiVars, swr, episode>>
      /\ projects \in BOOLEAN /\ queues \in QueueTables /\ jobs \in Seq(JobRow)
      /\ past = past \cup {jobs} /\ changes' \in Nat /\ faults' \in Nat
      /\ req[s] \in Request /\ Carries(req[s]) /\ Named(req[s], jobs)
  BY Zenon DEF Serve, ConsoleInv, DataInv, ReqInv
<1>2. ASSUME NEW state \in {"half", "ok", "error"}, Answered(s, state),
             projects' \in BOOLEAN, queues' \in QueueTables,
             UNCHANGED <<jobs, letters, burying, past>>
      PROVE  ConsoleInv'
  <2>1. LetterTypes'
    BY Zenon, <1>2, LettersKept
  <2>2. /\ req' \in [Slots -> Request]
        /\ \A x \in Slots : req'[x] = req[x] \/ Answers(req[x], req'[x])
    BY Zenon, <1>1, <1>2, AnsweredSo
  <2>3. /\ jobs' \in Seq(JobRow) /\ DOMAIN jobs \subseteq DOMAIN jobs'
        /\ past' = past \cup {jobs'}
    BY Zenon, <1>1, <1>2
  <2> QED
    BY Zenon, <1>1, <1>2, <2>1, <2>2, <2>3, BackendKeeps
<1>3. CASE postProject(s)
  BY Zenon, <1>1, <1>2, <1>3 DEF postProject
<1>4. CASE postQueue(s)
  <2>1. CASE Answered(s, "error") /\ UNCHANGED queues
    BY Zenon, <1>1, <1>2, <1>4, <2>1 DEF postQueue
  <2>2. CASE Answered(s, "ok") /\ queues' = [x \in DOMAIN queues \cup {req[s].queue} |->
                 IF x = req[s].queue THEN [paused |-> FALSE, limit |-> req[s].value]
                 ELSE queues[x]]
    <3>1. req[s].queue \in Queues /\ req[s].value \in Limit
      BY Zenon, <1>1, <1>4 DEF postQueue, Carries
    <3>2. [paused |-> FALSE, limit |-> req[s].value] \in QueueRow
      BY <3>1 DEF QueueRow
    <3>3. PICK Q \in SUBSET Queues : queues \in [Q -> QueueRow]
      BY Zenon, <1>1 DEF QueueTables
    <3>4. queues' \in [Q \cup {req[s].queue} -> QueueRow]
      BY Zenon, <2>2, <3>2, <3>3
    <3>5. queues' \in QueueTables
      BY Zenon, <3>1, <3>3, <3>4 DEF QueueTables
    <3>6. projects' \in BOOLEAN /\ UNCHANGED <<jobs, letters, burying, past>>
      BY Zenon, <1>1, <1>4 DEF postQueue
    <3> QED
      BY Zenon, <1>2, <2>2, <3>5, <3>6
  <2> QED
    BY Zenon, <1>4, <2>1, <2>2 DEF postQueue
<1>5. CASE putQueue(s)
  <2>1. req[s].queue \in DOMAIN queues =>
          [queues[req[s].queue] EXCEPT !.limit = Coalesce(req[s].value, @)] \in QueueRow
    <3>1. req[s].value \in Limit
      BY Zenon, <1>1, <1>5 DEF putQueue, Carries
    <3> QED
      BY <1>1, <3>1, TableRows DEF QueueRow, Coalesce
  <2>2. queues' \in QueueTables
    BY Zenon, <1>1, <1>5, <2>1, RowReplaced DEF putQueue
  <2> QED
    BY Zenon, <1>1, <1>2, <1>5, <2>2 DEF putQueue
<1>6. CASE postPause(s)
  <2>1. req[s].queue \in DOMAIN queues =>
          [queues[req[s].queue] EXCEPT !.paused = req[s].op = "pause"] \in QueueRow
    BY Zenon, <1>1, TableRows DEF QueueRow
  <2>2. queues' \in QueueTables
    BY Zenon, <1>1, <1>6, <2>1, RowReplaced DEF postPause
  <2> QED
    BY Zenon, <1>1, <1>2, <1>6, <2>2 DEF postPause
<1>7. CASE postRetryDelete(s)
  <2>1. LetterTypes /\ UNCHANGED <<projects, queues, jobs, burying, past>>
    BY Zenon, <1>7 DEF postRetryDelete, ConsoleInv, DataInv
  <2>2. letters' \in Seq(DOMAIN jobs)
    BY Zenon, <1>7, <2>1, LetterDeleted DEF postRetryDelete, LetterTypes
  <2>3. LetterTypes'
    BY Zenon, <2>1, <2>2 DEF LetterTypes
  <2> QED
    BY Zenon, <1>1, <1>7, <2>1, <2>3, AnsweredSo, BackendKeeps DEF postRetryDelete
<1>8. CASE postRetryUpdate(s)
  <2>1. req[s].job \in DOMAIN jobs /\ "queued" \in Statuses
    BY Zenon, <1>1, <1>8 DEF postRetryUpdate, Named, Statuses
  <2>2. jobs' \in Seq(JobRow) /\ DOMAIN jobs' = DOMAIN jobs
    BY Zenon, <1>1, <1>8, <2>1, StatusSet DEF postRetryUpdate
  <2>3. LetterTypes'
    BY Zenon, <1>8, <2>2, LettersKept DEF postRetryUpdate
  <2> QED
    BY Zenon, <1>1, <1>8, <2>2, <2>3, AnsweredSo, BackendKeeps DEF postRetryUpdate, Remember
<1>9. ASSUME NEW t, Submitted(req[s], t), req' = [req EXCEPT ![s] = t]
      PROVE  /\ req' \in [Slots -> Request]
             /\ \A x \in Slots : req'[x] = req[x] \/ Answers(req[x], req'[x])
  <2>1. Answers(req[s], t)
    BY ZenonT(30), <1>1, <1>9 DEF Answers, Submitted, Request
  <2> QED
    BY Zenon, <1>9, <2>1 DEF Answers, ConsoleInv, ReqInv
<1>10. CASE postJobSelect(s)
  <2> DEFINE same == SameName(req[s])
  <2>1. UNCHANGED <<projects, queues, jobs, letters, burying, past>>
    BY Zenon, <1>10 DEF postJobSelect, tables
  <2>2. CASE Answered(s, "half")
    BY Zenon, <1>1, <1>2, <2>1, <2>2
  <2>3. CASE same # {} /\ req' = [req EXCEPT ![s].state = "ok", ![s].job = CHOOSE j \in same : TRUE]
    <3>1. PICK id \in Nat : id = CHOOSE j \in same : TRUE
      <4>1. (CHOOSE j \in same : TRUE) \in DOMAIN jobs
        BY Zenon, <2>3 DEF SameName
      <4> QED
        BY Zenon, <1>1, <4>1, SeqRow
    <3> HIDE DEF same
    <3>2. PICK t : t = [req[s] EXCEPT !.state = "ok", !.inserted = FALSE, !.job = id]
      BY Zenon
    <3>3. req[s].op = "submit" /\ ~req[s].inserted /\ req \in [Slots -> Request]
      BY Zenon, <1>1, <1>10 DEF postJobSelect, Carries, ConsoleInv, ReqInv
    <3>4. t = [req[s] EXCEPT !.state = "ok", !.job = id]
      BY <1>1, <3>2, <3>3 DEF Request
    <3>5. req' = [req EXCEPT ![s] = t]
      BY Zenon, <2>3, <3>1, <3>3, <3>4
    <3>6. Submitted(req[s], t)
      BY Zenon, <3>2, <3>3 DEF Submitted
    <3>7. LetterTypes'
      BY Zenon, <2>1, LettersKept
    <3> QED
      BY Zenon, <1>1, <1>9, <2>1, <3>5, <3>6, <3>7, BackendKeeps
  <2> QED
    BY Zenon, <1>10, <2>2, <2>3 DEF postJobSelect
<1>11. CASE postJobInsert(s)
  <2> DEFINE row == [queue |-> req[s].queue, name |-> req[s].value, status |-> "queued"]
  <2>1. req[s].op = "submit" /\ UNCHANGED <<projects, queues, letters, burying>>
    BY Zenon, <1>11 DEF postJobInsert
  <2>2. CASE Answered(s, "error") /\ UNCHANGED <<jobs, past>>
    BY Zenon, <1>1, <1>2, <2>1, <2>2
  <2>3. CASE /\ jobs' = Append(jobs, row) /\ Remember
             /\ req' = [req EXCEPT ![s].state = "ok", ![s].inserted = TRUE,
                                   ![s].job = Len(jobs) + 1]
    <3>1. row \in JobRow
      <4>1. req[s].queue \in Queues /\ req[s].value \in Names \cup {NoName}
        BY Zenon, <1>1, <2>1 DEF Carries
      <4> QED
        BY <4>1 DEF JobRow, Statuses
    <3> HIDE DEF row
    <3>2. jobs' \in Seq(JobRow) /\ DOMAIN jobs \subseteq DOMAIN jobs'
      BY Zenon, <1>1, <2>3, <3>1, RowAppended
    <3>3. PICK id \in Nat : id = Len(jobs) + 1
      BY <1>1
    <3>4. PICK t : t = [req[s] EXCEPT !.state = "ok", !.inserted = TRUE, !.job = id]
      BY Zenon
    <3>5. req' = [req EXCEPT ![s] = t]
      <4>1. req \in [Slots -> Request]
        BY Zenon DEF ConsoleInv, ReqInv
      <4> QED
        BY Zenon, <2>3, <3>3, <3>4, <4>1
    <3>6. Submitted(req[s], t)
      BY Zenon, <2>1, <3>3, <3>4 DEF Submitted
    <3>7. LetterTypes'
      BY Zenon, <2>1, <3>2, LettersKept
    <3> QED
      BY Zenon, <1>1, <1>9, <2>1, <2>3, <3>2, <3>5, <3>6, <3>7, BackendKeeps DEF Remember
  <2> QED
    BY Zenon, <1>11, <2>2, <2>3 DEF postJobInsert
<1> QED
  BY Zenon, <1>3, <1>4, <1>5, <1>6, <1>7, <1>8, <1>10, <1>11 DEF Serve

\* A request or its answer is lost.
LEMMA LoseKeeps ==
  ASSUME ConsoleInv, NEW s \in Slots, Lose(s), UNCHANGED <<uiVars, episode>>
  PROVE  ConsoleInv'
<1>1. /\ req[s] \in Request /\ Carries(req[s]) /\ req \in [Slots -> Request]
      /\ projects' \in BOOLEAN /\ queues' \in QueueTables /\ jobs' \in Seq(JobRow)
      /\ jobs' = jobs /\ past' = past \cup {jobs'} /\ changes' \in Nat
      /\ UNCHANGED <<uiVars, swr, episode, letters, burying>>
  BY Zenon DEF Lose, ConsoleInv, DataInv, ReqInv, tables
<1>0. LetterTypes'
  BY Zenon, <1>1, LettersKept
<1>2. faults' \in Nat
  BY DEF Lose, Fault, ConsoleInv, DataInv
<1>3. PICK b \in BOOLEAN : b = (req[s].state = "ok")
  BY Zenon
<1>4. PICK t : t = [req[s] EXCEPT !.state = "error", !.lost = b]
  BY Zenon
<1>5. /\ t \in Request /\ t.state = "error" /\ t.inserted = req[s].inserted /\ t.lost = b
      /\ t.op = req[s].op /\ t.live = req[s].live /\ t.queue = req[s].queue
      /\ t.of = req[s].of /\ t.value = req[s].value /\ t.job = req[s].job
  BY Zenon, <1>1, <1>4 DEF Request
<1>6. req[s].state \in {"sent", "half", "ok"} /\ req' = [req EXCEPT ![s] = t]
  BY Zenon, <1>3, <1>4 DEF Lose
<1>7. Answers(req[s], t)
  BY Zenon, <1>1, <1>3, <1>5, <1>6 DEF Answers, Carries
<1> QED
  BY Zenon, <1>0, <1>1, <1>2, <1>5, <1>6, <1>7, BackendKeeps

\* Someone else changes a queue, or a job is executed.
LEMMA ElsewhereKeeps ==
  ASSUME ConsoleInv, Elsewhere, UNCHANGED <<uiVars, episode>>
  PROVE  ConsoleInv'
<1>0. UNCHANGED <<swr, req, faults, projects>>
  BY Zenon DEF Elsewhere
<1>1. /\ UNCHANGED <<uiVars, swr, episode>> /\ req' = req /\ req \in [Slots -> Request]
      /\ projects' \in BOOLEAN /\ queues \in QueueTables /\ jobs \in Seq(JobRow)
      /\ past = past \cup {jobs} /\ faults' \in Nat
  BY Zenon, <1>0 DEF ConsoleInv, DataInv, ReqInv
<1>2. changes' \in Nat
  BY DEF Elsewhere, ConsoleInv, DataInv
<1>3. CASE \E q \in DOMAIN queues, row \in QueueRow :
             /\ queues' = [queues EXCEPT ![q] = row]
             /\ UNCHANGED <<projects, jobs, letters, burying, past>>
  <2>1. queues' \in QueueTables
    <3>1. PICK q \in DOMAIN queues, row \in QueueRow : queues' = [queues EXCEPT ![q] = row]
      BY Zenon, <1>3
    <3> QED
      BY Zenon, <1>1, <3>1, RowReplaced
  <2>2. LetterTypes'
    BY Zenon, <1>3, LettersKept
  <2> QED
    BY Zenon, <1>1, <1>2, <1>3, <2>1, <2>2, BackendKeeps
<1>4. CASE \E j \in DOMAIN jobs, status \in {"completed", "dead_letter"} :
             /\ jobs' = [jobs EXCEPT ![j].status = status]
             /\ burying' = burying \cup {x \in {j} : status = "dead_letter"}
             /\ Remember /\ UNCHANGED <<projects, queues, letters>>
  <2>1. jobs' \in Seq(JobRow) /\ DOMAIN jobs' = DOMAIN jobs
    <3>1. PICK j \in DOMAIN jobs, status \in Statuses :
            jobs' = [jobs EXCEPT ![j].status = status]
      BY Zenon, <1>4 DEF Statuses
    <3> QED
      BY Zenon, <1>1, <3>1, StatusSet
  <2>2. LetterTypes'
    <3>1. LetterTypes
      BY Zenon DEF ConsoleInv, DataInv
    <3> QED
      BY Zenon, <1>4, <2>1, <3>1 DEF LetterTypes
  <2> QED
    BY Zenon, <1>1, <1>2, <1>4, <2>1, <2>2, BackendKeeps DEF Remember
<1> QED
  BY Zenon, <1>3, <1>4 DEF Elsewhere

\* A worker lists the job it has set to dead_letter.
LEMMA BuryKeeps ==
  ASSUME ConsoleInv, NEW j \in DOMAIN jobs, Bury(j), UNCHANGED <<uiVars, episode>>
  PROVE  ConsoleInv'
<1>1. /\ UNCHANGED <<projects, queues, jobs, past, swr, req, changes, faults>>
      /\ burying' = burying \ {j}
      /\ letters' = IF Listed(j) THEN letters ELSE Append(letters, j)
  BY Zenon DEF Bury
<1>2. /\ projects' \in BOOLEAN /\ queues' \in QueueTables /\ jobs' \in Seq(JobRow)
      /\ past' = past \cup {jobs'} /\ changes' \in Nat /\ faults' \in Nat
      /\ req' \in [Slots -> Request] /\ LetterTypes
  BY Zenon, <1>1 DEF ConsoleInv, DataInv, ReqInv
<1>3. Append(letters, j) \in Seq(DOMAIN jobs)
  BY <1>2 DEF LetterTypes
<1>4. LetterTypes'
  BY Zenon, <1>1, <1>2, <1>3 DEF LetterTypes
<1> QED
  BY Zenon, <1>1, <1>2, <1>4, BackendKeeps

-----------------------------------------------------------------------------
(* The invariant *)

\* The tab starts with nothing mounted, cached or sent.
LEMMA ConsoleStarts == Init => ConsoleInv
<1> SUFFICES ASSUME Init PROVE ConsoleInv
  BY Zenon
<1>1. DataInv
  <2>1. /\ episode.paths \subseteq Paths /\ episode.projects \in BOOLEAN
        /\ episode.queues \in QueueTables /\ episode.jobs \in Seq(JobRow)
        /\ episode.letters \in Seq(DOMAIN episode.jobs)
        /\ episode.changes \in Nat /\ episode.faults \in Nat
    BY Zenon, EpisodesAssumption DEF Init
  <2>2. NoQueues \in QueueTables
    <3>1. NoQueues \in [{} -> QueueRow]
      BY Zenon DEF NoQueues
    <3> QED
      BY Zenon, <3>1 DEF QueueTables
  <2>3. cache \in [queues : QueueTables, projects : BOOLEAN, dlq : SUBSET DOMAIN jobs]
    BY <2>2 DEF Init
  <2> QED
    BY Zenon, <2>1, <2>3 DEF Init, DataInv, LetterTypes, Keys
<1>2. ListingInv
  BY Zenon DEF Init, ListingInv, Keys
<1>3. /\ Unsent \in Request /\ Unsent.op = "project" /\ Unsent.live = "page"
      /\ Unsent.state = "done"
  BY ZenonT(30) DEF Unsent, Blank, Request, Ops
<1>4. ReqInv
  BY Zenon, <1>3 DEF Init, ReqInv, Carries, Named
<1>5. page \in PageState /\ page.open = FALSE /\ page.selected = NoQueue /\ page.retrying = 0
  <2>1. "overview" \in Paths /\ NoParam \in Param /\ NoParam.form = FALSE /\ asked = {}
    BY DEF Paths, NoParam, Param, Init
  <2>2. page \in PageState /\ page.retrying = 0 /\ page = FreshPage("overview", NoParam)
    BY Zenon, <2>1, FreshTypes DEF Init
  <2>3. PICK param : param = NoParam
    BY Zenon
  <2>4. page.selected = NoQueue
    BY <2>2, <2>3 DEF FreshPage
  <2>5. page.open = (param.form \/ "overview" \in asked)
    BY <2>2, <2>3 DEF FreshPage
  <2> QED
    BY Zenon, <2>1, <2>2, <2>3, <2>4, <2>5
<1>6. UiTypes /\ MountInv
  BY Zenon, <1>5 DEF Init, UiTypes, MountInv, FormShown, DrawerShown
<1>7. ASSUME NEW s \in Slots, NEW ops PROVE ~Waiting(req[s], ops)
  BY Zenon, <1>3 DEF Init, Waiting
<1>8. form.saving = FALSE /\ form.inline = FALSE /\ drawer.saving = FALSE
  BY DEF Init, NoForm, NoDrawer
<1>9. BusyInv
  BY Zenon, <1>3, <1>5, <1>7, <1>8
     DEF Init, BusyInv, FormBusy, DrawerBusy, RetryBusy, Busy, Unanswered
<1> QED
  BY Zenon, <1>1, <1>2, <1>4, <1>6, <1>9 DEF ConsoleInv

\* Every step keeps the invariant: one lemma above for each handler.
LEMMA ConsoleStep == ConsoleInv /\ [Next]_vars => ConsoleInv'
<1> SUFFICES ASSUME ConsoleInv, [Next]_vars PROVE ConsoleInv'
  BY Zenon
<1>1. CASE Shell \/ QueuesPage \/ JobsPage
  BY Zenon, <1>1, ShellKeeps, QueuesPageKeeps, JobsPageKeeps
<1>2. CASE \E j \in DOMAIN jobs : RetryJob(j)
  BY Zenon, <1>2, RetryJobKeeps
<1>3. CASE \E s \in Slots : Receive(s) \/ ReceiveCommand(s)
  BY Zenon, <1>3, ReceiveKeeps, ReceiveCommandKeeps
<1>4. CASE \E k \in Keys : Poll(k) \/ FetchFails(k)
  BY Zenon, <1>4, ReadKeeps, ArriveKeeps, FetchFailsKeeps DEF Poll
<1>5. CASE /\ \/ Elsewhere \/ \E j \in DOMAIN jobs : Bury(j)
              \/ \E s \in Slots : Serve(s) \/ Lose(s)
           /\ UNCHANGED <<uiVars, episode>>
  BY Zenon, <1>5, ServeKeeps, LoseKeeps, ElsewhereKeeps, BuryKeeps
<1>6. CASE UNCHANGED vars
  <2>1. UNCHANGED <<projects, queues, jobs, letters, burying, past, cache, fetch, failed,
                    listing, req, changes, faults, page, asked, form, drawer, command, episode>>
    BY Zenon, <1>6 DEF vars
  <2>2. UNCHANGED <<uiVars, swr, episode>>
    BY Zenon, <2>1 DEF uiVars, swr
  <2>3. /\ projects' \in BOOLEAN /\ queues' \in QueueTables /\ jobs' \in Seq(JobRow)
        /\ past' = past \cup {jobs'} /\ changes' \in Nat /\ faults' \in Nat
        /\ req' \in [Slots -> Request]
    BY Zenon, <2>1 DEF ConsoleInv, DataInv, ReqInv
  <2>4. LetterTypes'
    BY Zenon, <2>1, LettersKept
  <2> QED
    BY Zenon, <2>1, <2>2, <2>3, <2>4, BackendKeeps
<1> QED
  BY Zenon, <1>1, <1>2, <1>3, <1>4, <1>5, <1>6 DEF Next

\* Tables and caches stay typed; the jobs page has an answer to its present
\* key; what a page asks for is mounted and nothing else; and a control is
\* disabled exactly while its one request is unanswered.
THEOREM ConsoleInvariant == Spec => []ConsoleInv
<1> QED
  BY ConsoleStarts, ConsoleStep, PTL DEF Spec

-----------------------------------------------------------------------------
(* What follows from it *)

\* What the explorer lists are rows of the table it read.
LEMMA InvTypes == ConsoleInv => TypeOK
<1> SUFFICES ASSUME ConsoleInv PROVE TypeOK
  BY Zenon
<1>1. /\ listing.rows \subseteq DOMAIN listing.table /\ listing.table \in past \cup {<<>>}
  <2>1. CASE listing = NoPage
    BY <2>1 DEF NoPage
  <2>2. ASSUME NEW table \in past, listing = Page(JobsKey(page), table)
        PROVE  listing.rows \subseteq DOMAIN table /\ listing.table = table
    BY Zenon, <2>2 DEF Page, Answer
  <2> QED
    BY Zenon, <2>1, <2>2 DEF ConsoleInv, ListingInv
<1>2. cache.queues \in QueueTables /\ cache.projects \in BOOLEAN /\ cache.dlq \subseteq DOMAIN jobs
  BY DEF ConsoleInv, DataInv
<1> QED
  BY Zenon, <1>1, <1>2
     DEF ConsoleInv, DataInv, LetterTypes, ReqInv, UiTypes, MountInv, TypeOK, ApiTypeOK

\* The tables, the cached lists, every page's state and every request have
\* the types the console's code gives them, whatever answers come when.
THEOREM ConsoleTypes == Spec => []TypeOK
<1> QED
  BY ConsoleInvariant, InvTypes, PTL

\* The requests that BusyMatchesRequest counts are those that a sender waits
\* for.
LEMMA InvBusy == ConsoleInv => BusyMatchesRequest
<1> SUFFICES ASSUME ConsoleInv PROVE BusyMatchesRequest
  BY Zenon
<1>1. ASSUME NEW ops PROVE Live(ops) = {s \in Slots : Waiting(req[s], ops)}
  BY Zenon DEF Live, Waiting
<1>2. FormBusy(form, req) /\ DrawerBusy(drawer, req) /\ RetryBusy(page, req)
  BY Zenon DEF ConsoleInv, BusyInv
<1> QED
  BY Zenon, <1>1, <1>2 DEF BusyMatchesRequest, FormBusy, DrawerBusy, RetryBusy, Busy

\* A mounted form or drawer shows "saving" exactly while a request that it
\* sent itself is unanswered, and a row marked "Retrying" has a request.
THEOREM BusyIsExact == Spec => []BusyMatchesRequest
<1> QED
  BY ConsoleInvariant, InvBusy, PTL

\* A form's inserts but those whose answer was lost are all one: such a request
\* is still waited for, and only one is.
LEMMA InvOneRow == ConsoleInv => OneRowPerForm
<1> SUFFICES ASSUME ConsoleInv PROVE OneRowPerForm
  BY Zenon
<1> DEFINE own == {s \in Slots : req[s].op = "submit" /\ req[s].live = "form"}
           A == {s \in own : req[s].inserted}
           B == {s \in own : req[s].inserted /\ req[s].lost}
<1>1. IsFiniteSet(A) /\ IsFiniteSet(B)
  BY Zenon, SlotsFinite, FS_Subset
<1>2. ASSUME NEW s \in A, s \notin B, NEW t \in A, t \notin B PROVE s = t
  <2>1. Waiting(req[s], {"submit", "create"}) /\ Waiting(req[t], {"submit", "create"})
    BY Zenon, <1>2 DEF ConsoleInv, BusyInv, Unanswered, Waiting
  <2> QED
    BY Zenon, <2>1 DEF ConsoleInv, BusyInv, FormBusy, Busy
<1>3. Cardinality(A) \in Nat /\ Cardinality(B) \in Nat
  BY Zenon, <1>1, FS_CardinalityType
<1>4. Cardinality(A) <= 1 + Cardinality(B)
  <2>1. CASE A \subseteq B
    <3>1. Cardinality(A) <= Cardinality(B)
      BY Zenon, <1>1, <2>1, FS_Subset
    <3> HIDE DEF A, B
    <3> QED
      BY <1>3, <3>1
  <2>2. CASE ~(A \subseteq B)
    <3>1. PICK x \in A : x \notin B
      BY Zenon, <2>2
    <3>2. A \subseteq B \cup {x}
      BY Zenon, <1>2, <3>1
    <3>3. /\ IsFiniteSet(B \cup {x})
          /\ Cardinality(B \cup {x}) = IF x \in B THEN Cardinality(B) ELSE Cardinality(B) + 1
      BY Zenon, <1>1, FS_AddElement
    <3>4. Cardinality(A) <= Cardinality(B \cup {x})
      BY Zenon, <3>2, <3>3, FS_Subset
    <3> HIDE DEF A, B
    <3> QED
      BY <1>3, <3>1, <3>3, <3>4
  <2> QED
    BY Zenon, <2>1, <2>2
<1> QED
  BY Zenon, <1>4 DEF OneRowPerForm

\* One SubmitJobForm inserts one job, plus one for each lost answer to an
\* insert, however often its button is pressed.
THEOREM FormInsertsOnce == Spec => []OneRowPerForm
<1> QED
  BY ConsoleInvariant, InvOneRow, PTL

\* The mounted drawer and every save name one queue each.
LEMMA InvSaves == ConsoleInv => SavesOwnQueue
  BY Zenon DEF ConsoleInv, MountInv, ReqInv, Carries, SavesOwnQueue

\* The fields of QueueDrawer belong to the selected queue, and so does what
\* they save.
THEOREM DrawerSavesOwnQueue == Spec => []SavesOwnQueue
<1> QED
  BY ConsoleInvariant, InvSaves, PTL

\* A result that fits the server's page is answered whole.
LEMMA WholeAnswer ==
  ASSUME NEW key, NEW table \in Seq(JobRow)
  PROVE  LET found == {j \in DOMAIN table : Matches(table[j], key)} IN
           /\ Answer(key, table) \subseteq found
           /\ Cardinality(found) <= PageSize => Answer(key, table) = found
<1> DEFINE found == {j \in DOMAIN table : Matches(table[j], key)}
<1>1. IsFiniteSet(found)
  <2>1. DOMAIN table = 1..Len(table) /\ Len(table) \in Nat
    OBVIOUS
  <2>2. IsFiniteSet(1..Len(table))
    BY <2>1, FS_Interval
  <2> QED
    BY Zenon, <2>1, <2>2, FS_Subset
<1>2. ASSUME NEW j \in found, Cardinality(found) <= PageSize
      PROVE  Cardinality({k \in found : k > j}) < PageSize
  <2> DEFINE later == {k \in found : k > j}
  <2>1. j \notin later
    <3>1. j \in Nat
      BY Zenon, SeqRow
    <3> QED
      BY <3>1
  <2>2. /\ IsFiniteSet(later) /\ Cardinality(later) <= Cardinality(found)
        /\ (Cardinality(later) = Cardinality(found)) => later = found
    BY Zenon, <1>1, FS_Subset
  <2>3. Cardinality(later) \in Nat /\ Cardinality(found) \in Nat
    BY Zenon, <1>1, <2>2, FS_CardinalityType
  <2>4. Cardinality(later) # Cardinality(found)
    BY Zenon, <2>1, <2>2
  <2> HIDE DEF later
  <2>5. Cardinality(later) < PageSize
    BY <1>2, <2>2, <2>3, <2>4, PageSizeAssumption
  <2> QED
    BY Zenon, <2>5 DEF later
<1>3. Answer(key, table) = {j \in found : Cardinality({k \in found : k > j}) < PageSize}
  BY Zenon DEF Answer
<1> QED
  BY Zenon, <1>2, <1>3

\* One status is filtered by the server, several by the page, from an answer
\* to the page's present key.
LEMMA InvShown == ConsoleInv => ShownMatchesFilters
<1> SUFFICES ASSUME ConsoleInv PROVE ShownMatchesFilters
  BY Zenon
<1> DEFINE table == listing.table
           queued == {j \in DOMAIN table : page.queueId \in {Unset, table[j].queue}}
           fits == {j \in queued : page.filters = {} \/ table[j].status \in page.filters}
<1>1. page \in PageState /\ page.filters \subseteq Statuses
  BY DEF ConsoleInv, UiTypes, PageState
<1>2. IsFiniteSet(page.filters) /\ Cardinality(page.filters) \in Nat
  <2>1. IsFiniteSet(Statuses)
    <3>1. IsFiniteSet({})
      BY Zenon, FS_EmptySet
    <3>2. /\ IsFiniteSet({} \cup {"queued"})
          /\ IsFiniteSet(({} \cup {"queued"}) \cup {"completed"})
          /\ IsFiniteSet((({} \cup {"queued"}) \cup {"completed"}) \cup {"dead_letter"})
      BY Zenon, <3>1, FS_AddElement
    <3>3. Statuses = (({} \cup {"queued"}) \cup {"completed"}) \cup {"dead_letter"}
      BY Zenon DEF Statuses
    <3> QED
      BY Zenon, <3>2, <3>3
  <2> QED
    BY Zenon, <1>1, <2>1, FS_Subset, FS_CardinalityType
<1>3. CASE listing = NoPage
  <2>1. listing.rows = {} /\ listing.table = <<>> /\ DOMAIN <<>> = {}
    BY <1>3 DEF NoPage
  <2>2. queued = {} /\ fits = {}
    BY Zenon, <2>1
  <2>3. Shown = {}
    BY Zenon, <2>1 DEF Shown
  <2> QED
    BY Zenon, <2>2, <2>3 DEF ShownMatchesFilters
<1>4. ASSUME NEW tb \in past, listing = Page(JobsKey(page), tb)
      PROVE  ShownMatchesFilters
  <2> DEFINE key == JobsKey(page)
             found == {j \in DOMAIN table : Matches(table[j], key)}
  <2>1. table = tb /\ tb \in Seq(JobRow) /\ listing.rows = Answer(key, table)
    BY Zenon, <1>4 DEF Page, ConsoleInv, DataInv
  <2>2. /\ listing.rows \subseteq found
        /\ Cardinality(found) <= PageSize => listing.rows = found
    <3>1. found = {j \in DOMAIN tb : Matches(tb[j], key)} /\ listing.rows = Answer(key, tb)
      BY Zenon, <2>1
    <3>2. /\ Answer(key, tb) \subseteq {j \in DOMAIN tb : Matches(tb[j], key)}
          /\ Cardinality({j \in DOMAIN tb : Matches(tb[j], key)}) <= PageSize =>
               Answer(key, tb) = {j \in DOMAIN tb : Matches(tb[j], key)}
      <4> HIDE DEF key
      <4> QED
        BY Zenon, <2>1, WholeAnswer
    <3> HIDE DEF key, found
    <3> QED
      BY Zenon, <3>1, <3>2
  <2>3. key.queue = page.queueId
    BY DEF JobsKey
  <2>4. CASE Cardinality(page.filters) = 1
    <3>1. PICK s : page.filters = {s}
      BY Zenon, <2>4, <1>2, FS_Singleton
    <3>2. key.status = s /\ s # Unset
      <4>1. (CHOOSE x \in {s} : TRUE) = s
        BY Zenon
      <4>2. s \in Statuses
        BY Zenon, <1>1, <3>1
      <4> QED
        BY <2>4, <3>1, <4>1, <4>2 DEF JobsKey, Unset, Statuses
    <3>3. found = fits
      BY Zenon, <2>3, <3>1, <3>2 DEF Matches
    <3>4. Shown = listing.rows
      BY <2>4 DEF Shown
    <3>5. IsFiniteSet(queued) /\ Cardinality(fits) <= Cardinality(queued)
      <4>1. DOMAIN table = 1..Len(table) /\ Len(table) \in Nat
        BY <2>1
      <4>2. IsFiniteSet(1..Len(table))
        BY <4>1, FS_Interval
      <4>3. IsFiniteSet(queued)
        BY Zenon, <4>1, <4>2, FS_Subset
      <4> QED
        BY Zenon, <4>3, FS_Subset
    <3>6. IsFiniteSet(fits)
      BY Zenon, <3>5, FS_Subset
    <3>7. Cardinality(fits) \in Nat /\ Cardinality(queued) \in Nat
      BY Zenon, <3>5, <3>6, FS_CardinalityType
    <3>8. Cardinality(queued) <= PageSize => Cardinality(fits) <= PageSize
      <4> HIDE DEF queued, fits
      <4> QED
        BY <3>5, <3>7, PageSizeAssumption
    <3> QED
      <4>1. Shown \subseteq fits /\ (Cardinality(fits) <= PageSize => Shown = fits)
        BY Zenon, <2>2, <3>3, <3>4
      <4>2. \/ Cardinality(queued) <= PageSize
            \/ Cardinality(page.filters) = 1 /\ Cardinality(fits) <= PageSize
            => Shown = fits
        BY Zenon, <3>8, <4>1
      <4> QED
        BY Zenon, <4>1, <4>2 DEF ShownMatchesFilters
  <2>5. CASE Cardinality(page.filters) # 1
    <3>1. key.status = Unset
      BY <2>5 DEF JobsKey
    <3>2. found = queued
      BY Zenon, <2>3, <3>1 DEF Matches
    <3>3. CASE page.filters = {}
      <4>1. Cardinality(page.filters) = 0
        BY Zenon, <3>3, FS_EmptySet
      <4>2. Shown = listing.rows
        BY <4>1 DEF Shown
      <4>3. fits = queued
        BY Zenon, <3>3
      <4> QED
        BY Zenon, <2>2, <2>5, <3>2, <4>2, <4>3 DEF ShownMatchesFilters
    <3>4. CASE page.filters # {}
      <4>1. Cardinality(page.filters) # 0
        BY Zenon, <1>2, <3>4, FS_EmptySet
      <4>2. ~(Cardinality(page.filters) <= 1)
        BY <1>2, <2>5, <4>1
      <4>3. Shown = {j \in listing.rows : table[j].status \in page.filters}
        BY Zenon, <4>2 DEF Shown
      <4>4. /\ Shown \subseteq fits
            /\ listing.rows = queued => Shown = fits
        BY Zenon, <2>2, <3>2, <3>4, <4>3
      <4> QED
        BY Zenon, <2>2, <2>5, <3>2, <4>4 DEF ShownMatchesFilters
    <3> QED
      BY Zenon, <3>3, <3>4
  <2> QED
    BY Zenon, <2>4, <2>5
<1> QED
  BY Zenon, <1>3, <1>4 DEF ConsoleInv, ListingInv

\* The jobs shown pass the filters, and are all that do when they fit the
\* server's page.
THEOREM ListingMatchesFilters == Spec => []ShownMatchesFilters
<1> QED
  BY ConsoleInvariant, InvShown, PTL
=============================================================================
