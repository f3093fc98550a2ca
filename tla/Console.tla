------------------------------ MODULE Console ------------------------------
(***************************************************************************)
(* One tab of the console with its shell mounted: the queues, jobs and     *)
(* dead-letter pages, their drawers and forms, and the command palette.    *)
(* React keeps the state of a component while it is mounted: leaving a     *)
(* page drops the page's state, closing a drawer drops the form in it, and *)
(* so does the error panel that replaces a page whose polling fails.       *)
(***************************************************************************)
EXTENDS ConsoleApi

CONSTANTS
  Episodes   \* which pages are visited and what is done there, from which
             \* tables, and how many changes and faults there are

VARIABLES
  page,      \* the mounted page and its state
  asked,     \* pages whose request counter in ConsoleProvider is not 0
  form,      \* SubmitJobForm or CreateQueueForm, while mounted
  drawer,    \* QueueDrawer, while mounted
  command,   \* ConsoleProvider: commandOpen
  episode

uiVars == <<page, asked, form, drawer, command>>
vars == <<projects, queues, jobs, letters, burying, past, cache, fetch, failed, listing,
          req, changes, faults, page, asked, form, drawer, command, episode>>

Paths == {"overview", "queues", "jobs", "dlq"}
NoQueue == [queue |-> Unset, row |-> <<>>]

\* The query of the URL: ?create=1 or ?submit=1, ?job=n, or none.
Param == [form : BOOLEAN, job : Nat]
NoParam == [form |-> FALSE, job |-> 0]
ForForm == [form |-> TRUE, job |-> 0]
ForJob(j) == [form |-> FALSE, job |-> j]

PageState ==
  [path : Paths, param : Param, open : BOOLEAN,
   selected : {NoQueue} \cup [queue : Queues, row : QueueRow],
   filters : SUBSET Statuses, queueId : Queues \cup {Unset},
   detail : Nat, retrying : Nat]

\* saving of the form and of the CreateProjectInline in it; the job's name.
Form == [saving : BOOLEAN, inline : BOOLEAN, name : Names \cup {NoName}]
NoForm == [saving |-> FALSE, inline |-> FALSE, name |-> "unmounted"]
FreshForm == [saving |-> FALSE, inline |-> FALSE, name |-> NoName]
ASSUME UnmountedAssumption == "unmounted" \notin Names \cup {NoName}

\* of is the queue whose values the fields of QueueDrawer started from.
DrawerState == [of : Queues, limit : Limit, saving : BOOLEAN]
NoDrawer == [of |-> Unset, limit |-> NoLimit, saving |-> FALSE]

TypeOK ==
  /\ ApiTypeOK
  /\ page \in PageState /\ asked \subseteq {"queues", "jobs"}
  /\ form \in Form \cup {NoForm} /\ drawer \in DrawerState \cup {NoDrawer}
  /\ command \in BOOLEAN

\* An episode starts from well-typed tables.
ASSUME EpisodesAssumption ==
  \A e \in Episodes :
    /\ e.paths \subseteq Paths /\ e.projects \in BOOLEAN /\ e.queues \in QueueTables
    /\ e.jobs \in Seq(JobRow) /\ e.letters \in Seq(DOMAIN e.jobs) /\ e.changes \in Nat /\ e.faults \in Nat

Does(op) == op \in episode.does

\* A page as it mounts; its effects look at the URL and at the counter.
FreshPage(path, param) ==
  [path |-> path, param |-> param,
   open |-> param.form \/ path \in asked,
   selected |-> NoQueue, filters |-> {}, queueId |-> Unset,
   detail |-> param.job, retrying |-> 0]

\* Mutant: the first of several chosen statuses is sent.
JobsKeyFirstStatus(pg) ==
  [status |-> IF pg.filters # {} THEN CHOOSE s \in pg.filters : TRUE ELSE Unset,
   queue |-> pg.queueId]

\* The key of useJobs: a status only when exactly one is chosen.
JobsKey(pg) ==
  [status |-> IF Cardinality(pg.filters) = 1 THEN CHOOSE s \in pg.filters : TRUE ELSE Unset,
   queue |-> pg.queueId]

-----------------------------------------------------------------------------
(* Mounting *)

\* A page whose own key has failed shows an error panel and nothing else.
Broken(pg, broken) == pg.path \in broken

FormShown(pg, broken) == pg.open /\ ~Broken(pg, broken)
DrawerShown(pg, broken) == pg.selected # NoQueue /\ ~Broken(pg, broken)

NewDrawer(selected) ==
  [of |-> selected.queue, limit |-> selected.row.limit, saving |-> FALSE]

\* What is left of the sender of r once the page and the forms are as given.
Detached(r, here, formKept, drawerKept) ==
  LET kept == CASE r.op \in {"submit", "create", "project"} -> formKept
                [] r.op = "save" -> drawerKept
                [] OTHER -> here IN
    IF r = Unsent \/ (r.live = "form" /\ kept) THEN r
    ELSE IF r.state = "done" THEN Over
    ELSE [r EXCEPT !.live = IF here /\ r.live # "gone" THEN "page" ELSE "gone"]

\* React renders: page pg (the mounted one iff here), the broken keys, form f
\* and drawer d if they stay mounted, the requests rs.
Render(pg, here, broken, f, d, rs) ==
  LET formKept == here /\ form # NoForm /\ FormShown(pg, broken)
      drawerKept == here /\ drawer # NoDrawer /\ DrawerShown(pg, broken) IN
    /\ page' = pg /\ failed' = broken
    /\ form' = IF formKept THEN f ELSE IF FormShown(pg, broken) THEN FreshForm ELSE NoForm
    /\ drawer' = IF drawerKept THEN d
                 ELSE IF DrawerShown(pg, broken) THEN NewDrawer(pg.selected) ELSE NoDrawer
    /\ req' = [s \in Slots |-> Detached(rs[s], here, formKept, drawerKept)]

\* An event handler of the page that only sets the page's state,
Set(pg) ==
  /\ Render(pg, TRUE, failed, form, drawer, req)
  /\ UNCHANGED <<tables, cache, fetch, listing, changes, faults, command, episode>>

\* the state of the form or drawer,
Type(f, d) ==
  /\ Render(page, TRUE, failed, f, d, req)
  /\ UNCHANGED <<tables, cache, fetch, listing, changes, faults, asked, command, episode>>

\* or that sends a request as well, as far as the operator's bound allows.
Send(pg, f, d, r) ==
  /\ FreeSlots # {}
  /\ Render(pg, TRUE, failed, f, d, Sending(r))
  /\ UNCHANGED <<tables, cache, fetch, listing, changes, faults, asked, episode>>

\* The detail drawer of the jobs page is rendered.
DetailShown == page.detail # 0 /\ ~Broken(page, failed)

\* Mutant: an open QueueDrawer leaves the table clickable.
CoveredByForms == command \/ form # NoForm

\* The palette or a drawer lies over the page.
Covered == command \/ form # NoForm \/ drawer # NoDrawer \/ DetailShown

\* A control in the page, in the form, in QueueDrawer can be used.
OnPage(path) == page.path = path /\ ~Covered /\ ~Broken(page, failed)
InForm(path) == page.path = path /\ form # NoForm /\ ~command
InDrawer == drawer # NoDrawer /\ form = NoForm /\ ~command

-----------------------------------------------------------------------------
(* The shell *)

NoPage == [rows |-> {}, table |-> <<>>]

\* The jobs page turns to another key: SWR has nothing under it, or what an
\* earlier visit left, data or error.
TurnsTo(pg, here) ==
  /\ fetch' = Mutated({"jobs"})
  /\ listing' \in {NoPage} \cup {Page(JobsKey(pg), table) : table \in past}
  /\ \E broken \in {failed \ {"jobs"}} \cup
                   (IF faults < episode.faults THEN {failed \cup {"jobs"}} ELSE {}) :
       Render(pg, here, broken, form, drawer, req)

\* A push, a link of LeftRail, the browser's history: to the mounted page only
\* the parameter changes, and an equal URL is no change at all.
Goes(path, param) ==
  \/ /\ path = page.path
     /\ Render(IF param = page.param THEN page
               ELSE [page EXCEPT !.param = param, !.open = @ \/ param.form,
                                 !.detail = IF param.job = 0 THEN @ ELSE param.job],
               TRUE, failed, form, drawer, req)
     /\ UNCHANGED <<fetch, listing>>
  \/ path = "jobs" /\ page.path # "jobs" /\ TurnsTo(FreshPage(path, param), FALSE)
  \/ /\ path # "jobs" /\ page.path # path
     /\ Render(FreshPage(path, param), FALSE, failed \ {"jobs"}, form, drawer, req)
     /\ fetch' = Mutated({"jobs"}) /\ listing' = NoPage

Params(path) ==
  {NoParam}
    \cup {p \in {ForForm} : \/ path = "queues" /\ Does("create")
                            \/ path = "jobs" /\ Does("submit")}
    \cup {ForJob(j) : j \in {k \in DOMAIN jobs : path = "jobs" /\ Does("detail")}}

Navigate(path, param) ==
  /\ Goes(path, param)
  /\ UNCHANGED <<tables, cache, changes, faults, asked, command, episode>>

\* The button of TopBar: the counter changes and the page's effect opens its
\* form.  The counter is never reset.
TopBarButton(path) ==
  /\ page.path = path /\ ~Covered
  /\ asked' = asked \cup {path}
  /\ Set([page EXCEPT !.open = TRUE])

\* Ctrl-K, TopBar's search button, the palette's backdrop.
ToggleCommand ==
  /\ Does("command")
  /\ command' = ~command
  /\ UNCHANGED <<apiVars, page, asked, form, drawer, episode>>

\* Escape reaches the palette's input and the listener of every open drawer.
Escape ==
  /\ Covered
  /\ command' = FALSE
  /\ Render([page EXCEPT !.open = @ /\ Broken(page, failed),
                         !.selected = IF Broken(page, failed) THEN @ ELSE NoQueue,
                         !.detail = IF Broken(page, failed) THEN @ ELSE 0],
            TRUE, failed, form, drawer, req)
  /\ UNCHANGED <<tables, cache, fetch, listing, changes, faults, asked, episode>>

\* The palette closes and runs one of its items, built from the cached lists.
RunNavigation(path, param) ==
  /\ command /\ command' = FALSE
  /\ Goes(path, param)
  /\ UNCHANGED <<tables, cache, changes, faults, asked, episode>>

RunToggle(q) ==
  /\ command /\ command' = FALSE /\ Does("pause") /\ q \in DOMAIN cache.queues
  /\ Send(page, form, drawer,
          [Blank EXCEPT !.op = IF cache.queues[q].paused THEN "resume" ELSE "pause",
                        !.queue = q, !.live = "gone"])

RunRetry(j) ==
  /\ command /\ command' = FALSE /\ j \in cache.dlq
  /\ Send(page, form, drawer, [Blank EXCEPT !.op = "command", !.job = j, !.live = "gone"])
-----------------------------------------------------------------------------
(* The queues page *)

Opens == [page EXCEPT !.open = TRUE]
Closes == [page EXCEPT !.open = FALSE]

\* The page's own button: Create queue, or Submit job on the jobs page.
OpenForm(path) ==
  /\ OnPage(path)
  /\ Set(Opens) /\ UNCHANGED asked

\* Cancel, the cross and the backdrop of the form's drawer.
CloseForm ==
  /\ form # NoForm /\ ~command
  /\ Set(Closes) /\ UNCHANGED asked

\* A row of the table: setSelected takes a copy of the listed queue.
OpenQueue(q) ==
  /\ OnPage("queues") /\ q \in DOMAIN cache.queues
  /\ Set([page EXCEPT !.selected = [queue |-> q, row |-> cache.queues[q]]])
  /\ UNCHANGED asked

CloseQueue ==
  /\ InDrawer
  /\ Set([page EXCEPT !.selected = NoQueue]) /\ UNCHANGED asked

EditLimit(limit) ==
  /\ InDrawer /\ Does("save") /\ limit # drawer.limit
  /\ Type(form, [drawer EXCEPT !.limit = limit])

\* save(); the button is disabled while saving.
SaveQueue ==
  /\ InDrawer /\ Does("save") /\ ~drawer.saving
  /\ Send(page, form, [drawer EXCEPT !.saving = TRUE],
          [Blank EXCEPT !.op = "save", !.queue = page.selected.queue,
                        !.of = drawer.of, !.value = drawer.limit])
  /\ UNCHANGED command

\* togglePause() goes by the copy, and is never disabled.
TogglePause ==
  /\ InDrawer /\ Does("pause")
  /\ Send(page, form, drawer,
          [Blank EXCEPT !.op = IF page.selected.row.paused THEN "resume" ELSE "pause",
                        !.queue = page.selected.queue, !.live = "gone"])
  /\ UNCHANGED command

\* handleSubmit of CreateQueueForm.
CreateQueue(q, limit) ==
  /\ InForm("queues") /\ Does("create") /\ cache.projects /\ ~form.saving
  /\ Send(page, [form EXCEPT !.saving = TRUE], drawer,
          [Blank EXCEPT !.op = "create", !.queue = q, !.value = limit])
  /\ UNCHANGED command

\* handleSubmit of CreateProjectInline, shown while no project is known.
CreateProject ==
  /\ InForm("queues") /\ Does("project") /\ ~cache.projects /\ ~form.inline
  /\ Send(page, [form EXCEPT !.inline = TRUE], drawer, Blank)
  /\ UNCHANGED command

-----------------------------------------------------------------------------
(* The jobs page *)

\* Another filter may mean another key.
Filters(pg) ==
  /\ OnPage("jobs") /\ Does("filter")
  /\ \/ JobsKey(pg) = JobsKey(page) /\ Set(pg)
     \/ /\ JobsKey(pg) # JobsKey(page) /\ TurnsTo(pg, TRUE)
        /\ UNCHANGED <<tables, cache, changes, faults, command, episode>>
  /\ UNCHANGED asked

toggleStatus(s) ==
  Filters([page EXCEPT !.filters = IF s \in @ THEN @ \ {s} ELSE @ \cup {s}])

SelectQueue(q) ==
  /\ q \in DOMAIN cache.queues \cup {Unset}
  /\ Filters([page EXCEPT !.queueId = q])

\* With more than one status the page filters what it was sent.
Shown ==
  IF Cardinality(page.filters) <= 1 THEN listing.rows
  ELSE {j \in listing.rows : listing.table[j].status \in page.filters}

OpenDetail(j) ==
  /\ OnPage("jobs") /\ Does("detail") /\ j \in Shown
  /\ Set([page EXCEPT !.detail = j]) /\ UNCHANGED asked

CloseDetail ==
  /\ DetailShown /\ form = NoForm /\ ~command
  /\ Set([page EXCEPT !.detail = 0]) /\ UNCHANGED asked

EditName(name) ==
  /\ InForm("jobs") /\ name # form.name
  /\ Type([form EXCEPT !.name = name], drawer)

\* Mutant: the button is not disabled while saving.
SubmitAgain(q) ==
  /\ InForm("jobs") /\ Does("submit") /\ q \in DOMAIN cache.queues
  /\ Send(page, [form EXCEPT !.saving = TRUE], drawer,
          [Blank EXCEPT !.op = "submit", !.queue = q, !.value = form.name])
  /\ UNCHANGED command

\* handleSubmit of SubmitJobForm, shown when a queue is known.
SubmitJob(q) ==
  /\ InForm("jobs") /\ Does("submit") /\ q \in DOMAIN cache.queues /\ ~form.saving
  /\ Send(page, [form EXCEPT !.saving = TRUE], drawer,
          [Blank EXCEPT !.op = "submit", !.queue = q, !.value = form.name])
  /\ UNCHANGED command

-----------------------------------------------------------------------------
(* The dead-letter page *)

\* retry(): one slot for all rows; only the row in it has its button disabled.
RetryJob(j) ==
  /\ OnPage("dlq") /\ j \in cache.dlq /\ page.retrying # j
  /\ Send([page EXCEPT !.retrying = j], form, drawer,
          [Blank EXCEPT !.op = "retry", !.job = j])
  /\ UNCHANGED command

-----------------------------------------------------------------------------
(* Answers *)

\* Mutant: setSaving(false) follows the await and is not in finally.
FreedOnSuccess(r) ==
  IF r.state = "error" THEN form
  ELSE CASE r.op \in {"submit", "create"} -> [form EXCEPT !.saving = FALSE]
         [] r.op = "project" -> [form EXCEPT !.inline = FALSE]
         [] OTHER -> form

\* Nothing but finally: the button is enabled again.
Freed(r) ==
  CASE r.op \in {"submit", "create"} -> [form EXCEPT !.saving = FALSE]
    [] r.op = "project" -> [form EXCEPT !.inline = FALSE]
    [] OTHER -> form

\* The page after the answer: onSubmitted, onCreated and onClose act on the
\* page that is mounted, also when the form they belong to is gone.
After(r) ==
  IF r.live = "gone" THEN page
  ELSE CASE r.op = "submit" /\ r.state = "ok" ->
              [page EXCEPT !.open = FALSE, !.detail = r.job]
         [] r.op = "create" /\ r.state = "ok" -> Closes
         [] r.op = "save" /\ r.state = "ok" -> [page EXCEPT !.selected = NoQueue]
         [] r.op = "retry" -> [page EXCEPT !.retrying = 0]
         [] OTHER -> page

\* The keys that the handler of a successful answer mutates.
Refreshed(r) ==
  IF r.state = "error" THEN {}
  ELSE CASE r.op = "submit" -> {"jobs"}
         [] r.op = "project" -> {"projects"}
         [] r.op \in {"retry", "command"} -> {"dlq"}
         [] OTHER -> {"queues"}

Receive(s) ==
  LET r == req[s] IN
    /\ r.state \in {"ok", "error"} /\ ~(r.op = "command" /\ r.state = "ok")
    /\ fetch' = Mutated(Refreshed(r))
    /\ Render(After(r), TRUE, failed,
              IF r.live = "form" THEN Freed(r) ELSE form,
              IF r.live = "form" /\ r.op = "save" THEN [drawer EXCEPT !.saving = FALSE] ELSE drawer,
              [req EXCEPT ![s].state = "done"])
    /\ UNCHANGED <<tables, cache, listing, changes, faults, asked, command, episode>>

\* The palette's retry then pushes /dlq.
ReceiveCommand(s) ==
  /\ req[s].op = "command" /\ req[s].state = "ok"
  /\ \/ /\ page.path = "dlq" /\ page.param = NoParam
        /\ Render(page, TRUE, failed, form, drawer, [req EXCEPT ![s] = Over])
        /\ UNCHANGED listing
     \/ /\ page.path # "dlq"
        /\ Render(FreshPage("dlq", NoParam), FALSE, failed \ {"jobs"}, form, drawer,
                  [req EXCEPT ![s] = Over])
        /\ listing' = NoPage
  /\ fetch' = Mutated({"dlq", "jobs"})
  /\ UNCHANGED <<tables, cache, changes, faults, asked, command, episode>>

-----------------------------------------------------------------------------
(* Polling *)

\* Mutant: each list is polled on its own page only.
PolledOnOwnPage(k) == k = page.path

\* The shell uses the keys queues and dlq wherever the operator is.
Polled(k) == CASE k = "jobs" -> page.path = "jobs"
               [] k = "projects" -> page.path = "queues"
               [] OTHER -> TRUE

\* Data arrives: with a project CreateProjectInline is gone.
Arrive(k) ==
  /\ fetch[k] # NoFetch
  /\ fetch' = [fetch EXCEPT ![k] = NoFetch]
  /\ \/ k = "jobs" /\ listing' = fetch[k][1] /\ UNCHANGED cache
     \/ k # "jobs" /\ cache' = [cache EXCEPT ![k] = fetch[k][1]] /\ UNCHANGED listing
  /\ LET known == k = "projects" /\ fetch[k][1] IN
       Render(page, TRUE, failed \ {k},
              IF known /\ form # NoForm THEN [form EXCEPT !.inline = FALSE] ELSE form, drawer,
              [s \in Slots |-> IF known /\ req[s].op = "project" /\ req[s] # Unsent
                               THEN [req[s] EXCEPT !.live = "gone"] ELSE req[s]])
  /\ UNCHANGED <<tables, changes, faults, asked, command, episode>>

FetchFails(k) ==
  /\ Polled(k) /\ Fault
  /\ fetch' = [fetch EXCEPT ![k] = NoFetch]
  /\ Render(page, TRUE, failed \cup {k}, form, drawer, req)
  /\ UNCHANGED <<tables, cache, listing, changes, asked, command, episode>>

Poll(k) ==
  \/ Polled(k) /\ Read(k, JobsKey(page)) /\ UNCHANGED <<uiVars, episode>>
  \/ Arrive(k)
-----------------------------------------------------------------------------
Init ==
  /\ episode \in Episodes
  /\ projects = episode.projects /\ queues = episode.queues /\ jobs = episode.jobs
  /\ letters = episode.letters /\ burying = {} /\ past = {jobs}
  /\ cache = [queues |-> NoQueues, projects |-> FALSE, dlq |-> {}]
  /\ fetch = [k \in Keys |-> NoFetch] /\ failed = {} /\ listing = NoPage
  /\ req = [s \in Slots |-> Unsent]
  /\ changes = episode.changes /\ faults = episode.faults
  /\ asked = {} /\ command = FALSE
  /\ page = FreshPage("overview", NoParam) /\ form = NoForm /\ drawer = NoDrawer

Shell ==
  \/ \E path \in episode.paths : \E param \in Params(path) :
       Navigate(path, param) \/ RunNavigation(path, param)
  \/ Does("create") /\ (TopBarButton("queues") \/ OpenForm("queues"))
  \/ Does("submit") /\ (TopBarButton("jobs") \/ OpenForm("jobs"))
  \/ ToggleCommand \/ Escape \/ CloseForm
  \/ \E q \in Queues : RunToggle(q)
  \/ \E j \in DOMAIN jobs : RunRetry(j)

QueuesPage ==
  \/ \E q \in Queues : OpenQueue(q) \/ \E limit \in Limit : CreateQueue(q, limit)
  \/ CloseQueue \/ SaveQueue \/ TogglePause \/ CreateProject
  \/ \E limit \in Limit : EditLimit(limit)

JobsPage ==
  \/ \E s \in Statuses : toggleStatus(s)
  \/ \E q \in Queues \cup {Unset} : SelectQueue(q)
  \/ \E q \in Queues : SubmitJob(q)
  \/ \E j \in DOMAIN jobs : OpenDetail(j)
  \/ CloseDetail
  \/ \E name \in Names \cup {NoName} : EditName(name)

Next ==
  \/ Shell \/ QueuesPage \/ JobsPage
  \/ \E j \in DOMAIN jobs : RetryJob(j)
  \/ \E s \in Slots : Receive(s) \/ ReceiveCommand(s)
  \/ \E k \in Keys : Poll(k) \/ FetchFails(k)
  \/ /\ \/ Elsewhere \/ \E j \in DOMAIN jobs : Bury(j)
        \/ \E s \in Slots : Serve(s) \/ Lose(s)
     /\ UNCHANGED <<uiVars, episode>>

Spec == Init /\ [][Next]_vars

\* The hooks of the shell go on polling while the tab is visible, and SWR
\* retries after an error.
FairSpec == Spec /\ \A k \in {"queues", "dlq"} : WF_vars(Poll(k))

-----------------------------------------------------------------------------
(* Properties *)

\* Whatever is closed, reopened, navigated or replaced by an error panel
\* meanwhile: a mounted form or drawer shows "saving" exactly while a request
\* it sent itself is unanswered, and the row marked "Retrying" on the
\* dead-letter page has one.  No control stays disabled for ever, and no form
\* takes the end of another form's request for its own.
BusyMatchesRequest ==
  /\ form # NoForm => /\ form.saving = (Live({"submit", "create"}) # {})
                      /\ form.inline = (Live({"project"}) # {})
  /\ drawer # NoDrawer => drawer.saving = (Live({"save"}) # {})
  /\ page.retrying # 0 => \E s \in Live({"retry"}) : req[s].job = page.retrying

\* However often its button is pressed and whatever is lost, one SubmitJobForm
\* inserts one job, plus one for each answer to an insert that was lost.
OneRowPerForm ==
  LET own == {s \in Slots : req[s].op = "submit" /\ req[s].live = "form"} IN
    Cardinality({s \in own : req[s].inserted})
      <= 1 + Cardinality({s \in own : req[s].inserted /\ req[s].lost})

\* QueueDrawer sets its fields only when it mounts, yet its fields always
\* belong to the selected queue, and so does what is saved.
SavesOwnQueue ==
  /\ drawer # NoDrawer => drawer.of = page.selected.queue
  /\ \A s \in Slots : req[s].op = "save" => req[s].of = req[s].queue

\* The jobs shown are those of the table read last that pass the filters: all
\* of them when one status is chosen and they fit the server's page, or when
\* everything in the chosen queue does.
ShownMatchesFilters ==
  LET table == listing.table
      queued == {j \in DOMAIN table : page.queueId \in {Unset, table[j].queue}}
      fits == {j \in queued : page.filters = {} \/ table[j].status \in page.filters} IN
    /\ Shown \subseteq fits
    /\ \/ Cardinality(queued) <= PageSize
       \/ Cardinality(page.filters) = 1 /\ Cardinality(fits) <= PageSize
       => Shown = fits

\* Once nobody changes anything, the queues that every page offers are those
\* of the database, and the dead letters those that GET /dlq answers, although
\* the answer to a pause is taken for an error and refreshes nothing, and a
\* retry cut off between its statements refreshes nothing either.
ViewsCatchUp == <>[](cache.queues = GetQueues /\ cache.dlq = GetDlq)
=============================================================================
