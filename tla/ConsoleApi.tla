----------------------------- MODULE ConsoleApi -----------------------------
(***************************************************************************)
(* What the console's pages share: the tables behind the routes of         *)
(* router.ts that they call, the SWR cache that polls those routes         *)
(* (lib/use-api.ts), and the requests that change something (lib/api.ts).  *)
(* A request is sent, served by one route, and answered later, in any      *)
(* order; it or its answer may be lost.                                    *)
(***************************************************************************)
EXTENDS Naturals, Sequences, FiniteSets

CONSTANTS
  Queues,     \* queue slugs; a slug names one queue, as UNIQUE (slug) makes it
  Names,      \* job names, sent as the idempotency key
  NoName,     \* no job name typed
  Limits,     \* concurrency limits
  NoLimit,    \* the column is NULL, the field is empty
  PageSize,   \* LIMIT of GET /jobs and of GET /dlq, 100 in the code
  Slots       \* bound on the requests an operator makes

ASSUME PageSizeAssumption == PageSize \in Nat \ {0}
ASSUME NoneAssumption == NoName \notin Names /\ NoLimit \notin Limits
ASSUME SlotsFinite == IsFiniteSet(Slots)

VARIABLES
  projects,   \* table projects holds a row
  queues,     \* table queues
  jobs,       \* table jobs, in the order of created_at
  letters,    \* table dead_letter_queue: job_id, in the order of failed_at
  burying,    \* jobs set to dead_letter whose row there is not inserted yet
  cache,      \* SWR: the data of the keys queues, projects and dlq
  fetch,      \* SWR: the answer of each key's current fetch, when under way
  failed,     \* SWR: the keys whose last fetch failed
  listing,    \* SWR: the data under the key of the jobs page
  past,       \* the tables of jobs that a cached page may show
  req,        \* the requests
  changes,    \* bound on what others change meanwhile
  faults      \* bound on lost requests, lost answers and failed fetches

tables == <<projects, queues, jobs, letters, burying, past>>
swr == <<cache, fetch, failed, listing>>
apiVars == <<projects, queues, jobs, letters, burying, past, cache, fetch, failed,
             listing, req, changes, faults>>

Statuses == {"queued", "completed", "dead_letter"}
Limit == Limits \cup {NoLimit}
QueueRow == [paused : BOOLEAN, limit : Limit]
JobRow == [queue : Queues, name : Names \cup {NoName}, status : Statuses]
QueueTables == UNION {[Q -> QueueRow] : Q \in SUBSET Queues}
NoQueues == [q \in {} |-> <<>>]

\* dead_letter_queue holds a row of job j.
Listed(j) == \E i \in DOMAIN letters : letters[i] = j

\* The query of GET /jobs: a status and a queue, each given or not.
Unset == "any"
ASSUME UnsetAssumption == Unset \notin Queues

Matches(row, key) ==
  /\ key.status \in {Unset, row.status}
  /\ key.queue \in {Unset, row.queue}

\* GET /jobs: ORDER BY created_at DESC LIMIT PageSize.
Answer(key, table) ==
  LET found == {j \in DOMAIN table : Matches(table[j], key)} IN
    {j \in found : Cardinality({k \in found : k > j}) < PageSize}

Page(key, table) == [rows |-> Answer(key, table), table |-> table]

\* GET /dlq: ORDER BY failed_at DESC LIMIT PageSize, of dead_letter_queue alone.
GetDlq == {letters[i] : i \in {k \in DOMAIN letters : Len(letters) - k < PageSize}}

\* GET /queues and GET /projects answer all there is.
GetQueues == queues
GetProjects == projects

-----------------------------------------------------------------------------
(* Requests.  live says how much of the component that sent a request is   *)
(* still there for its answer: the form, or only the page around it.       *)

Ops == {"project", "create", "save", "pause", "resume", "submit", "retry", "command"}

Request ==
  [op : Ops, queue : Queues \cup {Unset}, of : Queues \cup {Unset},
   value : Names \cup {NoName} \cup Limit, job : Nat,
   live : {"form", "page", "gone"}, state : {"sent", "half", "ok", "error", "done"},
   inserted : BOOLEAN, lost : BOOLEAN]

Blank == [op |-> "project", queue |-> Unset, of |-> Unset, value |-> NoName, job |-> 0,
          live |-> "form", state |-> "sent", inserted |-> FALSE, lost |-> FALSE]

Unsent == [Blank EXCEPT !.state = "done", !.live = "page"]
Over == [Blank EXCEPT !.state = "done", !.live = "gone"]

Live(ops) == {s \in Slots : req[s].op \in ops /\ req[s].live = "form"
                            /\ req[s].state # "done"}
FreeSlots == {s \in Slots : req[s] = Unsent}

\* req with r sent in a slot not used before.
Sending(r) == [req EXCEPT ![CHOOSE s \in FreeSlots : TRUE] = r]

Answered(s, state) == req' = [req EXCEPT ![s].state = state]

\* POST /projects; UNIQUE (org_id, slug) fails the second one of a slug.
postProject(s) ==
  /\ req[s].op = "project"
  /\ projects' = TRUE
  /\ \E state \in {"ok"} \cup {x \in {"error"} : projects} : Answered(s, state)
  /\ UNCHANGED <<queues, jobs, letters, burying, past>>

\* POST /queues; UNIQUE (project_id, slug).
postQueue(s) ==
  LET q == req[s].queue IN
    /\ req[s].op = "create"
    /\ \/ /\ projects /\ q \notin DOMAIN queues
          /\ queues' = [x \in DOMAIN queues \cup {q} |->
                          IF x = q THEN [paused |-> FALSE, limit |-> req[s].value]
                          ELSE queues[x]]
          /\ Answered(s, "ok")
       \/ /\ ~projects \/ q \in DOMAIN queues
          /\ Answered(s, "error") /\ UNCHANGED queues
    /\ UNCHANGED <<projects, jobs, letters, burying, past>>

Coalesce(new, old) == IF new = NoLimit THEN old ELSE new

\* PUT /queues/{id}: an absent limit leaves the column alone.
putQueue(s) ==
  /\ req[s].op = "save"
  /\ queues' = [queues EXCEPT ![req[s].queue].limit = Coalesce(req[s].value, @)]
  /\ Answered(s, "ok")
  /\ UNCHANGED <<projects, jobs, letters, burying, past>>

\* POST /queues/{id}/pause and /resume answer 204 with no body, which
\* request() then fails to parse: the caller sees an error.
postPause(s) ==
  /\ req[s].op \in {"pause", "resume"}
  /\ queues' = [queues EXCEPT ![req[s].queue].paused = req[s].op = "pause"]
  /\ Answered(s, "error")
  /\ UNCHANGED <<projects, jobs, letters, burying, past>>

Remember == past' = past \cup {jobs'}

\* The jobs of the queue of request r that have its name.
SameName(r) == {j \in DOMAIN jobs : r.value # NoName /\ jobs[j].queue = r.queue
                                   /\ jobs[j].name = r.value}

\* POST /queues/{id}/jobs reads first: a name already used in the queue is
\* answered with the job that has it.
postJobSelect(s) ==
  LET same == SameName(req[s]) IN
    /\ req[s].op = "submit"
    /\ \/ same = {} /\ Answered(s, "half")
       \/ /\ same # {}
          /\ req' = [req EXCEPT ![s].state = "ok", ![s].job = CHOOSE j \in same : TRUE]
    /\ UNCHANGED tables

\* Its INSERT fails when another request has inserted the name meanwhile:
\* UNIQUE (queue_id, idempotency_key).
postJobInsert(s) ==
  LET r == req[s] IN
    /\ r.op = "submit"
    /\ \/ /\ SameName(r) = {}
          /\ jobs' = Append(jobs, [queue |-> r.queue, name |-> r.value, status |-> "queued"])
          /\ Remember
          /\ req' = [req EXCEPT ![s].state = "ok", ![s].inserted = TRUE,
                                ![s].job = Len(jobs) + 1]
       \/ SameName(r) # {} /\ Answered(s, "error") /\ UNCHANGED <<jobs, past>>
    /\ UNCHANGED <<projects, queues, letters, burying>>

\* dead_letter_queue without the row of j.
Without(j) ==
  [k \in 1 .. Len(letters) - 1 |->
     IF \E i \in 1 .. k : letters[i] = j THEN letters[k + 1] ELSE letters[k]]

\* POST /jobs/{id}/retry deletes the row first, if there is one,
postRetryDelete(s) ==
  /\ req[s].op \in {"retry", "command"}
  /\ letters' = IF Listed(req[s].job) THEN Without(req[s].job) ELSE letters
  /\ Answered(s, "half")
  /\ UNCHANGED <<projects, queues, jobs, burying, past>>

\* Mutant: a status that is not one of job_status.
RetryAsRetrying(s) ==
  /\ req[s].op \in {"retry", "command"}
  /\ jobs' = [jobs EXCEPT ![req[s].job].status = "retrying"]
  /\ Remember
  /\ Answered(s, "ok")
  /\ UNCHANGED <<projects, queues, letters, burying>>

\* and then updates the job, whatever its status is by now.  It is there: the
\* console offers jobs of its organization, and no route deletes a job.
postRetryUpdate(s) ==
  /\ req[s].op \in {"retry", "command"}
  /\ jobs' = [jobs EXCEPT ![req[s].job].status = "queued"]
  /\ Remember
  /\ Answered(s, "ok")
  /\ UNCHANGED <<projects, queues, letters, burying>>

\* One statement of the route of request s.
Serve(s) ==
  /\ \/ /\ req[s].state = "sent"
        /\ \/ postProject(s) \/ postQueue(s) \/ putQueue(s) \/ postPause(s)
           \/ postJobSelect(s) \/ postRetryDelete(s)
     \/ req[s].state = "half" /\ (postJobInsert(s) \/ postRetryUpdate(s))
  /\ UNCHANGED <<swr, changes, faults>>

Fault == faults > 0 /\ faults' = faults - 1

\* fetch() rejects, or the route answers 500: the request or its answer is
\* lost, or the route is cut off between its two statements.
Lose(s) ==
  /\ req[s].state \in {"sent", "half", "ok"} /\ Fault
  /\ req' = [req EXCEPT ![s].state = "error", ![s].lost = req[s].state = "ok"]
  /\ UNCHANGED <<tables, swr, changes>>

-----------------------------------------------------------------------------
(* Other operators and the workers *)

\* Somebody changes a queue, or a worker ends a job.
Elsewhere ==
  /\ changes > 0 /\ changes' = changes - 1
  /\ \/ \E q \in DOMAIN queues, row \in QueueRow :
          /\ queues' = [queues EXCEPT ![q] = row] /\ queues' # queues
          /\ UNCHANGED <<projects, jobs, letters, burying, past>>
     \/ \E j \in DOMAIN jobs, status \in {"completed", "dead_letter"} :
          /\ jobs[j].status = "queued"
          /\ jobs' = [jobs EXCEPT ![j].status = status]
          /\ burying' = burying \cup {x \in {j} : status = "dead_letter"}
          /\ Remember
          /\ UNCHANGED <<projects, queues, letters>>
  /\ UNCHANGED <<swr, req, faults>>

\* The worker's second statement for a dead letter, ON CONFLICT DO NOTHING; it
\* may never come.
Bury(j) ==
  /\ j \in burying
  /\ burying' = burying \ {j}
  /\ letters' = IF Listed(j) THEN letters ELSE Append(letters, j)
  /\ UNCHANGED <<projects, queues, jobs, past, swr, req, changes, faults>>

-----------------------------------------------------------------------------
(* The SWR cache.  Undefined data is rendered like an empty list.          *)

Keys == {"queues", "projects", "dlq", "jobs"}

\* What the fetcher of a key gets; the key of jobs depends on the page.
Truth(k, key) ==
  CASE k = "queues" -> GetQueues
    [] k = "projects" -> GetProjects
    [] k = "dlq" -> GetDlq
    [] k = "jobs" -> Page(key, jobs)

NoFetch == <<>>

Known(k) == IF k = "jobs" THEN listing ELSE cache[k]

\* A hook with refreshInterval 3000, or SWR's retry after an error, calls its
\* route; what it reads arrives later.  A poll that reads what the cache has
\* changes nothing and is left out.
Read(k, key) ==
  /\ fetch[k] = NoFetch
  /\ k \in failed \/ Truth(k, key) # Known(k)
  /\ fetch' = [fetch EXCEPT ![k] = <<Truth(k, key)>>]
  /\ UNCHANGED <<tables, cache, failed, listing, req, changes, faults>>

\* mutate(key): SWR fetches anew and drops the answer under way.
Mutated(keys) == [k \in Keys |-> IF k \in keys THEN NoFetch ELSE fetch[k]]

ApiTypeOK ==
  /\ projects \in BOOLEAN /\ queues \in QueueTables
  /\ jobs \in Seq(JobRow) /\ past \subseteq Seq(JobRow)
  /\ letters \in Seq(DOMAIN jobs) /\ burying \subseteq DOMAIN jobs
  /\ cache.queues \in QueueTables /\ cache.projects \in BOOLEAN
  /\ cache.dlq \subseteq DOMAIN jobs
  /\ DOMAIN fetch = Keys /\ failed \subseteq Keys
  /\ listing.rows \subseteq DOMAIN listing.table /\ listing.table \in past \cup {<<>>}
  /\ req \in [Slots -> Request]
  /\ changes \in Nat /\ faults \in Nat
=============================================================================
