-------------------------------- MODULE Setup --------------------------------
(***************************************************************************)
(* POST /api/setup of the dashboard (src/dashboard/src/server/setup.ts):   *)
(* ensureSchema runs a list of idempotent DDL statements, seedDemo inserts *)
(* the demo rows.  Nothing is a transaction: requests may overlap, and a   *)
(* request may be cut off after any statement and be sent again.           *)
(***************************************************************************)
EXTENDS Naturals, Sequences, FiniteSets

CONSTANTS
  Setups   \* POST /api/setup requests; each is sent at most once

VARIABLES
  schema,   \* the types, tables and indexes that exist
  seed,     \* the rows seedDemo has inserted, by kind
  setup,    \* each request: its part, its next statement, its answer
  severed   \* history: a seeding was cut off between two of its inserts

setupVars == <<schema, seed, setup, severed>>

\* A DDL statement: what it creates and what must exist before.
Makes(name, needs) == [name |-> name, needs |-> needs]

\* Mutant: a table before one it references.
STATEMENTSQueuesFirst ==
  << Makes("pgcrypto", {}), Makes("job_status", {}), Makes("worker_status", {}),
     Makes("queues", {"projects"}), Makes("organizations", {"pgcrypto"}),
     Makes("users", {"organizations"}), Makes("projects", {"organizations"}) >>

\* The list of setup.ts; gen_random_uuid() comes from pgcrypto, and a table
\* needs the tables its REFERENCES name.
STATEMENTS ==
  << Makes("pgcrypto", {}),
     Makes("job_status", {}),
     Makes("worker_status", {}),
     Makes("set_updated_at", {}),
     Makes("organizations", {"pgcrypto"}),
     Makes("users", {"pgcrypto", "organizations"}),
     Makes("projects", {"pgcrypto", "organizations"}),
     Makes("queues", {"pgcrypto", "projects"}),
     Makes("workers", {"pgcrypto", "worker_status"}),
     Makes("worker_heartbeats", {"pgcrypto", "workers"}),
     Makes("jobs", {"pgcrypto", "job_status", "queues", "workers"}),
     Makes("job_executions", {"pgcrypto", "jobs", "workers"}),
     Makes("job_logs", {"pgcrypto", "jobs"}),
     Makes("dead_letter_queue", {"pgcrypto", "jobs", "queues"}),
     Makes("idx_jobs_claim", {"jobs"}),
     Makes("idx_jobs_idempotency", {"jobs"}),
     Makes("idx_jobs_queue_status", {"jobs"}),
     Makes("idx_job_executions_job_id", {"job_executions"}),
     Makes("idx_job_logs_job_created", {"job_logs"}),
     Makes("idx_job_executions_finished", {"job_executions"}) >>

FullSchema == {STATEMENTS[n].name : n \in DOMAIN STATEMENTS}

\* The inserts of seedDemo after the organization, by table: three queues
\* with three jobs each.
SEED ==
  <<"users", "projects", "queues", "jobs", "jobs", "jobs", "queues", "jobs",
    "jobs", "jobs", "queues", "jobs", "jobs", "jobs", "workers">>

Request == [part : {"new", "schema", "check", "org", "seed", "done"},
            next : Nat, answer : {"none", "seeded", "unseeded", "error"}]

SetupTypeOK ==
  /\ schema \subseteq FullSchema
  /\ seed \in [orgs : Nat, rows : Nat]
  /\ setup \in [Setups -> Request]
  /\ severed \in BOOLEAN

SetupInit ==
  /\ schema = {}
  /\ seed = [orgs |-> 0, rows |-> 0]
  /\ setup = [s \in Setups |-> [part |-> "new", next |-> 0, answer |-> "none"]]
  /\ severed = FALSE

Answered(s, answer) ==
  setup' = [setup EXCEPT ![s] = [part |-> "done", next |-> 0, answer |-> answer]]

-----------------------------------------------------------------------------
\* The setup route: ensureSchema first.
PostSetup(s) ==
  /\ setup[s].part = "new"
  /\ setup' = [setup EXCEPT ![s].part = "schema", ![s].next = 1]
  /\ UNCHANGED <<schema, seed, severed>>

Ready(s) == STATEMENTS[setup[s].next].needs \subseteq schema

\* Mutant: the loop stops one statement early.
StatementBeforeLast(s) == setup[s].next + 1 >= Len(STATEMENTS)

LastStatement(s) == setup[s].next = Len(STATEMENTS)

\* Mutant: the last queue's loop is left out of the count.
InsertBeforeLast(s) == setup[s].next + 1 >= Len(SEED)

LastInsert(s) == setup[s].next = Len(SEED)

\* IF NOT EXISTS and duplicate_object make a repeated statement a no-op; a
\* statement whose references are missing throws.
ensureSchema(s) ==
  /\ setup[s].part = "schema"
  /\ \/ /\ Ready(s)
        /\ schema' = schema \cup {STATEMENTS[setup[s].next].name}
        /\ \/ LastStatement(s) /\ setup' = [setup EXCEPT ![s].part = "check", ![s].next = 0]
           \/ ~LastStatement(s) /\ setup' = [setup EXCEPT ![s].next = @ + 1]
     \/ ~Ready(s) /\ Answered(s, "error") /\ UNCHANGED schema
  /\ UNCHANGED <<seed, severed>>

\* No row of organizations has slug 'demo'.
Unseeded == seed.orgs = 0

\* seedDemo: SELECT id FROM organizations WHERE slug = 'demo'.
checkSeed(s) ==
  /\ setup[s].part = "check"
  /\ \/ Unseeded /\ setup' = [setup EXCEPT ![s].part = "org"]
     \/ ~Unseeded /\ Answered(s, "unseeded")
  /\ UNCHANGED <<schema, seed, severed>>

\* Mutant: the slug is not UNIQUE.
SlugAlwaysFree == TRUE

\* organizations.slug is UNIQUE.
SlugFree == seed.orgs = 0

\* INSERT INTO organizations; the later of two overlapping seeders throws.
insertOrg(s) ==
  /\ setup[s].part = "org"
  /\ \/ /\ SlugFree
        /\ seed' = [seed EXCEPT !.orgs = @ + 1]
        /\ setup' = [setup EXCEPT ![s].part = "seed", ![s].next = 1]
     \/ ~SlugFree /\ Answered(s, "error") /\ UNCHANGED seed
  /\ UNCHANGED <<schema, severed>>

\* The inserts under the new organization, one statement each.
insertSeed(s) ==
  /\ setup[s].part = "seed"
  /\ seed' = [seed EXCEPT !.rows = @ + 1]
  /\ \/ ~LastInsert(s) /\ setup' = [setup EXCEPT ![s].next = @ + 1]
     \/ LastInsert(s) /\ Answered(s, "seeded")
  /\ UNCHANGED <<schema, severed>>

\* A statement throws or the request's 60 seconds are over.
SetupCut(s) ==
  /\ setup[s].part \notin {"new", "done"}
  /\ Answered(s, "error")
  /\ severed' = (severed \/ setup[s].part = "seed")
  /\ UNCHANGED <<schema, seed>>

SetupStep(s) ==
  PostSetup(s) \/ ensureSchema(s) \/ checkSeed(s) \/ insertOrg(s) \/ insertSeed(s)

SetupNext == \E s \in Setups : SetupStep(s) \/ SetupCut(s)

-----------------------------------------------------------------------------
\* resolveDemoUser finds a user: the seed's first insert is admin@demo.com,
\* the fallback for every other address.
resolveDemoUser == seed.rows >= 1

UsersTable == "users" \in schema

-----------------------------------------------------------------------------
(* Properties *)

\* Whatever prefix of ensureSchema earlier and overlapping requests have run,
\* no statement is reached before what it references exists.
ReferencesReady == \A s \in Setups : setup[s].part = "schema" => Ready(s)

\* However setup requests overlap and are repeated, the demo rows are
\* inserted at most once.
SeededOnce == seed.orgs <= 1 /\ seed.rows <= Len(SEED)

\* The demo organization without all of its rows is a seeding under way or one
\* that was cut off between two inserts: neither an overlapping request that
\* loses the race for the slug nor one that is repeated leaves such a database
\* (from which no later setup recovers, as it finds the organization).
HalfSeededMeansCut ==
  seed.orgs > 0 /\ seed.rows < Len(SEED)
    => severed \/ \E s \in Setups : setup[s].part = "seed"

\* A setup answered with success leaves the whole schema; seeded: true means
\* that every demo row is there, seeded: false that the demo user is, unless
\* another request is still seeding or was cut off while it did: from then on
\* the organization makes every later setup answer seeded: false.
OkMeansUsable ==
  \A s \in Setups : setup[s].answer \in {"seeded", "unseeded"} =>
    /\ schema = FullSchema
    /\ setup[s].answer = "seeded" => seed.rows = Len(SEED)
    /\ seed.rows >= 1 \/ severed \/ \E r \in Setups : setup[r].part = "seed"
=============================================================================
