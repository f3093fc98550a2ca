----------------------------- MODULE AccessSafety -----------------------------
(***************************************************************************)
(* Proofs about Access for every number of setup requests, tabs and logins *)
(* and every point where a request is cut off.                             *)
(***************************************************************************)
EXTENDS Access, FiniteSetTheorems, TLAPS

\* Every statement of ensureSchema references only what the statements before
\* it create.
LEMMA StatementOrder ==
  /\ Len(STATEMENTS) = 20 /\ DOMAIN STATEMENTS = 1..20
  /\ \A n \in 1..20 : \A x \in STATEMENTS[n].needs :
       \E m \in 1..20 : m < n /\ STATEMENTS[m].name = x
<1> DEFINE P(n) == \A x \in STATEMENTS[n].needs :
                     \E m \in 1..20 : m < n /\ STATEMENTS[m].name = x
<1>1. Len(STATEMENTS) = 20 /\ DOMAIN STATEMENTS = 1..20
  BY DEF STATEMENTS
<1>2. P(1) /\ P(2) /\ P(3) /\ P(4) /\ P(5)
  BY DEF STATEMENTS, Makes
<1>3. P(6) /\ P(7)
  BY DEF STATEMENTS, Makes
<1>4. P(8) /\ P(9) /\ P(10)
  BY DEF STATEMENTS, Makes
<1>5. P(11) /\ P(12)
  BY DEF STATEMENTS, Makes
<1>6. P(13) /\ P(14)
  BY DEF STATEMENTS, Makes
<1>7. P(15) /\ P(16) /\ P(17)
  BY DEF STATEMENTS, Makes
<1>8. P(18) /\ P(19) /\ P(20)
  BY DEF STATEMENTS, Makes
<1> HIDE DEF P
<1>9. ASSUME NEW n \in 1..20 PROVE P(n)
  BY <1>2, <1>3, <1>4, <1>5, <1>6, <1>7, <1>8
<1> QED
  BY Zenon, <1>1, <1>9 DEF P

\* seedDemo inserts fifteen rows under the organization.
LEMMA SeedLength == Len(SEED) = 15
  BY Zenon DEF SEED

-----------------------------------------------------------------------------
Seeding(s) == setup[s].part = "seed"
Succeeded(s) == setup[s].answer \in {"seeded", "unseeded"}

\* What ensureSchema has done by the time a request is where it is.
SchemaInv ==
  \A s \in Setups :
    /\ setup[s].part = "schema" =>
         /\ setup[s].next \in 1..20
         /\ \A n \in 1..20 : n < setup[s].next => STATEMENTS[n].name \in schema
    /\ setup[s].part \in {"check", "org", "seed"} \/ Succeeded(s)
         => schema = FullSchema
    /\ setup[s].part # "done" => setup[s].answer = "none"

\* At most one request seeds, the one that inserted the organization, and it
\* has inserted the rows before its next one.  The organization without all
\* its rows is a seeding under way or one that was cut off.
SeedInv ==
  /\ seed.orgs \in {0, 1} /\ seed.rows <= 15
  /\ seed.orgs = 0 => /\ seed.rows = 0
                      /\ \A s \in Setups : ~Seeding(s) /\ ~Succeeded(s)
  /\ \A s, r \in Setups : Seeding(s) /\ Seeding(r) => s = r
  /\ \A s \in Setups : Seeding(s) => /\ setup[s].next \in 1..15
                                     /\ seed.rows = setup[s].next - 1
  /\ \A s \in Setups : setup[s].answer = "seeded" => seed.rows = 15
  /\ seed.orgs = 1 => seed.rows = 15 \/ severed = TRUE \/ \E r \in Setups : Seeding(r)

SetupInv == SetupTypeOK /\ SchemaInv /\ SeedInv

\* Init establishes the invariant, from an empty and from a seeded database.
LEMMA SetupInvInit == Init => SetupInv
<1> SUFFICES ASSUME Init PROVE SetupInv
  BY Zenon
<1> USE SeedLength
<1>1. SetupTypeOK
  <2>1. schema \subseteq FullSchema /\ seed \in [orgs : Nat, rows : Nat]
    BY DEF Init, SetupInit
  <2>2. setup \in [Setups -> Request]
    BY DEF Init, SetupInit, Request
  <2>3. severed \in BOOLEAN
    BY Zenon DEF Init, SetupInit
  <2> QED
    BY Zenon, <2>1, <2>2, <2>3 DEF SetupTypeOK
<1>2. SchemaInv
  BY DEF Init, SetupInit, SchemaInv, Succeeded
<1>3. SeedInv
  BY DEF Init, SetupInit, SeedInv, Seeding, Succeeded
<1> QED
  BY Zenon, <1>1, <1>2, <1>3 DEF SetupInv

\* A statement of ensureSchema only adds to the schema, and stays within it.
LEMMA SchemaStep ==
  ASSUME SetupInv, NEW s \in Setups, ensureSchema(s)
  PROVE  SetupInv'
<1>a. SetupTypeOK /\ SchemaInv /\ SeedInv
  BY Zenon DEF SetupInv
<1>0. setup[s] \in Request /\ setup \in [Setups -> Request]
  BY Zenon, <1>a DEF SetupTypeOK
<1>1. setup[s].next \in 1..20 /\ setup[s].part = "schema"
  BY Zenon, <1>a DEF ensureSchema, SchemaInv
<1>2. Ready(s)
  BY <1>1, <1>a, StatementOrder DEF Ready, SchemaInv
<1> DEFINE new == IF LastStatement(s)
                  THEN [setup[s] EXCEPT !.part = "check", !.next = 0]
                  ELSE [setup[s] EXCEPT !.next = setup[s].next + 1]
<1>3. /\ schema' = schema \cup {STATEMENTS[setup[s].next].name}
      /\ setup' = [setup EXCEPT ![s] = new]
      /\ seed' = seed /\ severed' = severed
  <2>1. CASE LastStatement(s)
    BY Zenon, <2>1, <1>0, <1>2 DEF ensureSchema
  <2>2. CASE ~LastStatement(s)
    BY Zenon, <2>2, <1>0, <1>2 DEF ensureSchema
  <2> QED
    BY Zenon, <2>1, <2>2
<1>4. /\ new \in Request /\ new.answer = setup[s].answer
      /\ LastStatement(s) => new.part = "check"
      /\ ~LastStatement(s) => new.part = "schema" /\ new.next = setup[s].next + 1
  <2>1. CASE LastStatement(s)
    BY Zenon, <2>1, <1>0, <1>1 DEF Request
  <2>2. CASE ~LastStatement(s)
    BY <2>2, <1>0, <1>1 DEF Request
  <2> QED
    BY Zenon, <2>1, <2>2
<1> HIDE DEF new
<1>5. STATEMENTS[setup[s].next].name \in FullSchema
  BY ZenonT(40), <1>1, StatementOrder DEF FullSchema
<1>6. SetupTypeOK'
  <2>1. setup' \in [Setups -> Request]
    BY Zenon, <1>0, <1>3, <1>4
  <2>2. (schema \subseteq FullSchema)' /\ (seed \in [orgs : Nat, rows : Nat])'
    BY Zenon, <1>3, <1>5, <1>a DEF SetupTypeOK
  <2>3. (severed \in BOOLEAN)'
    BY Zenon, <1>3, <1>a DEF SetupTypeOK
  <2> QED
    BY Zenon, <2>1, <2>2, <2>3 DEF SetupTypeOK
<1>7. SchemaInv'
  <2> SUFFICES ASSUME NEW r \in Setups PROVE SchemaInv!(r)'
    BY Zenon DEF SchemaInv
  <2>1. CASE r # s
    BY Zenon, <2>1, <1>0, <1>3, <1>5, <1>6, <1>a DEF Succeeded, SchemaInv, SetupTypeOK
  <2>2. CASE r = s /\ ~LastStatement(s)
    <3>1. setup[s].next # 20
      BY Zenon, <2>2, StatementOrder DEF LastStatement
    <3>2. setup'[r] = new
      BY Zenon, <2>2, <1>0, <1>3
    <3>3. new.part = "schema" /\ new.next \in 1..20 /\ new.answer = "none"
      BY <2>2, <3>1, <1>1, <1>4, <1>a DEF SchemaInv
    <3>4. ASSUME NEW n \in 1..20, n < new.next PROVE STATEMENTS[n].name \in schema'
      BY <3>4, <2>2, <1>1, <1>3, <1>4, <1>a DEF SchemaInv
    <3> QED
      BY Zenon, <3>2, <3>3, <3>4 DEF Succeeded
  <2>3. CASE r = s /\ LastStatement(s)
    <3>1. FullSchema \subseteq schema'
      BY <2>3, <1>1, <1>3, <1>a, StatementOrder DEF LastStatement, FullSchema, SchemaInv
    <3>2. setup'[r] = new
      BY Zenon, <2>3, <1>0, <1>3
    <3> QED
      BY Zenon, <2>3, <3>1, <3>2, <1>1, <1>4, <1>6, <1>a
         DEF Succeeded, SchemaInv, SetupTypeOK
  <2> QED
    BY Zenon, <2>1, <2>2, <2>3
<1>8. SeedInv'
  BY Zenon, <1>0, <1>1, <1>3, <1>4, <1>a DEF SeedInv, Seeding, Succeeded
<1> QED
  BY Zenon, <1>6, <1>7, <1>8 DEF SetupInv

\* A request that ends, with the rows and the schema as they are.
LEMMA AnsweredInv ==
  ASSUME SetupInv, NEW s \in Setups, NEW answer \in {"unseeded", "error"},
         setup[s].part # "new", setup[s].part # "done",
         setup' = [setup EXCEPT ![s] =
                     [part |-> "done", next |-> 0, answer |-> answer]],
         schema' = schema, seed' = seed, severed' \in BOOLEAN,
         severed' = TRUE \/ (severed' = severed /\ ~Seeding(s)),
         answer = "unseeded" => setup[s].part = "check" /\ seed.orgs # 0
  PROVE  SetupInv'
<1>1. SetupTypeOK /\ SchemaInv /\ SeedInv
  BY Zenon DEF SetupInv
<1>2. /\ setup \in [Setups -> Request] /\ setup' \in [Setups -> Request]
      /\ setup'[s] = [part |-> "done", next |-> 0, answer |-> answer]
      /\ \A r \in Setups : r # s => setup'[r] = setup[r]
  BY Zenon, <1>1 DEF SetupTypeOK, Request
<1>3. SetupTypeOK'
  BY Zenon, <1>1, <1>2 DEF SetupTypeOK
<1>4. SchemaInv'
  BY Zenon, <1>1, <1>2 DEF SchemaInv, Succeeded
<1>5. SeedInv'
  <2>1. \A r \in Setups : Seeding(r)' => Seeding(r) /\ r # s
    BY Zenon, <1>2 DEF Seeding
  <2>2. \A r \in Setups : r # s => (Seeding(r)' <=> Seeding(r))
    BY Zenon, <1>2 DEF Seeding
  <2>3. seed.orgs = 0 => \A r \in Setups : ~Succeeded(r)'
    BY Zenon, <1>1, <1>2 DEF SeedInv, Succeeded
  <2>4. \A r \in Setups : (setup'[r].answer = "seeded" => setup[r].answer = "seeded")
    BY Zenon, <1>2
  <2>5. \A r \in Setups : Seeding(r)' => setup'[r].next = setup[r].next
    BY Zenon, <1>2, <2>1
  <2>6. seed.orgs = 1 =>
          seed.rows = 15 \/ severed' = TRUE \/ \E r \in Setups : Seeding(r)'
    BY Zenon, <1>1, <2>2 DEF SeedInv
  <2> QED
    BY Zenon, <1>1, <2>1, <2>3, <2>4, <2>5, <2>6 DEF SeedInv
<1> QED
  BY Zenon, <1>3, <1>4, <1>5 DEF SetupInv

\* insertOrg makes its request the only seeder; every other one is refused.
LEMMA OrgStep ==
  ASSUME SetupInv, NEW s \in Setups, insertOrg(s)
  PROVE  SetupInv'
<1>1. SetupTypeOK /\ SchemaInv /\ SeedInv
  BY Zenon DEF SetupInv
<1>2. setup \in [Setups -> Request] /\ seed \in [orgs : Nat, rows : Nat]
  BY Zenon, <1>1 DEF SetupTypeOK
<1>3. CASE SlugFree
  <2>1. /\ seed.orgs = 0 /\ seed' = [seed EXCEPT !.orgs = 1]
        /\ setup' = [setup EXCEPT ![s].part = "seed", ![s].next = 1]
        /\ setup[s].part = "org" /\ schema' = schema /\ severed' = severed
    BY <1>2, <1>3 DEF insertOrg, SlugFree
  <2>2. /\ setup' \in [Setups -> Request]
        /\ setup'[s] = [setup[s] EXCEPT !.part = "seed", !.next = 1]
        /\ \A r \in Setups : r # s => setup'[r] = setup[r]
    BY ZenonT(40), <2>1, <1>2 DEF Request
  <2>3. /\ setup'[s].part = "seed" /\ setup'[s].next = 1
        /\ setup'[s].answer = setup[s].answer
    BY <2>2, <1>2 DEF Request
  <2>4. seed' = [orgs |-> 1, rows |-> 0]
    BY Zenon, <1>1, <1>2, <2>1 DEF SeedInv
  <2>5. SetupTypeOK'
    BY <1>1, <2>1, <2>2, <2>4 DEF SetupTypeOK
  <2>6. SchemaInv'
    BY Zenon, <1>1, <2>1, <2>2, <2>3 DEF SchemaInv, Succeeded
  <2>7. SeedInv'
    BY <1>1, <2>1, <2>2, <2>3, <2>4 DEF SeedInv, Seeding, Succeeded
  <2> QED
    BY Zenon, <2>5, <2>6, <2>7 DEF SetupInv
<1>4. CASE ~SlugFree
  BY Zenon, <1>4, <1>1, AnsweredInv DEF insertOrg, Answered, Seeding, SetupTypeOK
<1> QED
  BY Zenon, <1>3, <1>4

\* insertSeed counts its rows.
LEMMA SeedStep ==
  ASSUME SetupInv, NEW s \in Setups, insertSeed(s)
  PROVE  SetupInv'
<1>1. SetupTypeOK /\ SchemaInv /\ SeedInv
  BY Zenon DEF SetupInv
<1>2. /\ setup \in [Setups -> Request] /\ seed \in [orgs : Nat, rows : Nat]
      /\ setup[s].part = "seed" /\ Seeding(s) /\ seed.orgs = 1
      /\ setup[s].next \in 1..15 /\ seed.rows = setup[s].next - 1
      /\ setup[s].answer = "none" /\ schema = FullSchema
  BY Zenon, <1>1 DEF SetupTypeOK, insertSeed, SeedInv, SchemaInv, Seeding
<1>3. /\ seed' = [orgs |-> 1, rows |-> setup[s].next]
      /\ schema' = schema /\ severed' = severed
  BY <1>2 DEF insertSeed
<1>4. CASE ~LastInsert(s)
  <2>1. /\ setup' \in [Setups -> Request]
        /\ setup'[s].part = "seed" /\ setup'[s].next = setup[s].next + 1
        /\ setup'[s].answer = "none" /\ setup[s].next # 15
        /\ \A r \in Setups : r # s => setup'[r] = setup[r]
    BY <1>2, <1>4, SeedLength DEF insertSeed, LastInsert, Request
  <2>2. SetupTypeOK'
    BY <1>1, <1>2, <1>3, <2>1 DEF SetupTypeOK
  <2>3. SchemaInv'
    BY Zenon, <1>1, <1>2, <1>3, <2>1 DEF SchemaInv, Succeeded
  <2>4. SeedInv'
    BY <1>1, <1>2, <1>3, <2>1 DEF SeedInv, Seeding, Succeeded
  <2> QED
    BY Zenon, <2>2, <2>3, <2>4 DEF SetupInv
<1>5. CASE LastInsert(s)
  <2>1. /\ setup' \in [Setups -> Request]
        /\ setup'[s] = [part |-> "done", next |-> 0, answer |-> "seeded"]
        /\ setup[s].next = 15
        /\ \A r \in Setups : r # s => setup'[r] = setup[r]
    BY <1>2, <1>5, SeedLength DEF insertSeed, LastInsert, Answered, Request
  <2>2. SetupTypeOK'
    BY <1>1, <1>2, <1>3, <2>1 DEF SetupTypeOK
  <2>3. SchemaInv'
    BY <1>1, <1>2, <1>3, <2>1 DEF SchemaInv, Succeeded
  <2>4. SeedInv'
    BY <1>1, <1>2, <1>3, <2>1 DEF SeedInv, Seeding, Succeeded
  <2> QED
    BY Zenon, <2>2, <2>3, <2>4 DEF SetupInv
<1> QED
  BY Zenon, <1>4, <1>5

\* The steps of the other requests of the route.
LEMMA SetupStepInv ==
  ASSUME SetupInv, NEW s \in Setups, SetupStep(s) \/ SetupCut(s)
  PROVE  SetupInv'
<1>1. SetupTypeOK /\ SchemaInv /\ SeedInv
  BY Zenon DEF SetupInv
<1>2. setup \in [Setups -> Request]
  BY Zenon, <1>1 DEF SetupTypeOK
<1>3. CASE PostSetup(s)
  <2>1. /\ setup' \in [Setups -> Request]
        /\ setup'[s].part = "schema" /\ setup'[s].next = 1
        /\ setup'[s].answer = "none" /\ setup[s].part = "new"
        /\ \A r \in Setups : r # s => setup'[r] = setup[r]
        /\ schema' = schema /\ seed' = seed /\ severed' = severed
    BY ZenonT(40), <1>1, <1>2, <1>3 DEF PostSetup, Request, SchemaInv
  <2>2. SetupTypeOK'
    BY Zenon, <1>1, <2>1 DEF SetupTypeOK
  <2>3. SchemaInv'
    BY <1>1, <2>1 DEF SchemaInv, Succeeded
  <2>4. SeedInv'
    BY Zenon, <1>1, <2>1 DEF SeedInv, Seeding, Succeeded
  <2> QED
    BY Zenon, <2>2, <2>3, <2>4 DEF SetupInv
<1>4. CASE ensureSchema(s)
  BY Zenon, <1>4, SchemaStep
<1>5. CASE checkSeed(s) /\ Unseeded
  <2>1. /\ setup' \in [Setups -> Request]
        /\ setup'[s].part = "org" /\ setup'[s].answer = setup[s].answer
        /\ setup[s].part = "check"
        /\ \A r \in Setups : r # s => setup'[r] = setup[r]
        /\ schema' = schema /\ seed' = seed /\ severed' = severed
    BY <1>2, <1>5 DEF checkSeed, Request
  <2>2. SetupTypeOK'
    BY Zenon, <1>1, <2>1 DEF SetupTypeOK
  <2>3. SchemaInv'
    BY Zenon, <1>1, <2>1 DEF SchemaInv, Succeeded
  <2>4. SeedInv'
    BY Zenon, <1>1, <2>1 DEF SeedInv, Seeding, Succeeded
  <2> QED
    BY Zenon, <2>2, <2>3, <2>4 DEF SetupInv
<1>6. CASE checkSeed(s) /\ ~Unseeded
  BY Zenon, <1>1, <1>6, AnsweredInv DEF checkSeed, Answered, Seeding, Unseeded, SetupTypeOK
<1>7. CASE insertOrg(s)
  BY Zenon, <1>7, OrgStep
<1>8. CASE insertSeed(s)
  BY Zenon, <1>8, SeedStep
<1>9. CASE SetupCut(s)
  <2>1. severed' \in BOOLEAN /\ (severed' = TRUE \/ (severed' = severed /\ ~Seeding(s)))
    BY Zenon, <1>1, <1>9 DEF SetupCut, SetupTypeOK, Seeding
  <2> QED
    BY Zenon, <1>9, <2>1, AnsweredInv DEF SetupCut, Answered
<1> QED
  BY Zenon, <1>3, <1>4, <1>5, <1>6, <1>7, <1>8, <1>9 DEF SetupStep

\* The tabs leave the database alone.
LEMMA SetupInvKept ==
  ASSUME SetupInv, UNCHANGED setupVars
  PROVE  SetupInv'
  BY Zenon DEF SetupInv, SetupTypeOK, SchemaInv, SeedInv, Seeding, Succeeded, setupVars

IInv == SetupInv /\ episode \in Episodes

\* Every step of setup requests and tabs preserves the invariant.
LEMMA AccessInductive == IInv /\ [Next]_vars => IInv'
<1> SUFFICES ASSUME IInv, [Next]_vars PROVE IInv'
  BY Zenon
<1>1. CASE \E s \in episode.setups : SetupStep(s) \/ SetupCut(s)
  <2>1. PICK s \in episode.setups : SetupStep(s) \/ SetupCut(s)
    BY Zenon, <1>1
  <2>2. s \in Setups
    BY Zenon, EpisodesAssumption DEF IInv
  <2>3. SetupInv'
    BY Zenon, <2>1, <2>2, SetupStepInv DEF IInv
  <2>4. episode' = episode
    BY Zenon, <2>1, <2>2 DEF Next, vars, accessVars, setupVars, Login, LoginUnreachable
  <2> QED
    BY Zenon, <2>3, <2>4 DEF IInv
<1>2. CASE UNCHANGED <<setupVars, accessVars>>
  BY Zenon, <1>2, SetupInvKept DEF IInv, accessVars, setupVars
<1> QED
  BY Zenon, <1>1, <1>2 DEF Next, vars, Login, LoginUnreachable, setupVars, accessVars

\* The invariant holds in every reachable state.
THEOREM AccessInvariant == Spec => []IInv
<1>1. Init => IInv
  BY Zenon, SetupInvInit DEF Init, IInv
<1> QED
  BY <1>1, AccessInductive, PTL DEF Spec

-----------------------------------------------------------------------------
\* However many setups run ensureSchema at once or were cut off in it, no
\* statement of setup.ts is reached before what it references.
THEOREM ReferencesAreReady == Spec => []ReferencesReady
<1>1. IInv => ReferencesReady
  BY StatementOrder DEF IInv, SetupInv, SchemaInv, ReferencesReady, Ready
<1> QED
  BY <1>1, AccessInvariant, PTL

\* However many setups race, the demo rows of seedDemo are inserted once.
THEOREM SeedsOnce == Spec => []SeededOnce
<1>1. IInv => SeededOnce
  BY SeedLength DEF IInv, SetupInv, SeedInv, SeededOnce
<1> QED
  BY <1>1, AccessInvariant, PTL

\* A setup that answers with success leaves the whole schema and a user to log
\* in with, unless a seeding is under way or was cut off.
THEOREM SuccessIsUsable == Spec => []OkMeansUsable
<1>1. IInv => OkMeansUsable
  <2> SUFFICES ASSUME IInv, NEW s \in Setups, Succeeded(s)
               PROVE  OkMeansUsable!(s)!2
    BY Zenon DEF OkMeansUsable, Succeeded
  <2>1. schema = FullSchema /\ (setup[s].answer = "seeded" => seed.rows = Len(SEED))
    BY Zenon, SeedLength DEF IInv, SetupInv, SchemaInv, SeedInv
  <2>2. seed.orgs = 1
    BY Zenon DEF IInv, SetupInv, SeedInv
  <2>3. seed.rows >= 1 \/ severed \/ \E r \in Setups : setup[r].part = "seed"
    <3>1. seed.rows = 15 \/ severed \/ \E r \in Setups : setup[r].part = "seed"
      BY Zenon, <2>2 DEF IInv, SetupInv, SeedInv, Seeding
    <3> QED
      BY <3>1
  <2> QED
    BY Zenon, <2>1, <2>3
<1> QED
  BY <1>1, AccessInvariant, PTL

\* A demo organization that lacks rows is being seeded or was left by a seeding
\* that was cut off, for any number of overlapping and repeated setups.
THEOREM HalfSeedsAreCut == Spec => []HalfSeededMeansCut
<1>1. IInv => HalfSeededMeansCut
  BY SeedLength DEF IInv, SetupInv, SetupTypeOK, SeedInv, Seeding, HalfSeededMeansCut
<1> QED
  BY <1>1, AccessInvariant, PTL

-----------------------------------------------------------------------------
(* The session *)

\* While a token is stored, a tab that was loaded after the login has no
\* request with another token, and no login form in use.
YoungInv ==
  token # NoToken => \A t \in Tabs \ elders :
    /\ inflight[t] \subseteq {token}
    /\ tab[t].path = "login" => ~tab[t].ready
    /\ tab[t].login = "idle"

\* A tab that is not open has no requests, no form and no effect to run.
ClosedInv ==
  \A t \in Tabs : tab[t].path = "closed" =>
    inflight[t] = {} /\ tab[t].login = "idle" /\ ~tab[t].guard

SessionInv == SessionTypeOK /\ ClosedInv /\ YoungInv

\* The page of a closed tab.
LEMMA ClosedTab ==
  /\ Closed \in TabState /\ Closed.path = "closed" /\ Closed.login = "idle"
  /\ ~Closed.guard
  BY Zenon DEF Closed, Loaded, TabState, Inputs

\* Init has no tab open and no token.
LEMMA SessionInvInit == Init => SessionInv
<1> SUFFICES ASSUME Init PROVE SessionInv
  BY Zenon
<1>1. SessionInit
  BY Zenon DEF Init
<1>2. SessionTypeOK
  BY <1>1, ClosedTab, MaxLoginsAssumption DEF SessionInit, SessionTypeOK, Tokens, NoToken
<1>3. ClosedInv /\ YoungInv
  BY Zenon, <1>1, ClosedTab DEF SessionInit, ClosedInv, YoungInv
<1> QED
  BY Zenon, <1>2, <1>3 DEF SessionInv

\* A tab that loads a page or is closed, under a token that stays, that is
\* dropped, or that makes elders of all other tabs that are open.
LEMMA FreshTab ==
  ASSUME SessionInv, NEW t \in Tabs, NEW r \in TabState,
         r.path = "login" => ~r.ready, r.login = "idle", r.path = "closed" => ~r.guard,
         tab' = [tab EXCEPT ![t] = r], inflight' = [inflight EXCEPT ![t] = {}],
         token' \in Tokens \cup {NoToken}, issued' \in 0..MaxLogins,
         expired' \subseteq 1..issued', elders' \subseteq Tabs,
         \/ token' = token /\ elders \ {t} \subseteq elders'
         \/ token' = NoToken
         \/ Open \ {t} \subseteq elders'
  PROVE  SessionInv'
<1>1. /\ tab' \in [Tabs -> TabState] /\ tab'[t] = r
      /\ inflight' \in [Tabs -> SUBSET (Tokens \cup {NoToken})] /\ inflight'[t] = {}
      /\ \A u \in Tabs : u # t => tab'[u] = tab[u] /\ inflight'[u] = inflight[u]
  BY Zenon DEF SessionInv, SessionTypeOK
<1>2. SessionTypeOK'
  BY Zenon, <1>1 DEF SessionTypeOK, Tokens, NoToken
<1>3. ClosedInv'
  BY Zenon, <1>1 DEF ClosedInv, SessionInv
<1>4. YoungInv'
  <2> SUFFICES ASSUME token' # NoToken, NEW u \in Tabs, u \notin elders'
               PROVE  /\ inflight'[u] \subseteq {token'}
                      /\ tab'[u].path = "login" => ~tab'[u].ready
                      /\ tab'[u].login = "idle"
    BY Zenon DEF YoungInv, NoToken
  <2>1. CASE u = t
    BY Zenon, <1>1, <2>1
  <2>2. CASE u # t /\ tab[u].path = "closed"
    BY Zenon, <1>1, <2>2 DEF SessionInv, ClosedInv
  <2>3. CASE u # t /\ tab[u].path # "closed"
    <3>1. token' = token /\ u \notin elders
      BY Zenon, <2>3 DEF Open
    <3> QED
      BY Zenon, <1>1, <2>3, <3>1 DEF SessionInv, YoungInv
  <2> QED
    BY Zenon, <2>1, <2>2, <2>3
<1> QED
  BY Zenon, <1>2, <1>3, <1>4 DEF SessionInv

\* A tab that loads a page.
LEMMA LoadKeeps ==
  ASSUME SessionInv, NEW t \in Tabs, NEW path \in {"login", "console"}, Load(t, path),
         token' \in Tokens \cup {NoToken}, issued' \in 0..MaxLogins,
         expired' \subseteq 1..issued', elders' \subseteq Tabs,
         \/ token' = token /\ elders \ {t} \subseteq elders'
         \/ token' = NoToken
         \/ Open \ {t} \subseteq elders'
  PROVE  SessionInv'
<1>1. Loaded(path) \in TabState /\ Loaded(path).path = path
      /\ Loaded(path).ready = FALSE /\ Loaded(path).login = "idle"
  BY Zenon DEF Loaded, TabState, Inputs
<1> QED
  BY Zenon, <1>1, FreshTab DEF Load

\* A step of an open tab that leaves the token alone.
LEMMA TabChanges ==
  ASSUME SessionInv, NEW t \in Tabs, tab[t].path # "closed",
         tab' \in [Tabs -> TabState], tab'[t].path # "closed",
         inflight' \in [Tabs -> SUBSET (Tokens \cup {NoToken})],
         inflight'[t] \subseteq inflight[t] \cup {token},
         \A u \in Tabs : u # t => tab'[u] = tab[u] /\ inflight'[u] = inflight[u],
         token' = token, issued' = issued, expired' = expired, elders' = elders,
         token # NoToken /\ t \notin elders =>
           (tab'[t].path = "login" => ~tab'[t].ready) /\ tab'[t].login = "idle"
  PROVE  SessionInv'
<1>1. SessionTypeOK'
  BY Zenon DEF SessionInv, SessionTypeOK
<1>2. ClosedInv'
  BY Zenon DEF ClosedInv, SessionInv
<1>3. YoungInv'
  <2> SUFFICES ASSUME token # NoToken, NEW u \in Tabs, u \notin elders
               PROVE  /\ inflight'[u] \subseteq {token}
                      /\ tab'[u].path = "login" => ~tab'[u].ready
                      /\ tab'[u].login = "idle"
    BY Zenon DEF YoungInv, NoToken
  <2>1. inflight[u] \subseteq {token}
    BY Zenon DEF SessionInv, YoungInv
  <2>2. CASE u = t
    BY Zenon, <2>1, <2>2
  <2>3. CASE u # t
    BY Zenon, <2>1, <2>3 DEF SessionInv, YoungInv
  <2> QED
    BY Zenon, <2>2, <2>3
<1> QED
  BY Zenon, <1>1, <1>2, <1>3 DEF SessionInv

\* Every step of a tab but the login keeps the invariant.
LEMMA TabKeeps ==
  ASSUME SessionInv, NEW t \in Tabs, TabStep(t)
  PROVE  SessionInv'
<1> DEFINE r == tab[t]
           Others == \A u \in Tabs : u # t => tab'[u] = tab[u] /\ inflight'[u] = inflight[u]
           Still == token' = token /\ issued' = issued /\ expired' = expired /\ elders' = elders
           Young == token # NoToken /\ t \notin elders
<1>0. /\ tab \in [Tabs -> TabState] /\ r \in TabState
      /\ inflight \in [Tabs -> SUBSET (Tokens \cup {NoToken})]
      /\ token \in Tokens \cup {NoToken} /\ issued \in 0..MaxLogins /\ expired \subseteq 1..issued
      /\ elders \subseteq Tabs /\ elders \ {t} \subseteq Tabs
  BY Zenon DEF SessionInv, SessionTypeOK
<1>00. Young => (r.path = "login" => ~r.ready) /\ r.login = "idle"
  BY Zenon DEF SessionInv, YoungInv
<1>1. CASE OpenTab(t)
  BY Zenon, <1>0, <1>1, LoadKeeps DEF OpenTab
<1>10. CASE CloseTab(t)
  BY Zenon, <1>0, <1>10, ClosedTab, FreshTab DEF CloseTab
<1>2. CASE AuthGuard(t)
  <2>1. r.path # "closed" /\ inflight' = inflight /\ Still
    BY Zenon, <1>2 DEF SessionInv, ClosedInv, AuthGuard
  <2>2. CASE PathFits(t)
    <3>1. /\ tab' \in [Tabs -> TabState] /\ Others
          /\ tab'[t].path = r.path /\ tab'[t].login = r.login
      BY ZenonT(40), <1>0, <1>2, <2>1, <2>2 DEF AuthGuard, TabState
    <3>2. r.path = "login" => token = NoToken
      BY Zenon, <2>2 DEF PathFits, hasToken
    <3> QED
      BY Zenon, <1>0, <1>00, <2>1, <3>1, <3>2, TabChanges
  <2>3. CASE ~PathFits(t)
    <3>1. /\ tab' \in [Tabs -> TabState] /\ Others /\ tab'[t].login = r.login
          /\ tab'[t].path = IF r.path = "login" THEN "console" ELSE "login"
      BY Zenon, <1>0, <1>2, <2>1, <2>3 DEF AuthGuard, TabState
    <3>2. tab'[t].path = "login" => token = NoToken
      BY Zenon, <1>0, <2>1, <2>3, <3>1 DEF PathFits, hasToken, TabState
    <3> QED
      BY Zenon, <1>0, <1>00, <2>1, <3>1, <3>2, TabChanges
  <2> QED
    BY Zenon, <2>2, <2>3
<1>3. CASE Navigate(t)
  <2>1. /\ tab' \in [Tabs -> TabState] /\ Others /\ Still /\ inflight' = inflight
        /\ tab'[t].path = r.path /\ tab'[t].login = r.login
    BY Zenon, <1>0, <1>3 DEF Navigate, TabState
  <2>2. r.path = "console"
    BY Zenon, <1>3 DEF Navigate, ShellShown
  <2> QED
    BY Zenon, <1>0, <1>00, <2>1, <2>2, TabChanges
<1>4. CASE Send(t)
  <2>1. r.path = "console"
    BY Zenon, <1>4 DEF Send, ShellShown
  <2>2. /\ inflight' \in [Tabs -> SUBSET (Tokens \cup {NoToken})] /\ Others /\ Still
        /\ inflight'[t] \subseteq inflight[t] \cup {token} /\ tab' = tab
    BY Zenon, <1>0, <1>4 DEF Send
  <2> QED
    BY Zenon, <1>0, <1>00, <2>1, <2>2, TabChanges
<1>5. ASSUME NEW n \in inflight[t], inflight' = [inflight EXCEPT ![t] = @ \ {n}],
             UNCHANGED <<token, issued, expired, tab, elders>>
      PROVE  SessionInv'
  <2>1. r.path # "closed"
    BY Zenon, <1>5 DEF SessionInv, ClosedInv
  <2>2. /\ inflight' \in [Tabs -> SUBSET (Tokens \cup {NoToken})] /\ Others /\ Still
        /\ inflight'[t] \subseteq inflight[t] /\ tab' = tab
    BY Zenon, <1>0, <1>5
  <2> QED
    BY Zenon, <1>0, <1>00, <2>1, <2>2, TabChanges
<1>6. CASE AnswerOther(t)
  BY Zenon, <1>5, <1>6 DEF AnswerOther
<1>7. CASE Answer401(t)
  <2>1. PICK n \in inflight[t] : ToLogin(t, n)
    BY Zenon, <1>7 DEF Answer401
  <2>2. r.path # "closed"
    BY Zenon, <2>1 DEF SessionInv, ClosedInv
  <2>3. CASE r.path # "login"
    BY ZenonT(40), <1>0, <1>7, <2>1, <2>3, LoadKeeps DEF ToLogin, Answer401
  <2>4. CASE r.path = "login"
    <3>1. /\ inflight' \in [Tabs -> SUBSET (Tokens \cup {NoToken})]
          /\ \A u \in Tabs : u # t => inflight'[u] = inflight[u]
          /\ tab' = tab /\ token' = NoToken /\ issued' = issued /\ expired' = expired
          /\ elders' = elders
      BY Zenon, <1>0, <1>7, <2>1, <2>4 DEF ToLogin, Answer401
    <3>2. SessionTypeOK' /\ ClosedInv'
      BY Zenon, <2>2, <3>1 DEF SessionInv, SessionTypeOK, ClosedInv
    <3>3. YoungInv'
      BY Zenon, <3>1 DEF YoungInv, NoToken
    <3> QED
      BY Zenon, <3>2, <3>3 DEF SessionInv
  <2> QED
    BY Zenon, <2>3, <2>4
<1>8. CASE SignOut(t)
  BY Zenon, <1>0, <1>8, LoadKeeps DEF SignOut
<1>9. ASSUME NEW input \in Inputs, SubmitLogin(t, input)
      PROVE  SessionInv'
  <2>1. /\ tab' \in [Tabs -> TabState] /\ Others /\ Still /\ inflight' = inflight
        /\ tab'[t].path = r.path /\ r.ready /\ r.path = "login"
    BY Zenon, <1>0, <1>9 DEF SubmitLogin, TabState
  <2>2. ~Young
    BY Zenon, <1>00, <2>1
  <2> QED
    BY Zenon, <1>0, <2>1, <2>2, TabChanges
<1> QED
  BY Zenon, <1>1, <1>10, <1>2, <1>3, <1>4, <1>6, <1>7, <1>8, <1>9 DEF TabStep

\* The login route answers, or cannot be reached.
LEMMA LoginKeeps ==
  ASSUME SessionInv, NEW t \in Tabs, LoginOk(t) \/ LoginFailed(t)
  PROVE  SessionInv'
<1>1. tab[t].path # "closed"
  BY Zenon DEF SessionInv, ClosedInv, LoginOk, LoginFailed
<1>2. CASE LoginOk(t)
  <2>1. /\ issued' \in 0..MaxLogins /\ token' \in Tokens \cup {NoToken}
        /\ expired' \subseteq 1..issued'
    BY <1>2, MaxLoginsAssumption DEF LoginOk, SessionInv, SessionTypeOK, Tokens
  <2>2. elders' \subseteq Tabs /\ Open \ {t} \subseteq elders'
    BY Zenon, <1>2 DEF LoginOk, Open
  <2> QED
    BY Zenon, <1>2, <2>1, <2>2, LoadKeeps DEF LoginOk
<1>3. CASE LoginFailed(t)
  <2>1. /\ tab' \in [Tabs -> TabState] /\ inflight' \in [Tabs -> SUBSET (Tokens \cup {NoToken})]
        /\ \A u \in Tabs : u # t => tab'[u] = tab[u] /\ inflight'[u] = inflight[u]
        /\ tab'[t].path = tab[t].path /\ tab'[t].ready = tab[t].ready
        /\ tab'[t].login = "idle" /\ inflight' = inflight
        /\ token' = token /\ issued' = issued /\ expired' = expired /\ elders' = elders
    BY Zenon, <1>3 DEF LoginFailed, SessionInv, SessionTypeOK, TabState
  <2>2. token # NoToken /\ t \notin elders => (tab[t].path = "login" => ~tab[t].ready)
    BY Zenon DEF SessionInv, YoungInv
  <2> QED
    BY Zenon, <1>1, <2>1, <2>2, TabChanges
<1> QED
  BY Zenon, <1>2, <1>3

\* The clock and the setups.
LEMMA ExpireKeeps ==
  ASSUME SessionInv, UNCHANGED sessionVars \/ \E n \in Tokens : Expire(n)
  PROVE  SessionInv'
<1>1. /\ token' = token /\ issued' = issued /\ tab' = tab /\ inflight' = inflight
      /\ elders' = elders /\ expired' \subseteq 1..issued
  BY Zenon DEF sessionVars, Expire, SessionInv, SessionTypeOK
<1>2. SessionTypeOK'
  BY Zenon, <1>1 DEF SessionInv, SessionTypeOK
<1>3. ClosedInv' /\ YoungInv'
  BY Zenon, <1>1 DEF SessionInv, ClosedInv, YoungInv, NoToken
<1> QED
  BY Zenon, <1>2, <1>3 DEF SessionInv

\* Every step keeps the session's invariant.
LEMMA SessionStep == IInv /\ SessionInv /\ [Next]_vars => SessionInv'
<1> SUFFICES ASSUME IInv, SessionInv, [Next]_vars PROVE SessionInv'
  BY Zenon
<1>0. episode.tabs \subseteq Tabs
  BY Zenon, EpisodesAssumption DEF IInv
<1>1. CASE \E t \in episode.tabs : TabStep(t)
  BY Zenon, <1>0, <1>1, TabKeeps
<1>2. CASE \E t \in episode.tabs : Login(t) \/ LoginUnreachable(t)
  BY Zenon, <1>0, <1>2, LoginKeeps DEF Login, LoginUnreachable
<1>3. CASE UNCHANGED sessionVars \/ \E n \in Tokens : Expire(n)
  BY Zenon, <1>3, ExpireKeeps
<1> QED
  BY Zenon, <1>1, <1>2, <1>3 DEF Next, vars, sessionVars

\* The types of database and session hold in every reachable state.
THEOREM AccessTypes == Spec => []TypeOK
<1> DEFINE DemoInv == demoAuth \in BOOLEAN
<1>1. Init => SessionInv /\ DemoInv
  BY Zenon, SessionInvInit DEF Init
<1>2. DemoInv /\ [Next]_vars => DemoInv'
  BY Zenon DEF Next, vars, accessVars, Login, LoginUnreachable
<1>3. IInv /\ SessionInv /\ DemoInv => TypeOK
  BY Zenon DEF IInv, SetupInv, SessionInv, TypeOK
<1> HIDE DEF DemoInv
<1> QED
  BY <1>1, <1>2, <1>3, SessionStep, AccessInvariant, PTL DEF Spec

\* However late anything is answered and in whatever order tabs are opened,
\* loaded and closed, a session that is still valid is ended only by signing out
\* or through a tab that has been open since before the login.
THEOREM NewTabsKeepSession == Spec => OnlyElderTabsEndSession
<1> DEFINE Ended == Valid /\ token' # token
                      => \E t \in Tabs : \/ SignOut(t)
                                         \/ t \in elders /\ (Answer401(t) \/ LoginOk(t))
<1>1. IInv /\ SessionInv /\ [Next]_vars => [Ended]_sessionVars
  <2> SUFFICES ASSUME IInv, SessionInv, [Next]_vars, Valid, token' # token
               PROVE  \E t \in Tabs : \/ SignOut(t)
                                      \/ t \in elders /\ (Answer401(t) \/ LoginOk(t))
    BY Zenon
  <2>1. token # NoToken /\ token \notin expired
    BY DEF Valid, SessionInv, SessionTypeOK, NoToken
  <2>2. PICK t \in Tabs : TabStep(t) \/ LoginOk(t) \/ LoginFailed(t)
    <3>1. episode.tabs \subseteq Tabs
      BY Zenon, EpisodesAssumption DEF IInv
    <3> QED
      BY Zenon, <3>1 DEF Next, vars, sessionVars, Login, LoginUnreachable, Expire
  <2>3. CASE Answer401(t)
    <3>1. t \in elders
      BY Zenon, <2>1, <2>3 DEF Answer401, Rejected, SessionInv, YoungInv
    <3> QED
      BY Zenon, <2>3, <3>1
  <2>4. CASE LoginOk(t)
    <3>1. t \in elders
      BY Zenon, <2>1, <2>4 DEF LoginOk, SessionInv, YoungInv
    <3> QED
      BY Zenon, <2>4, <3>1
  <2>5. CASE SignOut(t)
    BY Zenon, <2>5
  <2> QED
    BY Zenon, <2>2, <2>3, <2>4, <2>5 DEF TabStep, OpenTab, CloseTab, AuthGuard, Navigate,
                                         Send, AnswerOther, SubmitLogin, LoginFailed
<1>2. Init => SessionInv
  BY Zenon, SessionInvInit
<1> QED
  BY <1>1, <1>2, SessionStep, AccessInvariant, PTL DEF Spec, OnlyElderTabsEndSession
=============================================================================
