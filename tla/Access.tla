------------------------------- MODULE Access -------------------------------
(***************************************************************************)
(* How an operator gets into the console: Setup creates and seeds the      *)
(* database, the login route of router.ts looks the user up in it, and     *)
(* Session keeps the token that the route signs.                           *)
(***************************************************************************)
EXTENDS Setup, Session

CONSTANTS
  Episodes   \* which setup requests and which tabs take part

ASSUME EpisodesAssumption ==
  Episodes \subseteq [setups : SUBSET Setups, tabs : SUBSET Tabs, done : BOOLEAN]

VARIABLES
  demoAuth,   \* the environment's DEMO_AUTH is not "false"
  episode     \* the episode of this behaviour

accessVars == <<demoAuth, episode>>
vars == <<schema, seed, setup, severed, token, issued, expired, tab, inflight,
          elders, demoAuth, episode>>

TypeOK == SetupTypeOK /\ SessionTypeOK /\ demoAuth \in BOOLEAN

\* A database that is empty, or that an earlier setup has completed.
Init ==
  /\ episode \in Episodes
  /\ demoAuth \in BOOLEAN
  /\ SessionInit
  /\ \/ ~episode.done /\ SetupInit
     \/ /\ episode.done
        /\ schema = FullSchema /\ severed = FALSE
        /\ seed = [orgs |-> 1, rows |-> Len(SEED)]
        /\ setup = [s \in Setups |-> [part |-> "new", next |-> 0, answer |-> "none"]]

\* The user the login route finds: none for blank fields (422), without a
\* table (500), or when the lookup finds nobody (401).
FindsUser(input) ==
  /\ input # "blank" /\ UsersTable
  /\ \/ demoAuth /\ resolveDemoUser
     \/ ~demoAuth /\ input = "known" /\ resolveDemoUser

\* POST /auth/login and what the login page does with its answer.
Login(t) ==
  /\ \/ tab[t].login # "idle" /\ FindsUser(tab[t].login) /\ LoginOk(t)
     \/ tab[t].login # "idle" /\ ~FindsUser(tab[t].login) /\ LoginFailed(t)
  /\ UNCHANGED <<setupVars, accessVars>>

\* fetch itself fails: the form shows that the API cannot be reached.
LoginUnreachable(t) ==
  /\ LoginFailed(t)
  /\ UNCHANGED <<setupVars, accessVars>>

Next ==
  \/ /\ \E s \in episode.setups : SetupStep(s) \/ SetupCut(s)
     /\ UNCHANGED <<sessionVars, accessVars>>
  \/ /\ \/ \E t \in episode.tabs : TabStep(t)
        \/ \E n \in Tokens : Expire(n)
     /\ UNCHANGED <<setupVars, accessVars>>
  \/ \E t \in episode.tabs : Login(t) \/ LoginUnreachable(t)

Spec == Init /\ [][Next]_vars

Beside(A) == A /\ UNCHANGED <<setupVars, accessVars>>

\* Effects run, the console's hooks keep polling (SWR polls in visible tabs
\* only, so an open tab is one that is looked at again and again), and not
\* every request that the server rejects fails on its way.
Fairness ==
  \A t \in Tabs : /\ WF_vars(Beside(AuthGuard(t)))
                  /\ WF_vars(Beside(Send(t)))
                  /\ SF_vars(Beside(Answer401(t)))

FairSpec == Spec /\ Fairness

=============================================================================
