------------------------------- MODULE Session -------------------------------
(***************************************************************************)
(* The console's session (lib/api.ts, AuthGuard, the login page, sign-out).*)
(* All tabs of a browser share one token in localStorage.  A tab that      *)
(* assigns window.location loads anew: its state and its open requests are *)
(* gone.  A request carries the token read when it was sent, and its       *)
(* answer may arrive long after another tab has changed the token.         *)
(***************************************************************************)
EXTENDS Naturals, FiniteSets

CONSTANTS
  Tabs,        \* browser tabs
  MaxLogins    \* bound on the tokens issued

ASSUME MaxLoginsAssumption == MaxLogins \in Nat
ASSUME TabsFinite == IsFiniteSet(Tabs)

Tokens == 1..MaxLogins   \* the n-th login issues token n
NoToken == 0

VARIABLES
  token,     \* localStorage scheduler_token
  issued,    \* tokens signed so far
  expired,   \* tokens past their 24 hours
  tab,       \* each tab: page, AuthGuard's state, login form
  inflight,  \* the tokens that each tab's open authorized requests carry
  elders     \* history: tabs open, and not loaded anew, since before the
             \* last login

sessionVars == <<token, issued, expired, tab, inflight, elders>>

Inputs == {"known", "unknown", "blank"}   \* what is typed into the login form

TabState == [path : {"closed", "login", "console"}, ready : BOOLEAN,
             guard : BOOLEAN, login : Inputs \cup {"idle"}]

SessionTypeOK ==
  /\ token \in Tokens \cup {NoToken}
  /\ issued \in 0..MaxLogins
  /\ expired \subseteq 1..issued
  /\ tab \in [Tabs -> TabState]
  /\ inflight \in [Tabs -> SUBSET (Tokens \cup {NoToken})]
  /\ elders \subseteq Tabs

\* A fresh page: AuthGuard mounts with ready = false and its effect to run.
Loaded(path) == [path |-> path, ready |-> FALSE, guard |-> TRUE, login |-> "idle"]
Closed == [Loaded("closed") EXCEPT !.guard = FALSE]

SessionInit ==
  /\ token = NoToken /\ issued = 0 /\ expired = {}
  /\ tab = [t \in Tabs |-> Closed]
  /\ inflight = [t \in Tabs |-> {}]
  /\ elders = {}

hasToken == token # NoToken
Valid == token \in (1..issued) \ expired
Open == {t \in Tabs : tab[t].path # "closed"}

\* Mutant: a router navigation in place of window.location keeps the page's
\* open requests.
LoadKeepingRequests(t, path) ==
  /\ tab' = [tab EXCEPT ![t] = Loaded(path)]
  /\ UNCHANGED inflight

Load(t, path) ==
  /\ tab' = [tab EXCEPT ![t] = Loaded(path)]
  /\ inflight' = [inflight EXCEPT ![t] = {}]

-----------------------------------------------------------------------------
OpenTab(t) ==
  /\ tab[t].path = "closed"
  /\ \E path \in {"login", "console"} : Load(t, path)
  /\ UNCHANGED <<token, issued, expired, elders>>

\* A tab that is closed takes its open requests with it.
CloseTab(t) ==
  /\ tab[t].path # "closed"
  /\ tab' = [tab EXCEPT ![t] = Closed]
  /\ inflight' = [inflight EXCEPT ![t] = {}]
  /\ elders' = elders \ {t}
  /\ UNCHANGED <<token, issued, expired>>

\* Mutant: the effect sends a tab without a token to the login page and back.
PathNeverFits(t) == hasToken /\ tab[t].path = "console"

\* The page fits the session: login without a token, any other with one.
PathFits(t) == (tab[t].path = "login") # hasToken

\* AuthGuard's effect, after a load and after every change of pathname:
\* router.replace to the page that fits, or show the children.  ready is
\* never taken back.
AuthGuard(t) ==
  /\ tab[t].guard
  /\ tab' = [tab EXCEPT ![t] =
       IF PathFits(t) THEN [@ EXCEPT !.ready = TRUE, !.guard = FALSE]
       ELSE [@ EXCEPT !.path = IF tab[t].path = "login" THEN "console" ELSE "login"]]
  /\ UNCHANGED <<token, issued, expired, inflight, elders>>

\* The shell is mounted: navigation, the polling hooks and sign-out are there.
ShellShown(t) == tab[t].path = "console" /\ tab[t].ready

Navigate(t) ==
  /\ ShellShown(t) /\ ~tab[t].guard
  /\ tab' = [tab EXCEPT ![t].guard = TRUE]
  /\ UNCHANGED <<token, issued, expired, inflight, elders>>

\* request(): the token is read when the request is sent.
Send(t) ==
  /\ ShellShown(t) /\ token \notin inflight[t]
  /\ inflight' = [inflight EXCEPT ![t] = @ \cup {token}]
  /\ UNCHANGED <<token, issued, expired, tab, elders>>

\* claimsFromRequest finds no bearer token or jwtVerify rejects it.
Rejected(n) == n = NoToken \/ n \in expired

\* Any other answer leaves the session alone, and so does a fetch that fails.
AnswerOther(t) ==
  /\ \E n \in inflight[t] : inflight' = [inflight EXCEPT ![t] = @ \ {n}]
  /\ UNCHANGED <<token, issued, expired, tab, elders>>

\* Mutant: the 401 branch does not leave the page.
StayOnPage(t, n) ==
  /\ inflight' = [inflight EXCEPT ![t] = @ \ {n}]
  /\ UNCHANGED <<tab, elders>>

\* window.location.href = "/login" unless the tab is there already.
ToLogin(t, n) ==
  \/ /\ tab[t].path # "login"
     /\ Load(t, "login")
     /\ elders' = elders \ {t}
  \/ /\ tab[t].path = "login"
     /\ inflight' = [inflight EXCEPT ![t] = @ \ {n}]
     /\ UNCHANGED <<tab, elders>>

\* 401 to an authorized request: clearToken whatever token is stored by now.
Answer401(t) ==
  /\ \E n \in inflight[t] : Rejected(n) /\ ToLogin(t, n)
  /\ token' = NoToken
  /\ UNCHANGED <<issued, expired>>

\* The login form; its button is disabled while a login is under way.
SubmitLogin(t, input) ==
  /\ tab[t].path = "login" /\ tab[t].ready /\ tab[t].login = "idle"
  /\ tab' = [tab EXCEPT ![t].login = input]
  /\ UNCHANGED <<token, issued, expired, inflight, elders>>

\* 200: setToken, then window.location.href = "/".
LoginOk(t) ==
  /\ tab[t].login # "idle" /\ issued < MaxLogins
  /\ issued' = issued + 1
  /\ token' = issued + 1
  /\ Load(t, "console")
  /\ elders' = Open \ {t}
  /\ UNCHANGED expired

\* auth: false: the error is shown in the form, a 401 is like any other.
LoginFailed(t) ==
  /\ tab[t].login # "idle"
  /\ tab' = [tab EXCEPT ![t].login = "idle"]
  /\ UNCHANGED <<token, issued, expired, inflight, elders>>

\* The button of LeftRail.
SignOut(t) ==
  /\ ShellShown(t)
  /\ token' = NoToken
  /\ Load(t, "login")
  /\ elders' = elders \ {t}
  /\ UNCHANGED <<issued, expired>>

\* Mutant: tokens not yet issued expire as well.
ExpireAll(n) ==
  /\ n \in (1..issued) \ expired
  /\ expired' = Tokens
  /\ UNCHANGED <<token, issued, tab, inflight, elders>>

\* 24 hours after signToken.
Expire(n) ==
  /\ n \in (1..issued) \ expired
  /\ expired' = expired \cup {n}
  /\ UNCHANGED <<token, issued, tab, inflight, elders>>

TabStep(t) ==
  \/ OpenTab(t) \/ CloseTab(t) \/ AuthGuard(t) \/ Navigate(t) \/ Send(t)
  \/ AnswerOther(t) \/ Answer401(t) \/ SignOut(t)
  \/ \E input \in Inputs : SubmitLogin(t, input)

-----------------------------------------------------------------------------
(* Properties *)

\* A session whose token is still valid ends only by signing out, or through
\* a tab that was open before the login and has not been loaded anew since: by
\* its late 401 to an older request (clearToken looks at no token), or by a
\* login it had under way.  Neither the tab that logged in nor a tab opened
\* after it ever ends the session, however late anything is answered.
OnlyElderTabsEndSession ==
  [][Valid /\ token' # token
       => \E t \in Tabs : \/ SignOut(t)
                          \/ t \in elders /\ (Answer401(t) \/ LoginOk(t))]_sessionVars

\* A tab left on a console page without a valid token leaves it (for the login
\* page, unless it is closed), or a login in another tab comes first.
SignedOutTabsLeave ==
  \A t \in Tabs :
    (tab[t].path = "console" /\ ~Valid) ~> (tab[t].path # "console" \/ Valid)

\* The redirects of AuthGuard end: no tab bounces between pages for ever.
GuardSettles == \A t \in Tabs : []<>(~tab[t].guard)
=============================================================================
