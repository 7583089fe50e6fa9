--------------------------- MODULE BrowserSession ---------------------------
(***************************************************************************)
(* A user's session: the tabs of a browser that share one pair of tokens   *)
(* in localStorage, the axios interceptor that renews it, and the handlers *)
(* of AuthService that issue, rotate and revoke refresh tokens.            *)
(*                                                                         *)
(* JavaScript runs to the next await, the server to its next query: these  *)
(* are the steps.  Token pairs are numbered as they are issued.            *)
(***************************************************************************)
EXTENDS Naturals, FiniteSets

CONSTANTS
  Tabs, Slots,  \* a tab has at most one call per slot under way
  Uses,         \* bound: the slots each tab uses
  MaxIssued,    \* bound: the user acts while no more pairs than this were issued
  Events        \* bound: what may happen besides calls and logins

ASSUME EventsAssumption ==
  MaxIssued \in Nat /\ Uses \in [Tabs -> SUBSET Slots]
    /\ Events \subseteq {"wrong", "logout", "fail", "reload"}

VARIABLES
  live,       \* refresh_tokens not revoked, by pair
  issued,     \* pairs issued so far
  expired,    \* pairs whose access token is older than 15 minutes
  store,      \* the pair in localStorage, 0 when there is none
  forced,     \* force_pw: the places that say the password must be changed
  page,       \* where each tab is
  refreshing, \* isRefreshing of each tab
  call        \* the calls of each tab

server == <<live, issued, expired>>
vars   == <<server, store, forced, page, refreshing, call>>

Refreshing == {"checking", "checked", "revoked", "renewed", "denied"}
Call == [pc : {"idle", "sent", "queued", "granted"} \cup Refreshing,
         kind : {"api", "login", "logout"},
         tok : Nat,        \* the token it carries
         got : Nat,        \* the pair it is answered
         body : Nat,       \* the refresh token a logout asks to revoke
         retry : BOOLEAN]  \* _retry
Idle == [pc |-> "idle", kind |-> "api", tok |-> 0, got |-> 0, body |-> 0, retry |-> FALSE]

TypeOK ==
  /\ live \subseteq 1 .. issued /\ expired \subseteq 1 .. issued /\ issued \in Nat
  /\ store \in 0 .. issued
  /\ forced \subseteq {"local", "cookie"}
  /\ page \in [Tabs -> {"app", "login"}]
  /\ refreshing \in [Tabs -> BOOLEAN]
  /\ call \in [Tabs -> [Slots -> Call]]

Init ==
  /\ live = {} /\ issued = 0 /\ expired = {}
  /\ store = 0 /\ forced = {}
  /\ page = [w \in Tabs |-> "login"]
  /\ refreshing = [w \in Tabs |-> FALSE]
  /\ call = [w \in Tabs |-> [s \in Slots |-> Idle]]

At(w, s, pc) == call[w][s].pc = pc
Becomes(w, s, c) == call' = [call EXCEPT ![w][s] = c]
Goto(w, s, pc) == call' = [call EXCEPT ![w][s].pc = pc]
Acting == issued <= MaxIssued

-----------------------------------------------------------------------------
(* Calls *)

\* The request interceptor adds the access token of the store.
Send(w, s) ==
  /\ s \in Uses[w] /\ page[w] = "app" /\ At(w, s, "idle") /\ Acting
  /\ Becomes(w, s, [Idle EXCEPT !.pc = "sent", !.tok = store])
  /\ UNCHANGED <<server, store, forced, page, refreshing>>

\* LoginForm disables its button while a login is under way.
SendLogin(w, s) ==
  /\ s \in Uses[w] /\ page[w] = "login" /\ Acting
  /\ \A z \in Slots : At(w, z, "idle")
  /\ Becomes(w, s, [Idle EXCEPT !.pc = "sent", !.kind = "login", !.tok = store])
  /\ UNCHANGED <<server, store, forced, page, refreshing>>

SendLogout(w, s) ==
  /\ s \in Uses[w] /\ "logout" \in Events /\ page[w] = "app" /\ At(w, s, "idle") /\ store # 0 /\ Acting
  /\ \A z \in Slots : call[w][z].kind # "logout"
  /\ Becomes(w, s, [Idle EXCEPT !.pc = "sent", !.kind = "logout", !.tok = store, !.body = store])
  /\ UNCHANGED <<server, store, forced, page, refreshing>>

\* clearAuth and router.push: no reload, other calls of the tab go on.
Leave(w) == store' = 0 /\ forced' = {} /\ page' = [page EXCEPT ![w] = "login"]

\* Whoever awaits the call resumes; handleLogout leaves however its call ended.
Settle(w, s) ==
  /\ Becomes(w, s, Idle)
  /\ IF call[w][s].kind = "logout" THEN Leave(w) ELSE UNCHANGED <<store, forced, page>>

Authorized(c) == c.tok # 0 /\ c.tok \notin expired

Served(w, s) ==
  /\ At(w, s, "sent") /\ call[w][s].kind # "login" /\ Authorized(call[w][s])
  /\ live' = IF call[w][s].kind = "logout" THEN live \ {call[w][s].body} ELSE live
  /\ Settle(w, s)
  /\ UNCHANGED <<issued, expired, refreshing>>

\* buildSession: a new pair; the other pairs of the user stay.
LoginGranted(w, s) ==
  /\ At(w, s, "sent") /\ call[w][s].kind = "login"
  /\ issued' = issued + 1 /\ live' = live \cup {issued'}
  /\ Becomes(w, s, [call[w][s] EXCEPT !.pc = "granted", !.got = issued'])
  /\ UNCHANGED <<expired, store, forced, page, refreshing>>

\* handleAuthRedirect stores the pair; a hard navigation loads the application.
EnterApp(w, s) ==
  /\ At(w, s, "granted")
  /\ store' = call[w][s].got
  /\ forced' \in {{}, {"local", "cookie"}}
  /\ page' = [page EXCEPT ![w] = "app"]
  /\ refreshing' = [refreshing EXCEPT ![w] = FALSE]
  /\ call' = [call EXCEPT ![w] = [z \in Slots |-> Idle]]
  /\ UNCHANGED server

-----------------------------------------------------------------------------
(* The response interceptor *)

\* On the login page the tab is not reloaded: calls go on and the flag stays.
RedirectToLogin(w, calls, flag) ==
  /\ store' = 0 /\ forced' = {}
  /\ page' = [page EXCEPT ![w] = "login"]
  /\ IF page[w] = "login"
     THEN /\ call' = [call EXCEPT ![w] = calls]
          /\ refreshing' = [refreshing EXCEPT ![w] = flag]
     ELSE /\ call' = [call EXCEPT ![w] = [z \in Slots |-> Idle]]
          /\ refreshing' = [refreshing EXCEPT ![w] = FALSE]

\* The server answers 401.
Refused(c) == c.pc = "sent" /\ IF c.kind = "login" THEN "wrong" \in Events
                                                   ELSE ~Authorized(c)

Rejected(w, s) ==
  /\ Refused(call[w][s]) /\ call[w][s].retry
  /\ Settle(w, s)
  /\ UNCHANGED <<server, refreshing>>

Queued(w, s) ==
  /\ Refused(call[w][s]) /\ ~call[w][s].retry /\ refreshing[w]
  /\ Goto(w, s, "queued")
  /\ UNCHANGED <<server, store, forced, page, refreshing>>

\* Without a refresh token the handler returns before its try: no finally runs.
NoRefreshToken(w, s) ==
  /\ Refused(call[w][s]) /\ ~call[w][s].retry /\ ~refreshing[w] /\ store = 0
  /\ RedirectToLogin(w, [call[w] EXCEPT ![s] = Idle], TRUE)
  /\ UNCHANGED server

AnotherRefresh(w, s) == Refused(call[w][s]) /\ ~call[w][s].retry /\ store # 0
OneRefresh(w, s) == Refused(call[w][s]) /\ ~call[w][s].retry /\ ~refreshing[w] /\ store # 0

StartRefresh(w, s) ==
  /\ OneRefresh(w, s)
  /\ refreshing' = [refreshing EXCEPT ![w] = TRUE]
  /\ Becomes(w, s, [call[w][s] EXCEPT !.pc = "checking", !.tok = store, !.retry = TRUE])
  /\ UNCHANGED <<server, store, forced, page>>

\* A refresh token lives seven days, whatever the age of its access token.
YoungRefresh(tok) == tok \in live \ expired
GoodRefresh(tok) == tok \in live

\* refreshSession: three queries.
CheckRefresh(w, s) ==
  /\ At(w, s, "checking")
  /\ Goto(w, s, IF GoodRefresh(call[w][s].tok) THEN "checked" ELSE "denied")
  /\ UNCHANGED <<server, store, forced, page, refreshing>>

RevokeRefresh(w, s) ==
  /\ At(w, s, "checked")
  /\ live' = live \ {call[w][s].tok}
  /\ Goto(w, s, "revoked")
  /\ UNCHANGED <<issued, expired, store, forced, page, refreshing>>

IssueRefresh(w, s) ==
  /\ At(w, s, "revoked")
  /\ issued' = issued + 1 /\ live' = live \cup {issued'}
  /\ Becomes(w, s, [call[w][s] EXCEPT !.pc = "renewed", !.got = issued'])
  /\ UNCHANGED <<expired, store, forced, page, refreshing>>

\* processQueue: what waited for the refresh is sent again or, without a token, rejected.
LeavesQueue(w, s, tok) ==
  [call[w] EXCEPT ![s] = IF tok = 0 THEN Idle ELSE [@ EXCEPT !.pc = "sent", !.tok = tok]]
ProcessQueue(w, s, tok) ==
  [z \in Slots |-> IF z = s \/ At(w, z, "queued")
                   THEN IF tok = 0 THEN Idle ELSE [call[w][z] EXCEPT !.pc = "sent", !.tok = tok, !.got = 0]
                   ELSE call[w][z]]

\* tokens.set without its flags leaves localStorage and expires the cookie.
Renewed(w, s) ==
  /\ At(w, s, "renewed")
  /\ store' = call[w][s].got
  /\ call' = [call EXCEPT ![w] = ProcessQueue(w, s, store')]
  /\ forced' = forced \ {"cookie"}
  /\ refreshing' = [refreshing EXCEPT ![w] = FALSE]
  /\ UNCHANGED <<server, page>>

RefreshFailed(w, s) ==
  /\ RedirectToLogin(w, ProcessQueue(w, s, 0), FALSE)
  /\ UNCHANGED server

Denied(w, s) == At(w, s, "denied") /\ RefreshFailed(w, s)

-----------------------------------------------------------------------------
(* Time, the network and the user *)

\* 15 minutes pass for the oldest pairs first.
Expire(n) ==
  /\ n \in 1 .. issued \ expired
  /\ \A m \in 1 .. n - 1 : m \in expired
  /\ expired' = expired \cup {n}
  /\ UNCHANGED <<live, issued, store, forced, page, refreshing, call>>

\* A request or its answer is lost, or the handler throws: any error but a 401.
Fails(w, s) ==
  /\ "fail" \in Events
  /\ \/ call[w][s].pc \in {"sent", "granted"} /\ Settle(w, s) /\ UNCHANGED <<server, refreshing>>
     \/ call[w][s].pc \in Refreshing /\ RefreshFailed(w, s)

\* The user reloads the tab; a handler of the server that has begun completes.
Reload(w) ==
  /\ "reload" \in Events
  /\ \A s \in Slots : call[w][s].pc \notin {"checked", "revoked"}
  /\ refreshing' = [refreshing EXCEPT ![w] = FALSE]
  /\ call' = [call EXCEPT ![w] = [z \in Slots |-> Idle]]
  /\ page' = [page EXCEPT ![w] = IF store = 0 THEN "login" ELSE "app"]
  /\ UNCHANGED <<server, store, forced>>

Continue(w, s) ==
  \/ Served(w, s) \/ LoginGranted(w, s) \/ EnterApp(w, s)
  \/ Rejected(w, s) \/ Queued(w, s) \/ NoRefreshToken(w, s) \/ StartRefresh(w, s)
  \/ CheckRefresh(w, s) \/ RevokeRefresh(w, s) \/ IssueRefresh(w, s)
  \/ Renewed(w, s) \/ Denied(w, s)

Next ==
  \/ \E w \in Tabs, s \in Slots : Send(w, s) \/ SendLogin(w, s) \/ SendLogout(w, s)
                                  \/ Continue(w, s) \/ Fails(w, s)
  \/ \E w \in Tabs : Reload(w)
  \/ \E n \in 1 .. issued : Expire(n)

Spec == Init /\ [][Next]_vars

\* The network answers in the end and Node and the browser run what is ready.
LiveSpec == Spec /\ \A w \in Tabs, s \in Slots : WF_vars(Continue(w, s))

-----------------------------------------------------------------------------
(* Properties *)

Refreshers(w) == {s \in Slots : call[w][s].pc \in Refreshing}

\* However 401s, answers and redirects interleave, a tab has at most one
\* refresh under way and, in the application, its flag says so: a flag left
\* set would queue every later call behind nobody.
FlagTellsRefresh ==
  \A w \in Tabs : /\ Cardinality(Refreshers(w)) <= 1
                  /\ page[w] = "app" => (refreshing[w] <=> Refreshers(w) # {})

\* A session is not lost while its refresh token is good: a live pair leaves
\* the store for a logout, for a refresh without an answer, or because another
\* tab replaced the pair a refresh was sent with; no tab is refused for the
\* pair that is stored.
SessionLasts ==
  [][store' = 0 /\ store \in live =>
       \E w \in Tabs, s \in Slots :
         LET c == call[w][s] IN
         \/ c.kind = "logout"
         \/ c.pc \in Refreshing /\ (c.pc = "denied" => c.tok # store)]_vars

\* Every call the application makes is answered or rejected, or the tab goes
\* to the login page; none waits for a refresh that nobody performs.
AppCallsSettle ==
  \A w \in Tabs, s \in Slots :
    page[w] = "app" /\ call[w][s].pc # "idle" ~> call[w][s].pc = "idle" \/ page[w] = "login"

\* LoginForm tells how many attempts remain, so the next one is answered too.
LoginsSettle ==
  \A w \in Tabs, s \in Slots :
    page[w] = "login" /\ call[w][s].pc # "idle" ~> call[w][s].pc = "idle" \/ page[w] = "app"

\* "Has session but force_pw set -> must change password before continuing":
\* while the session lasts, renewing it does not lift the obligation.
ForcedStays == [][store # 0 /\ store' # 0 /\ forced # {} => "cookie" \in forced']_vars
=============================================================================
