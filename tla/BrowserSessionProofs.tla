------------------------- MODULE BrowserSessionProofs -------------------------
(***************************************************************************)
(* What holds of BrowserSession for every number of tabs, of calls at a    *)
(* time and of token pairs: one refresh per tab, its flag, and what may    *)
(* end a session.  Liveness stays with TLC.                                *)
(***************************************************************************)
EXTENDS BrowserSession, FiniteSetTheorems, TLAPS

-----------------------------------------------------------------------------
(* The inductive invariant.  What a call has found out must still be so    *)
(* when its tab acts on it: a pair that was refused does not come back,    *)
(* for pairs are never numbered twice.                                     *)

Sound(w, s) ==
  LET c == call[w][s] IN
  /\ c.pc \in {"granted", "renewed"} => c.got \in 1 .. issued
  /\ c.pc \in Refreshing => c.tok \in 1 .. issued
  /\ c.pc = "denied" => c.tok \notin live

Refreshes(w, s) == call[w][s].pc \in Refreshing
Flagged(w) ==
  /\ \A s, z \in Slots : Refreshes(w, s) /\ Refreshes(w, z) => s = z
  /\ \A s \in Slots : Refreshes(w, s) => refreshing[w]
  /\ page[w] = "app" /\ refreshing[w] => \E s \in Slots : Refreshes(w, s)

IInv == \A w \in Tabs : Flagged(w) /\ \A s \in Slots : Sound(w, s)

LEMMA IdleIsCall == Idle \in Call /\ Idle.pc = "idle"
BY DEF Idle, Call

LEMMA InitInvariant == Init => TypeOK /\ IInv
<1> SUFFICES ASSUME Init PROVE TypeOK /\ IInv
  OBVIOUS
<1>1. TypeOK
  BY IdleIsCall DEF Init, TypeOK
<1>2. \A w \in Tabs, s \in Slots : call[w][s].pc = "idle"
  BY IdleIsCall DEF Init
<1>3. IInv
  BY <1>2 DEF Init, IInv, Flagged, Sound, Refreshes, Refreshing
<1> QED BY <1>1, <1>3

-----------------------------------------------------------------------------
(* One step touches one tab *)

\* A call of one tab takes a new value.
LEMMA OneCall ==
  ASSUME TypeOK, NEW w \in Tabs, NEW s \in Slots, NEW c \in Call, Becomes(w, s, c)
  PROVE  /\ call' \in [Tabs -> [Slots -> Call]]
         /\ call'[w][s] = c
         /\ \A z \in Slots \ {s} : call'[w][z] = call[w][z]
         /\ \A v \in Tabs \ {w} : call'[v] = call[v]
BY DEF Becomes, TypeOK

LEMMA OneGoto ==
  ASSUME TypeOK, NEW w \in Tabs, NEW s \in Slots,
         NEW pc \in {"idle", "sent", "queued", "granted"} \cup Refreshing, Goto(w, s, pc)
  PROVE  /\ call' \in [Tabs -> [Slots -> Call]]
         /\ call'[w][s].pc = pc /\ call'[w][s].tok = call[w][s].tok
         /\ call'[w][s].got = call[w][s].got
         /\ \A z \in Slots \ {s} : call'[w][z] = call[w][z]
         /\ \A v \in Tabs \ {w} : call'[v] = call[v]
<1>1. call[w][s] \in Call
  BY DEF TypeOK
<1>2. /\ [call[w][s] EXCEPT !.pc = pc] \in Call
      /\ [call[w][s] EXCEPT !.pc = pc].pc = pc
      /\ [call[w][s] EXCEPT !.pc = pc].tok = call[w][s].tok
      /\ [call[w][s] EXCEPT !.pc = pc].got = call[w][s].got
  BY <1>1 DEF Call
<1>3. Becomes(w, s, [call[w][s] EXCEPT !.pc = pc])
  BY DEF Goto, Becomes
<1> QED BY <1>2, <1>3, OneCall

\* Pairs are added one at a time, under the next number.
Grows ==
  /\ issued' \in {issued, issued + 1}
  /\ live' \subseteq live \cup (1 .. issued' \ 1 .. issued)
  /\ expired' \subseteq 1 .. issued'

\* The other tabs keep what they have.
Aside(w) ==
  /\ \A v \in Tabs \ {w} : /\ call'[v] = call[v] /\ page'[v] = page[v]
                            /\ refreshing'[v] = refreshing[v]
  /\ call' \in [Tabs -> [Slots -> Call]]
  /\ page' \in [Tabs -> {"app", "login"}] /\ refreshing' \in [Tabs -> BOOLEAN]
  /\ forced' \subseteq {"local", "cookie"}

\* What is known of a call that does not move is known of it after the step.
LEMMA SoundStays ==
  ASSUME TypeOK, IInv, Grows, NEW w \in Tabs, NEW s \in Slots, call'[w][s] = call[w][s]
  PROVE  Sound(w, s)'
BY DEF TypeOK, IInv, Grows, Sound, Refreshing

LEMMA TabKeeps ==
  ASSUME TypeOK, IInv, Grows, NEW w \in Tabs, Aside(w), store' \in 0 .. issued',
         Flagged(w)', \A s \in Slots : Sound(w, s)'
  PROVE  TypeOK' /\ IInv'
<1>1. TypeOK'
  BY DEF TypeOK, Grows, Aside
<1>2. ASSUME NEW v \in Tabs \ {w} PROVE Flagged(v)' /\ \A s \in Slots : Sound(v, s)'
  <2>1. \A s \in Slots : Sound(v, s)'
    BY SoundStays DEF Aside
  <2>2. Flagged(v)'
    BY DEF IInv, Aside, Flagged, Refreshes
  <2> QED BY <2>1, <2>2
<1> QED BY <1>1, <1>2 DEF IInv

\* A call that was not a refresh goes on without being one.
LEMMA PlainStep ==
  ASSUME TypeOK, IInv, Grows, NEW w \in Tabs, NEW s \in Slots, Aside(w), store' \in 0 .. issued',
         ~Refreshes(w, s), ~Refreshes(w, s)', Sound(w, s)',
         \A z \in Slots \ {s} : call'[w][z] = call[w][z],
         refreshing'[w] = refreshing[w], page'[w] = page[w] \/ page'[w] = "login"
  PROVE  TypeOK' /\ IInv'
<1>1. \A z \in Slots : Sound(w, z)'
  BY SoundStays
<1>2. Flagged(w)'
  BY DEF IInv, Flagged, Refreshes
<1> QED BY <1>1, <1>2, TabKeeps

\* A refresh goes on and stays one.
LEMMA RefreshStep ==
  ASSUME TypeOK, IInv, Grows, NEW w \in Tabs, NEW s \in Slots, Aside(w), store' \in 0 .. issued',
         Refreshes(w, s), Refreshes(w, s)', Sound(w, s)',
         \A z \in Slots \ {s} : call'[w][z] = call[w][z],
         refreshing'[w] = refreshing[w], page'[w] = page[w]
  PROVE  TypeOK' /\ IInv'
<1>1. \A z \in Slots : Sound(w, z)'
  BY SoundStays
<1>2. Flagged(w)'
  BY DEF IInv, Flagged, Refreshes
<1> QED BY <1>1, <1>2, TabKeeps

\* A tab without a refresh, its flag down or its page the login form.
LEMMA QuietTab ==
  ASSUME TypeOK, IInv, Grows, NEW w \in Tabs, Aside(w), store' \in 0 .. issued',
         \A z \in Slots : ~Refreshes(w, z)' /\ Sound(w, z)',
         ~refreshing'[w] \/ page'[w] = "login"
  PROVE  TypeOK' /\ IInv'
<1>1. Flagged(w)'
  BY DEF Flagged
<1> QED BY <1>1, TabKeeps

-----------------------------------------------------------------------------
(* The steps *)

LEMMA SendKeeps ==
  ASSUME TypeOK, IInv, NEW w \in Tabs, NEW s \in Slots,
         Send(w, s) \/ SendLogin(w, s) \/ SendLogout(w, s)
  PROVE  TypeOK' /\ IInv'
<1>1. PICK c \in Call : c.pc = "sent" /\ Becomes(w, s, c)
  <2>1. store \in Nat
    BY DEF TypeOK
  <2>2. /\ [Idle EXCEPT !.pc = "sent", !.tok = store] \in Call
        /\ [Idle EXCEPT !.pc = "sent", !.kind = "login", !.tok = store] \in Call
        /\ [Idle EXCEPT !.pc = "sent", !.kind = "logout", !.tok = store, !.body = store] \in Call
    BY <2>1, IdleIsCall DEF Call
  <2>3. /\ [Idle EXCEPT !.pc = "sent", !.tok = store].pc = "sent"
        /\ [Idle EXCEPT !.pc = "sent", !.kind = "login", !.tok = store].pc = "sent"
        /\ [Idle EXCEPT !.pc = "sent", !.kind = "logout", !.tok = store, !.body = store].pc = "sent"
    BY DEF Idle
  <2> QED BY <2>2, <2>3 DEF Send, SendLogin, SendLogout
<1>2. At(w, s, "idle") /\ UNCHANGED <<server, store, forced, page, refreshing>>
  BY DEF Send, SendLogin, SendLogout
<1>3. Grows /\ Aside(w) /\ store' \in 0 .. issued'
  BY <1>1, <1>2, OneCall DEF Grows, Aside, TypeOK, server
<1>4. ~Refreshes(w, s) /\ ~Refreshes(w, s)' /\ Sound(w, s)'
  BY <1>1, <1>2, OneCall DEF Refreshes, Refreshing, Sound, At
<1> QED BY <1>1, <1>2, <1>3, <1>4, OneCall, PlainStep

\* A call ends; a logout takes its tab to the login page.
LEMMA SettleKeeps ==
  ASSUME TypeOK, IInv, NEW w \in Tabs, NEW s \in Slots, call[w][s].pc \in {"sent", "granted"},
         Settle(w, s), Grows, issued' = issued, refreshing' = refreshing
  PROVE  TypeOK' /\ IInv'
<1>1. Becomes(w, s, Idle) /\ Idle \in Call /\ Idle.pc = "idle"
  BY IdleIsCall DEF Settle
<1>2. store' \in 0 .. issued' /\ Aside(w) /\ (page'[w] = page[w] \/ page'[w] = "login")
  <2>1. CASE call[w][s].kind = "logout"
    BY <1>1, <2>1, OneCall DEF Settle, Leave, Aside, TypeOK
  <2>2. CASE call[w][s].kind # "logout"
    BY <1>1, <2>2, OneCall DEF Settle, Aside, TypeOK
  <2> QED BY <2>1, <2>2
<1>3. ~Refreshes(w, s) /\ ~Refreshes(w, s)' /\ Sound(w, s)'
  BY <1>1, OneCall DEF Refreshes, Refreshing, Sound
<1> QED BY <1>1, <1>2, <1>3, OneCall, PlainStep

\* After a redirect no call of the tab refreshes.
LEMMA RedirectKeeps ==
  ASSUME TypeOK, IInv, NEW w \in Tabs, NEW calls \in [Slots -> Call], NEW flag \in BOOLEAN,
         \A z \in Slots : calls[z].pc \notin Refreshing
                            /\ (calls[z].pc = "granted" => calls[z].got \in 1 .. issued),
         RedirectToLogin(w, calls, flag), UNCHANGED server
  PROVE  TypeOK' /\ IInv'
<1>1. Grows /\ store' \in 0 .. issued'
  BY DEF Grows, server, RedirectToLogin, TypeOK
<1>2. /\ Aside(w) /\ page'[w] = "login"
      /\ \/ call'[w] = calls
         \/ call'[w] = [z \in Slots |-> Idle]
  <2>1. CASE page[w] = "login"
    BY <2>1 DEF RedirectToLogin, Aside, TypeOK
  <2>2. CASE page[w] # "login"
    <3>1. /\ call' = [call EXCEPT ![w] = [z \in Slots |-> Idle]]
          /\ refreshing' = [refreshing EXCEPT ![w] = FALSE]
          /\ page' = [page EXCEPT ![w] = "login"] /\ forced' = {}
      BY <2>2 DEF RedirectToLogin
    <3>2. [z \in Slots |-> Idle] \in [Slots -> Call]
      BY IdleIsCall
    <3> DEFINE none == [z \in Slots |-> Idle]
    <3>3. call' \in [Tabs -> [Slots -> Call]] /\ call'[w] = none
            /\ \A v \in Tabs \ {w} : call'[v] = call[v]
      <4> HIDE DEF none
      <4> QED BY <3>1, <3>2 DEF TypeOK, none
    <3> QED BY <3>1, <3>3 DEF Aside, TypeOK
  <2> QED BY <2>1, <2>2
<1>3. \A z \in Slots : ~Refreshes(w, z)' /\ Sound(w, z)'
  BY <1>2, IdleIsCall DEF Refreshes, Sound, Refreshing, server
<1> QED BY <1>1, <1>2, <1>3, QuietTab

\* What the queue becomes after a refresh, granted or not.
LEMMA QueueProcessed ==
  ASSUME TypeOK, IInv, NEW w \in Tabs, NEW s \in Slots, Refreshes(w, s), NEW tok \in Nat
  PROVE  /\ ProcessQueue(w, s, tok) \in [Slots -> Call]
         /\ \A z \in Slots : LET c == ProcessQueue(w, s, tok)[z] IN
              c.pc \notin Refreshing /\ (c.pc = "granted" => c.got \in 1 .. issued)
<1> SUFFICES ASSUME NEW z \in Slots
             PROVE  LET c == ProcessQueue(w, s, tok)[z] IN
                    c \in Call /\ c.pc \notin Refreshing /\ (c.pc = "granted" => c.got \in 1 .. issued)
  BY DEF ProcessQueue
<1>1. call[w][z] \in Call /\ Sound(w, z) /\ (Refreshes(w, z) => z = s)
  BY DEF TypeOK, IInv, Flagged
<1> DEFINE d == [call[w][z] EXCEPT !.pc = "sent", !.tok = tok, !.got = 0]
<1>2. d \in Call /\ d.pc = "sent"
  BY <1>1 DEF Call
<1>3. ProcessQueue(w, s, tok)[z] \in {Idle, d} \/ (z # s /\ ProcessQueue(w, s, tok)[z] = call[w][z])
  BY DEF ProcessQueue
<1> HIDE DEF d
<1> QED BY <1>1, <1>2, <1>3, IdleIsCall DEF Sound, Refreshes, Refreshing

LEMMA RefreshFailedKeeps ==
  ASSUME TypeOK, IInv, NEW w \in Tabs, NEW s \in Slots, Refreshes(w, s), RefreshFailed(w, s)
  PROVE  TypeOK' /\ IInv'
<1>1. 0 \in Nat
  OBVIOUS
<1> QED BY <1>1, QueueProcessed, RedirectKeeps DEF RefreshFailed

LEMMA NoRefreshTokenKeeps ==
  ASSUME TypeOK, IInv, NEW w \in Tabs, NEW s \in Slots, NoRefreshToken(w, s)
  PROVE  TypeOK' /\ IInv'
<1> DEFINE calls == [call[w] EXCEPT ![s] = Idle]
<1>1. calls \in [Slots -> Call]
  BY IdleIsCall DEF TypeOK
<1>2. ASSUME NEW z \in Slots
      PROVE  calls[z].pc \notin Refreshing /\ (calls[z].pc = "granted" => calls[z].got \in 1 .. issued)
  <2>1. ~Refreshes(w, z) /\ Sound(w, z)
    BY DEF NoRefreshToken, IInv, Flagged
  <2>2. calls[z] = IF z = s THEN Idle ELSE call[w][z]
    BY DEF TypeOK
  <2> HIDE DEF calls
  <2> QED BY <2>1, <2>2, IdleIsCall DEF Refreshes, Sound, Refreshing
<1>3. RedirectToLogin(w, calls, TRUE) /\ UNCHANGED server
  BY DEF NoRefreshToken
<1> HIDE DEF calls
<1> QED BY <1>1, <1>2, <1>3, RedirectKeeps

LEMMA StartRefreshKeeps ==
  ASSUME TypeOK, IInv, NEW w \in Tabs, NEW s \in Slots, StartRefresh(w, s)
  PROVE  TypeOK' /\ IInv'
<1> DEFINE c == [call[w][s] EXCEPT !.pc = "checking", !.tok = store, !.retry = TRUE]
<1>1. /\ ~refreshing[w] /\ store # 0 /\ Becomes(w, s, c)
      /\ refreshing' = [refreshing EXCEPT ![w] = TRUE]
      /\ UNCHANGED <<server, store, forced, page>>
  BY DEF StartRefresh, OneRefresh
<1>2. c \in Call /\ c.pc = "checking" /\ c.tok = store
  <2>1. call[w][s] \in Call /\ store \in Nat
    BY DEF TypeOK
  <2> QED BY <2>1 DEF Call, Refreshing
<1> HIDE DEF c
<1>3. Grows /\ Aside(w) /\ store' \in 0 .. issued'
  BY <1>1, <1>2, OneCall DEF Grows, Aside, TypeOK, server
<1>4. \A z \in Slots : ~Refreshes(w, z)
  BY <1>1 DEF IInv, Flagged
<1>5. \A z \in Slots : Refreshes(w, z)' <=> z = s
  BY <1>1, <1>2, <1>4, OneCall DEF Refreshes, Refreshing
<1>6. Sound(w, s)'
  BY <1>1, <1>2, OneCall DEF Sound, Refreshing, TypeOK, server
<1>7. \A z \in Slots : Sound(w, z)'
  BY <1>1, <1>2, <1>3, <1>6, OneCall, SoundStays
<1>8. Flagged(w)'
  BY <1>1, <1>5 DEF Flagged, TypeOK
<1> QED BY <1>3, <1>7, <1>8, TabKeeps

\* refreshSession: a refused pair was not live, and will not be.
LEMMA ServerKeeps ==
  ASSUME TypeOK, IInv, NEW w \in Tabs, NEW s \in Slots,
         CheckRefresh(w, s) \/ RevokeRefresh(w, s) \/ IssueRefresh(w, s)
  PROVE  TypeOK' /\ IInv'
<1>1. /\ Refreshes(w, s) /\ Sound(w, s) /\ call[w][s] \in Call
      /\ UNCHANGED <<expired, store, forced, page, refreshing>>
  BY DEF CheckRefresh, RevokeRefresh, IssueRefresh, At, Refreshes, Refreshing, IInv, TypeOK, server
<1>2. CASE CheckRefresh(w, s)
  <2> DEFINE pc == IF GoodRefresh(call[w][s].tok) THEN "checked" ELSE "denied"
  <2>1. Goto(w, s, pc) /\ pc \in Refreshing /\ (pc = "denied" => call[w][s].tok \notin live)
          /\ UNCHANGED server
    BY <1>2 DEF CheckRefresh, GoodRefresh, Refreshing
  <2>2. pc # "renewed" /\ pc # "granted"
    OBVIOUS
  <2> HIDE DEF pc
  <2>3. Grows /\ Aside(w) /\ store' \in 0 .. issued'
    BY <1>1, <2>1, OneGoto DEF Grows, Aside, TypeOK, server
  <2>4. Refreshes(w, s)' /\ Sound(w, s)'
    <3>1. call'[w][s].pc = pc /\ call'[w][s].tok = call[w][s].tok
      BY <1>1, <2>1, OneGoto
    <3>2. call[w][s].tok \in 1 .. issued /\ live' = live /\ issued' = issued
      BY <1>1, <2>1 DEF Refreshes, Sound, server
    <3> QED BY <2>1, <2>2, <3>1, <3>2 DEF Refreshes, Sound
  <2> QED BY <1>1, <2>1, <2>3, <2>4, OneGoto, RefreshStep
<1>3. CASE RevokeRefresh(w, s)
  <2>1. Goto(w, s, "revoked") /\ "revoked" \in Refreshing /\ live' \subseteq live /\ issued' = issued
    BY <1>3 DEF RevokeRefresh, Refreshing
  <2>2. Grows /\ Aside(w) /\ store' \in 0 .. issued'
    BY <1>1, <2>1, OneGoto DEF Grows, Aside, TypeOK
  <2>3. Refreshes(w, s)' /\ Sound(w, s)'
    BY <1>1, <2>1, OneGoto DEF Refreshes, Sound
  <2> QED BY <1>1, <2>1, <2>2, <2>3, OneGoto, RefreshStep
<1>4. CASE IssueRefresh(w, s)
  <2> DEFINE n == issued + 1
             c == [call[w][s] EXCEPT !.pc = "renewed", !.got = n]
  <2>1. Becomes(w, s, c) /\ issued' = n /\ live' = live \cup {n} /\ n \in Nat /\ n \in 1 .. n
    BY <1>4 DEF IssueRefresh, TypeOK
  <2>2. c \in Call /\ c.pc = "renewed" /\ c.got = n /\ c.tok = call[w][s].tok
    BY <1>1, <2>1 DEF Call, Refreshing
  <2>3. call[w][s].tok \in 1 .. issued
    BY <1>1 DEF Sound, Refreshes
  <2> HIDE DEF c
  <2>4. Grows /\ Aside(w) /\ store' \in 0 .. issued'
    BY <1>1, <2>1, <2>2, OneCall DEF Grows, Aside, TypeOK
  <2>5. Refreshes(w, s)' /\ Sound(w, s)'
    BY <1>1, <2>1, <2>2, <2>3, OneCall DEF Refreshes, Sound, Refreshing, TypeOK
  <2> QED BY <1>1, <2>1, <2>2, <2>4, <2>5, OneCall, RefreshStep
<1> QED BY <1>2, <1>3, <1>4

LEMMA LoginGrantedKeeps ==
  ASSUME TypeOK, IInv, NEW w \in Tabs, NEW s \in Slots, LoginGranted(w, s)
  PROVE  TypeOK' /\ IInv'
<1> DEFINE n == issued + 1
           c == [call[w][s] EXCEPT !.pc = "granted", !.got = n]
<1>1. /\ At(w, s, "sent") /\ Becomes(w, s, c) /\ issued' = n /\ live' = live \cup {n}
      /\ n \in Nat /\ n \in 1 .. n
      /\ UNCHANGED <<expired, store, forced, page, refreshing>>
  BY DEF LoginGranted, TypeOK
<1>2. c \in Call /\ c.pc = "granted" /\ c.got = n
  <2>1. call[w][s] \in Call
    BY DEF TypeOK
  <2> QED BY <1>1, <2>1 DEF Call
<1> HIDE DEF c
<1>3. Grows /\ Aside(w) /\ store' \in 0 .. issued'
  BY <1>1, <1>2, OneCall DEF Grows, Aside, TypeOK
<1>4. ~Refreshes(w, s) /\ ~Refreshes(w, s)' /\ Sound(w, s)'
  BY <1>1, <1>2, OneCall DEF Refreshes, Refreshing, Sound, At
<1> QED BY <1>1, <1>2, <1>3, <1>4, OneCall, PlainStep

\* A hard navigation and a reload leave no call of the tab.
LEMMA LoadsKeep ==
  ASSUME TypeOK, IInv, NEW w \in Tabs,
         call' = [call EXCEPT ![w] = [z \in Slots |-> Idle]],
         refreshing' = [refreshing EXCEPT ![w] = FALSE],
         NEW p \in {"app", "login"}, page' = [page EXCEPT ![w] = p],
         store' \in 0 .. issued, forced' \subseteq {"local", "cookie"}, UNCHANGED server
  PROVE  TypeOK' /\ IInv'
<1>1. Grows /\ Aside(w) /\ store' \in 0 .. issued'
  BY IdleIsCall DEF Grows, Aside, TypeOK, server
<1>2. \A z \in Slots : ~Refreshes(w, z)' /\ Sound(w, z)'
  BY IdleIsCall DEF Refreshes, Sound, Refreshing, TypeOK
<1> QED BY <1>1, <1>2, QuietTab DEF TypeOK

LEMMA RenewedKeeps ==
  ASSUME TypeOK, IInv, NEW w \in Tabs, NEW s \in Slots, Renewed(w, s)
  PROVE  TypeOK' /\ IInv'
<1>1. /\ Refreshes(w, s) /\ store' = call[w][s].got /\ store' \in 1 .. issued
      /\ refreshing' = [refreshing EXCEPT ![w] = FALSE]
      /\ forced' \subseteq forced /\ UNCHANGED <<server, page>>
  BY DEF Renewed, At, Refreshes, Refreshing, IInv, Sound
<1> DEFINE tok == call[w][s].got
           calls == ProcessQueue(w, s, tok)
<1>2. tok \in Nat /\ call' = [call EXCEPT ![w] = calls]
  BY <1>1 DEF TypeOK, Renewed
<1>3. /\ calls \in [Slots -> Call]
      /\ \A z \in Slots : calls[z].pc \notin Refreshing
                            /\ (calls[z].pc = "granted" => calls[z].got \in 1 .. issued)
  BY <1>1, <1>2, QueueProcessed
<1> HIDE DEF calls
<1>4. Grows /\ Aside(w) /\ store' \in 0 .. issued'
  BY <1>1, <1>2, <1>3 DEF Grows, Aside, TypeOK, server
<1>5. \A z \in Slots : ~Refreshes(w, z)' /\ Sound(w, z)'
  BY <1>1, <1>2, <1>3 DEF Refreshes, Sound, Refreshing, TypeOK, server
<1> QED BY <1>1, <1>4, <1>5, QuietTab DEF TypeOK

LEMMA NextInvariant == TypeOK /\ IInv /\ [Next]_vars => TypeOK' /\ IInv'
<1> SUFFICES ASSUME TypeOK, IInv, [Next]_vars PROVE TypeOK' /\ IInv'
  OBVIOUS
<1>1. ASSUME NEW w \in Tabs, NEW s \in Slots, Send(w, s) \/ SendLogin(w, s) \/ SendLogout(w, s)
      PROVE  TypeOK' /\ IInv'
  BY <1>1, SendKeeps
<1>2. ASSUME NEW w \in Tabs, NEW s \in Slots, Served(w, s) \/ Rejected(w, s)
      PROVE  TypeOK' /\ IInv'
  <2>1. Grows /\ issued' = issued /\ refreshing' = refreshing /\ Settle(w, s)
    BY <1>2 DEF Served, Rejected, Grows, server, TypeOK
  <2>2. call[w][s].pc = "sent"
    BY <1>2 DEF Served, Rejected, Refused, At
  <2> QED BY <2>1, <2>2, SettleKeeps
<1>3. ASSUME NEW w \in Tabs, NEW s \in Slots, LoginGranted(w, s) \/ NoRefreshToken(w, s) \/ StartRefresh(w, s)
      PROVE  TypeOK' /\ IInv'
  BY <1>3, LoginGrantedKeeps, NoRefreshTokenKeeps, StartRefreshKeeps
<1>4. ASSUME NEW w \in Tabs, NEW s \in Slots, EnterApp(w, s) PROVE TypeOK' /\ IInv'
  <2>1. store' \in 1 .. issued
    BY <1>4 DEF EnterApp, At, IInv, Sound
  <2>2. forced' \subseteq {"local", "cookie"} /\ store' \in 0 .. issued
    BY <1>4, <2>1 DEF EnterApp
  <2> QED BY <1>4, <2>2, LoadsKeep DEF EnterApp
<1>5. ASSUME NEW w \in Tabs, NEW s \in Slots, Queued(w, s) PROVE TypeOK' /\ IInv'
  <2>1. /\ call[w][s].pc = "sent" /\ Goto(w, s, "queued")
        /\ UNCHANGED <<server, store, forced, page, refreshing>>
    BY <1>5 DEF Queued, Refused
  <2>2. Grows /\ Aside(w) /\ store' \in 0 .. issued'
    BY <2>1, OneGoto DEF Grows, Aside, TypeOK, server
  <2>3. ~Refreshes(w, s) /\ ~Refreshes(w, s)' /\ Sound(w, s)'
    BY <2>1, OneGoto DEF Refreshes, Refreshing, Sound
  <2> QED BY <2>1, <2>2, <2>3, OneGoto, PlainStep
<1>6. ASSUME NEW w \in Tabs, NEW s \in Slots,
             CheckRefresh(w, s) \/ RevokeRefresh(w, s) \/ IssueRefresh(w, s) \/ Renewed(w, s)
      PROVE  TypeOK' /\ IInv'
  BY <1>6, ServerKeeps, RenewedKeeps
<1>7. ASSUME NEW w \in Tabs, NEW s \in Slots, Refreshes(w, s), RefreshFailed(w, s)
      PROVE  TypeOK' /\ IInv'
  BY <1>7, RefreshFailedKeeps
<1>8. ASSUME NEW w \in Tabs, NEW s \in Slots, Denied(w, s) PROVE TypeOK' /\ IInv'
  BY <1>7, <1>8 DEF Denied, At, Refreshes, Refreshing
<1>9. ASSUME NEW w \in Tabs, NEW s \in Slots, Fails(w, s) PROVE TypeOK' /\ IInv'
  <2>1. CASE call[w][s].pc \in {"sent", "granted"} /\ Settle(w, s) /\ UNCHANGED <<server, refreshing>>
    <3>1. Grows /\ issued' = issued
      BY <2>1 DEF Grows, server, TypeOK
    <3> QED BY <2>1, <3>1, SettleKeeps
  <2>2. CASE call[w][s].pc \in Refreshing /\ RefreshFailed(w, s)
    BY <1>7, <2>2 DEF Refreshes
  <2> QED BY <1>9, <2>1, <2>2 DEF Fails
<1>10. ASSUME NEW w \in Tabs, Reload(w) PROVE TypeOK' /\ IInv'
  <2>1. (IF store = 0 THEN "login" ELSE "app") \in {"app", "login"} /\ store' \in 0 .. issued
          /\ forced' \subseteq {"local", "cookie"}
    BY <1>10 DEF Reload, TypeOK
  <2> QED BY <1>10, <2>1, LoadsKeep DEF Reload
<1>11. ASSUME NEW n \in 1 .. issued, Expire(n) PROVE TypeOK' /\ IInv'
  BY <1>11 DEF Expire, TypeOK, IInv, Flagged, Sound, Refreshes
<1>12. ASSUME UNCHANGED vars PROVE TypeOK' /\ IInv'
  BY <1>12 DEF vars, server, TypeOK, IInv, Flagged, Sound, Refreshes
<1> QED
  BY <1>1, <1>2, <1>3, <1>4, <1>5, <1>6, <1>8, <1>9, <1>10, <1>11, <1>12 DEF Next, Continue

LEMMA Invariant == Spec => [](TypeOK /\ IInv)
BY InitInvariant, NextInvariant, PTL DEF Spec

-----------------------------------------------------------------------------
(* Theorems *)

\* Tokens, pages, flags and calls keep their types: no tab stores a pair that
\* was never issued.
THEOREM TypeCorrect == Spec => []TypeOK
BY Invariant, PTL

\* A tab has at most one refresh under way and, in the application, its
\* isRefreshing says so, however 401s, answers and redirects interleave.
THEOREM FlagIsTrue == Spec => []FlagTellsRefresh
<1>1. TypeOK /\ IInv => FlagTellsRefresh
  <2> SUFFICES ASSUME TypeOK, IInv, NEW w \in Tabs
               PROVE  /\ Cardinality(Refreshers(w)) <= 1
                      /\ page[w] = "app" => (refreshing[w] <=> Refreshers(w) # {})
    BY DEF FlagTellsRefresh
  <2>1. Flagged(w) /\ Refreshers(w) = {s \in Slots : Refreshes(w, s)}
    BY DEF IInv, Refreshers, Refreshes
  <2>2. Cardinality(Refreshers(w)) <= 1
    <3>1. CASE Refreshers(w) = {}
      BY <3>1, FS_EmptySet
    <3>2. CASE Refreshers(w) # {}
      <4>1. PICK s \in Slots : Refreshers(w) = {s}
        BY <2>1, <3>2 DEF Flagged
      <4> QED BY <4>1, FS_Singleton
    <3> QED BY <3>1, <3>2
  <2> QED BY <2>1, <2>2 DEF Flagged
<1> QED BY <1>1, Invariant, PTL

\* A session whose refresh token is good ends for a logout, for a refresh
\* without an answer or for another tab, and for nothing else.
THEOREM SessionKept == Spec => SessionLasts
<1> DEFINE Ends == \E w \in Tabs, s \in Slots :
                     LET c == call[w][s] IN
                     \/ c.kind = "logout"
                     \/ c.pc \in Refreshing /\ (c.pc = "denied" => c.tok # store)
<1>1. TypeOK /\ IInv /\ [Next]_vars => [store' = 0 /\ store \in live => Ends]_vars
  <2> SUFFICES ASSUME TypeOK, IInv, Next, store' = 0, store \in live PROVE Ends
    BY DEF vars
  <2>0. store # 0
    BY DEF TypeOK
  <2>1. ASSUME NEW w \in Tabs, NEW s \in Slots, Settle(w, s) PROVE Ends
    BY <2>0, <2>1 DEF Settle
  <2>2. ASSUME NEW w \in Tabs, NEW s \in Slots, call[w][s].pc \in Refreshing PROVE Ends
    <3>1. Sound(w, s)
      BY DEF IInv
    <3> QED BY <2>2, <3>1 DEF Sound
  <2>3. ASSUME NEW w \in Tabs, NEW s \in Slots, EnterApp(w, s) \/ Renewed(w, s) PROVE FALSE
    BY <2>3 DEF EnterApp, Renewed, At, IInv, Sound
  <2> HIDE DEF Ends
  <2>4. ASSUME NEW w \in Tabs, NEW s \in Slots, store' # store,
               Send(w, s) \/ SendLogin(w, s) \/ SendLogout(w, s) \/ Continue(w, s) \/ Fails(w, s)
        PROVE  (\E v \in Tabs, z \in Slots : Settle(v, z) \/ call[v][z].pc \in Refreshing)
                 \/ EnterApp(w, s)
    BY <2>0, <2>4 DEF Send, SendLogin, SendLogout, Continue, Served, LoginGranted, Rejected, Queued,
           NoRefreshToken, StartRefresh, CheckRefresh, RevokeRefresh, IssueRefresh, Renewed, Denied,
           Fails, At, Refreshing
  <2> QED BY <2>0, <2>1, <2>2, <2>3, <2>4 DEF Next, Reload, Expire
<1> QED BY <1>1, Invariant, PTL DEF Spec, SessionLasts
=============================================================================
