--------------------------- MODULE RemindersProofs ---------------------------
(***************************************************************************)
(* What holds of Reminders for every number of meetings and users and for  *)
(* any number of failures: nobody is reminded twice.                       *)
(***************************************************************************)
EXTENDS Reminders, TLAPS

-----------------------------------------------------------------------------
(* Types *)

LEMMA InitTypeOK == Init => TypeOK
BY RemindersAssumption DEF Init, TypeOK

\* The two queries select people of this instance.
LEMMA SelectedAreNotices ==
  ASSUME TypeOK, NEW kind \in Kinds PROVE Selected(kind) \subseteq Notice
<1>1. ASSUME NEW m \in Meetings PROVE Recipients(kind, m) \subseteq Users
  BY RemindersAssumption DEF Recipients, Rows, TypeOK
<1>2. ASSUME NEW m \in Meetings, NEW u \in Recipients(kind, m) PROVE <<kind, m, u>> \in Notice
  BY <1>1, <1>2 DEF Notice
<1> QED BY <1>2 DEF Selected

LEMMA NextTypeOK == TypeOK /\ [Next]_vars => TypeOK'
<1> SUFFICES ASSUME TypeOK, [Next]_vars PROVE TypeOK'
  OBVIOUS
<1>0. MaxFails \in Nat /\ Host \in Users
  BY RemindersAssumption
<1>1. ASSUME NEW m \in Meetings, Create(m) PROVE TypeOK'
  BY <1>1 DEF Create, TypeOK, Statuses
<1>2. ASSUME NEW m \in Meetings, Invite(m) \/ Copy(m) \/ Join(m) PROVE TypeOK'
  BY <1>0, <1>2 DEF Invite, Copy, Join, Works, Breaks, job, TypeOK
<1>3. ASSUME NEW m \in Meetings, NEW status \in Statuses, UpdateMeeting(m, status) PROVE TypeOK'
  BY <1>3 DEF UpdateMeeting, job, TypeOK
<1>4. ASSUME NEW m \in Meetings, CancelMeeting(m) PROVE TypeOK'
  BY <1>4 DEF CancelMeeting, job, TypeOK, Statuses
<1>5. ASSUME NEW m \in Meetings, Unlink(m) PROVE TypeOK'
  BY <1>0, <1>5 DEF Unlink, Works, Breaks, job, TypeOK
<1>6. ASSUME NEW m \in Meetings, NEW to \in {"active", "closed", "deleted"}, ChangeEvent(m, to)
      PROVE  TypeOK'
  BY <1>6 DEF ChangeEvent, job, TypeOK
<1>7. ASSUME Fire PROVE TypeOK'
  <2>1. left' \in [Meetings -> 0..3]
    BY <1>7 DEF Fire, TypeOK
  <2>2. todo' \subseteq Notice /\ fails' \in 0..MaxFails
    <3>1. TypeOK => \A kind \in Kinds : Selected(kind) \subseteq Notice
      BY SelectedAreNotices
    <3>2. "event" \in Kinds /\ "meeting" \in Kinds
      BY DEF Kinds
    <3> QED BY <1>0, <1>7, <3>1, <3>2 DEF Fire, Works, Breaks, TypeOK
  <2> QED BY <1>7, <2>1, <2>2 DEF Fire, desk, TypeOK
<1>8. ASSUME NEW n \in Notice, NEW channel \in {"in_app", "email"}, Goes(n, channel)
      PROVE  sent' \in [Notice \X {"in_app", "email"} -> 0..2]
  BY <1>8 DEF Goes, TypeOK
<1>9. ASSUME NEW n \in Notice, Remind(n) PROVE TypeOK'
  <2>1. sent' \in [Notice \X {"in_app", "email"} -> 0..2]
    BY <1>8, <1>9 DEF Remind, TypeOK
  <2> QED BY <1>0, <1>9, <2>1 DEF Remind, Works, Breaks, desk, TypeOK
<1>10. ASSUME NEW n \in Notice, Send(n) PROVE TypeOK'
  <2>1. sent' \in [Notice \X {"in_app", "email"} -> 0..2]
    BY <1>8, <1>10 DEF Send, TypeOK
  <2> QED BY <1>0, <1>10, <2>1 DEF Send, Works, Breaks, desk, TypeOK
<1>11. ASSUME Abort PROVE TypeOK'
  BY <1>0, <1>11 DEF Abort, Breaks, desk, TypeOK
<1>12. ASSUME UNCHANGED vars PROVE TypeOK'
  BY <1>12 DEF vars, TypeOK
<1> QED
  BY <1>1, <1>2, <1>3, <1>4, <1>5, <1>6, <1>7, <1>9, <1>10, <1>11, <1>12 DEF Next

\* Meetings, copies and reminders keep their types, whatever fails.
THEOREM TypeCorrect == Spec => []TypeOK
BY InitTypeOK, NextTypeOK, PTL DEF Spec

-----------------------------------------------------------------------------
(* The inductive invariant: an e-mail goes, or is still to go, only where  *)
(* the inbox row has been written, unless the history says it never was,   *)
(* and the row is what the job looks for before it writes another.         *)

Told(n) == sent[<<n, "in_app">>]
Mailed(n) == sent[<<n, "email">>]

OnceInbox(n) == Told(n) <= 1
OnceMail(n) ==
  n \notin unseen =>
    /\ Mailed(n) <= 1
    /\ n \in letter => Mailed(n) = 0
    /\ n \in letter \/ Mailed(n) > 0 => Told(n) > 0
Once == \A n \in Notice : OnceInbox(n) /\ OnceMail(n)

LEMMA InitOnce == Init => Once
BY DEF Init, Once, OnceInbox, OnceMail, Told, Mailed

LEMMA Tolls ==
  ASSUME TypeOK, NEW n \in Notice
  PROVE  Told(n) \in 0..2 /\ Mailed(n) \in 0..2
BY DEF TypeOK, Told, Mailed

\* A message through one channel counts there, once.
LEMMA GoesCounts ==
  ASSUME TypeOK, NEW n \in Notice, NEW channel \in {"in_app", "email"}, Goes(n, channel)
  PROVE  /\ sent'[<<n, channel>>] = IF sent[<<n, channel>>] = 2 THEN 2 ELSE sent[<<n, channel>>] + 1
         /\ \A k \in Notice, c \in {"in_app", "email"} :
              <<k, c>> # <<n, channel>> => sent'[<<k, c>>] = sent[<<k, c>>]
BY DEF TypeOK, Goes

LEMMA NextOnce == TypeOK /\ Once /\ [Next]_vars => Once'
<1> SUFFICES ASSUME TypeOK, Once, [Next]_vars PROVE Once'
  OBVIOUS
<1>1. ASSUME sent' = sent, letter' \subseteq letter, unseen' = unseen PROVE Once'
  BY <1>1 DEF Once, OnceInbox, OnceMail, Told, Mailed
<1>2. ASSUME NEW n \in Notice, Remind(n) PROVE Once'
  <2>1. CASE WasReminderSent(n)
    BY <1>1, <1>2, <2>1 DEF Remind
  <2>2. CASE ~WasReminderSent(n)
    <3>1. Told(n) = 0 /\ OnceMail(n)
      BY <2>2, Tolls DEF WasReminderSent, Told, Once
    <3>2. \A k \in Notice \ {n} : k \in letter' <=> k \in letter
      BY <1>2, <2>2 DEF Remind
    <3>3. CASE Goes(n, "in_app") /\ UNCHANGED unseen
      <4>1. Told(n)' = 1 /\ Mailed(n)' = Mailed(n)
        <5>1. Told(n)' = IF Told(n) = 2 THEN 2 ELSE Told(n) + 1
          BY <3>3, GoesCounts DEF Told
        <5>2. Mailed(n)' = Mailed(n)
          BY <3>3, GoesCounts DEF Mailed
        <5> QED BY <3>1, <5>1, <5>2
      <4>2. \A k \in Notice \ {n} : Told(k)' = Told(k) /\ Mailed(k)' = Mailed(k)
        BY <3>3, GoesCounts DEF Told, Mailed
      <4>3. n \notin unseen => Mailed(n) = 0
        BY <3>1, Tolls DEF OnceMail
      <4>4. OnceInbox(n)' /\ OnceMail(n)'
        BY <3>3, <4>1, <4>3 DEF OnceInbox, OnceMail
      <4>5. \A k \in Notice \ {n} : OnceInbox(k)' /\ OnceMail(k)'
        BY <3>2, <3>3, <4>2 DEF Once, OnceInbox, OnceMail
      <4> QED BY <4>4, <4>5 DEF Once
    <3>4. CASE unseen' = unseen \cup {n} /\ UNCHANGED sent
      BY <3>2, <3>4 DEF Once, OnceInbox, OnceMail, Told, Mailed
    <3> QED BY <1>2, <2>2, <3>3, <3>4 DEF Remind
  <2> QED BY <2>1, <2>2
<1>3. ASSUME NEW n \in Notice, Send(n) PROVE Once'
  <2>1. n \in letter /\ letter' = letter \ {n} /\ unseen' = unseen
    BY <1>3 DEF Send
  <2>2. CASE UNCHANGED sent
    BY <1>1, <2>1, <2>2
  <2>3. CASE Goes(n, "email")
    <3>1. OnceInbox(n) /\ OnceMail(n)
      BY DEF Once
    <3>2. /\ Told(n)' = Told(n)
          /\ Mailed(n)' = IF Mailed(n) = 2 THEN 2 ELSE Mailed(n) + 1
          /\ \A k \in Notice \ {n} : Told(k)' = Told(k) /\ Mailed(k)' = Mailed(k)
      BY <2>3, GoesCounts DEF Told, Mailed
    <3>3. OnceInbox(n)' /\ OnceMail(n)'
      BY <2>1, <3>1, <3>2 DEF OnceInbox, OnceMail
    <3>4. \A k \in Notice \ {n} : OnceInbox(k)' /\ OnceMail(k)'
      BY <2>1, <3>2 DEF Once, OnceInbox, OnceMail
    <3> QED BY <3>3, <3>4 DEF Once
  <2> QED BY <1>3, <2>2, <2>3 DEF Send
<1>4. ASSUME NEW m \in Meetings,
             \/ Create(m) \/ Invite(m) \/ Copy(m) \/ Join(m) \/ CancelMeeting(m) \/ Unlink(m)
             \/ \E status \in Statuses : UpdateMeeting(m, status)
             \/ \E to \in {"active", "closed", "deleted"} : ChangeEvent(m, to)
      PROVE  Once'
  BY <1>1, <1>4 DEF Create, Invite, Copy, Join, CancelMeeting, Unlink, UpdateMeeting, ChangeEvent, job
<1>5. ASSUME Fire \/ Abort \/ UNCHANGED vars PROVE Once'
  BY <1>1, <1>5 DEF Fire, Abort, vars
<1> QED BY <1>2, <1>3, <1>4, <1>5 DEF Next

\* Two firings meet a window and either run may be cut short: a reminder
\* comes twice through one channel only where no inbox row was written.
THEOREM NobodyTwice == Spec => []RemindedOnce
<1>1. TypeOK /\ Once => RemindedOnce
  <2> SUFFICES ASSUME TypeOK, Once, NEW n \in Notice, n \notin unseen
               PROVE  ~(sent[<<n, "in_app">>] > 1) /\ ~(sent[<<n, "email">>] > 1)
    BY DEF RemindedOnce
  <2>1. OnceInbox(n) /\ OnceMail(n)
    BY DEF Once
  <2> QED BY <2>1, Tolls DEF OnceInbox, OnceMail, Told, Mailed
<1> QED BY <1>1, InitTypeOK, NextTypeOK, InitOnce, NextOnce, PTL DEF Spec
=============================================================================
