----------------------------- MODULE Reminders -----------------------------
(***************************************************************************)
(* Meetings of tickets, their copies in the calendar and the reminders of  *)
(* both: MeetingsService, CalendarService, RemindersService (every five    *)
(* minutes) and NotificationsService.notifyUser.                           *)
(*                                                                         *)
(* Time is counted in firings of the cron job.  A window of ten minutes    *)
(* meets two of them: left is 3 while a meeting starts in more than 35     *)
(* minutes, 2 and 1 at the firings in the window, 0 once less than 25 are  *)
(* left.  A copy starts when its meeting does.  The log of what was sent   *)
(* is searched two hours back, longer than a window lasts.                 *)
(***************************************************************************)
EXTENDS Naturals, FiniteSets

CONSTANTS
  Meetings, \* the meetings that are scheduled in this instance
  Users, Host, None,
  Near,     \* meetings of the same ticket that start within an hour
  InApp,    \* users with notification_in_app not switched off
  Email,    \* users with notification_email not switched off
  Ops,      \* the operations in use
  Fails,    \* what may fail
  MaxFails  \* bound: how much of it fails

ASSUME RemindersAssumption ==
  /\ Host \in Users /\ None \notin Users
  /\ InApp \subseteq Users /\ Email \subseteq Users
  /\ Near \in [Meetings -> SUBSET Meetings]
  /\ \A m \in Meetings : m \in Near[m]
  /\ Ops \subseteq {"update", "cancel", "event"}
  /\ Fails \subseteq {"create", "sync", "unlink", "down", "select", "log", "mail"}
  /\ MaxFails \in Nat

VARIABLES
  meeting, \* the status of each meeting, "none" before it is created
  event,   \* its copy in calendar.events
  left,    \* firings until the meeting leaves the window
  making,  \* how far createMeeting and the copying have come
  invited, \* meeting_participants
  joined,  \* event_participants of the copy
  unlinks, \* cancelled meetings whose copy is still to be cancelled
  todo,    \* what each run of the job has still to send
  letter,  \* the e-mail notifyUser has still to send
  sent,    \* how often each reminder went through each channel
  unseen,  \* history: reminders whose inbox row was never written
  fails

vars == <<meeting, event, left, making, invited, joined, unlinks, todo,
          letter, sent, unseen, fails>>
desk == <<meeting, event, making, invited, joined, unlinks>>
job == <<left, todo, letter, sent, unseen>>

Kinds == {"event", "meeting"}
Statuses == {"scheduled", "active", "completed", "cancelled"}
Notice == Kinds \X Meetings \X Users

TypeOK ==
  /\ meeting \in [Meetings -> Statuses \cup {"none"}]
  /\ event \in [Meetings -> {"none", "active", "closed", "deleted"}]
  /\ left \in [Meetings -> 0..3]
  /\ making \in [Meetings -> {"none", "inviting", "copying", "joining", "done"}]
  /\ invited \in [Meetings -> SUBSET Users]
  /\ joined \in [Meetings -> SUBSET Users]
  /\ unlinks \subseteq Meetings
  /\ todo \subseteq Notice /\ letter \subseteq Notice
  /\ sent \in [Notice \X {"in_app", "email"} -> 0..2]
  /\ unseen \subseteq Notice
  /\ fails \in 0..MaxFails

Init ==
  /\ meeting = [m \in Meetings |-> "none"] /\ event = [m \in Meetings |-> "none"]
  /\ left = [m \in Meetings |-> 0]
  /\ making = [m \in Meetings |-> "none"]
  /\ invited = [m \in Meetings |-> {}] /\ joined = [m \in Meetings |-> {}]
  /\ unlinks = {} /\ todo = {} /\ letter = {}
  /\ sent = [s \in Notice \X {"in_app", "email"} |-> 0]
  /\ unseen = {}
  /\ fails = 0

Works == UNCHANGED fails
Breaks(what) == what \in Fails /\ fails < MaxFails /\ fails' = fails + 1

-----------------------------------------------------------------------------
(* MeetingsService and CalendarService: one action per statement.          *)

Create(m) ==
  /\ making[m] = "none"
  /\ meeting' = [meeting EXCEPT ![m] = "scheduled"]
  /\ \E l \in 0..3 : left' = [left EXCEPT ![m] = l]
  /\ making' = [making EXCEPT ![m] = "inviting"]
  /\ UNCHANGED <<event, invited, joined, unlinks, todo, letter, sent, unseen, fails>>

\* The host comes last; a statement that fails ends the call.
Invite(m) ==
  /\ making[m] = "inviting"
  /\ \/ /\ Works
        /\ \E u \in Users \ invited[m] :
             /\ u = Host => Users \ {Host} \subseteq invited[m]
             /\ invited' = [invited EXCEPT ![m] = @ \cup {u}]
             /\ making' = [making EXCEPT ![m] = IF u = Host THEN "copying" ELSE @]
     \/ /\ Breaks("create")
        /\ making' = [making EXCEPT ![m] = "done"] /\ UNCHANGED invited
  /\ UNCHANGED <<meeting, event, joined, unlinks>> /\ UNCHANGED job

\* syncMeetingToCalendar, which nobody waits for.
Copy(m) ==
  /\ making[m] = "copying"
  /\ \/ /\ Works
        /\ event' = [event EXCEPT ![m] = "active"]
        /\ making' = [making EXCEPT ![m] = "joining"]
     \/ /\ Breaks("sync")
        /\ making' = [making EXCEPT ![m] = "done"] /\ UNCHANGED event
  /\ UNCHANGED <<meeting, invited, joined, unlinks>> /\ UNCHANGED job

Join(m) ==
  /\ making[m] = "joining"
  /\ \/ /\ Works
        /\ \E u \in Users \ joined[m] :
             joined' = [joined EXCEPT ![m] = @ \cup {u}]
        /\ making' = [making EXCEPT ![m] =
                        IF joined'[m] = Users THEN "done" ELSE @]
     \/ /\ Breaks("sync")
        /\ making' = [making EXCEPT ![m] = "done"] /\ UNCHANGED joined
  /\ UNCHANGED <<meeting, event, invited, unlinks>> /\ UNCHANGED job

UpdateMeeting(m, status) ==
  /\ "update" \in Ops /\ meeting[m] # "none"
  /\ meeting' = [meeting EXCEPT ![m] = status]
  /\ UNCHANGED <<event, making, invited, joined, unlinks, fails>> /\ UNCHANGED job

CancelMeeting(m) ==
  /\ "cancel" \in Ops /\ meeting[m] \notin {"none", "cancelled"}
  /\ meeting' = [meeting EXCEPT ![m] = "cancelled"]
  /\ unlinks' = unlinks \cup {m}
  /\ UNCHANGED <<event, making, invited, joined, fails>> /\ UNCHANGED job

\* The copy is found by ticket and time, and so are its neighbours.
Unlink(m) ==
  /\ m \in unlinks
  /\ unlinks' = unlinks \ {m}
  /\ \/ /\ Works
        /\ event' = [n \in Meetings |->
             IF n \in Near[m] /\ event[n] # "none" THEN "deleted" ELSE event[n]]
     \/ Breaks("unlink") /\ UNCHANGED event
  /\ UNCHANGED <<meeting, making, invited, joined>> /\ UNCHANGED job

\* updateEvent with a status, deleteEvent.
ChangeEvent(m, to) ==
  /\ "event" \in Ops /\ event[m] \in {"active", "closed"}
  /\ event' = [event EXCEPT ![m] = to]
  /\ UNCHANGED <<meeting, making, invited, joined, unlinks, fails>> /\ UNCHANGED job

-----------------------------------------------------------------------------
(* RemindersService.                                                       *)

WindowOnce(m) == left'[m] = 1
InWindow(m) == left'[m] \in {1, 2}

\* A LEFT JOIN without a match yields NULL, which the aggregate leaves out.
Rows(us) == IF us = {} THEN {None} ELSE us
Recipients(kind, m) ==
  (IF kind = "event" THEN {Host} \cup Rows(joined[m]) ELSE Rows(invited[m])) \ {None}

Upcoming(kind, m) ==
  /\ IF kind = "event" THEN event[m] = "active" ELSE meeting[m] = "scheduled"
  /\ InWindow(m)

Selected(kind) ==
  UNION {{<<kind, m, u>> : u \in Recipients(kind, m)} : m \in {n \in Meetings : Upcoming(kind, n)}}

\* sendReminders: five minutes have passed, the two queries run.  A run is
\* taken to end before the next one; the process may be down when one is due.
Fire ==
  /\ todo = {} /\ letter = {}
  /\ left' = [m \in Meetings |-> IF left[m] = 0 THEN 0 ELSE left[m] - 1]
  /\ \/ Works /\ todo' = Selected("event") \cup Selected("meeting")
     \/ \E kind \in Kinds : Breaks("select") /\ todo' = Selected(kind)
     \/ Breaks("down") /\ UNCHANGED todo
  /\ UNCHANGED <<letter, sent, unseen>> /\ UNCHANGED desk

Goes(n, channel) == sent' = [sent EXCEPT ![<<n, channel>>] = IF @ = 2 THEN 2 ELSE @ + 1]

NeverSent(n) == FALSE
WasReminderSent(n) == sent[<<n, "in_app">>] > 0

\* The next recipient of a run; the other run may be amid a letter.
Remind(n) ==
  /\ n \in todo /\ \A l \in letter : l[1] # n[1]
  /\ todo' = todo \ {n}
  /\ \/ WasReminderSent(n) /\ Works /\ UNCHANGED <<letter, sent, unseen>>
     \/ /\ ~WasReminderSent(n)
        /\ letter' = IF n[3] \in Email THEN letter \cup {n} ELSE letter
        /\ \/ Works /\ n[3] \in InApp /\ Goes(n, "in_app") /\ UNCHANGED unseen
           \/ Works /\ n[3] \notin InApp /\ unseen' = unseen \cup {n} /\ UNCHANGED sent
           \/ Breaks("log") /\ n[3] \in InApp /\ unseen' = unseen \cup {n} /\ UNCHANGED sent
  /\ UNCHANGED left /\ UNCHANGED desk

Send(n) ==
  /\ n \in letter
  /\ letter' = letter \ {n}
  /\ \/ Works /\ Goes(n, "email")
     \/ Breaks("mail") /\ UNCHANGED sent
  /\ UNCHANGED <<left, todo, unseen>> /\ UNCHANGED desk

\* A query of a run fails and ends it; both end when the process stops.
Abort ==
  /\ Breaks("down")
  /\ \E lost \in (SUBSET Kinds) \ {{}} :
       /\ \E n \in todo \cup letter : n[1] \in lost
       /\ todo' = {n \in todo : n[1] \notin lost}
       /\ letter' = {n \in letter : n[1] \notin lost}
  /\ UNCHANGED <<left, sent, unseen>> /\ UNCHANGED desk

Next ==
  \/ \E m \in Meetings :
       \/ Create(m) \/ Invite(m) \/ Copy(m) \/ Join(m)
       \/ \E status \in Statuses : UpdateMeeting(m, status)
       \/ CancelMeeting(m) \/ Unlink(m)
       \/ \E to \in {"active", "closed", "deleted"} : ChangeEvent(m, to)
  \/ Fire
  \/ \E n \in Notice : Remind(n) \/ Send(n)
  \/ Abort

Spec == Init /\ [][Next]_vars

\* The cron job fires every five minutes and its runs go on.
LiveSpec ==
  /\ Spec
  /\ WF_vars(Fire)
  /\ WF_vars(\E n \in Notice : Remind(n) \/ Send(n))

-----------------------------------------------------------------------------
\* Nobody gets the same reminder twice through the same channel, although
\* two firings meet the window and either run may be cut short or lose a
\* letter (wasReminderSent, reminders.service.ts:125-141).  The inbox row is
\* all the job remembers: where none was written the letter may come twice.
RemindedOnce ==
  \A n \in Notice, channel \in {"in_app", "email"} : sent[<<n, channel>>] > 1 => n \in unseen

\* Whoever was invited to a meeting that was scheduled before its window is
\* reminded of it unless it is not held: the second firing makes up for one
\* that is missed (reminders.service.ts:74-118).
ScheduledAreReminded ==
  \A m \in Meetings, u \in Users :
    (meeting[m] = "scheduled" /\ u \in invited[m] /\ left[m] = 3)
      ~> \/ meeting[m] # "scheduled"
         \/ \E channel \in {"in_app", "email"} : sent[<<<<"meeting", m, u>>, channel>>] > 0

\* "Cancel linked calendar event" (meetings.service.ts:198), which the code does
\* not keep: once everything has been written, the copy of a meeting is in the
\* calendar only if the meeting was not cancelled.
CopyFollows ==
  \A m \in Meetings :
    making[m] = "done" /\ unlinks = {} /\ meeting[m] = "cancelled" => event[m] # "active"
=============================================================================
