------------------------------ MODULE Requests ------------------------------
(***************************************************************************)
(* Administrative requests: people take, advance, review, cancel and       *)
(* escalate them while a scheduled sweep escalates the overdue ones.       *)
(*                                                                         *)
(* Every handler of RequestsService has the same shape: it reads the       *)
(* request and checks it, updates it by id without repeating the check,    *)
(* and adds a line to its timeline.  Each query commits on its own, so     *)
(* anything may happen between them; a handler in flight is a record of    *)
(* req that holds the status it read.                                      *)
(***************************************************************************)
EXTENDS Naturals, FiniteSets

CONSTANTS
  Rs,            \* request ids
  Procs,         \* slots for the HTTP calls being served at one time
  Users,
  Superadmins,   \* users who may release what another took
  Managers,      \* users with a management role, who may advance any request
  Tasks,         \* requests of type task, which their requester completes
  None,
  Workload       \* bound: the operations clients issue, "fail", "trash", "sweep"

ASSUME PeopleAssumption == Superadmins \subseteq Users /\ Managers \subseteq Users
ASSUME TasksAssumption == Tasks \subseteq Rs
Active == {"pending", "taken", "in_progress", "under_review"}
Done   == {"approved", "rejected", "cancelled", "completed"}
Status == Active \cup Done

ASSUME NoneAssumption == None \notin Rs \cup Users \cup Status

VARIABLES
  status,      \* admin_requests.status, None before the request exists
  deleted,     \* deleted_at is set
  requester,   \* requester_id
  taker,       \* taken_by
  escalated,   \* escalated
  overdue,     \* sla_due_at < now()
  told,        \* the last new_status in the timeline of the request
  req,         \* handlers in flight
  sweep,       \* what is left of the escalation sweep: the status it selected
  stale,       \* history: who acts on a request that moved since it was read
  overwritten, \* history: requests written by one of those
  torn         \* history: requests whose timeline lost a line

row  == <<status, deleted, requester, taker, escalated, overdue>>
vars == <<row, told, req, sweep, stale, overwritten, torn>>

-----------------------------------------------------------------------------

Operations == {"create", "review", "take", "untake", "progress", "cancel",
               "complete", "escalate", "deescalate"}
Call == [pc : {"write", "log", "count"}, op : Operations, r : Rs, who : Users \cup {None},
         old : Status \cup {None}, new : Status]
Free == [pc |-> "free", op |-> "create", r |-> None, who |-> None, old |-> None, new |-> "pending"]
Actors == ({"call"} \X Procs) \cup ({"sweep"} \X Rs)

TypeOK ==
  /\ status \in [Rs -> Status \cup {None}]
  /\ deleted \in [Rs -> BOOLEAN]
  /\ requester \in [Rs -> Users \cup {None}]
  /\ taker \in [Rs -> Users \cup {None}]
  /\ escalated \in [Rs -> BOOLEAN]
  /\ overdue \in [Rs -> BOOLEAN]
  /\ told \in [Rs -> Status \cup {None}]
  /\ req \in [Procs -> Call \cup {Free}]
  /\ sweep \in [Rs -> [pc : {"idle", "mark", "log"}, old : Status \cup {None}]]
  /\ stale \subseteq Actors
  /\ overwritten \subseteq Rs
  /\ torn \subseteq Rs

Rest == [pc |-> "idle", old |-> None]

Init ==
  /\ status = [r \in Rs |-> None]
  /\ deleted = [r \in Rs |-> FALSE]
  /\ requester = [r \in Rs |-> None]
  /\ taker = [r \in Rs |-> None]
  /\ escalated = [r \in Rs |-> FALSE]
  /\ overdue = [r \in Rs |-> FALSE]
  /\ told = [r \in Rs |-> None]
  /\ req = [p \in Procs |-> Free]
  /\ sweep = [r \in Rs |-> Rest]
  /\ stale = {} /\ overwritten = {} /\ torn = {}

-----------------------------------------------------------------------------
(* Who works on a snapshot, and whether it is still true *)

Busy(p) == req[p] # Free
At(p, pc) == Busy(p) /\ req[p].pc = pc

Readers(r) ==
  {<<"call", p>> : p \in {q \in Procs : Busy(q) /\ req[q].r = r}}
    \cup {a \in {<<"sweep", r>>} : sweep[r] # Rest}

\* The row changes under everybody else who has read it.
Moves(a, r) == stale' = stale \cup (Readers(r) \ {a})
Blames(a, r) == overwritten' = IF a \in stale THEN overwritten \cup {r} ELSE overwritten
Ends(a) == stale' = stale \ {a}

-----------------------------------------------------------------------------
(* What each handler accepts and writes *)

\* VALID_TRANSITIONS of review
ReviewMoves ==
  ({"pending", "taken"} \X {"approved", "rejected", "under_review"})
    \cup ({"under_review", "in_progress"} \X {"approved", "rejected"})

\* validFrom of updateProgress
ProgressMoves ==
  {<<"taken", "in_progress">>} \cup ({"taken", "in_progress", "under_review"} \X {"completed"})

MayRelease(u, r) == taker[r] = u \/ u \in Superadmins
MayAdvance(u, r) == taker[r] = u \/ u \in Superadmins \cup Managers

TakesTakenToo(u, r, new) == status[r] \in {"pending", "taken"} /\ new = "taken"
AcceptsTake(u, r, new)    == status[r] = "pending" /\ new = "taken"
AcceptsUntake(u, r, new)  == status[r] = "taken" /\ new = "pending" /\ MayRelease(u, r)
AcceptsReview(u, r, new)  == requester[r] # u /\ <<status[r], new>> \in ReviewMoves
AcceptsProgress(u, r, new) == <<status[r], new>> \in ProgressMoves /\ MayAdvance(u, r)
AcceptsCancel(u, r, new)  == requester[r] = u /\ new = "cancelled"
                               /\ status[r] \in {"pending", "under_review"}
\* A task is completed by its requester, whatever its status.
AcceptsComplete(u, r, new) == requester[r] = u /\ r \in Tasks /\ new = "approved"
AcceptsEscalate(u, r, new) == status[r] \in Active /\ new = status[r]
AcceptsDeescalate(u, r, new) == escalated[r] /\ new = status[r]

Accepts(op, u, r, new) ==
  \/ op = "take"       /\ AcceptsTake(u, r, new)
  \/ op = "untake"     /\ AcceptsUntake(u, r, new)
  \/ op = "review"     /\ AcceptsReview(u, r, new)
  \/ op = "progress"   /\ AcceptsProgress(u, r, new)
  \/ op = "cancel"     /\ AcceptsCancel(u, r, new)
  \/ op = "complete"   /\ AcceptsComplete(u, r, new)
  \/ op = "escalate"   /\ AcceptsEscalate(u, r, new)
  \/ op = "deescalate" /\ AcceptsDeescalate(u, r, new)

\* The taker an UPDATE leaves behind; a plausible bug first.
KeepsTaker(c) == IF c.op = "take" THEN c.who ELSE taker[c.r]
TakerAfter(c) == CASE c.op = "take"   -> c.who
                   [] c.op = "untake" -> None
                   [] OTHER           -> taker[c.r]

SetsStatus(op) == op \notin {"create", "escalate", "deescalate"}

\* new_status of the line a handler adds; deescalate gives none.
LineTellsRead(c) == IF c.op = "deescalate" THEN told[c.r] ELSE c.old
Line(c) == IF c.op = "deescalate" THEN told[c.r] ELSE c.new

-----------------------------------------------------------------------------
(* Handlers *)

\* create inserts the row, then its line; then it counts the requests of the
\* same person and type, and from three on escalates the new one.
Create(p, u, r) ==
  /\ "create" \in Workload /\ ~Busy(p) /\ status[r] = None
  /\ status' = [status EXCEPT ![r] = "pending"]
  /\ requester' = [requester EXCEPT ![r] = u]
  /\ \E e \in BOOLEAN : escalated' = [escalated EXCEPT ![r] = e]   \* no admin to route it to
  /\ req' = [req EXCEPT ![p] = [pc |-> "log", op |-> "create", r |-> r, who |-> None,
                                old |-> None, new |-> "pending"]]
  /\ UNCHANGED <<deleted, taker, overdue, told, sweep, stale, overwritten, torn>>

Recurs(p) ==
  /\ At(p, "count")
  /\ LET r == req[p].r  a == <<"call", p>> IN
       \/ /\ escalated' = [escalated EXCEPT ![r] = TRUE]
          /\ Blames(a, r)
       \/ UNCHANGED <<escalated, overwritten>>
  /\ req' = [req EXCEPT ![p] = Free] /\ Ends(<<"call", p>>)
  /\ UNCHANGED <<status, deleted, requester, taker, overdue, told, sweep, torn>>

\* Handlers look only at requests outside the trash.
Stored(r)  == status[r] # None
Visible(r) == status[r] # None /\ ~deleted[r]

\* SELECT and the checks on what it returned.
Read(p, u, r, op, new) ==
  /\ op \in Workload /\ ~Busy(p) /\ Visible(r)
  /\ Accepts(op, u, r, new)
  /\ req' = [req EXCEPT ![p] = [pc |-> "write", op |-> op, r |-> r,
                                who |-> IF op = "take" THEN u ELSE None,
                                old |-> status[r], new |-> new]]
  /\ UNCHANGED <<row, told, sweep, stale, overwritten, torn>>

\* UPDATE .. WHERE id
Write(p) ==
  /\ At(p, "write")
  /\ LET c == req[p]  r == c.r  a == <<"call", p>> IN
       /\ IF SetsStatus(c.op)
          THEN /\ status' = [status EXCEPT ![r] = c.new]
               /\ taker' = [taker EXCEPT ![r] = TakerAfter(c)]
               /\ Moves(a, r)
               /\ UNCHANGED escalated
          ELSE /\ escalated' = [escalated EXCEPT ![r] = (c.op = "escalate")]
               /\ UNCHANGED <<status, taker, stale>>
       /\ Blames(a, r)
  /\ req' = [req EXCEPT ![p].pc = "log"]
  /\ UNCHANGED <<deleted, requester, overdue, told, sweep, torn>>

\* INSERT INTO request_timeline
Log(p) ==
  /\ At(p, "log")
  /\ LET c == req[p]  a == <<"call", p>> IN
       /\ told' = [told EXCEPT ![c.r] = Line(c)]
       /\ Blames(a, c.r)
       /\ IF c.op = "create" THEN /\ req' = [req EXCEPT ![p].pc = "count"]
                                  /\ UNCHANGED stale
                             ELSE /\ req' = [req EXCEPT ![p] = Free]
                                  /\ Ends(a)
  /\ UNCHANGED <<row, sweep, torn>>

\* A query throws; what the handler committed stays.
CallFails(p) ==
  /\ "fail" \in Workload /\ Busy(p)
  /\ torn' = IF req[p].pc = "log" THEN torn \cup {req[p].r} ELSE torn
  /\ req' = [req EXCEPT ![p] = Free] /\ Ends(<<"call", p>>)
  /\ UNCHANGED <<row, told, sweep, overwritten>>

\* The trash
SetDeleted(r, d) ==
  /\ "trash" \in Workload /\ status[r] # None /\ deleted[r] # d
  /\ deleted' = [deleted EXCEPT ![r] = d]
  /\ stale' = stale \cup Readers(r)
  /\ UNCHANGED <<status, requester, taker, escalated, overdue, told, req, sweep, overwritten, torn>>

SlaPasses(r) ==
  /\ "sweep" \in Workload /\ status[r] # None /\ ~overdue[r]
  /\ overdue' = [overdue EXCEPT ![r] = TRUE]
  /\ UNCHANGED <<status, deleted, requester, taker, escalated, told, req, sweep, stale, overwritten, torn>>

-----------------------------------------------------------------------------
(* autoEscalateSlaBreach: one SELECT, then two statements per row *)

SelectsFinished(r) == status[r] # None /\ ~deleted[r] /\ ~escalated[r] /\ overdue[r]
SelectsUntaken(r) == status[r] = "pending" /\ ~deleted[r] /\ ~escalated[r] /\ overdue[r]
Selects(r) == status[r] \in Active /\ ~deleted[r] /\ ~escalated[r] /\ overdue[r]

SweepStarts ==
  /\ \A r \in Rs : sweep[r] = Rest
  /\ \E r \in Rs : Selects(r)
  /\ sweep' = [r \in Rs |-> IF Selects(r) THEN [pc |-> "mark", old |-> status[r]] ELSE Rest]
  /\ UNCHANGED <<row, told, req, stale, overwritten, torn>>

SweepMarks(r) ==
  /\ sweep[r].pc = "mark" /\ \A s \in Rs : sweep[s].pc # "log"
  /\ escalated' = [escalated EXCEPT ![r] = TRUE]
  /\ Blames(<<"sweep", r>>, r)
  /\ sweep' = [sweep EXCEPT ![r].pc = "log"]
  /\ UNCHANGED <<status, deleted, requester, taker, overdue, told, req, stale, torn>>

\* The line repeats the status of the SELECT; a failing insert is skipped.
SweepLogs(r) ==
  /\ sweep[r].pc = "log"
  /\ \/ told' = [told EXCEPT ![r] = sweep[r].old] /\ Blames(<<"sweep", r>>, r)
     \/ UNCHANGED <<told, overwritten>>
  /\ sweep' = [sweep EXCEPT ![r] = Rest] /\ Ends(<<"sweep", r>>)
  /\ UNCHANGED <<row, req, torn>>

\* The update of a row throws: the rows that follow wait for the next run.
SweepAborts ==
  /\ "fail" \in Workload /\ \A s \in Rs : sweep[s].pc # "log"
  /\ \E s \in Rs : sweep[s].pc = "mark"
  /\ sweep' = [r \in Rs |-> Rest]
  /\ stale' = stale \ ({"sweep"} \X Rs)
  /\ UNCHANGED <<row, told, req, overwritten, torn>>

SweepStep == \E r \in Rs : SweepMarks(r) \/ SweepLogs(r)

-----------------------------------------------------------------------------

Next ==
  \/ \E p \in Procs :
       \/ Recurs(p) \/ Write(p) \/ Log(p) \/ CallFails(p)
       \/ \E u \in Users, r \in Rs :
            Create(p, u, r) \/ \E op \in Operations, new \in Status : Read(p, u, r, op, new)
  \/ \E r \in Rs : SetDeleted(r, TRUE) \/ SetDeleted(r, FALSE) \/ SlaPasses(r)
  \/ SweepStarts \/ SweepStep \/ SweepAborts

Spec == Init /\ [][Next]_vars

\* The cron job fires every 30 minutes and works through its rows; a query that
\* fails in one run does not fail in every run.
LiveSpec == Spec /\ WF_vars(SweepStarts) /\ SF_vars(SweepStep)

-----------------------------------------------------------------------------
(* Properties *)

\* Whoever works on a request is named in it, and a request that is up for
\* grabs names nobody, whatever calls race: take and untake write status and
\* taken_by in one statement.  Only a call that acts on an old read can put a
\* request in progress that nobody holds.
TakerFollowsStatus ==
  \A r \in Rs :
    /\ status[r] = "pending" => taker[r] = None
    /\ status[r] = "taken" => taker[r] # None
    /\ status[r] = "in_progress" /\ r \notin overwritten => taker[r] # None

\* A request that was decided or deleted does not move again, unless a call
\* acts on what it read before; the exception is completeMineTask, which never
\* looks at the status.
FinishedIsFinal ==
  [][\A r \in Rs : (status[r] \in Done \/ deleted[r]) /\ status'[r] # status[r]
       => r \in overwritten' \/ (r \in Tasks /\ ~deleted[r] /\ status'[r] = "approved")]_vars

\* take never takes a request away from the person who holds it: it changes
\* hands only through untake, or under a call that acts on an old read.
HoldsUntilReleased ==
  [][\A r \in Rs : taker[r] # None /\ taker'[r] \notin {taker[r], None} => r \in overwritten']_vars

\* The timeline ends with the status of the request whenever no call is
\* between its UPDATE and its INSERT: lines are not lost, nor out of order,
\* except by a failure in between or by a call that logs after another moved
\* the request on.
MidWrite(r) == \E p \in Procs : At(p, "log") /\ req[p].r = r
TimelineAgrees ==
  \A r \in Rs \ (overwritten \cup torn) : MidWrite(r) \/ told[r] = status[r]

\* Neither the sweep nor the recurrence rule nor a person escalates a request
\* that was already decided, unless it was decided after they read it.
EscalatesOnlyActive ==
  [][\A r \in Rs : status[r] \in Done /\ escalated'[r] /\ ~escalated[r]
       => r \in overwritten']_vars

\* What the comment of the sweep says: it escalates requests that are still
\* active.
SweepFindsActive ==
  [][\A r \in Rs : sweep[r].pc = "mark" /\ sweep'[r].pc = "log" => status[r] \in Active]_vars

\* An overdue request is escalated by the sweep if nobody finishes it first.
OverdueEscalates ==
  \A r \in Rs : status[r] \in Active /\ overdue[r]
    ~> (escalated[r] \/ status[r] \in Done \/ deleted[r])
=============================================================================
