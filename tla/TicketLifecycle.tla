--------------------------- MODULE TicketLifecycle ---------------------------
(***************************************************************************)
(* The life of a helpdesk ticket: its workflow state, its SLA clock, the   *)
(* approvals asked of its requester and its active assignments, under the  *)
(* HTTP handlers of TicketsService and the scheduled jobs of tickets/sla.  *)
(*                                                                         *)
(* The unit of atomicity is the database statement.  A query sent outside  *)
(* a QueryRunner commits on its own, so between two of them any other      *)
(* handler may run; what startTransaction .. commitTransaction encloses is *)
(* one step.  A handler in flight is a record of req: pc names its next    *)
(* statement, the other fields are the values it read and still uses.      *)
(*                                                                         *)
(* Roles are left out: a role guard only refuses callers, and every        *)
(* transition of a workflow is open to some role.                          *)
(***************************************************************************)
EXTENDS Naturals, Sequences, FiniteSets

CONSTANTS
  Tickets,        \* ticket ids
  Procs,          \* slots for the HTTP requests being served at one time
  Techs,          \* technicians a ticket can be assigned to
  None,           \* no ticket, no state, no technician
  States, Initial, Final, Pause, Approval, Edges,   \* the module's workflow
  MaxReopen,      \* modules.max_reopen_count
  ReprocessCheck, \* bound of the constraint tickets_reprocess_count_check
  TopPriority,    \* priorities are 1 .. TopPriority, the last is critica
  MaxApprovals,   \* bound: approvals asked for one ticket
  Workload        \* bound: the operations clients and schedulers issue

Operations == {"create", "transition", "bulk", "approve", "reject", "force",
               "assign", "trash", "fail", "restart", "expiry", "auto_close", "waiting"}

ASSUME WorkflowAssumption ==
  /\ Initial \in States
  /\ Final \subseteq States /\ Pause \subseteq States /\ Approval \subseteq States
  /\ Edges \subseteq States \X States
\* The auto-close query returns one row per closing transition of a ticket.
ASSUME ClosingAssumption ==
  \A e, f \in Edges : e[1] \in Approval /\ e[1] = f[1] /\ {e[2], f[2]} \subseteq Final => e = f
ASSUME NoneAssumption == None \notin Tickets \cup States \cup Techs
ASSUME BoundsAssumption ==
  /\ MaxReopen \in Nat \ {0} /\ ReprocessCheck \in Nat \ {0}
  /\ TopPriority \in Nat \ {0} /\ MaxApprovals \in Nat
  /\ Workload \subseteq Operations

VARIABLES
  st,          \* tickets.current_state_id, None before the ticket exists
  deleted,     \* tickets.deleted_at is set
  reprocess,   \* tickets.reprocess_count
  priority,    \* tickets.priority
  clock,       \* ticket_sla_tracking
  approvals,   \* ticket_approvals of each ticket, oldest first
  assigned,    \* active rows of ticket_assignments
  req,         \* the handlers in flight
  expiry,      \* what is left of the approval expiry sweep
  closing,     \* what is left of the auto-close sweep
  waiting,     \* what is left of the waiting timeout sweep
  stale,       \* history: handlers whose ticket moved since they read it
  overwritten, \* history: tickets written by such a handler
  torn         \* history: tickets whose handler died before it wrote their clock

row      == <<st, deleted, reprocess, priority>>
sweeps   == <<expiry, closing, waiting>>
history  == <<stale, overwritten, torn>>
vars     == <<row, clock, approvals, assigned, req, sweeps, history>>

-----------------------------------------------------------------------------
(* Types *)

Priorities == 1 .. TopPriority
Working    == States \ (Final \cup Pause \cup Approval)
Targets(from, S) == {to \in S : <<from, to>> \in Edges}

ClockStatus    == {"none", "active", "paused", "met", "breached"}
ApprovalStatus == {"pending", "lapsed", "approved", "rejected", "expired"}
AssignRoles    == {"owner", "collaborator"}   \* observers are treated as collaborators
Assignment     == [user : Techs, role : AssignRoles]

\* late says deadline_at < now(); heldLate, meaningful while the clock is
\* paused, keeps its value at paused_at: the pause is added to the deadline
\* when the clock resumes.
Clock == [status : ClockStatus, late : BOOLEAN, heldLate : BOOLEAN]

Steps == {"track", "autoAssign", "reread", "blocks", "commit",
          "close", "release", "sign", "unpause", "verdict",
          "reopen", "refuse", "restartClock", "demote", "insert"}

Request == [pc : Steps, t : Tickets, from : States \cup {None}, to : States \cup {None},
            count : Nat, prio : Priorities, who : Assignment \cup {None}]
Idle == [pc |-> "done", t |-> None, from |-> None, to |-> None,
         count |-> 0, prio |-> 1, who |-> None]

\* One SELECT row per lapsed approval of the ticket, all with the same values.
ExpiryItem == [n : Nat, from : States \cup {None}, count : Nat, prio : Priorities]
NoExpiry   == [n |-> 0, from |-> None, count |-> 0, prio |-> 1]

Handles == (({"req"} \X Procs) \cup ({"expiry", "closing", "waiting"} \X Tickets))

TypeOK ==
  /\ st \in [Tickets -> States \cup {None}]
  /\ deleted \in [Tickets -> BOOLEAN]
  /\ reprocess \in [Tickets -> Nat]
  /\ priority \in [Tickets -> Priorities]
  /\ clock \in [Tickets -> Clock]
  /\ approvals \in [Tickets -> Seq(ApprovalStatus)]
  /\ assigned \in [Tickets -> SUBSET Assignment]
  /\ req \in [Procs -> Request \cup {Idle}]
  /\ \A p \in Procs : req[p].pc \in {"demote", "insert"} => req[p].who \in Assignment
  /\ expiry \in [Tickets -> ExpiryItem]
  /\ closing \in [Tickets -> States \cup {None}]
  /\ waiting \in [Tickets -> 0 .. TopPriority]
  /\ stale \subseteq Handles
  /\ overwritten \subseteq Tickets
  /\ torn \subseteq Tickets

Init ==
  /\ st = [t \in Tickets |-> None]
  /\ deleted = [t \in Tickets |-> FALSE]
  /\ reprocess = [t \in Tickets |-> 0]
  /\ priority = [t \in Tickets |-> 1]
  /\ clock = [t \in Tickets |-> [status |-> "none", late |-> FALSE, heldLate |-> FALSE]]
  /\ approvals = [t \in Tickets |-> <<>>]
  /\ assigned = [t \in Tickets |-> {}]
  /\ req = [p \in Procs |-> Idle]
  /\ expiry = [t \in Tickets |-> NoExpiry]
  /\ closing = [t \in Tickets |-> None]
  /\ waiting = [t \in Tickets |-> 0]
  /\ stale = {} /\ overwritten = {} /\ torn = {}

-----------------------------------------------------------------------------
(* What the UPDATE statements do to a ticket's clock, approvals and count *)

NeverResumed(c) == c
Resumed(c) == IF c.status = "paused"
              THEN [status |-> "active", late |-> c.heldLate, heldLate |-> FALSE] ELSE c

Suspended(c) == IF c.status = "active"
                THEN [c EXCEPT !.status = "paused", !.heldLate = c.late] ELSE c

ByDeadline(c, onTime) == [status |-> IF c.late THEN "breached" ELSE onTime,
                          late |-> c.late, heldLate |-> FALSE]

\* UPDATE .. SET status = met or breached WHERE status IN from
SettledByStatus(c, from) == IF c.status \in from \ {"breached"}
                            THEN [c EXCEPT !.status = "met", !.heldLate = FALSE] ELSE c
Settled(c, from) == IF c.status \in from THEN ByDeadline(c, "met") ELSE c

\* The reset of approval expiry: breached goes back to active before the deadline.
RearmedAlways(c) == IF c.status \in {"active", "breached"} THEN [c EXCEPT !.status = "active"] ELSE c
Rearmed(c) == IF c.status \in {"active", "breached"} THEN ByDeadline(c, "active") ELSE c

\* What a forced reopening does to a clock that has its verdict.
ReactivatesBreached(c) == IF c.status = "breached" THEN [c EXCEPT !.status = "active"] ELSE c
Reactivated(c) == IF c.status \in {"met", "breached"} THEN [c EXCEPT !.status = "active"] ELSE c

\* generate_approval_token inserts one pending row on entering an approval state.
AskedOnce(a, to) == IF to \in Approval /\ a = <<>> THEN Append(a, "pending") ELSE a
Asked(a, to) == IF to \in Approval THEN Append(a, "pending") ELSE a

\* UPDATE ticket_approvals SET status = s WHERE status = 'pending'
Answered(a, s) == [i \in DOMAIN a |-> IF a[i] \in {"pending", "lapsed"} THEN s ELSE a[i]]
Waits(a, s) == {i \in DOMAIN a : a[i] = s}

Escalate(pr) == IF pr < TopPriority THEN pr + 1 ELSE pr
ReopenResets(count, pr) == IF count >= 3 THEN Escalate(pr) ELSE 1
ReopenPriority(count, pr) == IF count >= 3 THEN Escalate(pr) ELSE pr

-----------------------------------------------------------------------------
(* History: whose snapshot is out of date *)

Req(p) == <<"req", p>>

\* The handlers and sweeps in flight that have read ticket t.
Readers(t) ==
  {Req(p) : p \in {q \in Procs : req[q].t = t}}
    \cup {h \in {<<"expiry", t>>} : expiry[t].n > 0}
    \cup {h \in {<<"closing", t>>} : closing[t] # None}
    \cup {h \in {<<"waiting", t>>} : waiting[t] > 0}

\* h writes ticket t: a write on a stale snapshot marks the ticket.
Blames(h, t) == overwritten' = IF h \in stale THEN overwritten \cup {t} ELSE overwritten

\* The row of t moves under every other reader.
Moves(h, t)         == stale' = stale \cup (Readers(t) \ {h})
MovesAndEnds(h, t)  == stale' = (stale \cup Readers(t)) \ {h}
Ends(h)             == stale' = stale \ {h}

-----------------------------------------------------------------------------
(* Steps of handlers *)

\* The reopening limit that rejectTicket and forceReopenTicket check.
ReopensOneMore(t) == reprocess[t] <= MaxReopen
ReopensLeft(t) == reprocess[t] < MaxReopen

Free(p)   == req[p] = Idle
Alive(t)  == st[t] # None /\ ~deleted[t]
At(p, pc) == req[p].pc = pc
Goto(p, pc) == req' = [req EXCEPT ![p].pc = pc]
Return(p)   == req' = [req EXCEPT ![p] = Idle]
Start(p, pc, t, from, to, who) ==
  req' = [req EXCEPT ![p] = [pc |-> pc, t |-> t, from |-> from, to |-> to,
                             count |-> reprocess[t], prio |-> priority[t], who |-> who]]

\* Bound: entries into an approval state, those decided and those under way.
RoomForApproval(t, to) ==
  to \in Approval =>
    Len(approvals[t]) + Cardinality({p \in Procs : req[p].t = t /\ req[p].to \in Approval})
      < MaxApprovals

(* create: the ticket row, then its clock, then an owner; each commits alone. *)
CreateTicket(p, t) ==
  /\ "create" \in Workload /\ Free(p) /\ st[t] = None
  /\ st' = [st EXCEPT ![t] = Initial]
  /\ \E pr \in Priorities : priority' = [priority EXCEPT ![t] = pr]
  /\ Start(p, "track", t, None, None, None)
  /\ UNCHANGED <<deleted, reprocess, clock, approvals, assigned, sweeps, history>>

CreateClock(p) ==
  /\ At(p, "track")
  /\ LET t == req[p].t IN
       /\ clock' = [clock EXCEPT ![t] =
            IF @.status = "none" THEN [status |-> "active", late |-> FALSE, heldLate |-> FALSE]
            ELSE @]
       /\ Blames(Req(p), t)
  /\ Goto(p, "autoAssign")
  /\ UNCHANGED <<row, approvals, assigned, sweeps, stale, torn>>

HasOwner(t) == \E a \in assigned[t] : a.role = "owner"

\* INSERT .. ON CONFLICT DO NOTHING under the unique index of active owners.
InsertUnchecked(t, a) == assigned' = [assigned EXCEPT ![t] = @ \cup {a}]
Insert(t, a) == assigned' = [assigned EXCEPT ![t] =
                  IF a.role = "owner" /\ HasOwner(t) THEN @ ELSE @ \cup {a}]

CreateAssign(p) ==
  /\ At(p, "autoAssign")
  /\ \/ UNCHANGED assigned       \* manual mode, or nobody selectable
     \/ \E u \in Techs : Insert(req[p].t, [user |-> u, role |-> "owner"])
  /\ Return(p) /\ Ends(Req(p))
  /\ UNCHANGED <<row, clock, approvals, sweeps, overwritten, torn>>

(* transition: read and validate, blocks guard when the target is final, one txn. *)
AfterRead(to) == IF to \in Final THEN "blocks" ELSE "commit"

ReadTransition(p, t) ==
  /\ "transition" \in Workload /\ Free(p) /\ Alive(t)
  /\ \E to \in Targets(st[t], States) :
       RoomForApproval(t, to) /\ Start(p, AfterRead(to), t, st[t], to, None)
  /\ UNCHANGED <<row, clock, approvals, assigned, sweeps, history>>

\* Relations between tickets are outside this module: the guard may refuse or not.
PassBlocksGuard(p) ==
  /\ At(p, "blocks")
  /\ Goto(p, "commit")
  /\ UNCHANGED <<row, clock, approvals, assigned, sweeps, history>>

RefuseBlocked(p) ==
  /\ At(p, "blocks")
  /\ Return(p) /\ Ends(Req(p))
  /\ UNCHANGED <<row, clock, approvals, assigned, sweeps, overwritten, torn>>

CommitTransition(p) ==
  /\ At(p, "commit")
  /\ LET t == req[p].t  to == req[p].to  c == Resumed(clock[t]) IN
       /\ st' = [st EXCEPT ![t] = to]
       /\ clock' = [clock EXCEPT ![t] = IF to \in Final THEN Settled(c, {"active"})
                                        ELSE IF to \in Pause THEN Suspended(c) ELSE c]
       /\ assigned' = [assigned EXCEPT ![t] = IF to \in Final THEN {} ELSE @]
       /\ approvals' = [approvals EXCEPT ![t] = Asked(@, to)]
       /\ Blames(Req(p), t) /\ MovesAndEnds(Req(p), t)
  /\ Return(p)
  /\ UNCHANGED <<deleted, reprocess, priority, sweeps, torn>>

(* bulkClose: its own read, then transition with the transition it chose. *)
ReadBulkClose(p, t) ==
  /\ "bulk" \in Workload /\ Free(p) /\ Alive(t) /\ st[t] \notin Approval
  /\ \E to \in Targets(st[t], Final) : Start(p, "reread", t, st[t], to, None)
  /\ UNCHANGED <<row, clock, approvals, assigned, sweeps, history>>

TrustsBulkClose(p) ==
  /\ At(p, "reread") /\ Ends(Req(p))
  /\ IF Alive(req[p].t) THEN Goto(p, "blocks") ELSE Return(p)
  /\ UNCHANGED <<row, clock, approvals, assigned, sweeps, overwritten, torn>>

RereadBulkClose(p) ==
  /\ At(p, "reread") /\ Ends(Req(p))
  /\ LET t == req[p].t IN
       IF Alive(t) /\ st[t] = req[p].from THEN Goto(p, "blocks") ELSE Return(p)
  /\ UNCHANGED <<row, clock, approvals, assigned, sweeps, overwritten, torn>>

(* approveTicket: guards, then five statements that commit one by one. *)
ReadApprove(p, t) ==
  /\ "approve" \in Workload /\ Free(p) /\ Alive(t) /\ st[t] \in Approval
  /\ \/ Waits(approvals[t], "pending") # {}     \* one pending row, whichever comes first
     \/ Waits(approvals[t], "lapsed") = {}
  /\ \E to \in Targets(st[t], Final) : Start(p, "close", t, st[t], to, None)
  /\ UNCHANGED <<row, clock, approvals, assigned, sweeps, history>>

ApproveClose(p) ==
  /\ At(p, "close")
  /\ LET t == req[p].t IN
       /\ st' = [st EXCEPT ![t] = req[p].to]
       /\ Blames(Req(p), t) /\ Moves(Req(p), t)
  /\ Goto(p, "release")
  /\ UNCHANGED <<deleted, reprocess, priority, clock, approvals, assigned, sweeps, torn>>

ApproveRelease(p) ==
  /\ At(p, "release")
  /\ assigned' = [assigned EXCEPT ![req[p].t] = {}]
  /\ Blames(Req(p), req[p].t)
  /\ Goto(p, "sign")
  /\ UNCHANGED <<row, clock, approvals, sweeps, stale, torn>>

ApproveSign(p) ==
  /\ At(p, "sign")
  /\ approvals' = [approvals EXCEPT ![req[p].t] = Answered(@, "approved")]
  /\ Blames(Req(p), req[p].t)
  /\ Goto(p, "unpause")
  /\ UNCHANGED <<row, clock, assigned, sweeps, stale, torn>>

ApproveResume(p) ==
  /\ At(p, "unpause")
  /\ clock' = [clock EXCEPT ![req[p].t] = Resumed(@)]
  /\ Blames(Req(p), req[p].t)
  /\ Goto(p, "verdict")
  /\ UNCHANGED <<row, approvals, assigned, sweeps, stale, torn>>

ApproveVerdict(p) ==
  /\ At(p, "verdict")
  /\ clock' = [clock EXCEPT ![req[p].t] = Settled(@, {"active"})]
  /\ Blames(Req(p), req[p].t) /\ Ends(Req(p))
  /\ Return(p)
  /\ UNCHANGED <<row, approvals, assigned, sweeps, torn>>

(* rejectTicket: guards, then three statements that commit one by one. *)
ReadReject(p, t) ==
  /\ "reject" \in Workload /\ Free(p) /\ Alive(t) /\ st[t] \in Approval
  /\ ReopensLeft(t)
  /\ \E to \in Targets(st[t], Working) : Start(p, "reopen", t, st[t], to, None)
  /\ UNCHANGED <<row, clock, approvals, assigned, sweeps, history>>

RejectReopen(p) ==
  /\ At(p, "reopen") /\ req[p].count + 1 <= ReprocessCheck
  /\ LET t == req[p].t  count == req[p].count + 1 IN
       /\ st' = [st EXCEPT ![t] = req[p].to]
       /\ reprocess' = [reprocess EXCEPT ![t] = count]
       /\ priority' = [priority EXCEPT ![t] = ReopenPriority(count, req[p].prio)]
       /\ Blames(Req(p), t) /\ Moves(Req(p), t)
  /\ Goto(p, "refuse")
  /\ UNCHANGED <<deleted, clock, approvals, assigned, sweeps, torn>>

\* The CHECK constraint refuses the UPDATE and the handler throws.
RejectFails(p) ==
  /\ At(p, "reopen") /\ req[p].count + 1 > ReprocessCheck
  /\ Return(p) /\ Ends(Req(p))
  /\ UNCHANGED <<row, clock, approvals, assigned, sweeps, overwritten, torn>>

RejectRefuse(p) ==
  /\ At(p, "refuse")
  /\ approvals' = [approvals EXCEPT ![req[p].t] = Answered(@, "rejected")]
  /\ Blames(Req(p), req[p].t)
  /\ Goto(p, "restartClock")
  /\ UNCHANGED <<row, clock, assigned, sweeps, stale, torn>>

RejectResume(p) ==
  /\ At(p, "restartClock")
  /\ clock' = [clock EXCEPT ![req[p].t] =
                 IF @.status = "paused" THEN ByDeadline(Resumed(@), "active") ELSE @]
  /\ Blames(Req(p), req[p].t) /\ Ends(Req(p))
  /\ Return(p)
  /\ UNCHANGED <<row, approvals, assigned, sweeps, torn>>

(* forceReopenTicket: one transaction that locks the row. *)
ForceReopen(t) ==
  /\ "force" \in Workload /\ Alive(t) /\ st[t] \in Final
  /\ ReopensLeft(t) /\ reprocess[t] + 1 <= ReprocessCheck
  /\ st' = [st EXCEPT ![t] = Initial]
  /\ reprocess' = [reprocess EXCEPT ![t] = @ + 1]
  /\ priority' = [priority EXCEPT ![t] = ReopenPriority(reprocess[t] + 1, @)]
  /\ clock' = [clock EXCEPT ![t] = Reactivated(@)]
  /\ stale' = stale \cup Readers(t)
  /\ UNCHANGED <<deleted, approvals, assigned, req, sweeps, overwritten, torn>>

(* addAssignment: an owner first demotes the current one, then is inserted. *)
ReadAssign(p, t) ==
  /\ "assign" \in Workload /\ Free(p) /\ Alive(t)
  /\ \E a \in Assignment :
       Start(p, IF a.role = "owner" THEN "demote" ELSE "insert", t, None, None, a)
  /\ UNCHANGED <<row, clock, approvals, assigned, sweeps, history>>

DemoteOwner(p) ==
  /\ At(p, "demote")
  /\ assigned' = [assigned EXCEPT ![req[p].t] = {a \in @ : a.role # "owner"}]
  /\ Goto(p, "insert")
  /\ UNCHANGED <<row, clock, approvals, sweeps, history>>

InsertAssignment(p) ==
  /\ At(p, "insert")
  /\ Insert(req[p].t, req[p].who)
  /\ Return(p) /\ Ends(Req(p))
  /\ UNCHANGED <<row, clock, approvals, sweeps, overwritten, torn>>

(* The trash: soft deletion and restoration of a ticket, one UPDATE each. *)
SetDeleted(t, d) ==
  /\ "trash" \in Workload /\ st[t] # None /\ deleted[t] # d
  /\ deleted' = [deleted EXCEPT ![t] = d]
  /\ stale' = stale \cup Readers(t)
  /\ UNCHANGED <<st, reprocess, priority, clock, approvals, assigned, req, sweeps, overwritten, torn>>

-----------------------------------------------------------------------------
(* Scheduled sweeps: one SELECT, then one transaction per ticket it returned. *)

LapsedInTrash(t)    == st[t] \in Approval /\ Waits(approvals[t], "lapsed") # {}
LapsedBelowLimit(t) == Alive(t) /\ LapsedInTrash(t) /\ ReopensLeft(t)
Lapsed(t) == Alive(t) /\ st[t] \in Approval /\ Waits(approvals[t], "lapsed") # {}

\* expireApprovals; the next cycle starts when the previous one is through.
StartExpiry ==
  /\ "expiry" \in Workload /\ \A t \in Tickets : expiry[t].n = 0
  /\ \E t \in Tickets : Lapsed(t)
  /\ expiry' = [t \in Tickets |->
          IF Lapsed(t) THEN [n |-> Cardinality(Waits(approvals[t], "lapsed")), from |-> st[t],
                             count |-> reprocess[t], prio |-> priority[t]]
          ELSE NoExpiry]
  /\ UNCHANGED <<row, clock, approvals, assigned, req, closing, waiting, history>>

NextExpiryItem(t) ==
  expiry' = IF expiry[t].n = 1 THEN [expiry EXCEPT ![t] = NoExpiry]
                               ELSE [expiry EXCEPT ![t].n = @ - 1]

\* A second row of the same ticket still carries the snapshot of the SELECT.
ExpiryMoves(t) ==
  stale' = IF expiry[t].n = 1 THEN (stale \cup Readers(t)) \ {<<"expiry", t>>}
           ELSE stale \cup Readers(t)

LastReopen(t) == expiry[t].count + 1 >= MaxReopen

ExpiryCloses(t) ==
  /\ expiry[t].n > 0 /\ LastReopen(t)
  /\ \E to \in Targets(expiry[t].from, Final) : st' = [st EXCEPT ![t] = to]
  /\ approvals' = [approvals EXCEPT ![t] = Answered(@, "expired")]
  /\ clock' = [clock EXCEPT ![t] = Settled(@, {"active", "paused", "breached"})]
  /\ assigned' = [assigned EXCEPT ![t] = {}]
  /\ Blames(<<"expiry", t>>, t) /\ ExpiryMoves(t) /\ NextExpiryItem(t)
  /\ UNCHANGED <<deleted, reprocess, priority, req, closing, waiting, torn>>

ExpiryReopens(t) ==
  LET count == expiry[t].count + 1 IN
  /\ expiry[t].n > 0 /\ count <= ReprocessCheck
  /\ ~LastReopen(t) \/ Targets(expiry[t].from, Final) = {}
  /\ \E to \in Targets(expiry[t].from, Working) : st' = [st EXCEPT ![t] = to]
  /\ reprocess' = [reprocess EXCEPT ![t] = count]
  /\ priority' = [priority EXCEPT ![t] = ReopenPriority(count, expiry[t].prio)]
  /\ approvals' = [approvals EXCEPT ![t] = Answered(@, "expired")]
  /\ clock' = [clock EXCEPT ![t] = Rearmed(@)]
  /\ Blames(<<"expiry", t>>, t) /\ ExpiryMoves(t) /\ NextExpiryItem(t)
  /\ UNCHANGED <<deleted, assigned, req, closing, waiting, torn>>

\* No back transition, or the transaction is rolled back, by the CHECK
\* constraint or by an error: that is logged and the sweep goes on.
ExpirySkips(t) ==
  /\ expiry[t].n > 0
  /\ \/ "fail" \in Workload
     \/ /\ ~LastReopen(t) \/ Targets(expiry[t].from, Final) = {}
        /\ expiry[t].count + 1 > ReprocessCheck \/ Targets(expiry[t].from, Working) = {}
  /\ NextExpiryItem(t)
  /\ IF expiry[t].n = 1 THEN Ends(<<"expiry", t>>) ELSE UNCHANGED stale
  /\ UNCHANGED <<row, clock, approvals, assigned, req, closing, waiting, overwritten, torn>>

\* closeExpiredResolved; time is abstracted, so any set of tickets may be due.
StartAutoClose ==
  /\ "auto_close" \in Workload /\ \A t \in Tickets : closing[t] = None
  /\ \E due \in SUBSET {t \in Tickets : Alive(t) /\ st[t] \in Approval} :
       \E to \in [due -> Final] :
         /\ due # {} /\ \A t \in due : to[t] \in Targets(st[t], Final)
         /\ closing' = [t \in Tickets |-> IF t \in due THEN to[t] ELSE None]
  /\ UNCHANGED <<row, clock, approvals, assigned, req, expiry, waiting, history>>

AutoClose(t) ==
  /\ closing[t] # None
  /\ st' = [st EXCEPT ![t] = closing[t]]
  /\ assigned' = [assigned EXCEPT ![t] = {}]
  /\ clock' = [clock EXCEPT ![t] = Settled(@, {"active"})]
  /\ closing' = [closing EXCEPT ![t] = None]
  /\ Blames(<<"closing", t>>, t) /\ MovesAndEnds(<<"closing", t>>, t)
  /\ UNCHANGED <<deleted, reprocess, priority, approvals, req, expiry, waiting, torn>>

AutoCloseFails(t) ==
  /\ "fail" \in Workload /\ closing[t] # None
  /\ closing' = [closing EXCEPT ![t] = None]
  /\ Ends(<<"closing", t>>)
  /\ UNCHANGED <<row, clock, approvals, assigned, req, expiry, waiting, overwritten, torn>>

\* checkWaitingTimeouts; the tickets only notified about are left out.
StartWaiting ==
  /\ "waiting" \in Workload /\ \A t \in Tickets : waiting[t] = 0
  /\ \E due \in SUBSET {t \in Tickets : Alive(t) /\ st[t] \in Pause} :
       due # {} /\ waiting' = [t \in Tickets |-> IF t \in due THEN priority[t] ELSE 0]
  /\ UNCHANGED <<row, clock, approvals, assigned, req, expiry, closing, history>>

WaitingEscalates(t) ==
  /\ waiting[t] > 0
  /\ priority' = [priority EXCEPT ![t] = Escalate(waiting[t])]
  /\ waiting' = [waiting EXCEPT ![t] = 0]
  /\ Blames(<<"waiting", t>>, t) /\ Ends(<<"waiting", t>>)
  /\ UNCHANGED <<st, deleted, reprocess, clock, approvals, assigned, req, expiry, closing, torn>>

WaitingFails(t) ==
  /\ "fail" \in Workload /\ waiting[t] > 0
  /\ waiting' = [waiting EXCEPT ![t] = 0]
  /\ Ends(<<"waiting", t>>)
  /\ UNCHANGED <<row, clock, approvals, assigned, req, expiry, closing, overwritten, torn>>

\* runBreachCycle: one UPDATE over every overdue active clock.
OverdueIfAssigned(t) == /\ clock[t].status = "active" /\ clock[t].late
                        /\ ~deleted[t] /\ assigned[t] # {}
Overdue(t) == clock[t].status = "active" /\ clock[t].late /\ ~deleted[t]

SlaBreach ==
  /\ \E t \in Tickets : Overdue(t)
  /\ clock' = [t \in Tickets |->
       IF Overdue(t) THEN [clock[t] EXCEPT !.status = "breached"] ELSE clock[t]]
  /\ UNCHANGED <<row, approvals, assigned, req, sweeps, history>>

-----------------------------------------------------------------------------
(* Time and failures *)

DeadlinePasses(t) ==
  /\ clock[t].status # "none" /\ ~clock[t].late
  /\ clock' = [clock EXCEPT ![t].late = TRUE]
  /\ UNCHANGED <<row, approvals, assigned, req, sweeps, history>>

\* expires_at passes; approvals of a module last equally long.
ApprovalLapses(t) ==
  /\ \E i \in Waits(approvals[t], "pending") :
       /\ \A j \in Waits(approvals[t], "pending") : i <= j
       /\ approvals' = [approvals EXCEPT ![t][i] = "lapsed"]
  /\ UNCHANGED <<row, clock, assigned, req, sweeps, history>>

\* A handler that has written the ticket and not yet its clock.
Half(p) == req[p].pc \in {"track", "release", "sign", "unpause", "verdict",
                          "refuse", "restartClock"}
MidWrite(t) == \E p \in Procs : req[p].t = t /\ Half(p)

\* A query throws: the handler ends, what it committed stays.
RequestFails(p) ==
  /\ "fail" \in Workload /\ ~Free(p)
  /\ torn' = IF Half(p) THEN torn \cup {req[p].t} ELSE torn
  /\ Return(p) /\ Ends(Req(p))
  /\ UNCHANGED <<row, clock, approvals, assigned, sweeps, overwritten>>

\* The process restarts: every handler and sweep in flight is gone.
Restart ==
  /\ "restart" \in Workload
  /\ req # [p \in Procs |-> Idle]
  /\ torn' = torn \cup {t \in Tickets : MidWrite(t)}
  /\ req' = [p \in Procs |-> Idle]
  /\ expiry' = [t \in Tickets |-> NoExpiry]
  /\ closing' = [t \in Tickets |-> None]
  /\ waiting' = [t \in Tickets |-> 0]
  /\ stale' = {}
  /\ UNCHANGED <<row, clock, approvals, assigned, overwritten>>

-----------------------------------------------------------------------------

Read(p, t) ==
  \/ CreateTicket(p, t) \/ ReadTransition(p, t) \/ ReadBulkClose(p, t)
  \/ ReadApprove(p, t) \/ ReadReject(p, t) \/ ReadAssign(p, t)

Continue(p) ==
  \/ CreateClock(p) \/ CreateAssign(p)
  \/ RereadBulkClose(p) \/ PassBlocksGuard(p) \/ RefuseBlocked(p) \/ CommitTransition(p)
  \/ ApproveClose(p) \/ ApproveRelease(p) \/ ApproveSign(p) \/ ApproveResume(p) \/ ApproveVerdict(p)
  \/ RejectReopen(p) \/ RejectFails(p) \/ RejectRefuse(p) \/ RejectResume(p)
  \/ DemoteOwner(p) \/ InsertAssignment(p)

ExpiryStep(t) == ExpiryCloses(t) \/ ExpiryReopens(t) \/ ExpirySkips(t)

Next ==
  \/ \E p \in Procs : Continue(p) \/ RequestFails(p) \/ \E t \in Tickets : Read(p, t)
  \/ \E t \in Tickets : \/ ForceReopen(t) \/ SetDeleted(t, TRUE) \/ SetDeleted(t, FALSE)
                        \/ ExpiryStep(t) \/ AutoClose(t) \/ AutoCloseFails(t)
                        \/ WaitingEscalates(t) \/ WaitingFails(t)
                        \/ DeadlinePasses(t) \/ ApprovalLapses(t)
  \/ StartExpiry \/ StartAutoClose \/ StartWaiting \/ SlaBreach \/ Restart

Spec == Init /\ [][Next]_vars

\* Node runs every handler in flight to its end, time passes, and the
\* schedulers fire again and again.  Nothing makes a person act.
Fairness ==
  /\ \A p \in Procs : WF_vars(Continue(p))
  /\ \A t \in Tickets : WF_vars(ExpiryStep(t)) /\ WF_vars(ApprovalLapses(t))
  /\ WF_vars(StartExpiry) /\ WF_vars(SlaBreach)

LiveSpec == Spec /\ Fairness

-----------------------------------------------------------------------------
(* Properties *)

\* What the clock and the approvals ask of a workflow, as bootstrapping writes
\* it: a state is of one kind only, the initial one is one to work in, and
\* nothing leads out of a final state.
WellShaped ==
  /\ Initial \in Working
  /\ Final \cap Pause = {} /\ Approval \cap (Final \cup Pause) = {}
  /\ \A e \in Edges : e[1] \notin Final

\* No handler wrote this ticket on a stale read, and none died before writing its clock.
Clean(t) == t \notin overwritten \cup torn

\* The clock tells the state: it has a verdict exactly when the ticket is
\* final and is stopped exactly while it waits for its requester.  transition,
\* approveTicket, forceReopenTicket and the sweeps each update the two tables
\* with statements of their own; only handlers that work on a stale read or
\* die half way may separate them.
ClockAgrees(t) ==
  CASE st[t] \in Final -> clock[t].status \in {"met", "breached"}
    [] st[t] \in Pause -> clock[t].status \in {"paused", "breached"}
    [] OTHER           -> clock[t].status \in {"active", "breached"}
ClockFollowsState ==
  \A t \in Tickets : st[t] # None /\ Clean(t) /\ ~MidWrite(t) => ClockAgrees(t)

\* A ticket that waits for its requester has an approval still open, so that
\* approval expiry will find it: no answer to an earlier round closes the new one.
ValidationIsOpen ==
  \A t \in Tickets : st[t] \in Approval /\ t \notin overwritten
    => Waits(approvals[t], "pending") \cup Waits(approvals[t], "lapsed") # {}

\* However rejections, forced reopenings and expiries interleave, a ticket is
\* never reopened more often than its module allows.
ReopenBounded == \A t \in Tickets : reprocess[t] <= MaxReopen

\* The unique index keeps racing reassignments from leaving two owners.
OneOwner == \A t \in Tickets : \A a, b \in assigned[t] :
              a.role = "owner" /\ b.role = "owner" => a = b

\* A ticket moves along its workflow, or from final back to initial by a
\* forced reopening; any other move is a write on a stale read.
MoveAllowed(t) ==
  \/ st[t] = None /\ st'[t] = Initial
  \/ <<st[t], st'[t]>> \in Edges
  \/ st[t] \in Final /\ st'[t] = Initial /\ reprocess'[t] = reprocess[t] + 1
FollowsWorkflow ==
  [][\A t \in Tickets : st'[t] # st[t] => MoveAllowed(t) \/ t \in overwritten']_vars

\* A count of reopenings is never lost, nor a priority lowered, except by a
\* handler that writes back what it read before the ticket moved.
NothingForgotten ==
  [][\A t \in Tickets : reprocess'[t] < reprocess[t] \/ priority'[t] < priority[t]
       => t \in overwritten' \/ st[t] = None]_vars

\* A ticket in the trash does not move, except under a handler that read it before.
TrashIsInert ==
  [][\A t \in Tickets : deleted[t] /\ st'[t] # st[t] => t \in overwritten']_vars

\* What the reminder tells the requester: when the window to approve or reject
\* ends, the ticket "se cierra automaticamente".
LapseCloses ==
  [][\A t \in Tickets : \A i \in DOMAIN approvals[t] :
       approvals[t][i] = "lapsed" /\ approvals'[t][i] = "expired" => st'[t] \in Final]_vars

\* approval_timeout_hours are the hours until the approval asked for on
\* entering an approval state expires: none expires before they have passed,
\* not even when no handler works on a stale read.
TokenLastsItsHours ==
  [][\A t \in Tickets : \A i \in DOMAIN approvals[t] :
       approvals[t][i] = "pending" /\ approvals'[t][i] = "expired" => t \in overwritten']_vars

\* A missed deadline is never forgiven: no pause, reopening or expiry turns a
\* clock that ran out into one that can still end as met.
Overrun(c) == (IF c.status = "paused" THEN c.heldLate ELSE c.late) /\ c.status # "met"
OverrunStands == [][\A t \in Tickets : Overrun(clock[t]) => Overrun(clock'[t])]_vars

\* A requester who never answers does not hold the ticket for ever: every
\* ticket in validation leaves it.
ValidationEnds ==
  \A t \in Tickets : st[t] \in Approval
    ~> (st[t] \notin Approval \/ deleted[t] \/ t \in overwritten)

\* What approveTicket answers a requester who is late: the ticket will be
\* reopened in the next cycle.
LapsedIsReopened ==
  \A t \in Tickets : Lapsed(t) ~> (st[t] \notin Approval \/ deleted[t] \/ t \in overwritten)

\* An active clock past its deadline is found by the breach cycle.
OverdueIsFound ==
  \A t \in Tickets : clock[t].status = "active" /\ clock[t].late
    ~> (clock[t].status # "active" \/ deleted[t])
=============================================================================
