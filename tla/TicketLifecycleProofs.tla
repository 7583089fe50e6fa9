------------------------ MODULE TicketLifecycleProofs ------------------------
(***************************************************************************)
(* What holds of TicketLifecycle for every set of tickets, request slots   *)
(* and technicians and for every workflow and bound, in three parts: the   *)
(* tickets and their workflow; the tables beside them, that is the clock,  *)
(* the approvals and the assignments; and that TicketLifecycle implements  *)
(* TicketContract, for every workflow in which a validation can end in     *)
(* closing the ticket.                                                     *)
(***************************************************************************)
EXTENDS TicketRefinement, FiniteSetTheorems, TLAPS

(***************************************************************************)
(* The tickets and their workflow                                          *)
(***************************************************************************)
-----------------------------------------------------------------------------
(* The helpers keep their types. *)

\* Every UPDATE of ticket_sla_tracking yields a clock.
LEMMA ClockUpdates ==
  ASSUME NEW c \in Clock
  PROVE  /\ Resumed(c) \in Clock /\ Suspended(c) \in Clock
         /\ Rearmed(c) \in Clock /\ Reactivated(c) \in Clock
         /\ ByDeadline(c, "met") \in Clock /\ ByDeadline(c, "active") \in Clock
         /\ \A S : Settled(c, S) \in Clock
BY DEF Clock, ClockStatus, Resumed, Suspended, Rearmed, Reactivated, Settled, ByDeadline

\* Answering and asking leave a sequence of approvals.
LEMMA ApprovalUpdates ==
  ASSUME NEW a \in Seq(ApprovalStatus)
  PROVE  /\ \A s \in ApprovalStatus : Answered(a, s) \in Seq(ApprovalStatus)
         /\ \A to : Asked(a, to) \in Seq(ApprovalStatus)
<1>1. \A s \in ApprovalStatus : Answered(a, s) \in Seq(ApprovalStatus)
  <2>1. DOMAIN a = 1 .. Len(a) /\ Len(a) \in Nat /\ \A i \in 1 .. Len(a) : a[i] \in ApprovalStatus
    OBVIOUS
  <2>2. \A s \in ApprovalStatus : Answered(a, s) \in [1 .. Len(a) -> ApprovalStatus]
    BY <2>1 DEF Answered
  <2> QED BY <2>1, <2>2
<1>2. \A to : Asked(a, to) \in Seq(ApprovalStatus)
  BY DEF Asked, ApprovalStatus
<1> QED BY <1>1, <1>2

\* The number of approvals in a status is a natural number.
LEMMA WaitsAreCounted ==
  ASSUME NEW a \in Seq(ApprovalStatus), NEW s
  PROVE  Cardinality(Waits(a, s)) \in Nat
<1>1. IsFiniteSet(1 .. Len(a))
  BY FS_Interval
<1>2. Waits(a, s) \subseteq 1 .. Len(a)
  BY DEF Waits
<1> QED BY <1>1, <1>2, FS_Subset, FS_CardinalityType

\* Priorities stay in their range.
LEMMA PriorityUpdates ==
  ASSUME NEW pr \in Priorities
  PROVE  Escalate(pr) \in Priorities /\ \A n : ReopenPriority(n, pr) \in Priorities
BY BoundsAssumption DEF Priorities, Escalate, ReopenPriority

-----------------------------------------------------------------------------
(* Type correctness *)

\* Every reader of a ticket is a handle.
LEMMA ReadersAreHandles ==
  \A t \in Tickets : Readers(t) \subseteq Handles
BY DEF Readers, Handles, Req

\* A handler at a step of its own has a request record.
LEMMA ActiveRequest ==
  ASSUME TypeOK, NEW p \in Procs, req[p].pc # "done"
  PROVE  req[p] \in Request
BY DEF TypeOK, Idle

\* The three ways a handler's record changes keep the type of req.
RequestsTyped ==
  /\ req \in [Procs -> Request \cup {Idle}]
  /\ \A p \in Procs : req[p].pc \in {"demote", "insert"} => req[p].who \in Assignment

\* The handler ends: Return.
LEMMA Returns ==
  ASSUME TypeOK, NEW p \in Procs, Return(p)
  PROVE  RequestsTyped'
BY DEF TypeOK, Return, Idle, RequestsTyped

\* It moves on to another statement: Goto.
LEMMA Goes ==
  ASSUME TypeOK, NEW p \in Procs, NEW pc \in Steps, req[p] \in Request, Goto(p, pc),
         pc \in {"demote", "insert"} => req[p].who \in Assignment
  PROVE  RequestsTyped'
<1>1. [req[p] EXCEPT !.pc = pc] \in Request
  BY DEF Request
<1>2. req' = [req EXCEPT ![p] = [req[p] EXCEPT !.pc = pc]]
  BY DEF Goto
<1>3. [req[p] EXCEPT !.pc = pc].pc = pc /\ [req[p] EXCEPT !.pc = pc].who = req[p].who
  BY DEF Request
<1> QED BY <1>1, <1>2, <1>3 DEF TypeOK, RequestsTyped

\* A request starts one: Start.
LEMMA Starts ==
  ASSUME TypeOK, NEW p \in Procs, NEW pc \in Steps, NEW t \in Tickets,
         NEW from \in States \cup {None}, NEW to \in States \cup {None},
         NEW who \in Assignment \cup {None}, Start(p, pc, t, from, to, who),
         pc \in {"demote", "insert"} => who \in Assignment
  PROVE  RequestsTyped'
BY DEF TypeOK, Start, Request, RequestsTyped

\* Inserting an assignment leaves sets of assignments.
LEMMA AssignmentInserts ==
  ASSUME TypeOK, NEW t \in Tickets, NEW a \in Assignment, Insert(t, a)
  PROVE  assigned' \in [Tickets -> SUBSET Assignment]
BY DEF TypeOK, Insert

\* Taking one row off the expiry sweep leaves a sweep.
LEMMA ExpiryAdvances ==
  ASSUME TypeOK, NEW t \in Tickets, expiry[t].n > 0, NextExpiryItem(t)
  PROVE  expiry' \in [Tickets -> ExpiryItem]
<1>1. NoExpiry \in ExpiryItem
  BY BoundsAssumption DEF NoExpiry, ExpiryItem, Priorities
<1>2. expiry[t] \in ExpiryItem
  BY DEF TypeOK
<1>3. expiry[t].n - 1 \in Nat
  BY <1>2 DEF ExpiryItem
<1>4. [expiry[t] EXCEPT !.n = expiry[t].n - 1] \in ExpiryItem
  BY <1>2, <1>3 DEF ExpiryItem
<1> QED BY <1>1, <1>4 DEF TypeOK, NextExpiryItem

\* An empty database is well typed.
LEMMA InitTypeOK == Init => TypeOK
BY NoneAssumption, BoundsAssumption
DEF Init, TypeOK, Priorities, Clock, ClockStatus, Request, Idle, ExpiryItem, NoExpiry, Handles

\* Every statement and every sweep keeps the types: one step per action.
LEMMA NextTypeOK == TypeOK /\ [Next]_vars => TypeOK'
<1> SUFFICES ASSUME TypeOK, [Next]_vars PROVE TypeOK'
  OBVIOUS
<1> USE WorkflowAssumption, BoundsAssumption DEF RequestsTyped
<1>1. ASSUME NEW p \in Procs, NEW t \in Tickets, CreateTicket(p, t) PROVE TypeOK'
  <2>1. RequestsTyped'
    BY <1>1, Starts DEF CreateTicket, Steps
  <2> QED BY <1>1, <2>1 DEF CreateTicket, TypeOK, sweeps, history
<1>2. ASSUME NEW p \in Procs, CreateClock(p) PROVE TypeOK'
  <2>1. req[p] \in Request
    BY <1>2, ActiveRequest DEF CreateClock, At
  <2>2. RequestsTyped'
    BY <1>2, <2>1, Goes DEF CreateClock, Steps
  <2> QED BY <1>2, <2>1, <2>2 DEF CreateClock, TypeOK, Request, Blames, Clock, ClockStatus, row, sweeps
<1>3. ASSUME NEW p \in Procs, CreateAssign(p) PROVE TypeOK'
  <2>1. req[p] \in Request
    BY <1>3, ActiveRequest DEF CreateAssign, At
  <2>2. RequestsTyped'
    BY <1>3, <2>1, Returns DEF CreateAssign
  <2>3. ASSUME NEW u \in Techs PROVE [user |-> u, role |-> "owner"] \in Assignment
    BY DEF Assignment, AssignRoles
  <2>4. assigned' \in [Tickets -> SUBSET Assignment]
    BY <1>3, <2>1, <2>3, AssignmentInserts DEF CreateAssign, Request, TypeOK
  <2> QED BY <1>3, <2>1, <2>2, <2>3, <2>4 DEF CreateAssign, TypeOK, Request, Ends, row, sweeps
<1>4. ASSUME NEW p \in Procs, NEW t \in Tickets, ReadTransition(p, t) PROVE TypeOK'
  <2>1. RequestsTyped'
    BY <1>4, Starts DEF ReadTransition, TypeOK, Targets, Steps, AfterRead
  <2> QED BY <1>4, <2>1 DEF ReadTransition, TypeOK, row, sweeps, history
<1>5. ASSUME NEW p \in Procs, PassBlocksGuard(p) PROVE TypeOK'
  <2>1. req[p] \in Request
    BY <1>5, ActiveRequest DEF PassBlocksGuard, At
  <2>2. RequestsTyped'
    BY <1>5, <2>1, Goes DEF PassBlocksGuard, Steps
  <2> QED BY <1>5, <2>1, <2>2 DEF PassBlocksGuard, TypeOK, Request, row, sweeps, history
<1>6. ASSUME NEW p \in Procs, RefuseBlocked(p) PROVE TypeOK'
  <2>1. req[p] \in Request
    BY <1>6, ActiveRequest DEF RefuseBlocked, At
  <2>2. RequestsTyped'
    BY <1>6, <2>1, Returns DEF RefuseBlocked
  <2> QED BY <1>6, <2>1, <2>2 DEF RefuseBlocked, TypeOK, Request, Ends, row, sweeps
<1>7. ASSUME NEW p \in Procs, CommitTransition(p) PROVE TypeOK'
  <2>1. req[p] \in Request
    BY <1>7, ActiveRequest DEF CommitTransition, At
  <2>2. RequestsTyped'
    BY <1>7, <2>1, Returns DEF CommitTransition
  <2>3. clock[req[p].t] \in Clock /\ Resumed(clock[req[p].t]) \in Clock
    BY <2>1, ClockUpdates DEF TypeOK, Request
  <2>4. /\ Settled(Resumed(clock[req[p].t]), {"active"}) \in Clock
        /\ Suspended(Resumed(clock[req[p].t])) \in Clock
    BY <2>3, ClockUpdates
  <2>5. Asked(approvals[req[p].t], req[p].to) \in Seq(ApprovalStatus)
    BY <2>1, ApprovalUpdates DEF TypeOK, Request
  <2> QED BY <1>7, <2>1, <2>2, <2>3, <2>4, <2>5, ReadersAreHandles DEF CommitTransition, TypeOK, Request, Blames, MovesAndEnds, sweeps
<1>8. ASSUME NEW p \in Procs, NEW t \in Tickets, ReadBulkClose(p, t) PROVE TypeOK'
  <2>1. RequestsTyped'
    BY <1>8, Starts DEF ReadBulkClose, TypeOK, Targets, Steps
  <2> QED BY <1>8, <2>1 DEF ReadBulkClose, TypeOK, row, sweeps, history
<1>9. ASSUME NEW p \in Procs, RereadBulkClose(p) PROVE TypeOK'
  <2>1. req[p] \in Request
    BY <1>9, ActiveRequest DEF RereadBulkClose, At
  <2>2. RequestsTyped'
    BY <1>9, <2>1, Goes, Returns DEF RereadBulkClose, Steps
  <2> QED BY <1>9, <2>1, <2>2 DEF RereadBulkClose, TypeOK, Request, Ends, row, sweeps
<1>10. ASSUME NEW p \in Procs, NEW t \in Tickets, ReadApprove(p, t) PROVE TypeOK'
  <2>1. RequestsTyped'
    BY <1>10, Starts DEF ReadApprove, TypeOK, Targets, Steps
  <2> QED BY <1>10, <2>1 DEF ReadApprove, TypeOK, row, sweeps, history
<1>11. ASSUME NEW p \in Procs, ApproveClose(p) PROVE TypeOK'
  <2>1. req[p] \in Request
    BY <1>11, ActiveRequest DEF ApproveClose, At
  <2>2. RequestsTyped'
    BY <1>11, <2>1, Goes DEF ApproveClose, Steps
  <2> QED BY <1>11, <2>1, <2>2, ReadersAreHandles DEF ApproveClose, TypeOK, Request, Blames, Moves, sweeps
<1>12. ASSUME NEW p \in Procs, ApproveRelease(p) PROVE TypeOK'
  <2>1. req[p] \in Request
    BY <1>12, ActiveRequest DEF ApproveRelease, At
  <2>2. RequestsTyped'
    BY <1>12, <2>1, Goes DEF ApproveRelease, Steps
  <2> QED BY <1>12, <2>1, <2>2 DEF ApproveRelease, TypeOK, Request, Blames, row, sweeps
<1>13. ASSUME NEW p \in Procs, ApproveSign(p) PROVE TypeOK'
  <2>1. req[p] \in Request
    BY <1>13, ActiveRequest DEF ApproveSign, At
  <2>2. RequestsTyped'
    BY <1>13, <2>1, Goes DEF ApproveSign, Steps
  <2>3. Answered(approvals[req[p].t], "approved") \in Seq(ApprovalStatus)
    BY <2>1, ApprovalUpdates DEF TypeOK, Request, ApprovalStatus
  <2> QED BY <1>13, <2>1, <2>2, <2>3 DEF ApproveSign, TypeOK, Request, Blames, row, sweeps
<1>14. ASSUME NEW p \in Procs, ApproveResume(p) PROVE TypeOK'
  <2>1. req[p] \in Request
    BY <1>14, ActiveRequest DEF ApproveResume, At
  <2>2. RequestsTyped'
    BY <1>14, <2>1, Goes DEF ApproveResume, Steps
  <2>3. Resumed(clock[req[p].t]) \in Clock
    BY <2>1, ClockUpdates DEF TypeOK, Request
  <2> QED BY <1>14, <2>1, <2>2, <2>3 DEF ApproveResume, TypeOK, Request, Blames, row, sweeps
<1>15. ASSUME NEW p \in Procs, ApproveVerdict(p) PROVE TypeOK'
  <2>1. req[p] \in Request
    BY <1>15, ActiveRequest DEF ApproveVerdict, At
  <2>2. RequestsTyped'
    BY <1>15, <2>1, Returns DEF ApproveVerdict
  <2>3. Settled(clock[req[p].t], {"active"}) \in Clock
    BY <2>1, ClockUpdates DEF TypeOK, Request
  <2> QED BY <1>15, <2>1, <2>2, <2>3 DEF ApproveVerdict, TypeOK, Request, Blames, Ends, row, sweeps
<1>16. ASSUME NEW p \in Procs, NEW t \in Tickets, ReadReject(p, t) PROVE TypeOK'
  <2>1. RequestsTyped'
    BY <1>16, Starts DEF ReadReject, TypeOK, Targets, Steps, Working
  <2> QED BY <1>16, <2>1 DEF ReadReject, TypeOK, row, sweeps, history
<1>17. ASSUME NEW p \in Procs, RejectReopen(p) PROVE TypeOK'
  <2>1. req[p] \in Request
    BY <1>17, ActiveRequest DEF RejectReopen, At
  <2>2. RequestsTyped'
    BY <1>17, <2>1, Goes DEF RejectReopen, Steps
  <2>3. ReopenPriority(req[p].count + 1, req[p].prio) \in Priorities
    BY <2>1, PriorityUpdates DEF Request
  <2> QED BY <1>17, <2>1, <2>2, <2>3, ReadersAreHandles DEF RejectReopen, TypeOK, Request, Blames, Moves, sweeps
<1>18. ASSUME NEW p \in Procs, RejectFails(p) PROVE TypeOK'
  <2>1. req[p] \in Request
    BY <1>18, ActiveRequest DEF RejectFails, At
  <2>2. RequestsTyped'
    BY <1>18, <2>1, Returns DEF RejectFails
  <2> QED BY <1>18, <2>1, <2>2 DEF RejectFails, TypeOK, Request, Ends, row, sweeps
<1>19. ASSUME NEW p \in Procs, RejectRefuse(p) PROVE TypeOK'
  <2>1. req[p] \in Request
    BY <1>19, ActiveRequest DEF RejectRefuse, At
  <2>2. RequestsTyped'
    BY <1>19, <2>1, Goes DEF RejectRefuse, Steps
  <2>3. Answered(approvals[req[p].t], "rejected") \in Seq(ApprovalStatus)
    BY <2>1, ApprovalUpdates DEF TypeOK, Request, ApprovalStatus
  <2> QED BY <1>19, <2>1, <2>2, <2>3 DEF RejectRefuse, TypeOK, Request, Blames, row, sweeps
<1>20. ASSUME NEW p \in Procs, RejectResume(p) PROVE TypeOK'
  <2>1. req[p] \in Request
    BY <1>20, ActiveRequest DEF RejectResume, At
  <2>2. RequestsTyped'
    BY <1>20, <2>1, Returns DEF RejectResume
  <2>3. clock[req[p].t] \in Clock /\ Resumed(clock[req[p].t]) \in Clock
    BY <2>1, ClockUpdates DEF TypeOK, Request
  <2>4. ByDeadline(Resumed(clock[req[p].t]), "active") \in Clock
    BY <2>3, ClockUpdates
  <2> QED BY <1>20, <2>1, <2>2, <2>3, <2>4 DEF RejectResume, TypeOK, Request, Blames, Ends, row, sweeps
<1>21. ASSUME NEW t \in Tickets, ForceReopen(t) PROVE TypeOK'
  <2>1. Reactivated(clock[t]) \in Clock
    BY ClockUpdates DEF TypeOK
  <2>2. ReopenPriority(reprocess[t] + 1, priority[t]) \in Priorities
    BY PriorityUpdates DEF TypeOK
  <2> QED BY <1>21, <2>1, <2>2, ReadersAreHandles DEF ForceReopen, TypeOK, sweeps
<1>22. ASSUME NEW p \in Procs, NEW t \in Tickets, ReadAssign(p, t) PROVE TypeOK'
  <2>1. RequestsTyped'
    BY <1>22, Starts DEF ReadAssign, TypeOK, Targets, Steps
  <2> QED BY <1>22, <2>1 DEF ReadAssign, TypeOK, row, sweeps, history
<1>23. ASSUME NEW p \in Procs, DemoteOwner(p) PROVE TypeOK'
  <2>1. req[p] \in Request
    BY <1>23, ActiveRequest DEF DemoteOwner, At
  <2>2. RequestsTyped'
    BY <1>23, <2>1, Goes DEF DemoteOwner, Steps, TypeOK, At
  <2> QED BY <1>23, <2>1, <2>2 DEF DemoteOwner, TypeOK, Request, row, sweeps, history
<1>24. ASSUME NEW p \in Procs, InsertAssignment(p) PROVE TypeOK'
  <2>1. req[p] \in Request
    BY <1>24, ActiveRequest DEF InsertAssignment, At
  <2>2. RequestsTyped'
    BY <1>24, <2>1, Returns DEF InsertAssignment
  <2>3. assigned' \in [Tickets -> SUBSET Assignment]
    BY <1>24, <2>1, AssignmentInserts DEF InsertAssignment, Request, TypeOK, At
  <2> QED BY <1>24, <2>1, <2>2, <2>3 DEF InsertAssignment, TypeOK, Request, Ends, row, sweeps
<1>25. ASSUME NEW t \in Tickets, NEW d \in BOOLEAN, SetDeleted(t, d) PROVE TypeOK'
  BY <1>25, ReadersAreHandles DEF SetDeleted, TypeOK, sweeps
<1>26. ASSUME StartExpiry PROVE TypeOK'
  <2>1. \A t \in Tickets : Cardinality(Waits(approvals[t], "lapsed")) \in Nat
    BY WaitsAreCounted DEF TypeOK
  <2> QED BY <1>26, <2>1 DEF StartExpiry, TypeOK, ExpiryItem, NoExpiry, Priorities, row, history
<1>27. ASSUME NEW t \in Tickets, ExpiryCloses(t) PROVE TypeOK'
  <2>1. Answered(approvals[t], "expired") \in Seq(ApprovalStatus)
    BY ApprovalUpdates DEF TypeOK, ApprovalStatus
  <2>2. Settled(clock[t], {"active", "paused", "breached"}) \in Clock
    BY ClockUpdates DEF TypeOK
  <2>3. expiry' \in [Tickets -> ExpiryItem]
    BY <1>27, ExpiryAdvances DEF ExpiryCloses
  <2>4. stale' \subseteq Handles
    BY <1>27, ReadersAreHandles DEF ExpiryCloses, TypeOK, ExpiryMoves
  <2>5. st' \in [Tickets -> States \cup {None}]
    BY <1>27 DEF ExpiryCloses, TypeOK, Targets
  <2> QED BY <1>27, <2>1, <2>2, <2>3, <2>4, <2>5 DEF ExpiryCloses, TypeOK, Blames
<1>28. ASSUME NEW t \in Tickets, ExpiryReopens(t) PROVE TypeOK'
  <2>1. Answered(approvals[t], "expired") \in Seq(ApprovalStatus)
    BY ApprovalUpdates DEF TypeOK, ApprovalStatus
  <2>2. Rearmed(clock[t]) \in Clock
    BY ClockUpdates DEF TypeOK
  <2>3. expiry[t].count + 1 \in Nat /\ ReopenPriority(expiry[t].count + 1, expiry[t].prio) \in Priorities
    <3>1. expiry[t].count \in Nat /\ expiry[t].prio \in Priorities
      BY DEF TypeOK, ExpiryItem
    <3>2. \A n : ReopenPriority(n, expiry[t].prio) \in Priorities
      BY <3>1, PriorityUpdates
    <3> QED BY <3>1, <3>2
  <2>4. expiry' \in [Tickets -> ExpiryItem]
    BY <1>28, ExpiryAdvances DEF ExpiryReopens
  <2>5. stale' \subseteq Handles
    BY <1>28, ReadersAreHandles DEF ExpiryReopens, TypeOK, ExpiryMoves
  <2>6. st' \in [Tickets -> States \cup {None}]
    BY <1>28 DEF ExpiryReopens, TypeOK, Targets, Working
  <2> QED BY <1>28, <2>1, <2>2, <2>3, <2>4, <2>5, <2>6 DEF ExpiryReopens, TypeOK, Blames
<1>29. ASSUME NEW t \in Tickets, ExpirySkips(t) PROVE TypeOK'
  BY <1>29, ExpiryAdvances DEF ExpirySkips, TypeOK, Ends, row
<1>30. ASSUME StartAutoClose PROVE TypeOK'
  BY <1>30 DEF StartAutoClose, TypeOK, Targets, row, history
<1>31. ASSUME NEW t \in Tickets, AutoClose(t) PROVE TypeOK'
  <2>1. Settled(clock[t], {"active"}) \in Clock
    BY ClockUpdates DEF TypeOK
  <2> QED BY <1>31, <2>1, ReadersAreHandles DEF AutoClose, TypeOK, Blames, MovesAndEnds
<1>32. ASSUME StartWaiting PROVE TypeOK'
  BY <1>32 DEF StartWaiting, TypeOK, Priorities, row, history
<1>33. ASSUME NEW t \in Tickets, WaitingEscalates(t) PROVE TypeOK'
  <2>1. Escalate(waiting[t]) \in Priorities
    BY <1>33, PriorityUpdates DEF WaitingEscalates, TypeOK, Priorities
  <2> QED BY <1>33, <2>1 DEF WaitingEscalates, TypeOK, Blames, Ends
<1>34. ASSUME SlaBreach PROVE TypeOK'
  BY <1>34 DEF SlaBreach, TypeOK, Clock, ClockStatus, row, sweeps, history
<1>35. ASSUME NEW t \in Tickets, DeadlinePasses(t) PROVE TypeOK'
  BY <1>35 DEF DeadlinePasses, TypeOK, Clock, row, sweeps, history
<1>36. ASSUME NEW t \in Tickets, ApprovalLapses(t) PROVE TypeOK'
  <2>1. PICK i \in Waits(approvals[t], "pending") : approvals' = [approvals EXCEPT ![t][i] = "lapsed"]
    BY <1>36 DEF ApprovalLapses
  <2>2. [approvals[t] EXCEPT ![i] = "lapsed"] \in Seq(ApprovalStatus)
    BY <2>1 DEF Waits, TypeOK, ApprovalStatus
  <2> QED BY <1>36, <2>1, <2>2 DEF ApprovalLapses, TypeOK, row, sweeps, history
<1>37. ASSUME NEW p \in Procs, RequestFails(p) PROVE TypeOK'
  <2>1. req[p] \in Request
    BY <1>37 DEF RequestFails, Free, TypeOK
  <2>2. RequestsTyped'
    BY <1>37, Returns DEF RequestFails
  <2> QED BY <1>37, <2>1, <2>2 DEF RequestFails, TypeOK, Request, Ends, row, sweeps
<1>38. ASSUME Restart PROVE TypeOK'
  <2>1. RequestsTyped'
    BY <1>38 DEF Restart, Idle
  <2> QED BY <1>38, <2>1 DEF Restart, TypeOK, ExpiryItem, NoExpiry, Priorities, row
<1>39. ASSUME UNCHANGED vars PROVE TypeOK'
  BY <1>39 DEF TypeOK, vars, row, sweeps, history
<1>40. ASSUME NEW t \in Tickets, AutoCloseFails(t) PROVE TypeOK'
  BY <1>40 DEF AutoCloseFails, TypeOK, Ends, row
<1>41. ASSUME NEW t \in Tickets, WaitingFails(t) PROVE TypeOK'
  BY <1>41 DEF WaitingFails, TypeOK, Ends, row
<1> QED
  BY <1>1, <1>2, <1>3, <1>4, <1>5, <1>6, <1>7, <1>8, <1>9, <1>10, <1>11, <1>12, <1>13, <1>14, <1>15, <1>16, <1>17, <1>18, <1>19, <1>20, <1>21, <1>22, <1>23, <1>24, <1>25, <1>26, <1>27, <1>28, <1>29, <1>30, <1>31, <1>32, <1>33, <1>34, <1>35, <1>36, <1>37, <1>38, <1>39, <1>40, <1>41
  DEF Next, Continue, Read, ExpiryStep

\* Every variable keeps its type, whatever the interleaving: TypeOK.
THEOREM TypeCorrect == Spec => []TypeOK
<1>1. Init => TypeOK
  BY InitTypeOK
<1>2. TypeOK /\ [Next]_vars => TypeOK'
  BY NextTypeOK
<1> QED BY <1>1, <1>2, PTL DEF Spec

-----------------------------------------------------------------------------
(* Snapshots                                                               *)
(*                                                                         *)
(* The inductive invariant behind the properties of the workflow: whoever  *)
(* is about to move a ticket either still sees it where it read it, alive, *)
(* or is recorded as stale.                                                *)

Deciding == {"reread", "blocks", "commit", "close", "reopen"}

RequestSnapshot(p) ==
  req[p].pc \in Deciding =>
    /\ <<req[p].from, req[p].to>> \in Edges
    /\ Req(p) \in stale \/ (st[req[p].t] = req[p].from /\ ~deleted[req[p].t])

ExpirySnapshot(t) ==
  expiry[t].n > 0 =>
    /\ expiry[t].from \in Approval
    /\ <<"expiry", t>> \in stale \/ (st[t] = expiry[t].from /\ ~deleted[t])

ClosingSnapshot(t) ==
  closing[t] # None => <<"closing", t>> \in stale \/ (<<st[t], closing[t]>> \in Edges /\ ~deleted[t])

Snapshots ==
  /\ \A p \in Procs : RequestSnapshot(p)
  /\ \A t \in Tickets : ExpirySnapshot(t) /\ ClosingSnapshot(t)
  /\ \A t \in Tickets : deleted[t] => st[t] # None

\* A rejection in flight was read below the limit.
RejectsBelowLimit == \A p \in Procs : req[p].pc = "reopen" => req[p].count < MaxReopen

\* Whoever works on a ticket is among its readers.
LEMMA WhoReads ==
  ASSUME NEW t \in Tickets
  PROVE  /\ \A p \in Procs : req[p].t = t => Req(p) \in Readers(t)
         /\ expiry[t].n > 0 => <<"expiry", t>> \in Readers(t)
         /\ closing[t] # None => <<"closing", t>> \in Readers(t)
BY DEF Readers

\* What every step owes the readers other than h: a ticket it moves, it marks
\* stale for them, and it takes no mark of theirs away.
Considerate(h) ==
  /\ stale \ {h} \subseteq stale'
  /\ \A u \in Tickets : \/ st'[u] = st[u] /\ deleted'[u] = deleted[u]
                        \/ Readers(u) \ {h} \subseteq stale'

\* Under a considerate step the other handlers and sweeps keep their snapshots.
LEMMA OthersKeepSnapshots ==
  ASSUME TypeOK, Snapshots, NEW h, Considerate(h)
  PROVE  /\ \A p \in Procs : Req(p) # h /\ req'[p] = req[p] => RequestSnapshot(p)'
         /\ \A t \in Tickets : <<"expiry", t>> # h /\ expiry'[t] = expiry[t] => ExpirySnapshot(t)'
         /\ \A t \in Tickets : <<"closing", t>> # h /\ closing'[t] = closing[t] => ClosingSnapshot(t)'
<1>1. ASSUME NEW p \in Procs, Req(p) # h, req'[p] = req[p], req[p].pc \in Deciding
      PROVE  RequestSnapshot(p)'
  <2>1. req[p] \in Request
    BY <1>1, ActiveRequest DEF Deciding
  <2>2. req[p].t \in Tickets
    BY <2>1 DEF Request
  <2>3. Req(p)' = Req(p)
    BY DEF Req
  <2>4. RequestSnapshot(p)
    BY DEF Snapshots
  <2> QED BY <1>1, <2>2, <2>3, <2>4, WhoReads DEF RequestSnapshot, Considerate
<1>2. ASSUME NEW p \in Procs, Req(p) # h, req'[p] = req[p], req[p].pc \notin Deciding
      PROVE  RequestSnapshot(p)'
  BY <1>2 DEF RequestSnapshot, Deciding
<1>3. ASSUME NEW t \in Tickets, <<"expiry", t>> # h, expiry'[t] = expiry[t]
      PROVE  ExpirySnapshot(t)'
  BY <1>3, WhoReads DEF Snapshots, ExpirySnapshot, Considerate
<1>4. ASSUME NEW t \in Tickets, <<"closing", t>> # h, closing'[t] = closing[t]
      PROVE  ClosingSnapshot(t)'
  BY <1>4, WhoReads DEF Snapshots, ClosingSnapshot, Considerate
<1> QED BY <1>1, <1>2, <1>3, <1>4

\* A step of one request that leaves the sweeps alone.
LEMMA RequestKeepsSnapshots ==
  ASSUME TypeOK, Snapshots, NEW p \in Procs, Considerate(Req(p)), RequestSnapshot(p)',
         \A q \in Procs \ {p} : req'[q] = req[q], UNCHANGED <<expiry, closing>>,
         \A t \in Tickets : deleted'[t] => st'[t] # None
  PROVE  Snapshots'
<1>1. \A q \in Procs \ {p} : Req(q) # Req(p)
  BY DEF Req
<1>2. \A q \in Procs \ {p} : RequestSnapshot(q)'
  BY <1>1, OthersKeepSnapshots
<1>3. \A t \in Tickets : <<"expiry", t>> # Req(p) /\ <<"closing", t>> # Req(p)
  BY DEF Req
<1>4. \A t \in Tickets : ExpirySnapshot(t)' /\ ClosingSnapshot(t)'
  BY <1>3, OthersKeepSnapshots
<1> QED BY <1>2, <1>4 DEF Snapshots

\* A step that leaves every request alone; it may advance the sweeps named by h.
LEMMA SweepKeepsSnapshots ==
  ASSUME TypeOK, Snapshots, NEW h, \A p \in Procs : h # Req(p), Considerate(h), req' = req,
         \A t \in Tickets : ExpirySnapshot(t)' /\ ClosingSnapshot(t)',
         \A t \in Tickets : deleted'[t] => st'[t] # None
  PROVE  Snapshots'
BY OthersKeepSnapshots DEF Snapshots

NoOne == <<"no one", 0>>

\* A step that leaves every request and every sweep alone.
LEMMA OthersStepKeepsSnapshots ==
  ASSUME TypeOK, Snapshots, Considerate(NoOne), UNCHANGED <<req, expiry, closing>>,
         \A t \in Tickets : deleted'[t] => st'[t] # None
  PROVE  Snapshots'
<1>1. \A p \in Procs : NoOne # Req(p)
  BY DEF NoOne, Req
<1>2. \A t \in Tickets : NoOne # <<"expiry", t>> /\ NoOne # <<"closing", t>>
  BY DEF NoOne
<1>3. \A t \in Tickets : ExpirySnapshot(t)' /\ ClosingSnapshot(t)'
  BY <1>2, OthersKeepSnapshots
<1> QED BY <1>1, <1>3, SweepKeepsSnapshots

\* A handler that has just read a living ticket and chosen an edge sees it as it is.
LEMMA FreshRead ==
  ASSUME TypeOK, NEW p \in Procs, NEW t \in Tickets, Alive(t), NEW pc, NEW to,
         <<st[t], to>> \in Edges, Start(p, pc, t, st[t], to, None), UNCHANGED <<st, deleted>>
  PROVE  RequestSnapshot(p)'
<1>1. req'[p].from = st[t] /\ req'[p].to = to /\ req'[p].t = t
  BY DEF Start, TypeOK
<1> QED BY <1>1 DEF RequestSnapshot, Alive

\* Nobody has read anything yet.
LEMMA InitSnapshots == Init => Snapshots
BY NoneAssumption DEF Init, Snapshots, RequestSnapshot, ExpirySnapshot, ClosingSnapshot, Deciding, Idle, NoExpiry

\* Every step keeps the snapshots: one step per action.
LEMMA NextSnapshots == TypeOK /\ Snapshots /\ [Next]_vars => Snapshots'
<1> SUFFICES ASSUME TypeOK, Snapshots, [Next]_vars PROVE Snapshots'
  OBVIOUS
<1> USE WorkflowAssumption, NoneAssumption
<1> DEFINE InTrash == \A t \in Tickets : deleted'[t] => st'[t] # None
<1>1. ASSUME NEW p \in Procs, CreateClock(p) PROVE Snapshots'
  <2>1. Considerate(Req(p)) /\ InTrash
    BY <1>1 DEF CreateClock, Considerate, Snapshots, row, history, Ends
  <2>2. RequestSnapshot(p)'
    BY <1>1 DEF CreateClock, RequestSnapshot, Deciding, TypeOK, Goto
  <2>3. /\ \A q \in Procs \ {p} : req'[q] = req[q]
        /\ UNCHANGED <<expiry, closing>>
    BY <1>1 DEF CreateClock, TypeOK, sweeps, Start, Goto, Return
  <2> QED BY <2>1, <2>2, <2>3, RequestKeepsSnapshots
<1>2. ASSUME NEW p \in Procs, CreateAssign(p) PROVE Snapshots'
  <2>1. Considerate(Req(p)) /\ InTrash
    BY <1>2 DEF CreateAssign, Considerate, Snapshots, row, history, Ends
  <2>2. RequestSnapshot(p)'
    BY <1>2 DEF CreateAssign, RequestSnapshot, Deciding, TypeOK, Return, Idle
  <2>3. /\ \A q \in Procs \ {p} : req'[q] = req[q]
        /\ UNCHANGED <<expiry, closing>>
    BY <1>2 DEF CreateAssign, TypeOK, sweeps, Start, Goto, Return
  <2> QED BY <2>1, <2>2, <2>3, RequestKeepsSnapshots
<1>3. ASSUME NEW p \in Procs, NEW t \in Tickets, ReadTransition(p, t) PROVE Snapshots'
  <2>1. Considerate(Req(p)) /\ InTrash
    BY <1>3 DEF ReadTransition, Considerate, Snapshots, row, history
  <2>2. PICK to \in Targets(st[t], States) : \E pc \in Steps : Start(p, pc, t, st[t], to, None)
    BY <1>3 DEF ReadTransition, Targets, Working, AfterRead, Steps
  <2>3. RequestSnapshot(p)'
    BY <1>3, <2>2, FreshRead DEF ReadTransition, Targets, row
  <2>4. /\ \A q \in Procs \ {p} : req'[q] = req[q]
        /\ UNCHANGED <<expiry, closing>>
    BY <1>3, <2>2 DEF ReadTransition, TypeOK, sweeps, Start
  <2> QED BY <2>1, <2>3, <2>4, RequestKeepsSnapshots
<1>4. ASSUME NEW p \in Procs, PassBlocksGuard(p) PROVE Snapshots'
  <2>1. Considerate(Req(p)) /\ InTrash
    BY <1>4 DEF PassBlocksGuard, Considerate, Snapshots, row, history, Ends
  <2>2. RequestSnapshot(p)'
    BY <1>4 DEF PassBlocksGuard, RequestSnapshot, Deciding, TypeOK, Goto, At, Snapshots, Req, row, history
  <2>3. /\ \A q \in Procs \ {p} : req'[q] = req[q]
        /\ UNCHANGED <<expiry, closing>>
    BY <1>4 DEF PassBlocksGuard, TypeOK, sweeps, Start, Goto, Return
  <2> QED BY <2>1, <2>2, <2>3, RequestKeepsSnapshots
<1>5. ASSUME NEW p \in Procs, RefuseBlocked(p) PROVE Snapshots'
  <2>1. Considerate(Req(p)) /\ InTrash
    BY <1>5 DEF RefuseBlocked, Considerate, Snapshots, row, history, Ends
  <2>2. RequestSnapshot(p)'
    BY <1>5 DEF RefuseBlocked, RequestSnapshot, Deciding, TypeOK, Return, Idle
  <2>3. /\ \A q \in Procs \ {p} : req'[q] = req[q]
        /\ UNCHANGED <<expiry, closing>>
    BY <1>5 DEF RefuseBlocked, TypeOK, sweeps, Start, Goto, Return
  <2> QED BY <2>1, <2>2, <2>3, RequestKeepsSnapshots
<1>6. ASSUME NEW p \in Procs, NEW t \in Tickets, ReadBulkClose(p, t) PROVE Snapshots'
  <2>1. Considerate(Req(p)) /\ InTrash
    BY <1>6 DEF ReadBulkClose, Considerate, Snapshots, row, history
  <2>2. PICK to \in Targets(st[t], States) : \E pc \in Steps : Start(p, pc, t, st[t], to, None)
    BY <1>6 DEF ReadBulkClose, Targets, Working, AfterRead, Steps
  <2>3. RequestSnapshot(p)'
    BY <1>6, <2>2, FreshRead DEF ReadBulkClose, Targets, row
  <2>4. /\ \A q \in Procs \ {p} : req'[q] = req[q]
        /\ UNCHANGED <<expiry, closing>>
    BY <1>6, <2>2 DEF ReadBulkClose, TypeOK, sweeps, Start
  <2> QED BY <2>1, <2>3, <2>4, RequestKeepsSnapshots
<1>7. ASSUME NEW p \in Procs, RereadBulkClose(p) PROVE Snapshots'
  <2>1. Considerate(Req(p)) /\ InTrash
    BY <1>7 DEF RereadBulkClose, Considerate, Snapshots, row, history, Ends
  <2>2. RequestSnapshot(p)'
    <3>1. CASE Alive(req[p].t) /\ st[req[p].t] = req[p].from
      <4>1. req'[p] = [req[p] EXCEPT !.pc = "blocks"] /\ UNCHANGED <<st, deleted>>
        BY <1>7, <3>1 DEF RereadBulkClose, Goto, TypeOK, row
      <4>2. req[p].pc = "reread" /\ req[p] \in Request
        BY <1>7, ActiveRequest DEF RereadBulkClose, At
      <4>3. <<req[p].from, req[p].to>> \in Edges
        BY <4>2 DEF Snapshots, RequestSnapshot, Deciding
      <4>4. req'[p].from = req[p].from /\ req'[p].to = req[p].to /\ req'[p].t = req[p].t
        BY <4>1, <4>2 DEF Request
      <4> QED BY <3>1, <4>1, <4>3, <4>4 DEF RequestSnapshot, Alive
    <3>2. CASE ~(Alive(req[p].t) /\ st[req[p].t] = req[p].from)
      BY <1>7, <3>2 DEF RereadBulkClose, RequestSnapshot, Deciding, TypeOK, Return, Idle
    <3> QED BY <3>1, <3>2
  <2>3. /\ \A q \in Procs \ {p} : req'[q] = req[q]
        /\ UNCHANGED <<expiry, closing>>
    BY <1>7 DEF RereadBulkClose, TypeOK, sweeps, Goto, Return
  <2> QED BY <2>1, <2>2, <2>3, RequestKeepsSnapshots
<1>8. ASSUME NEW p \in Procs, NEW t \in Tickets, ReadApprove(p, t) PROVE Snapshots'
  <2>1. Considerate(Req(p)) /\ InTrash
    BY <1>8 DEF ReadApprove, Considerate, Snapshots, row, history
  <2>2. PICK to \in Targets(st[t], States) : \E pc \in Steps : Start(p, pc, t, st[t], to, None)
    BY <1>8 DEF ReadApprove, Targets, Working, AfterRead, Steps
  <2>3. RequestSnapshot(p)'
    BY <1>8, <2>2, FreshRead DEF ReadApprove, Targets, row
  <2>4. /\ \A q \in Procs \ {p} : req'[q] = req[q]
        /\ UNCHANGED <<expiry, closing>>
    BY <1>8, <2>2 DEF ReadApprove, TypeOK, sweeps, Start
  <2> QED BY <2>1, <2>3, <2>4, RequestKeepsSnapshots
<1>9. ASSUME NEW p \in Procs, ApproveRelease(p) PROVE Snapshots'
  <2>1. Considerate(Req(p)) /\ InTrash
    BY <1>9 DEF ApproveRelease, Considerate, Snapshots, row, history, Ends
  <2>2. RequestSnapshot(p)'
    BY <1>9 DEF ApproveRelease, RequestSnapshot, Deciding, TypeOK, Goto
  <2>3. /\ \A q \in Procs \ {p} : req'[q] = req[q]
        /\ UNCHANGED <<expiry, closing>>
    BY <1>9 DEF ApproveRelease, TypeOK, sweeps, Start, Goto, Return
  <2> QED BY <2>1, <2>2, <2>3, RequestKeepsSnapshots
<1>10. ASSUME NEW p \in Procs, ApproveSign(p) PROVE Snapshots'
  <2>1. Considerate(Req(p)) /\ InTrash
    BY <1>10 DEF ApproveSign, Considerate, Snapshots, row, history, Ends
  <2>2. RequestSnapshot(p)'
    BY <1>10 DEF ApproveSign, RequestSnapshot, Deciding, TypeOK, Goto
  <2>3. /\ \A q \in Procs \ {p} : req'[q] = req[q]
        /\ UNCHANGED <<expiry, closing>>
    BY <1>10 DEF ApproveSign, TypeOK, sweeps, Start, Goto, Return
  <2> QED BY <2>1, <2>2, <2>3, RequestKeepsSnapshots
<1>11. ASSUME NEW p \in Procs, ApproveResume(p) PROVE Snapshots'
  <2>1. Considerate(Req(p)) /\ InTrash
    BY <1>11 DEF ApproveResume, Considerate, Snapshots, row, history, Ends
  <2>2. RequestSnapshot(p)'
    BY <1>11 DEF ApproveResume, RequestSnapshot, Deciding, TypeOK, Goto
  <2>3. /\ \A q \in Procs \ {p} : req'[q] = req[q]
        /\ UNCHANGED <<expiry, closing>>
    BY <1>11 DEF ApproveResume, TypeOK, sweeps, Start, Goto, Return
  <2> QED BY <2>1, <2>2, <2>3, RequestKeepsSnapshots
<1>12. ASSUME NEW p \in Procs, ApproveVerdict(p) PROVE Snapshots'
  <2>1. Considerate(Req(p)) /\ InTrash
    BY <1>12 DEF ApproveVerdict, Considerate, Snapshots, row, history, Ends
  <2>2. RequestSnapshot(p)'
    BY <1>12 DEF ApproveVerdict, RequestSnapshot, Deciding, TypeOK, Return, Idle
  <2>3. /\ \A q \in Procs \ {p} : req'[q] = req[q]
        /\ UNCHANGED <<expiry, closing>>
    BY <1>12 DEF ApproveVerdict, TypeOK, sweeps, Start, Goto, Return
  <2> QED BY <2>1, <2>2, <2>3, RequestKeepsSnapshots
<1>13. ASSUME NEW p \in Procs, NEW t \in Tickets, ReadReject(p, t) PROVE Snapshots'
  <2>1. Considerate(Req(p)) /\ InTrash
    BY <1>13 DEF ReadReject, Considerate, Snapshots, row, history
  <2>2. PICK to \in Targets(st[t], States) : \E pc \in Steps : Start(p, pc, t, st[t], to, None)
    BY <1>13 DEF ReadReject, Targets, Working, AfterRead, Steps
  <2>3. RequestSnapshot(p)'
    BY <1>13, <2>2, FreshRead DEF ReadReject, Targets, row
  <2>4. /\ \A q \in Procs \ {p} : req'[q] = req[q]
        /\ UNCHANGED <<expiry, closing>>
    BY <1>13, <2>2 DEF ReadReject, TypeOK, sweeps, Start
  <2> QED BY <2>1, <2>3, <2>4, RequestKeepsSnapshots
<1>14. ASSUME NEW p \in Procs, RejectFails(p) PROVE Snapshots'
  <2>1. Considerate(Req(p)) /\ InTrash
    BY <1>14 DEF RejectFails, Considerate, Snapshots, row, history, Ends
  <2>2. RequestSnapshot(p)'
    BY <1>14 DEF RejectFails, RequestSnapshot, Deciding, TypeOK, Return, Idle
  <2>3. /\ \A q \in Procs \ {p} : req'[q] = req[q]
        /\ UNCHANGED <<expiry, closing>>
    BY <1>14 DEF RejectFails, TypeOK, sweeps, Start, Goto, Return
  <2> QED BY <2>1, <2>2, <2>3, RequestKeepsSnapshots
<1>15. ASSUME NEW p \in Procs, RejectRefuse(p) PROVE Snapshots'
  <2>1. Considerate(Req(p)) /\ InTrash
    BY <1>15 DEF RejectRefuse, Considerate, Snapshots, row, history, Ends
  <2>2. RequestSnapshot(p)'
    BY <1>15 DEF RejectRefuse, RequestSnapshot, Deciding, TypeOK, Goto
  <2>3. /\ \A q \in Procs \ {p} : req'[q] = req[q]
        /\ UNCHANGED <<expiry, closing>>
    BY <1>15 DEF RejectRefuse, TypeOK, sweeps, Start, Goto, Return
  <2> QED BY <2>1, <2>2, <2>3, RequestKeepsSnapshots
<1>16. ASSUME NEW p \in Procs, RejectResume(p) PROVE Snapshots'
  <2>1. Considerate(Req(p)) /\ InTrash
    BY <1>16 DEF RejectResume, Considerate, Snapshots, row, history, Ends
  <2>2. RequestSnapshot(p)'
    BY <1>16 DEF RejectResume, RequestSnapshot, Deciding, TypeOK, Return, Idle
  <2>3. /\ \A q \in Procs \ {p} : req'[q] = req[q]
        /\ UNCHANGED <<expiry, closing>>
    BY <1>16 DEF RejectResume, TypeOK, sweeps, Start, Goto, Return
  <2> QED BY <2>1, <2>2, <2>3, RequestKeepsSnapshots
<1>17. ASSUME NEW p \in Procs, NEW t \in Tickets, ReadAssign(p, t) PROVE Snapshots'
  <2>1. Considerate(Req(p)) /\ InTrash
    BY <1>17 DEF ReadAssign, Considerate, Snapshots, row, history, Ends
  <2>2. RequestSnapshot(p)'
    BY <1>17 DEF ReadAssign, RequestSnapshot, Deciding, TypeOK, Start
  <2>3. /\ \A q \in Procs \ {p} : req'[q] = req[q]
        /\ UNCHANGED <<expiry, closing>>
    BY <1>17 DEF ReadAssign, TypeOK, sweeps, Start, Goto, Return
  <2> QED BY <2>1, <2>2, <2>3, RequestKeepsSnapshots
<1>18. ASSUME NEW p \in Procs, DemoteOwner(p) PROVE Snapshots'
  <2>1. Considerate(Req(p)) /\ InTrash
    BY <1>18 DEF DemoteOwner, Considerate, Snapshots, row, history, Ends
  <2>2. RequestSnapshot(p)'
    BY <1>18 DEF DemoteOwner, RequestSnapshot, Deciding, TypeOK, Goto
  <2>3. /\ \A q \in Procs \ {p} : req'[q] = req[q]
        /\ UNCHANGED <<expiry, closing>>
    BY <1>18 DEF DemoteOwner, TypeOK, sweeps, Start, Goto, Return
  <2> QED BY <2>1, <2>2, <2>3, RequestKeepsSnapshots
<1>19. ASSUME NEW p \in Procs, InsertAssignment(p) PROVE Snapshots'
  <2>1. Considerate(Req(p)) /\ InTrash
    BY <1>19 DEF InsertAssignment, Considerate, Snapshots, row, history, Ends
  <2>2. RequestSnapshot(p)'
    BY <1>19 DEF InsertAssignment, RequestSnapshot, Deciding, TypeOK, Return, Idle
  <2>3. /\ \A q \in Procs \ {p} : req'[q] = req[q]
        /\ UNCHANGED <<expiry, closing>>
    BY <1>19 DEF InsertAssignment, TypeOK, sweeps, Start, Goto, Return
  <2> QED BY <2>1, <2>2, <2>3, RequestKeepsSnapshots
<1>20. ASSUME NEW p \in Procs, RequestFails(p) PROVE Snapshots'
  <2>1. Considerate(Req(p)) /\ InTrash
    BY <1>20 DEF RequestFails, Considerate, Snapshots, row, history, Ends
  <2>2. RequestSnapshot(p)'
    BY <1>20 DEF RequestFails, RequestSnapshot, Deciding, TypeOK, Return, Idle
  <2>3. /\ \A q \in Procs \ {p} : req'[q] = req[q]
        /\ UNCHANGED <<expiry, closing>>
    BY <1>20 DEF RequestFails, TypeOK, sweeps, Start, Goto, Return
  <2> QED BY <2>1, <2>2, <2>3, RequestKeepsSnapshots
<1>21. ASSUME NEW p \in Procs, CommitTransition(p) PROVE Snapshots'
  <2>1. req[p] \in Request /\ RequestSnapshot(p) /\ req[p].pc \in Deciding
    BY <1>21, ActiveRequest DEF CommitTransition, At, Snapshots, Deciding
  <2>2. req[p].t \in Tickets /\ req[p].to \in States
    BY <2>1 DEF Request, RequestSnapshot
  <2>3. Considerate(Req(p))
    BY <1>21, <2>2 DEF CommitTransition, Considerate, TypeOK, MovesAndEnds
  <2>4. InTrash
    BY <1>21, <2>2 DEF CommitTransition, Snapshots, TypeOK
  <2>5. RequestSnapshot(p)'
    BY <1>21 DEF CommitTransition, RequestSnapshot, Deciding, TypeOK, Return, Idle
  <2>6. /\ \A q \in Procs \ {p} : req'[q] = req[q]
        /\ UNCHANGED <<expiry, closing>>
    BY <1>21 DEF CommitTransition, TypeOK, sweeps, Goto, Return
  <2> QED BY <2>3, <2>4, <2>5, <2>6, RequestKeepsSnapshots
<1>22. ASSUME NEW p \in Procs, ApproveClose(p) PROVE Snapshots'
  <2>1. req[p] \in Request /\ RequestSnapshot(p) /\ req[p].pc \in Deciding
    BY <1>22, ActiveRequest DEF ApproveClose, At, Snapshots, Deciding
  <2>2. req[p].t \in Tickets /\ req[p].to \in States
    BY <2>1 DEF Request, RequestSnapshot
  <2>3. Considerate(Req(p))
    BY <1>22, <2>2 DEF ApproveClose, Considerate, TypeOK, Moves
  <2>4. InTrash
    BY <1>22, <2>2 DEF ApproveClose, Snapshots, TypeOK
  <2>5. RequestSnapshot(p)'
    BY <1>22 DEF ApproveClose, RequestSnapshot, Deciding, TypeOK, Goto
  <2>6. /\ \A q \in Procs \ {p} : req'[q] = req[q]
        /\ UNCHANGED <<expiry, closing>>
    BY <1>22 DEF ApproveClose, TypeOK, sweeps, Goto, Return
  <2> QED BY <2>3, <2>4, <2>5, <2>6, RequestKeepsSnapshots
<1>23. ASSUME NEW p \in Procs, RejectReopen(p) PROVE Snapshots'
  <2>1. req[p] \in Request /\ RequestSnapshot(p) /\ req[p].pc \in Deciding
    BY <1>23, ActiveRequest DEF RejectReopen, At, Snapshots, Deciding
  <2>2. req[p].t \in Tickets /\ req[p].to \in States
    BY <2>1 DEF Request, RequestSnapshot
  <2>3. Considerate(Req(p))
    BY <1>23, <2>2 DEF RejectReopen, Considerate, TypeOK, Moves
  <2>4. InTrash
    BY <1>23, <2>2 DEF RejectReopen, Snapshots, TypeOK
  <2>5. RequestSnapshot(p)'
    BY <1>23 DEF RejectReopen, RequestSnapshot, Deciding, TypeOK, Goto
  <2>6. /\ \A q \in Procs \ {p} : req'[q] = req[q]
        /\ UNCHANGED <<expiry, closing>>
    BY <1>23 DEF RejectReopen, TypeOK, sweeps, Goto, Return
  <2> QED BY <2>3, <2>4, <2>5, <2>6, RequestKeepsSnapshots
<1>24. ASSUME NEW p \in Procs, NEW t \in Tickets, CreateTicket(p, t) PROVE Snapshots'
  <2>1. st[t] = None /\ st' = [st EXCEPT ![t] = Initial] /\ UNCHANGED <<deleted, expiry, closing, stale>>
    BY <1>24 DEF CreateTicket, sweeps, history
  <2>2. ~deleted[t]
    BY <2>1 DEF Snapshots, TypeOK
  <2>3. \A q \in Procs \ {p} : RequestSnapshot(q)'
    <3>0. \A q \in Procs \ {p} : req'[q] = req[q]
      BY <1>24 DEF CreateTicket, Start, TypeOK
    <3> SUFFICES ASSUME NEW q \in Procs, q # p, req[q].pc \in Deciding PROVE RequestSnapshot(q)'
      BY <3>0 DEF RequestSnapshot
    <3>1. req'[q] = req[q] /\ req[q].t \in Tickets /\ RequestSnapshot(q)
      BY <3>0, ActiveRequest DEF Snapshots, Deciding, Request
    <3>2. req[q].t = t => Req(q) \in stale
      BY <2>1, <3>1 DEF RequestSnapshot
    <3> QED BY <2>1, <3>1, <3>2 DEF RequestSnapshot, Req, TypeOK
  <2>4. RequestSnapshot(p)'
    BY <1>24 DEF CreateTicket, Start, RequestSnapshot, Deciding, TypeOK
  <2>5. \A u \in Tickets : ExpirySnapshot(u)' /\ ClosingSnapshot(u)'
    BY <2>1 DEF Snapshots, ExpirySnapshot, ClosingSnapshot, TypeOK
  <2>6. InTrash
    BY <2>1, <2>2 DEF Snapshots, TypeOK
  <2> QED BY <2>3, <2>4, <2>5, <2>6 DEF Snapshots
<1>25. ASSUME NEW t \in Tickets, ForceReopen(t) PROVE Snapshots'
  <2>1. Considerate(NoOne) /\ InTrash
    BY <1>25 DEF ForceReopen, Considerate, NoOne, Snapshots, TypeOK, Alive
  <2> QED BY <1>25, <2>1, OthersStepKeepsSnapshots DEF ForceReopen, sweeps
<1>26. ASSUME NEW t \in Tickets, NEW d \in BOOLEAN, SetDeleted(t, d) PROVE Snapshots'
  <2>1. Considerate(NoOne) /\ InTrash
    BY <1>26 DEF SetDeleted, Considerate, NoOne, Snapshots, TypeOK, row
  <2> QED BY <1>26, <2>1, OthersStepKeepsSnapshots DEF SetDeleted, sweeps
<1>27. ASSUME SlaBreach PROVE Snapshots'
  <2>1. Considerate(NoOne) /\ InTrash
    BY <1>27 DEF SlaBreach, Considerate, NoOne, Snapshots, TypeOK, row, history
  <2> QED BY <1>27, <2>1, OthersStepKeepsSnapshots DEF SlaBreach, sweeps
<1>28. ASSUME NEW t \in Tickets, DeadlinePasses(t) PROVE Snapshots'
  <2>1. Considerate(NoOne) /\ InTrash
    BY <1>28 DEF DeadlinePasses, Considerate, NoOne, Snapshots, TypeOK, row, history
  <2> QED BY <1>28, <2>1, OthersStepKeepsSnapshots DEF DeadlinePasses, sweeps
<1>29. ASSUME NEW t \in Tickets, ApprovalLapses(t) PROVE Snapshots'
  <2>1. Considerate(NoOne) /\ InTrash
    BY <1>29 DEF ApprovalLapses, Considerate, NoOne, Snapshots, TypeOK, row, history
  <2> QED BY <1>29, <2>1, OthersStepKeepsSnapshots DEF ApprovalLapses, sweeps
<1>30. ASSUME StartWaiting PROVE Snapshots'
  <2>1. Considerate(NoOne) /\ InTrash
    BY <1>30 DEF StartWaiting, Considerate, NoOne, Snapshots, TypeOK, row, history
  <2> QED BY <1>30, <2>1, OthersStepKeepsSnapshots DEF StartWaiting, sweeps
<1>31. ASSUME NEW t \in Tickets, WaitingEscalates(t) PROVE Snapshots'
  <2>1. Considerate(<<"waiting", t>>) /\ InTrash
    BY <1>31 DEF WaitingEscalates, Considerate, Snapshots, TypeOK, Ends
  <2>2. \A p \in Procs : <<"waiting", t>> # Req(p)
    BY DEF Req
  <2>3. \A u \in Tickets : ExpirySnapshot(u)' /\ ClosingSnapshot(u)'
    BY <1>31, <2>1, OthersKeepSnapshots DEF WaitingEscalates
  <2> QED BY <1>31, <2>1, <2>2, <2>3, SweepKeepsSnapshots DEF WaitingEscalates
<1>32. ASSUME StartExpiry PROVE Snapshots'
  <2>1. Considerate(NoOne) /\ InTrash
    BY <1>32 DEF StartExpiry, Considerate, Snapshots, TypeOK, row, history
  <2>2. \A p \in Procs : NoOne # Req(p)
    BY DEF Req, NoOne
  <2>3. \A u \in Tickets : NoOne # <<"closing", u>>
    BY DEF NoOne
  <2>4. \A u \in Tickets : ClosingSnapshot(u)'
    BY <1>32, <2>1, <2>3, OthersKeepSnapshots DEF StartExpiry
  <2>5. \A u \in Tickets : ExpirySnapshot(u)'
    BY <1>32 DEF StartExpiry, ExpirySnapshot, NoExpiry, Lapsed, Alive, row, history
  <2> QED BY <1>32, <2>1, <2>2, <2>4, <2>5, SweepKeepsSnapshots DEF StartExpiry
<1>33. ASSUME StartAutoClose PROVE Snapshots'
  <2>1. Considerate(NoOne) /\ InTrash
    BY <1>33 DEF StartAutoClose, Considerate, Snapshots, TypeOK, row, history
  <2>2. \A p \in Procs : NoOne # Req(p)
    BY DEF Req, NoOne
  <2>3. \A u \in Tickets : NoOne # <<"expiry", u>>
    BY DEF NoOne
  <2>4. \A u \in Tickets : ExpirySnapshot(u)'
    BY <1>33, <2>1, <2>3, OthersKeepSnapshots DEF StartAutoClose
  <2>5. \A u \in Tickets : ClosingSnapshot(u)'
    BY <1>33 DEF StartAutoClose, ClosingSnapshot, Targets, Alive, row, history
  <2> QED BY <1>33, <2>1, <2>2, <2>4, <2>5, SweepKeepsSnapshots DEF StartAutoClose
<1>34. ASSUME NEW t \in Tickets, ExpiryCloses(t) PROVE Snapshots'
  <2>1. Considerate(<<"expiry", t>>)
    BY <1>34 DEF ExpiryCloses, Considerate, TypeOK, ExpiryMoves
  <2>2. InTrash
    BY <1>34 DEF ExpiryCloses, Snapshots, TypeOK, Targets, Working, row
  <2>3. \A p \in Procs : <<"expiry", t>> # Req(p)
    BY DEF Req
  <2>4. \A u \in Tickets : <<"closing", u>> # <<"expiry", t>> /\ (u # t => <<"expiry", u>> # <<"expiry", t>>)
    OBVIOUS
  <2>5. \A u \in Tickets : ClosingSnapshot(u)'
    BY <1>34, <2>1, <2>4, OthersKeepSnapshots DEF ExpiryCloses
  <2>6. \A u \in Tickets \ {t} : expiry'[u] = expiry[u]
    BY <1>34 DEF ExpiryCloses, NextExpiryItem, TypeOK
  <2>7. \A u \in Tickets \ {t} : ExpirySnapshot(u)'
    BY <2>1, <2>4, <2>6, OthersKeepSnapshots
  <2>8. ExpirySnapshot(t)'
    <3>1. CASE expiry[t].n = 1
      BY <1>34, <3>1 DEF ExpiryCloses, NextExpiryItem, ExpirySnapshot, TypeOK, NoExpiry
    <3>2. CASE expiry[t].n # 1
      <4>1. expiry[t] \in ExpiryItem /\ expiry'[t] = [expiry[t] EXCEPT !.n = expiry[t].n - 1]
        BY <1>34, <3>2 DEF ExpiryCloses, NextExpiryItem, TypeOK
      <4>2. expiry'[t].from = expiry[t].from /\ expiry[t].from \in Approval
        BY <1>34, <4>1 DEF ExpiryCloses, ExpiryItem, Snapshots, ExpirySnapshot
      <4>3. <<"expiry", t>> \in stale'
        BY <1>34, <3>2, WhoReads DEF ExpiryCloses, ExpiryMoves
      <4> QED BY <4>2, <4>3 DEF ExpirySnapshot, Snapshots
    <3> QED BY <3>1, <3>2
  <2> QED BY <1>34, <2>1, <2>2, <2>3, <2>5, <2>7, <2>8, SweepKeepsSnapshots DEF ExpiryCloses
<1>35. ASSUME NEW t \in Tickets, ExpiryReopens(t) PROVE Snapshots'
  <2>1. Considerate(<<"expiry", t>>)
    BY <1>35 DEF ExpiryReopens, Considerate, TypeOK, ExpiryMoves
  <2>2. InTrash
    BY <1>35 DEF ExpiryReopens, Snapshots, TypeOK, Targets, Working, row
  <2>3. \A p \in Procs : <<"expiry", t>> # Req(p)
    BY DEF Req
  <2>4. \A u \in Tickets : <<"closing", u>> # <<"expiry", t>> /\ (u # t => <<"expiry", u>> # <<"expiry", t>>)
    OBVIOUS
  <2>5. \A u \in Tickets : ClosingSnapshot(u)'
    BY <1>35, <2>1, <2>4, OthersKeepSnapshots DEF ExpiryReopens
  <2>6. \A u \in Tickets \ {t} : expiry'[u] = expiry[u]
    BY <1>35 DEF ExpiryReopens, NextExpiryItem, TypeOK
  <2>7. \A u \in Tickets \ {t} : ExpirySnapshot(u)'
    BY <2>1, <2>4, <2>6, OthersKeepSnapshots
  <2>8. ExpirySnapshot(t)'
    <3>1. CASE expiry[t].n = 1
      BY <1>35, <3>1 DEF ExpiryReopens, NextExpiryItem, ExpirySnapshot, TypeOK, NoExpiry
    <3>2. CASE expiry[t].n # 1
      <4>1. expiry[t] \in ExpiryItem /\ expiry'[t] = [expiry[t] EXCEPT !.n = expiry[t].n - 1]
        BY <1>35, <3>2 DEF ExpiryReopens, NextExpiryItem, TypeOK
      <4>2. expiry'[t].from = expiry[t].from /\ expiry[t].from \in Approval
        BY <1>35, <4>1 DEF ExpiryReopens, ExpiryItem, Snapshots, ExpirySnapshot
      <4>3. <<"expiry", t>> \in stale'
        BY <1>35, <3>2, WhoReads DEF ExpiryReopens, ExpiryMoves
      <4> QED BY <4>2, <4>3 DEF ExpirySnapshot, Snapshots
    <3> QED BY <3>1, <3>2
  <2> QED BY <1>35, <2>1, <2>2, <2>3, <2>5, <2>7, <2>8, SweepKeepsSnapshots DEF ExpiryReopens
<1>36. ASSUME NEW t \in Tickets, ExpirySkips(t) PROVE Snapshots'
  <2>1. Considerate(<<"expiry", t>>)
    BY <1>36 DEF ExpirySkips, Considerate, TypeOK, Ends, row
  <2>2. InTrash
    BY <1>36 DEF ExpirySkips, Snapshots, TypeOK, Targets, Working, row
  <2>3. \A p \in Procs : <<"expiry", t>> # Req(p)
    BY DEF Req
  <2>4. \A u \in Tickets : <<"closing", u>> # <<"expiry", t>> /\ (u # t => <<"expiry", u>> # <<"expiry", t>>)
    OBVIOUS
  <2>5. \A u \in Tickets : ClosingSnapshot(u)'
    BY <1>36, <2>1, <2>4, OthersKeepSnapshots DEF ExpirySkips
  <2>6. \A u \in Tickets \ {t} : expiry'[u] = expiry[u]
    BY <1>36 DEF ExpirySkips, NextExpiryItem, TypeOK
  <2>7. \A u \in Tickets \ {t} : ExpirySnapshot(u)'
    BY <2>1, <2>4, <2>6, OthersKeepSnapshots
  <2>8. ExpirySnapshot(t)'
    <3>1. CASE expiry[t].n = 1
      BY <1>36, <3>1 DEF ExpirySkips, NextExpiryItem, ExpirySnapshot, TypeOK, NoExpiry
    <3>2. CASE expiry[t].n # 1
      <4>1. expiry[t] \in ExpiryItem /\ expiry'[t] = [expiry[t] EXCEPT !.n = expiry[t].n - 1]
        BY <1>36, <3>2 DEF ExpirySkips, NextExpiryItem, TypeOK
      <4>2. expiry'[t].from = expiry[t].from /\ expiry[t].from \in Approval
        BY <1>36, <4>1 DEF ExpirySkips, ExpiryItem, Snapshots, ExpirySnapshot
      <4>3. expiry[t].n > 0 /\ UNCHANGED <<stale, st, deleted>>
        BY <1>36, <3>2, WhoReads DEF ExpirySkips, row
      <4> QED BY <4>2, <4>3 DEF ExpirySnapshot, Snapshots
    <3> QED BY <3>1, <3>2
  <2> QED BY <1>36, <2>1, <2>2, <2>3, <2>5, <2>7, <2>8, SweepKeepsSnapshots DEF ExpirySkips
<1>37. ASSUME NEW t \in Tickets, AutoClose(t) PROVE Snapshots'
  <2>1. Considerate(<<"closing", t>>)
    BY <1>37 DEF AutoClose, Considerate, TypeOK, MovesAndEnds
  <2>2. InTrash
    BY <1>37 DEF AutoClose, Snapshots, TypeOK
  <2>3. \A p \in Procs : <<"closing", t>> # Req(p)
    BY DEF Req
  <2>4. \A u \in Tickets : ExpirySnapshot(u)'
    BY <1>37, <2>1, OthersKeepSnapshots DEF AutoClose
  <2>5. \A u \in Tickets : ClosingSnapshot(u)'
    BY <1>37, <2>1, OthersKeepSnapshots DEF AutoClose, ClosingSnapshot, TypeOK
  <2> QED BY <1>37, <2>1, <2>2, <2>3, <2>4, <2>5, SweepKeepsSnapshots DEF AutoClose
<1>38. ASSUME Restart PROVE Snapshots'
  BY <1>38 DEF Restart, Snapshots, RequestSnapshot, ExpirySnapshot, ClosingSnapshot, Deciding, Idle, NoExpiry, row
<1>39. ASSUME UNCHANGED vars PROVE Snapshots'
  BY <1>39 DEF vars, row, sweeps, history, Snapshots, RequestSnapshot, ExpirySnapshot, ClosingSnapshot, Req
<1>40. ASSUME NEW t \in Tickets, AutoCloseFails(t) PROVE Snapshots'
  <2>1. Considerate(<<"closing", t>>) /\ InTrash
    BY <1>40 DEF AutoCloseFails, Considerate, Snapshots, TypeOK, Ends, row
  <2>2. \A p \in Procs : <<"closing", t>> # Req(p)
    BY DEF Req
  <2>3. \A u \in Tickets : ExpirySnapshot(u)'
    BY <1>40, <2>1, OthersKeepSnapshots DEF AutoCloseFails
  <2>4. \A u \in Tickets : ClosingSnapshot(u)'
    BY <1>40, <2>1, OthersKeepSnapshots DEF AutoCloseFails, ClosingSnapshot, TypeOK
  <2> QED BY <1>40, <2>1, <2>2, <2>3, <2>4, SweepKeepsSnapshots DEF AutoCloseFails
<1>41. ASSUME NEW t \in Tickets, WaitingFails(t) PROVE Snapshots'
  <2>1. Considerate(<<"waiting", t>>) /\ InTrash
    BY <1>41 DEF WaitingFails, Considerate, Snapshots, TypeOK, Ends, row
  <2>2. \A p \in Procs : <<"waiting", t>> # Req(p)
    BY DEF Req
  <2>3. \A u \in Tickets : ExpirySnapshot(u)' /\ ClosingSnapshot(u)'
    BY <1>41, <2>1, OthersKeepSnapshots DEF WaitingFails
  <2> QED BY <1>41, <2>1, <2>2, <2>3, SweepKeepsSnapshots DEF WaitingFails
<1> QED
  BY <1>1, <1>2, <1>3, <1>4, <1>5, <1>6, <1>7, <1>8, <1>9, <1>10, <1>11, <1>12, <1>13, <1>14, <1>15, <1>16, <1>17, <1>18, <1>19, <1>20, <1>21, <1>22, <1>23, <1>24, <1>25, <1>26, <1>27, <1>28, <1>29, <1>30, <1>31, <1>32, <1>33, <1>34, <1>35, <1>36, <1>37, <1>38, <1>39, <1>40, <1>41
  DEF Next, Continue, Read, ExpiryStep

\* Types and snapshots hold throughout.
LEMMA SnapshotsCorrect == Spec => [](TypeOK /\ Snapshots)
<1>1. Init => TypeOK /\ Snapshots
  BY InitTypeOK, InitSnapshots
<1>2. TypeOK /\ Snapshots /\ [Next]_vars => (TypeOK /\ Snapshots)'
  BY NextTypeOK, NextSnapshots
<1> QED BY <1>1, <1>2, PTL DEF Spec

-----------------------------------------------------------------------------
(* Who moves a ticket, and from where *)

\* A move of ticket t that its workflow allows and that finds it alive, or one
\* that is recorded as a write on a stale read.
Accountable(t) == (MoveAllowed(t) /\ ~deleted[t]) \/ t \in overwritten'

\* A handler at the statement that moves its ticket to req.to.
LEMMA DeciderIsAccountable ==
  ASSUME TypeOK, Snapshots, NEW p \in Procs, req[p].pc \in Deciding,
         st' = [st EXCEPT ![req[p].t] = req[p].to], Blames(Req(p), req[p].t),
         NEW t \in Tickets, st'[t] # st[t]
  PROVE  Accountable(t)
<1>1. req[p] \in Request /\ RequestSnapshot(p)
  BY ActiveRequest DEF Deciding, Snapshots
<1>2. t = req[p].t /\ st'[t] = req[p].to
  BY <1>1 DEF Request, TypeOK
<1> QED BY <1>1, <1>2 DEF RequestSnapshot, Accountable, MoveAllowed, Blames

\* Every move of a ticket is accounted for: one step per action that moves one.
LEMMA MovesAreAccountable ==
  ASSUME TypeOK, Snapshots, [Next]_vars, NEW t \in Tickets, st'[t] # st[t]
  PROVE  Accountable(t)
<1> USE NoneAssumption
<1>1. ASSUME NEW p \in Procs, NEW u \in Tickets, CreateTicket(p, u) PROVE Accountable(t)
  BY <1>1 DEF CreateTicket, Accountable, MoveAllowed, Snapshots, TypeOK
<1>2. ASSUME NEW p \in Procs, CommitTransition(p) PROVE Accountable(t)
  BY <1>2, DeciderIsAccountable DEF CommitTransition, At, Deciding
<1>3. ASSUME NEW p \in Procs, ApproveClose(p) PROVE Accountable(t)
  BY <1>3, DeciderIsAccountable DEF ApproveClose, At, Deciding
<1>4. ASSUME NEW p \in Procs, RejectReopen(p) PROVE Accountable(t)
  BY <1>4, DeciderIsAccountable DEF RejectReopen, At, Deciding
<1>5. ASSUME NEW u \in Tickets, ForceReopen(u) PROVE Accountable(t)
  BY <1>5 DEF ForceReopen, Accountable, MoveAllowed, Alive, TypeOK
<1>6. ASSUME NEW u \in Tickets, ExpiryCloses(u) PROVE Accountable(t)
  <2>1. PICK to \in Targets(expiry[u].from, Final) : st' = [st EXCEPT ![u] = to]
    BY <1>6 DEF ExpiryCloses
  <2>2. t = u /\ st'[t] = to
    BY <2>1 DEF TypeOK
  <2> QED BY <1>6, <2>1, <2>2 DEF ExpiryCloses, Targets, Snapshots, ExpirySnapshot, Accountable, MoveAllowed, Blames
<1>7. ASSUME NEW u \in Tickets, ExpiryReopens(u) PROVE Accountable(t)
  <2>1. PICK to \in Targets(expiry[u].from, Working) : st' = [st EXCEPT ![u] = to]
    BY <1>7 DEF ExpiryReopens
  <2>2. t = u /\ st'[t] = to
    BY <2>1 DEF TypeOK
  <2> QED BY <1>7, <2>1, <2>2 DEF ExpiryReopens, Targets, Snapshots, ExpirySnapshot, Accountable, MoveAllowed, Blames
<1>8. ASSUME NEW u \in Tickets, AutoClose(u) PROVE Accountable(t)
  BY <1>8 DEF AutoClose, Snapshots, ClosingSnapshot, Accountable, MoveAllowed, Blames, TypeOK
<1>9. ASSUME NEW p \in Procs, NEW u \in Tickets,
             ReadTransition(p, u) \/ ReadBulkClose(p, u) \/ ReadApprove(p, u)
               \/ ReadReject(p, u) \/ ReadAssign(p, u)
      PROVE  Accountable(t)
  BY <1>9 DEF ReadTransition, ReadBulkClose, ReadApprove, ReadReject, ReadAssign, row
<1>10. ASSUME NEW p \in Procs,
              \/ CreateClock(p) \/ CreateAssign(p)
              \/ RereadBulkClose(p) \/ PassBlocksGuard(p) \/ RefuseBlocked(p)
              \/ ApproveRelease(p) \/ ApproveSign(p) \/ ApproveResume(p) \/ ApproveVerdict(p)
              \/ RejectFails(p) \/ RejectRefuse(p) \/ RejectResume(p)
              \/ DemoteOwner(p) \/ InsertAssignment(p) \/ RequestFails(p)
       PROVE  Accountable(t)
  BY <1>10
  DEF CreateClock, CreateAssign, RereadBulkClose, PassBlocksGuard, RefuseBlocked, ApproveRelease,
      ApproveSign, ApproveResume, ApproveVerdict, RejectFails, RejectRefuse, RejectResume,
      DemoteOwner, InsertAssignment, RequestFails, row
<1>11. ASSUME NEW u \in Tickets,
              \/ SetDeleted(u, TRUE) \/ SetDeleted(u, FALSE) \/ ExpirySkips(u)
              \/ AutoCloseFails(u) \/ WaitingFails(u)
              \/ WaitingEscalates(u) \/ DeadlinePasses(u) \/ ApprovalLapses(u)
       PROVE  Accountable(t)
  BY <1>11 DEF SetDeleted, ExpirySkips, AutoCloseFails, WaitingFails, WaitingEscalates, DeadlinePasses,
      ApprovalLapses, row
<1>12. ASSUME StartExpiry \/ StartAutoClose \/ StartWaiting \/ SlaBreach \/ Restart \/ UNCHANGED vars
       PROVE  Accountable(t)
  BY <1>12 DEF StartExpiry, StartAutoClose, StartWaiting, SlaBreach, Restart, vars, row
<1> QED
  BY <1>1, <1>2, <1>3, <1>4, <1>5, <1>6, <1>7, <1>8, <1>9, <1>10, <1>11, <1>12
  DEF Next, Continue, Read, ExpiryStep

\* A ticket moves along an edge of its workflow or by a forced reopening; any
\* other move comes from a handler whose read was out of date: FollowsWorkflow.
THEOREM WorkflowFollowed == Spec => FollowsWorkflow
<1>1. TypeOK /\ Snapshots /\ [Next]_vars
        => [\A t \in Tickets : st'[t] # st[t] => MoveAllowed(t) \/ t \in overwritten']_vars
  BY MovesAreAccountable DEF Accountable
<1> QED BY <1>1, SnapshotsCorrect, PTL DEF Spec, FollowsWorkflow

\* A ticket in the trash stays where it is unless a handler had read it before
\* it was deleted: TrashIsInert.
THEOREM TrashStaysInert == Spec => TrashIsInert
<1>1. TypeOK /\ Snapshots /\ [Next]_vars
        => [\A t \in Tickets : deleted[t] /\ st'[t] # st[t] => t \in overwritten']_vars
  BY MovesAreAccountable DEF Accountable
<1> QED BY <1>1, SnapshotsCorrect, PTL DEF Spec, TrashIsInert

-----------------------------------------------------------------------------
(* The reopening limit *)

\* The reopening limit as an invariant: the count, and every count read by a
\* rejection that is still to be written.
Limits == ReopenBounded /\ RejectsBelowLimit

\* A handler that goes on changes no other, and is then at its next statement.
LEMMA GoesOn ==
  ASSUME TypeOK, NEW p \in Procs, NEW pc, Goto(p, pc)
  PROVE  \A q \in Procs : req'[q] = req[q] \/ req'[q].pc = pc
BY DEF TypeOK, Goto, Request, Idle

\* Every step keeps the limits.
LEMMA StepKeepsLimits ==
  ASSUME \A s \in Approval : Targets(s, Final) # {},
         TypeOK, Snapshots, Limits, [Next]_vars
  PROVE  Limits'
<1> USE BoundsAssumption
<1>1. ASSUME NEW p \in Procs, NEW t \in Tickets, ReadReject(p, t) PROVE Limits'
  <2>1. reprocess[t] < MaxReopen /\ req'[p].count = reprocess[t] /\ UNCHANGED reprocess
    BY <1>1 DEF ReadReject, ReopensLeft, Start, TypeOK, row
  <2>2. \A q \in Procs \ {p} : req'[q] = req[q]
    BY <1>1 DEF ReadReject, Start, TypeOK
  <2> QED BY <2>1, <2>2 DEF Limits, ReopenBounded, RejectsBelowLimit
<1>2. ASSUME NEW p \in Procs, RejectReopen(p) PROVE Limits'
  <2>1. req[p].count < MaxReopen /\ req[p] \in Request
    BY <1>2, ActiveRequest DEF RejectReopen, At, Limits, RejectsBelowLimit
  <2>2. reprocess' = [reprocess EXCEPT ![req[p].t] = req[p].count + 1]
    BY <1>2 DEF RejectReopen
  <2>3. ReopenBounded'
    BY <2>1, <2>2 DEF Limits, ReopenBounded, Request, TypeOK
  <2>4. \A q \in Procs : req'[q] = req[q] \/ req'[q].pc = "refuse"
    BY <1>2, <2>1 DEF RejectReopen, Goto, Request, TypeOK
  <2> QED BY <2>3, <2>4 DEF Limits, RejectsBelowLimit
<1>3. ASSUME NEW t \in Tickets, ForceReopen(t) PROVE Limits'
  BY <1>3 DEF ForceReopen, ReopensLeft, Limits, ReopenBounded, RejectsBelowLimit, TypeOK
<1>4. ASSUME NEW t \in Tickets, ExpiryReopens(t) PROVE Limits'
  <2>1. expiry[t].n > 0 /\ expiry[t].from \in Approval
    BY <1>4 DEF ExpiryReopens, Snapshots, ExpirySnapshot
  <2>2. expiry[t] \in ExpiryItem /\ ~LastReopen(t)
    BY <1>4, <2>1 DEF ExpiryReopens, TypeOK
  <2>3. expiry[t].count \in Nat /\ expiry[t].count + 1 <= MaxReopen
    BY <2>2 DEF ExpiryItem, LastReopen
  <2>4. reprocess' = [reprocess EXCEPT ![t] = expiry[t].count + 1] /\ UNCHANGED req
    BY <1>4 DEF ExpiryReopens
  <2> QED BY <2>3, <2>4 DEF Limits, ReopenBounded, RejectsBelowLimit, TypeOK
<1> DEFINE Keeps == UNCHANGED reprocess /\ \A q \in Procs : req'[q] = req[q] \/ req'[q].pc # "reopen"
<1>5. ASSUME NEW p \in Procs, NEW t \in Tickets, CreateTicket(p, t) \/ ReadAssign(p, t)
      PROVE  Keeps
  BY <1>5 DEF CreateTicket, ReadAssign, Start, TypeOK, row
<1>6. ASSUME NEW p \in Procs, NEW t \in Tickets, ReadTransition(p, t) \/ ReadBulkClose(p, t) \/ ReadApprove(p, t)
      PROVE  Keeps
  BY <1>6 DEF ReadTransition, ReadBulkClose, ReadApprove, AfterRead, Start, TypeOK, row
<1>7. ASSUME NEW p \in Procs, CreateAssign(p) \/ RefuseBlocked(p) \/ CommitTransition(p) \/ ApproveVerdict(p)
      PROVE  Keeps
  BY <1>7 DEF CreateAssign, RefuseBlocked, CommitTransition, ApproveVerdict, Return, Idle, TypeOK, row
<1>8. ASSUME NEW p \in Procs, RejectFails(p) \/ RejectResume(p) \/ InsertAssignment(p) \/ RequestFails(p)
      PROVE  Keeps
  BY <1>8 DEF RejectFails, RejectResume, InsertAssignment, RequestFails, Return, Idle, TypeOK, row
<1>9. ASSUME NEW p \in Procs, CreateClock(p) \/ RereadBulkClose(p) \/ PassBlocksGuard(p)
      PROVE  Keeps
  BY <1>9, GoesOn DEF CreateClock, RereadBulkClose, PassBlocksGuard, Return, Idle, TypeOK, row
<1>10. ASSUME NEW p \in Procs, ApproveClose(p) \/ ApproveRelease(p) \/ ApproveSign(p) \/ ApproveResume(p)
      PROVE  Keeps
  BY <1>10, GoesOn DEF ApproveClose, ApproveRelease, ApproveSign, ApproveResume, TypeOK, row
<1>11. ASSUME NEW p \in Procs, RejectRefuse(p) \/ DemoteOwner(p)
      PROVE  Keeps
  BY <1>11, GoesOn DEF RejectRefuse, DemoteOwner, TypeOK, row
<1>12. ASSUME NEW t \in Tickets, SetDeleted(t, TRUE) \/ SetDeleted(t, FALSE) \/ ExpiryCloses(t) \/ ExpirySkips(t) \/ AutoClose(t)
      PROVE  Keeps
  BY <1>12 DEF SetDeleted, ExpiryCloses, ExpirySkips, AutoClose, row
<1>13. ASSUME NEW t \in Tickets, WaitingEscalates(t) \/ DeadlinePasses(t) \/ ApprovalLapses(t)
               \/ AutoCloseFails(t) \/ WaitingFails(t)
      PROVE  Keeps
  BY <1>13 DEF WaitingEscalates, DeadlinePasses, ApprovalLapses, AutoCloseFails, WaitingFails, row
<1>14. ASSUME StartExpiry \/ StartAutoClose \/ StartWaiting \/ SlaBreach \/ Restart \/ UNCHANGED vars
      PROVE  Keeps
  BY <1>14 DEF StartExpiry, StartAutoClose, StartWaiting, SlaBreach, Restart, Idle, vars, row
<1>15. Keeps => Limits'
  BY DEF Limits, ReopenBounded, RejectsBelowLimit
<1> QED
  BY <1>1, <1>2, <1>3, <1>4, <1>5, <1>6, <1>7, <1>8, <1>9, <1>10, <1>11, <1>12, <1>13, <1>14, <1>15
  DEF Next, Continue, Read, ExpiryStep

\* However rejections, forced reopenings and expiries interleave, no ticket is
\* reopened more often than its module allows, provided every approval state
\* has a way to close (expiry closes instead of the last reopening only where
\* there is one): ReopenBounded.
THEOREM ReopeningsBounded ==
  ASSUME \A s \in Approval : Targets(s, Final) # {}
  PROVE  Spec => []ReopenBounded
<1>1. Init => Limits
  BY BoundsAssumption DEF Init, Limits, ReopenBounded, RejectsBelowLimit, Idle
<1>2. TypeOK /\ Snapshots /\ Limits /\ [Next]_vars => Limits'
  BY StepKeepsLimits
<1>3. Limits => ReopenBounded
  BY DEF Limits
<1> QED BY <1>1, <1>2, <1>3, SnapshotsCorrect, PTL DEF Spec

(***************************************************************************)
(* The clock, the approvals and the assignments                            *)
(***************************************************************************)
-----------------------------------------------------------------------------
(* Assignments *)

\* The unique index holds for one ticket at a time.
LEMMA InsertKeepsOneOwner ==
  ASSUME TypeOK, OneOwner, NEW t \in Tickets, NEW a \in Assignment, Insert(t, a)
  PROVE  OneOwner'
BY DEF TypeOK, OneOwner, Insert, HasOwner

\* Taking assignments away cannot break it.
LEMMA FewerKeepOneOwner ==
  ASSUME OneOwner, \A t \in Tickets : assigned'[t] \subseteq assigned[t]
  PROVE  OneOwner'
BY DEF OneOwner

LEMMA NextOneOwner == TypeOK /\ OneOwner /\ [Next]_vars => OneOwner'
<1> SUFFICES ASSUME TypeOK, OneOwner, [Next]_vars PROVE OneOwner'
  OBVIOUS
<1>0. \A p \in Procs : req[p].pc # "done" => req[p] \in Request /\ req[p].t \in Tickets
  BY ActiveRequest DEF Request
<1> DEFINE Fewer == \A t \in Tickets : assigned'[t] \subseteq assigned[t]
<1>1. ASSUME NEW p \in Procs, CreateAssign(p) PROVE OneOwner'
  <2>1. CASE UNCHANGED assigned
    BY <2>1 DEF OneOwner
  <2>2. ASSUME NEW u \in Techs, Insert(req[p].t, [user |-> u, role |-> "owner"]) PROVE OneOwner'
    <3>1. [user |-> u, role |-> "owner"] \in Assignment
      BY DEF Assignment, AssignRoles
    <3>2. req[p].t \in Tickets
      BY <1>0, <1>1 DEF CreateAssign, At
    <3> QED BY <2>2, <3>1, <3>2, InsertKeepsOneOwner
  <2> QED BY <1>1, <2>1, <2>2 DEF CreateAssign
<1>2. ASSUME NEW p \in Procs, InsertAssignment(p) PROVE OneOwner'
  <2>1. req[p].t \in Tickets /\ req[p].who \in Assignment
    BY <1>0, <1>2 DEF InsertAssignment, At, TypeOK
  <2> QED BY <1>2, <2>1, InsertKeepsOneOwner DEF InsertAssignment
<1>3. ASSUME NEW p \in Procs, CommitTransition(p) \/ ApproveRelease(p) \/ DemoteOwner(p) PROVE Fewer
  <2>1. CASE CommitTransition(p)
    BY <2>1 DEF CommitTransition, TypeOK
  <2>2. CASE ApproveRelease(p)
    BY <2>2 DEF ApproveRelease, TypeOK
  <2>3. CASE DemoteOwner(p)
    <3>1. assigned' = [assigned EXCEPT ![req[p].t] = {a \in assigned[req[p].t] : a.role # "owner"}]
      BY <2>3 DEF DemoteOwner
    <3>2. {a \in assigned[req[p].t] : a.role # "owner"} \subseteq assigned[req[p].t]
      OBVIOUS
    <3> QED BY <3>1, <3>2 DEF TypeOK
  <2> QED BY <1>3, <2>1, <2>2, <2>3
<1>4. ASSUME NEW t \in Tickets, ExpiryCloses(t) \/ AutoClose(t) PROVE Fewer
  BY <1>4 DEF ExpiryCloses, AutoClose, TypeOK
<1>5. ASSUME NEW p \in Procs, NEW t \in Tickets, Read(p, t) PROVE Fewer
  BY <1>5 DEF Read, CreateTicket, ReadTransition, ReadBulkClose, ReadApprove, ReadReject, ReadAssign
<1>6. ASSUME NEW p \in Procs,
             \/ CreateClock(p) \/ RereadBulkClose(p) \/ PassBlocksGuard(p) \/ RefuseBlocked(p)
             \/ ApproveClose(p) \/ ApproveSign(p) \/ ApproveResume(p) \/ ApproveVerdict(p)
             \/ RejectReopen(p) \/ RejectFails(p) \/ RejectRefuse(p) \/ RejectResume(p)
             \/ RequestFails(p)
      PROVE  Fewer
  BY <1>6 DEF CreateClock, RereadBulkClose, PassBlocksGuard, RefuseBlocked, ApproveClose, ApproveSign,
              ApproveResume, ApproveVerdict, RejectReopen, RejectFails, RejectRefuse, RejectResume, RequestFails
<1>7. ASSUME NEW t \in Tickets,
             \/ ForceReopen(t) \/ SetDeleted(t, TRUE) \/ SetDeleted(t, FALSE) \/ ExpiryReopens(t)
             \/ ExpirySkips(t) \/ AutoCloseFails(t) \/ WaitingEscalates(t) \/ WaitingFails(t)
             \/ DeadlinePasses(t) \/ ApprovalLapses(t)
      PROVE  Fewer
  BY <1>7 DEF ForceReopen, SetDeleted, ExpiryReopens, ExpirySkips, AutoCloseFails, WaitingEscalates,
              WaitingFails, DeadlinePasses, ApprovalLapses
<1>8. ASSUME StartExpiry \/ StartAutoClose \/ StartWaiting \/ SlaBreach \/ Restart \/ UNCHANGED vars
      PROVE  Fewer
  BY <1>8 DEF StartExpiry, StartAutoClose, StartWaiting, SlaBreach, Restart, vars
<1>9. Fewer => OneOwner'
  BY FewerKeepOneOwner
<1> QED
  BY <1>1, <1>2, <1>3, <1>4, <1>5, <1>6, <1>7, <1>8, <1>9 DEF Next, Continue, ExpiryStep

\* However creations and reassignments race, no ticket has two owners.
THEOREM OwnersUnique == Spec => []OneOwner
<1>1. Init => OneOwner
  BY DEF Init, OneOwner
<1> QED BY <1>1, InitTypeOK, NextTypeOK, NextOneOwner, PTL DEF Spec

-----------------------------------------------------------------------------
(* Deadlines *)

\* A clock that was late when it stopped has stayed late, and none is late
\* before it runs.
HeldLate(c) == (c.status = "none" => ~c.late) /\ (c.status = "paused" /\ c.heldLate => c.late)
HeldIsLate == \A t \in Tickets : HeldLate(clock[t])

Unforgiven(c, d) == HeldLate(d) /\ (Overrun(c) => Overrun(d))

\* No UPDATE forgives an overrun.
LEMMA UpdatesForgiveNothing ==
  ASSUME NEW c \in Clock, HeldLate(c)
  PROVE  /\ Unforgiven(c, c) /\ Unforgiven(c, Resumed(c)) /\ Unforgiven(c, Rearmed(c))
         /\ Unforgiven(c, Reactivated(c))
         /\ Unforgiven(c, Settled(c, {"active"}))
         /\ Unforgiven(c, Settled(c, {"active", "paused", "breached"}))
         /\ Unforgiven(c, Settled(Resumed(c), {"active"})) /\ Unforgiven(c, Suspended(Resumed(c)))
         /\ Unforgiven(c, ByDeadline(Resumed(c), "active"))
         /\ c.status = "none" => Unforgiven(c, [status |-> "active", late |-> FALSE, heldLate |-> FALSE])
         /\ c.status = "active" /\ c.late => Unforgiven(c, [c EXCEPT !.status = "breached"])
         /\ c.status # "none" => Unforgiven(c, [c EXCEPT !.late = TRUE])
<1>1. c.status \in {"none", "active", "paused", "met", "breached"} /\ c.late \in BOOLEAN /\ c.heldLate \in BOOLEAN
  BY DEF Clock, ClockStatus
<1>2. CASE c.status \in {"none", "met", "breached"}
  BY <1>1, <1>2 DEF Unforgiven, HeldLate, Overrun, Resumed, Rearmed, Reactivated, Settled, Suspended,
                    ByDeadline, Clock, ClockStatus
<1>3. CASE c.status = "active"
  BY <1>1, <1>3 DEF Unforgiven, HeldLate, Overrun, Resumed, Rearmed, Reactivated, Settled, Suspended,
                    ByDeadline, Clock, ClockStatus
<1>4. CASE c.status = "paused"
  BY <1>1, <1>4 DEF Unforgiven, HeldLate, Overrun, Resumed, Rearmed, Reactivated, Settled, Suspended,
                    ByDeadline, Clock, ClockStatus
<1> QED BY <1>1, <1>2, <1>3, <1>4

AllUnforgiven == \A t \in Tickets : Unforgiven(clock[t], clock'[t])

LEMMA NextUnforgiven == TypeOK /\ HeldIsLate /\ [Next]_vars => AllUnforgiven
<1> SUFFICES ASSUME TypeOK, HeldIsLate, [Next]_vars PROVE AllUnforgiven
  OBVIOUS
<1> USE UpdatesForgiveNothing DEF HeldIsLate
<1>0. \A t \in Tickets : clock[t] \in Clock /\ HeldLate(clock[t]) /\ Unforgiven(clock[t], clock[t])
  BY DEF TypeOK
<1>1. ASSUME NEW t \in Tickets, NEW d, clock' = [clock EXCEPT ![t] = d], Unforgiven(clock[t], d)
      PROVE  AllUnforgiven
  BY <1>0, <1>1 DEF AllUnforgiven, TypeOK
<1>2. ASSUME UNCHANGED clock PROVE AllUnforgiven
  BY <1>0, <1>2 DEF AllUnforgiven
<1>3. \A p \in Procs : req[p].pc # "done" => req[p].t \in Tickets
  BY ActiveRequest DEF Request
<1>4. ASSUME NEW p \in Procs, CreateClock(p) PROVE AllUnforgiven
  BY <1>0, <1>1, <1>3, <1>4 DEF CreateClock, At
<1>5. ASSUME NEW p \in Procs, CommitTransition(p) PROVE AllUnforgiven
  <2>1. req[p].t \in Tickets /\ clock[req[p].t] \in Clock /\ HeldLate(clock[req[p].t])
    BY <1>0, <1>3, <1>5 DEF CommitTransition, At
  <2> DEFINE c == Resumed(clock[req[p].t])
             d == IF req[p].to \in Final THEN Settled(c, {"active"})
                  ELSE IF req[p].to \in Pause THEN Suspended(c) ELSE c
  <2>2. Unforgiven(clock[req[p].t], d)
    BY <2>1
  <2>3. clock' = [clock EXCEPT ![req[p].t] = d]
    BY <1>5 DEF CommitTransition
  <2> HIDE DEF d
  <2> QED BY <1>1, <2>1, <2>2, <2>3
<1>6. ASSUME NEW p \in Procs, ApproveResume(p) \/ ApproveVerdict(p) \/ RejectResume(p) PROVE AllUnforgiven
  <2>1. req[p].t \in Tickets /\ clock[req[p].t] \in Clock /\ HeldLate(clock[req[p].t])
    BY <1>0, <1>3, <1>6 DEF ApproveResume, ApproveVerdict, RejectResume, At
  <2>2. CASE ApproveResume(p)
    BY <1>1, <2>1, <2>2 DEF ApproveResume
  <2>3. CASE ApproveVerdict(p)
    BY <1>1, <2>1, <2>3 DEF ApproveVerdict
  <2>4. CASE RejectResume(p)
    BY <1>1, <2>1, <2>4 DEF RejectResume
  <2> QED BY <1>6, <2>2, <2>3, <2>4
<1>7. ASSUME NEW t \in Tickets, ExpiryCloses(t) \/ ExpiryReopens(t) \/ AutoClose(t) \/ ForceReopen(t)
      PROVE  AllUnforgiven
  <2>1. CASE ExpiryCloses(t)
    BY <1>0, <1>1, <2>1 DEF ExpiryCloses
  <2>2. CASE ExpiryReopens(t)
    BY <1>0, <1>1, <2>2 DEF ExpiryReopens
  <2>3. CASE AutoClose(t)
    BY <1>0, <1>1, <2>3 DEF AutoClose
  <2>4. CASE ForceReopen(t)
    BY <1>0, <1>1, <2>4 DEF ForceReopen
  <2> QED BY <1>7, <2>1, <2>2, <2>3, <2>4
<1>8. ASSUME NEW t \in Tickets, DeadlinePasses(t) PROVE AllUnforgiven
  <2>1. clock' = [clock EXCEPT ![t] = [clock[t] EXCEPT !.late = TRUE]] /\ clock[t].status # "none"
    BY <1>8 DEF DeadlinePasses
  <2> QED BY <1>0, <1>1, <2>1
<1>9. ASSUME SlaBreach PROVE AllUnforgiven
  BY <1>0, <1>9 DEF SlaBreach, Overdue, AllUnforgiven
<1>10. ASSUME NEW p \in Procs, NEW t \in Tickets, Read(p, t) PROVE UNCHANGED clock
  BY <1>10 DEF Read, CreateTicket, ReadTransition, ReadBulkClose, ReadApprove, ReadReject, ReadAssign
<1>11. ASSUME NEW p \in Procs,
              \/ CreateAssign(p) \/ RereadBulkClose(p) \/ PassBlocksGuard(p) \/ RefuseBlocked(p)
              \/ ApproveClose(p) \/ ApproveRelease(p) \/ ApproveSign(p) \/ RejectReopen(p)
              \/ RejectFails(p) \/ RejectRefuse(p) \/ DemoteOwner(p) \/ InsertAssignment(p) \/ RequestFails(p)
       PROVE  UNCHANGED clock
  BY <1>11 DEF CreateAssign, RereadBulkClose, PassBlocksGuard, RefuseBlocked, ApproveClose, ApproveRelease,
               ApproveSign, RejectReopen, RejectFails, RejectRefuse, DemoteOwner, InsertAssignment, RequestFails
<1>12. ASSUME NEW t \in Tickets,
              \/ SetDeleted(t, TRUE) \/ SetDeleted(t, FALSE) \/ ExpirySkips(t) \/ AutoCloseFails(t)
              \/ WaitingEscalates(t) \/ WaitingFails(t) \/ ApprovalLapses(t)
       PROVE  UNCHANGED clock
  BY <1>12 DEF SetDeleted, ExpirySkips, AutoCloseFails, WaitingEscalates, WaitingFails, ApprovalLapses
<1>13. ASSUME StartExpiry \/ StartAutoClose \/ StartWaiting \/ Restart \/ UNCHANGED vars
       PROVE  UNCHANGED clock
  BY <1>13 DEF StartExpiry, StartAutoClose, StartWaiting, Restart, vars
<1> QED
  BY <1>2, <1>4, <1>5, <1>6, <1>7, <1>8, <1>9, <1>10, <1>11, <1>12, <1>13 DEF Next, Continue, ExpiryStep

\* A missed deadline is never forgiven, whoever writes the clock on whatever
\* read: no workflow and no interleaving turns it into one that can be met.
THEOREM OverrunForGood == Spec => OverrunStands
<1>1. Init => HeldIsLate
  BY DEF Init, HeldIsLate, HeldLate
<1>2. TypeOK /\ HeldIsLate /\ [Next]_vars => HeldIsLate'
  BY NextUnforgiven DEF AllUnforgiven, Unforgiven, HeldIsLate
<1>3. TypeOK /\ HeldIsLate /\ [Next]_vars =>
        [\A t \in Tickets : Overrun(clock[t]) => Overrun(clock'[t])]_vars
  BY NextUnforgiven DEF AllUnforgiven, Unforgiven
<1> QED BY <1>1, <1>2, <1>3, InitTypeOK, NextTypeOK, PTL DEF Spec, OverrunStands

-----------------------------------------------------------------------------
(* The clock and the state                                                 *)
(*                                                                         *)
(* approveTicket and rejectTicket move the ticket first and write its      *)
(* clock and approvals some statements later.  In between they agree with  *)
(* nothing; the invariant says what each statement finds there, as long as *)
(* nobody has moved the ticket under the handler.  A handler that was      *)
(* overtaken cannot end without a mark: it writes, and the ticket is       *)
(* overwritten, or it dies, and the ticket is torn.                        *)

On(p, t) == req[p].t = t /\ Half(p)

\* Where a handler leads and, once it has moved its ticket, where that is.
After(p) ==
  LET c == req[p] IN
  /\ c.pc \in {"close", "release", "sign", "unpause", "verdict"} => c.to \in Final
  /\ c.pc \in {"reopen", "refuse", "restartClock"} => c.to \in Working
  /\ Half(p) => Req(p) \in stale \/ st[c.t] = IF c.pc = "track" THEN Initial ELSE c.to

ClosingFrom(t) ==
  closing[t] # None => closing[t] \in Final /\ (<<"closing", t>> \in stale \/ st[t] \in Approval)

Agree(s, status) ==
  status \in IF s \in Final THEN {"met", "breached"}
             ELSE IF s \in Pause THEN {"paused", "breached"} ELSE {"active", "breached"}

\* What a statement finds of the clock it is about to write.
Finds(pc, status) ==
  status \in IF pc = "track" THEN {"none"}
             ELSE IF pc = "verdict" THEN {"active", "breached"} ELSE {"active", "paused", "breached"}

Overtaken(t) == \E p \in Procs : On(p, t) /\ Req(p) \in stale
Fit(t) ==
  st[t] # None /\ Clean(t) =>
    \/ Overtaken(t)
    \/ (\A p \in Procs : ~On(p, t)) /\ Agree(st[t], clock[t].status)
    \/ \E p \in Procs : /\ On(p, t) /\ \A q \in Procs : On(q, t) => q = p
                        /\ Finds(req[p].pc, clock[t].status)

Asks(t) == st[t] \in Approval /\ t \notin overwritten
             => \E i \in DOMAIN approvals[t] : approvals[t][i] \in {"pending", "lapsed"}
Untouched(t) == st[t] = None => clock[t].status = "none" /\ \A p \in Procs : req[p].t # t

TicketInv(t) == Fit(t) /\ Asks(t) /\ Untouched(t)
IInv == (\A p \in Procs : After(p)) /\ \A t \in Tickets : ClosingFrom(t) /\ TicketInv(t)

LEMMA InitIInv == Init => IInv
<1> SUFFICES ASSUME Init PROVE IInv
  OBVIOUS
<1>1. \A p \in Procs : After(p)
  BY DEF Init, After, Idle, Half
<1>2. \A t \in Tickets : ClosingFrom(t) /\ Fit(t)
  BY DEF Init, ClosingFrom, Fit
<1>3. \A t \in Tickets : Asks(t) /\ Untouched(t)
  BY WorkflowAssumption, NoneAssumption DEF Init, Asks, Untouched, Idle
<1> QED BY <1>1, <1>2, <1>3 DEF IInv, TicketInv

\* The verdicts and pauses a statement can write over what it finds.
LEMMA ClockWrites ==
  ASSUME NEW c \in Clock
  PROVE  /\ c.status \in {"active", "paused", "breached"} =>
              /\ Resumed(c).status \in {"active", "breached"}
              /\ ByDeadline(Resumed(c), "active").status \in {"active", "breached"}
              /\ Settled(c, {"active", "paused", "breached"}).status \in {"met", "breached"}
              /\ Settled(Resumed(c), {"active"}).status \in {"met", "breached"}
              /\ Suspended(Resumed(c)).status \in {"paused", "breached"}
         /\ c.status \in {"active", "breached"} =>
              /\ Settled(c, {"active"}).status \in {"met", "breached"}
              /\ Rearmed(c).status \in {"active", "breached"}
         /\ c.status \in {"met", "breached"} => Reactivated(c).status = "active"
BY DEF Clock, ClockStatus, Resumed, Suspended, Rearmed, Reactivated, Settled, ByDeadline

-----------------------------------------------------------------------------
(* What a step leaves to the others *)

\* A handler keeps what is known of it while others are considerate.
LEMMA OthersKeepAfter ==
  ASSUME TypeOK, IInv, NEW h, Considerate(h), NEW p \in Procs, Req(p) # h, req'[p] = req[p]
  PROVE  After(p)'
<1>1. After(p) /\ Req(p)' = Req(p)
  BY DEF IInv, Req
<1>2. CASE Half(p)
  <2>1. req[p].t \in Tickets
    BY <1>2, ActiveRequest DEF Half, Request
  <2> QED BY <1>1, <1>2, <2>1, WhoReads DEF After, Half, Considerate
<1>3. CASE ~Half(p)
  BY <1>1, <1>3 DEF After, Half
<1> QED BY <1>2, <1>3

LEMMA OthersKeepClosing ==
  ASSUME TypeOK, IInv, NEW h, Considerate(h), NEW t \in Tickets,
         closing'[t] = None \/ (<<"closing", t>> # h /\ closing'[t] = closing[t])
  PROVE  ClosingFrom(t)'
BY WhoReads DEF IInv, ClosingFrom, Considerate

\* A ticket nothing happened to, but for marks.
Aside(t) ==
  /\ st'[t] = st[t] /\ clock'[t] = clock[t] /\ approvals'[t] = approvals[t]
  /\ t \in overwritten => t \in overwritten'
  /\ t \in torn => t \in torn'

\* Its handlers may change while they are at no statement between the move
\* and the clock; those that are stay as they are.
LEMMA AsideKeeps ==
  ASSUME TypeOK, IInv, NEW t \in Tickets, Aside(t),
         \A p \in Procs : On(p, t) \/ On(p, t)' =>
           req'[p] = req[p] /\ (Req(p) \in stale => Req(p) \in stale'),
         st[t] = None => \A p \in Procs : req'[p].t # t
  PROVE  TicketInv(t)'
<1>1. TicketInv(t)
  BY DEF IInv
<1>2. \A p \in Procs : (On(p, t) <=> On(p, t)') /\ Req(p)' = Req(p)
  BY DEF On, Half, Req
<1>3. Fit(t)'
  <2> SUFFICES ASSUME st[t] # None, Clean(t)
               PROVE  \/ Overtaken(t)'
                      \/ (\A p \in Procs : ~On(p, t)') /\ Agree(st[t], clock[t].status)
                      \/ \E p \in Procs : /\ On(p, t)' /\ \A q \in Procs : On(q, t)' => q = p
                                          /\ Finds(req'[p].pc, clock[t].status)
    BY DEF Fit, Aside, Clean
  <2>1. CASE Overtaken(t)
    BY <1>2, <2>1 DEF Overtaken
  <2>2. CASE (\A p \in Procs : ~On(p, t)) /\ Agree(st[t], clock[t].status)
    BY <1>2, <2>2
  <2>3. CASE \E p \in Procs : /\ On(p, t) /\ \A q \in Procs : On(q, t) => q = p
                              /\ Finds(req[p].pc, clock[t].status)
    BY <1>2, <2>3
  <2> QED BY <1>1, <2>1, <2>2, <2>3 DEF TicketInv, Fit
<1>4. Asks(t)' /\ Untouched(t)'
  BY <1>1 DEF TicketInv, Asks, Untouched, Aside
<1> QED BY <1>3, <1>4 DEF TicketInv

\* A step of handler p, whose ticket is t.
LEMMA RequestKeeps ==
  ASSUME TypeOK, IInv, NEW p \in Procs, NEW t \in Tickets, Considerate(Req(p)),
         \A q \in Procs \ {p} : req'[q] = req[q],
         req[p].t \in {t, None}, req'[p].t \in {t, None}, closing' = closing,
         \A u \in Tickets \ {t} : Aside(u), After(p)', TicketInv(t)'
  PROVE  IInv'
<1>1. \A q \in Procs \ {p} : Req(q) # Req(p)
  BY DEF Req
<1>2. \A q \in Procs : After(q)'
  BY <1>1, OthersKeepAfter
<1>3. \A u \in Tickets : <<"closing", u>> # Req(p)
  BY DEF Req
<1>4. \A u \in Tickets : ClosingFrom(u)'
  BY <1>3, OthersKeepClosing
<1>5. ASSUME NEW u \in Tickets \ {t} PROVE TicketInv(u)'
  <2>1. u # None
    BY NoneAssumption
  <2>2. \A q \in Procs : On(q, u) \/ On(q, u)' => q # p
    BY <2>1 DEF On
  <2>3. \A q \in Procs : On(q, u) \/ On(q, u)' =>
          req'[q] = req[q] /\ (Req(q) \in stale => Req(q) \in stale')
    BY <1>1, <2>2 DEF Considerate
  <2>4. st[u] = None => \A q \in Procs : req'[q].t # u
    BY <2>1 DEF IInv, TicketInv, Untouched
  <2> QED BY <2>3, <2>4, AsideKeeps
<1> QED BY <1>2, <1>4, <1>5 DEF IInv

\* A step of h that is no handler's and is about ticket t.
LEMMA SweepKeeps ==
  ASSUME TypeOK, IInv, NEW h, \A p \in Procs : Req(p) # h, NEW t \in Tickets, Considerate(h), req' = req,
         \A u \in Tickets : closing'[u] = None \/ (<<"closing", u>> # h /\ closing'[u] = closing[u]),
         \A u \in Tickets \ {t} : Aside(u), TicketInv(t)'
  PROVE  IInv'
<1>1. (\A p \in Procs : After(p)') /\ \A u \in Tickets : ClosingFrom(u)'
  BY OthersKeepAfter, OthersKeepClosing
<1>2. ASSUME NEW u \in Tickets \ {t} PROVE TicketInv(u)'
  <2>1. \A q \in Procs : Req(q) \in stale => Req(q) \in stale'
    BY DEF Considerate
  <2>2. Untouched(u)
    BY DEF IInv, TicketInv
  <2> QED BY <2>1, <2>2, AsideKeeps DEF Untouched
<1> QED BY <1>1, <1>2 DEF IInv

\* A step of handler p that leaves every ticket alone and is at no statement
\* between the move and the clock, before it or after.
LEMMA QuietKeeps ==
  ASSUME TypeOK, IInv, NEW p \in Procs, Considerate(Req(p)),
         \A q \in Procs \ {p} : req'[q] = req[q], closing' = closing,
         \A u \in Tickets : Aside(u), ~Half(p), ~Half(p)', After(p)',
         req'[p].t \in {req[p].t, None} \cup {u \in Tickets : st[u] # None}
  PROVE  IInv'
<1>1. \A q \in Procs \ {p} : Req(q) # Req(p)
  BY DEF Req
<1>2. \A q \in Procs : After(q)'
  BY <1>1, OthersKeepAfter
<1>3. \A u \in Tickets : <<"closing", u>> # Req(p)
  BY DEF Req
<1>4. \A u \in Tickets : ClosingFrom(u)'
  BY <1>3, OthersKeepClosing
<1>5. ASSUME NEW u \in Tickets PROVE TicketInv(u)'
  <2>1. \A q \in Procs : On(q, u) \/ On(q, u)' =>
          req'[q] = req[q] /\ (Req(q) \in stale => Req(q) \in stale')
    BY <1>1 DEF On, Considerate
  <2>2. st[u] = None => \A q \in Procs : req'[q].t # u
    BY NoneAssumption DEF IInv, TicketInv, Untouched
  <2> QED BY <2>1, <2>2, AsideKeeps
<1> QED BY <1>2, <1>4, <1>5 DEF IInv

\* A step that leaves all requests and the auto-close sweep alone and, of the
\* tickets, changes marks only.
LEMMA StillKeeps ==
  ASSUME TypeOK, IInv, NEW h, \A p \in Procs : Req(p) # h, Considerate(h), req' = req,
         \A u \in Tickets : closing'[u] = None \/ (<<"closing", u>> # h /\ closing'[u] = closing[u]),
         \A u \in Tickets : Aside(u)
  PROVE  IInv'
<1>1. (\A p \in Procs : After(p)') /\ \A u \in Tickets : ClosingFrom(u)'
  BY OthersKeepAfter, OthersKeepClosing
<1>2. ASSUME NEW u \in Tickets PROVE TicketInv(u)'
  <2>1. \A q \in Procs : Req(q) \in stale => Req(q) \in stale'
    BY DEF Considerate
  <2>2. Untouched(u)
    BY DEF IInv, TicketInv
  <2> QED BY <2>1, <2>2, AsideKeeps DEF Untouched
<1> QED BY <1>1, <1>2 DEF IInv

\* What a step that moves t finds: a handler on its way to the clock, which it
\* overtakes, or the clock in agreement.
LEMMA MoverFinds ==
  ASSUME TypeOK, IInv, NEW t \in Tickets, st[t] # None, NEW h, Readers(t) \ {h} \subseteq stale',
         \A q \in Procs : On(q, t) => Req(q) # h /\ req'[q] = req[q],
         overwritten \subseteq overwritten', torn \subseteq torn', Clean(t)'
  PROVE  Overtaken(t)' \/ ((\A q \in Procs : ~On(q, t)) /\ Agree(st[t], clock[t].status))
<1>1. CASE \E q \in Procs : On(q, t)
  <2>1. PICK q \in Procs : On(q, t)
    BY <1>1
  <2>2. Req(q) \in stale'
    BY <2>1, WhoReads DEF On
  <2>3. On(q, t)' /\ Req(q)' = Req(q)
    BY <2>1 DEF On, Half, Req
  <2> QED BY <2>2, <2>3 DEF Overtaken
<1>2. CASE \A q \in Procs : ~On(q, t)
  <2>1. Fit(t) /\ Clean(t)
    BY DEF IInv, TicketInv, Clean
  <2> QED BY <1>2, <2>1 DEF Fit, Overtaken
<1> QED BY <1>1, <1>2

\* What a handler finds when it writes a ticket that it has moved.
LEMMA HalfFinds ==
  ASSUME TypeOK, IInv, NEW p \in Procs, NEW t \in Tickets, On(p, t), Blames(Req(p), t),
         stale \ {Req(p)} \subseteq stale', torn' = torn, \A q \in Procs \ {p} : req'[q] = req[q],
         Clean(t)'
  PROVE  \/ Overtaken(t)'
         \/ /\ Req(p) \notin stale /\ \A q \in Procs : On(q, t) => q = p
            /\ Finds(req[p].pc, clock[t].status)
<1>1. Req(p) \notin stale /\ Clean(t)
  BY DEF Blames, Clean
<1>2. st[t] # None /\ Fit(t)
  BY DEF IInv, TicketInv, Untouched, On
<1>3. CASE Overtaken(t)
  <2>1. PICK q \in Procs : On(q, t) /\ Req(q) \in stale
    BY <1>3 DEF Overtaken
  <2>2. q # p /\ req'[q] = req[q] /\ Req(q) # Req(p)
    BY <1>1, <2>1 DEF Req
  <2>3. On(q, t)' /\ Req(q)' \in stale'
    BY <2>1, <2>2 DEF On, Half, Req
  <2> QED BY <2>3 DEF Overtaken
<1>4. CASE ~Overtaken(t)
  BY <1>1, <1>2, <1>4 DEF Fit
<1> QED BY <1>3, <1>4

-----------------------------------------------------------------------------
(* The steps, one by one *)

\* Reads and the steps that write neither ticket nor clock.
LEMMA QuietSteps ==
  ASSUME TypeOK, Snapshots, IInv, WellShaped, NEW p \in Procs,
         \/ CreateAssign(p) \/ RereadBulkClose(p) \/ PassBlocksGuard(p) \/ RefuseBlocked(p)
         \/ RejectFails(p) \/ DemoteOwner(p) \/ InsertAssignment(p)
         \/ \E t \in Tickets : \/ ReadTransition(p, t) \/ ReadBulkClose(p, t) \/ ReadApprove(p, t)
                               \/ ReadReject(p, t) \/ ReadAssign(p, t)
  PROVE  IInv'
<1>1. CASE \/ CreateAssign(p) \/ RefuseBlocked(p) \/ RejectFails(p) \/ InsertAssignment(p)
  <2>1. /\ req' = [req EXCEPT ![p] = Idle] /\ ~Half(p) /\ closing' = closing
        /\ UNCHANGED <<st, deleted, clock, approvals, overwritten, torn>> /\ Ends(Req(p))
    BY <1>1 DEF CreateAssign, RefuseBlocked, RejectFails, InsertAssignment, Return, At, Half, row, sweeps
  <2>2. Considerate(Req(p)) /\ \A u \in Tickets : Aside(u)
    BY <2>1 DEF Considerate, Ends, Aside
  <2>3. req'[p] = Idle /\ \A q \in Procs \ {p} : req'[q] = req[q]
    BY <2>1 DEF TypeOK
  <2>4. ~Half(p)' /\ After(p)' /\ req'[p].t = None
    BY <2>3 DEF Half, After, Idle
  <2> QED BY <2>1, <2>2, <2>3, <2>4, QuietKeeps
<1>2. CASE PassBlocksGuard(p) \/ DemoteOwner(p)
  <2>1. /\ req' = [req EXCEPT ![p].pc = IF At(p, "blocks") THEN "commit" ELSE "insert"]
        /\ req[p].pc \in {"blocks", "demote"} /\ closing' = closing
        /\ UNCHANGED <<st, deleted, clock, approvals, overwritten, torn, stale>>
    BY <1>2 DEF PassBlocksGuard, DemoteOwner, Goto, At, row, sweeps, history
  <2>2. Considerate(Req(p)) /\ \A u \in Tickets : Aside(u)
    BY <2>1 DEF Considerate, Aside
  <2>3. req[p] \in Request /\ \A q \in Procs \ {p} : req'[q] = req[q]
    BY <2>1, ActiveRequest DEF TypeOK
  <2>4. req'[p] = [req[p] EXCEPT !.pc = IF At(p, "blocks") THEN "commit" ELSE "insert"]
    BY <2>1 DEF TypeOK
  <2>5. req'[p].pc \in {"commit", "insert"} /\ req'[p].t = req[p].t
    BY <2>3, <2>4 DEF Request
  <2>6. ~Half(p) /\ ~Half(p)' /\ After(p)'
    BY <2>1, <2>5 DEF Half, After
  <2> QED BY <2>1, <2>2, <2>3, <2>5, <2>6, QuietKeeps
<1>3. CASE RereadBulkClose(p)
  <2>1. /\ req[p].pc = "reread" /\ closing' = closing /\ Ends(Req(p))
        /\ UNCHANGED <<st, deleted, clock, approvals, overwritten, torn>>
        /\ req' = [req EXCEPT ![p].pc = "blocks"] \/ req' = [req EXCEPT ![p] = Idle]
    BY <1>3 DEF RereadBulkClose, Goto, Return, At, row, sweeps
  <2>2. Considerate(Req(p)) /\ \A u \in Tickets : Aside(u)
    BY <2>1 DEF Considerate, Aside, Ends
  <2>3. req[p] \in Request /\ \A q \in Procs \ {p} : req'[q] = req[q]
    BY <2>1, ActiveRequest DEF TypeOK
  <2>4. req'[p] = [req[p] EXCEPT !.pc = "blocks"] \/ req'[p] = Idle
    BY <2>1 DEF TypeOK
  <2>5. req'[p].pc \in {"blocks", "done"} /\ req'[p].t \in {req[p].t, None}
    BY <2>3, <2>4 DEF Request, Idle
  <2>6. ~Half(p) /\ ~Half(p)' /\ After(p)'
    BY <2>1, <2>5 DEF Half, After
  <2> QED BY <2>1, <2>2, <2>3, <2>5, <2>6, QuietKeeps
<1>4. ASSUME NEW t \in Tickets,
             \/ ReadTransition(p, t) \/ ReadBulkClose(p, t) \/ ReadApprove(p, t)
             \/ ReadReject(p, t) \/ ReadAssign(p, t)
      PROVE  IInv'
  <2>1. /\ Free(p) /\ st[t] # None /\ closing' = closing
        /\ UNCHANGED <<st, deleted, clock, approvals, overwritten, torn, stale>>
    BY <1>4 DEF ReadTransition, ReadBulkClose, ReadApprove, ReadReject, ReadAssign, Alive, row, sweeps, history
  <2>2. Considerate(Req(p)) /\ (\A u \in Tickets : Aside(u)) /\ ~Half(p)
    BY <2>1 DEF Considerate, Aside, Free, Half, Idle
  <2>3. PICK pc, from, to, who :
          /\ Start(p, pc, t, from, to, who)
          /\ pc \in {"blocks", "commit", "reread", "close", "reopen", "demote", "insert"}
          /\ pc = "close" => to \in Final
          /\ pc = "reopen" => to \in Working
    <3>1. CASE ReadTransition(p, t)
      BY <3>1 DEF ReadTransition, AfterRead
    <3>2. CASE ReadBulkClose(p, t)
      BY <3>2 DEF ReadBulkClose
    <3>3. CASE ReadApprove(p, t)
      BY <3>3 DEF ReadApprove, Targets
    <3>4. CASE ReadReject(p, t)
      BY <3>4 DEF ReadReject, Targets
    <3>5. CASE ReadAssign(p, t)
      BY <3>5 DEF ReadAssign
    <3> QED BY <1>4, <3>1, <3>2, <3>3, <3>4, <3>5
  <2>4. /\ req'[p].pc = pc /\ req'[p].t = t /\ req'[p].to = to
        /\ \A q \in Procs \ {p} : req'[q] = req[q]
    BY <2>3 DEF Start, TypeOK
  <2>5. ~Half(p)' /\ After(p)'
    BY <2>3, <2>4 DEF Half, After
  <2> QED BY <2>1, <2>2, <2>4, <2>5, QuietKeeps
<1> QED BY <1>1, <1>2, <1>3, <1>4

\* A new ticket has no clock until its creation writes one.
LEMMA CreateTicketKeeps ==
  ASSUME TypeOK, IInv, WellShaped, NEW p \in Procs, NEW t \in Tickets, CreateTicket(p, t)
  PROVE  IInv'
<1>1. /\ st[t] = None /\ st' = [st EXCEPT ![t] = Initial]
      /\ UNCHANGED <<clock, approvals, closing, stale, overwritten, torn>>
      /\ Start(p, "track", t, None, None, None) /\ Free(p)
  BY DEF CreateTicket, sweeps, history
<1>2. req'[p].pc = "track" /\ req'[p].t = t /\ \A q \in Procs \ {p} : req'[q] = req[q]
  BY <1>1 DEF Start, TypeOK
<1>3. (\A q \in Procs : req[q].t # t) /\ clock[t].status = "none"
  BY <1>1 DEF IInv, TicketInv, Untouched
<1>4. st'[t] = Initial /\ (\A u \in Tickets \ {t} : st'[u] = st[u]) /\ t # None
      /\ Initial # None /\ Initial \notin Approval
  BY <1>1, NoneAssumption, WorkflowAssumption DEF TypeOK, WellShaped, Working
<1>5. ASSUME NEW q \in Procs \ {p} PROVE After(q)'
  <2>1. req'[q] = req[q] /\ req[q].t # t /\ Req(q)' = Req(q) /\ After(q)
    BY <1>2, <1>3 DEF IInv, Req
  <2>2. CASE Half(q)
    <3>1. req[q].t \in Tickets
      BY <2>2, ActiveRequest DEF Half, Request
    <3> QED BY <1>1, <1>4, <2>1, <2>2, <3>1 DEF After, Half
  <2>3. CASE ~Half(q)
    BY <2>1, <2>3 DEF After, Half
  <2> QED BY <2>2, <2>3
<1>6. After(p)'
  BY <1>2, <1>4 DEF After
<1>7. ASSUME NEW u \in Tickets PROVE ClosingFrom(u)'
  <2>1. CASE u = t
    BY <1>1, <2>1, NoneAssumption, WorkflowAssumption DEF IInv, ClosingFrom
  <2>2. CASE u # t
    BY <1>1, <1>4, <2>2 DEF IInv, ClosingFrom
  <2> QED BY <2>1, <2>2
<1>8. ASSUME NEW u \in Tickets \ {t} PROVE TicketInv(u)'
  <2>1. Aside(u) /\ req'[p].t # u /\ req[p].t # u
    BY <1>1, <1>2, <1>4, NoneAssumption DEF Aside, Free, Idle
  <2>2. \A q \in Procs : On(q, u) \/ On(q, u)' => req'[q] = req[q] /\ (Req(q) \in stale => Req(q) \in stale')
    BY <1>1, <1>2, <2>1 DEF On
  <2>3. st[u] = None => \A q \in Procs : req'[q].t # u
    BY <1>2, <2>1 DEF IInv, TicketInv, Untouched
  <2> QED BY <2>1, <2>2, <2>3, AsideKeeps
<1>9. TicketInv(t)'
  <2>1. On(p, t)' /\ \A q \in Procs : On(q, t)' => q = p
    BY <1>2, <1>3 DEF On, Half
  <2>2. Finds(req'[p].pc, clock'[t].status)
    BY <1>1, <1>2, <1>3 DEF Finds
  <2> QED BY <1>4, <2>1, <2>2 DEF TicketInv, Fit, Asks, Untouched
<1> QED BY <1>5, <1>6, <1>7, <1>8, <1>9 DEF IInv

\* transition's transaction moves the ticket and its clock at once.
LEMMA CommitKeeps ==
  ASSUME TypeOK, Snapshots, IInv, WellShaped, NEW p \in Procs, CommitTransition(p),
         NEW t \in Tickets, req[p].t = t
  PROVE  IInv'
<1> DEFINE to == req[p].to
           c == Resumed(clock[t])
<1>1. /\ req[p].pc = "commit" /\ req[p] \in Request /\ RequestSnapshot(p)
      /\ <<req[p].from, to>> \in Edges
  BY ActiveRequest DEF CommitTransition, At, Snapshots, RequestSnapshot, Deciding, Request
<1>2. to \in States /\ req[p].from \in States \ Final /\ st[t] # None
  <2>1. <<req[p].from, to>> \in States \X States
    BY <1>1, WorkflowAssumption
  <2>2. req[p].from \notin Final
    BY <1>1 DEF WellShaped
  <2> QED BY <1>1, <2>1, <2>2 DEF IInv, TicketInv, Untouched
<1>3. /\ st' = [st EXCEPT ![t] = to]
      /\ clock' = [clock EXCEPT ![t] = IF to \in Final THEN Settled(c, {"active"})
                                       ELSE IF to \in Pause THEN Suspended(c) ELSE c]
      /\ approvals' = [approvals EXCEPT ![t] = Asked(approvals[t], to)]
      /\ req' = [req EXCEPT ![p] = Idle] /\ torn' = torn /\ closing' = closing
      /\ Blames(Req(p), t) /\ MovesAndEnds(Req(p), t) /\ deleted' = deleted
  BY DEF CommitTransition, Return, sweeps
<1>4. req'[p] = Idle /\ \A q \in Procs \ {p} : req'[q] = req[q]
  BY <1>3 DEF TypeOK
<1>5. Considerate(Req(p)) /\ \A u \in Tickets \ {t} : Aside(u)
  BY <1>3 DEF Considerate, MovesAndEnds, Aside, Blames, TypeOK
<1>6. After(p)' /\ req'[p].t = None /\ ~On(p, t)'
  BY <1>4 DEF After, Idle, Half, On
<1>7. st'[t] = to /\ approvals'[t] = Asked(approvals[t], to)
      /\ clock'[t] = IF to \in Final THEN Settled(c, {"active"})
                     ELSE IF to \in Pause THEN Suspended(c) ELSE c
  BY <1>1, <1>3 DEF TypeOK
<1>8. Fit(t)'
  <2> SUFFICES ASSUME Clean(t)', ~Overtaken(t)'
               PROVE  (\A q \in Procs : ~On(q, t)') /\ Agree(to, clock'[t].status)
    BY <1>7 DEF Fit
  <2>1. \A q \in Procs : On(q, t) => Req(q) # Req(p) /\ req'[q] = req[q]
    BY <1>1, <1>4 DEF On, Half, Req
  <2>2. Readers(t) \ {Req(p)} \subseteq stale' /\ overwritten \subseteq overwritten' /\ torn \subseteq torn'
    BY <1>3 DEF MovesAndEnds, Blames
  <2>3. (\A q \in Procs : ~On(q, t)) /\ Agree(st[t], clock[t].status)
    BY <1>1, <1>2, <2>1, <2>2, MoverFinds
  <2>4. \A q \in Procs : ~On(q, t)'
    BY <1>4, <1>6, <2>3 DEF On, Half
  <2>5. Req(p) \notin stale
    BY <1>3 DEF Blames, Clean
  <2>6. st[t] \notin Final
    BY <1>1, <1>2, <2>5 DEF RequestSnapshot, Deciding
  <2>7. clock[t].status \in {"active", "paused", "breached"} /\ clock[t] \in Clock
    BY <1>1, <2>3, <2>6 DEF Agree, TypeOK
  <2>8. /\ Settled(c, {"active"}).status \in {"met", "breached"}
        /\ Suspended(c).status \in {"paused", "breached"} /\ c.status \in {"active", "breached"}
    BY <2>7, ClockWrites
  <2>9. Agree(to, clock'[t].status)
    <3> HIDE DEF c
    <3> QED BY <1>7, <2>8 DEF Agree
  <2> QED BY <2>4, <2>9
<1>9. Asks(t)'
  <2>1. approvals[t] \in Seq(ApprovalStatus)
    BY <1>1 DEF TypeOK
  <2>2. to \in Approval => approvals'[t] = Append(approvals[t], "pending")
    BY <1>7 DEF Asked
  <2>3. to \in Approval => /\ Len(approvals[t]) + 1 \in DOMAIN approvals'[t]
                           /\ approvals'[t][Len(approvals[t]) + 1] = "pending"
    BY <2>1, <2>2
  <2> QED BY <1>7, <2>3 DEF Asks
<1>10. TicketInv(t)'
  BY <1>2, <1>7, <1>8, <1>9, NoneAssumption DEF TicketInv, Untouched
<1> QED BY <1>1, <1>3, <1>4, <1>5, <1>6, <1>10, RequestKeeps

\* approveTicket and rejectTicket move the ticket and leave its clock for later.
LEMMA HandlerMoveKeeps ==
  ASSUME TypeOK, Snapshots, IInv, WellShaped, NEW p \in Procs, ApproveClose(p) \/ RejectReopen(p),
         NEW t \in Tickets, req[p].t = t
  PROVE  IInv'
<1> DEFINE to == req[p].to
           next == IF req[p].pc = "close" THEN "release" ELSE "refuse"
<1>1. /\ req[p].pc \in {"close", "reopen"} /\ req[p] \in Request /\ RequestSnapshot(p)
      /\ <<req[p].from, to>> \in Edges /\ After(p)
  BY ActiveRequest DEF ApproveClose, RejectReopen, At, Snapshots, RequestSnapshot, Deciding, IInv
<1>2. /\ to \in States \ Approval /\ req[p].from \notin Final /\ st[t] # None
      /\ (req[p].pc = "close" => to \in Final) /\ (req[p].pc = "reopen" => to \in Working)
  <2>1. <<req[p].from, to>> \in States \X States
    BY <1>1, WorkflowAssumption
  <2>2. req[p].from \notin Final
    BY <1>1 DEF WellShaped
  <2> QED BY <1>1, <2>1, <2>2 DEF IInv, TicketInv, Untouched, After, WellShaped, Working
<1>3. /\ st' = [st EXCEPT ![t] = to] /\ UNCHANGED <<clock, approvals, deleted, torn, closing>>
      /\ req' = [req EXCEPT ![p].pc = next]
      /\ Blames(Req(p), t) /\ Moves(Req(p), t)
  BY DEF ApproveClose, RejectReopen, At, Goto, sweeps
<1>4. /\ req'[p].pc = next /\ req'[p].t = t /\ req'[p].to = to
      /\ \A q \in Procs \ {p} : req'[q] = req[q]
  <2>1. req'[p] = [req[p] EXCEPT !.pc = next] /\ \A q \in Procs \ {p} : req'[q] = req[q]
    BY <1>3 DEF TypeOK
  <2> QED BY <1>1, <2>1 DEF Request
<1>5. Considerate(Req(p)) /\ \A u \in Tickets \ {t} : Aside(u)
  BY <1>3 DEF Considerate, Moves, Aside, Blames, TypeOK
<1>6. st'[t] = to
  BY <1>3 DEF TypeOK
<1>7. After(p)' /\ On(p, t)'
  BY <1>1, <1>2, <1>4, <1>6 DEF After, Half, On
<1>8. Fit(t)'
  <2> SUFFICES ASSUME Clean(t)', ~Overtaken(t)'
               PROVE  (\A q \in Procs : On(q, t)' => q = p) /\ Finds(next, clock[t].status)
    BY <1>3, <1>4, <1>7 DEF Fit
  <2>1. \A q \in Procs : On(q, t) => Req(q) # Req(p) /\ req'[q] = req[q]
    BY <1>1, <1>4 DEF On, Half, Req
  <2>2. Readers(t) \ {Req(p)} \subseteq stale' /\ overwritten \subseteq overwritten' /\ torn \subseteq torn'
    BY <1>3 DEF Moves, Blames
  <2>3. (\A q \in Procs : ~On(q, t)) /\ Agree(st[t], clock[t].status)
    BY <1>2, <2>1, <2>2, MoverFinds
  <2>4. \A q \in Procs : On(q, t)' => q = p
    BY <1>4, <2>3 DEF On, Half
  <2>5. Req(p) \notin stale
    BY <1>3 DEF Blames, Clean
  <2>6. st[t] \notin Final
    BY <1>1, <1>2, <2>5 DEF RequestSnapshot, Deciding
  <2>7. Finds(next, clock[t].status)
    BY <2>3, <2>6 DEF Agree, Finds
  <2> QED BY <2>4, <2>7
<1>9. TicketInv(t)'
  BY <1>2, <1>6, <1>8, NoneAssumption DEF TicketInv, Untouched, Asks
<1> QED BY <1>3, <1>4, <1>5, <1>7, <1>9, RequestKeeps

\* What a later statement of such a handler owes: to leave to the next one, or
\* to the others if it is the last, what they expect of the clock.
LEMMA HalfKeeps ==
  ASSUME TypeOK, IInv, NEW p \in Procs, NEW t \in Tickets, On(p, t), Blames(Req(p), t),
         stale \ {Req(p)} \subseteq stale', UNCHANGED <<st, deleted, closing, torn>>,
         \A q \in Procs \ {p} : req'[q] = req[q], req'[p].t \in {t, None}, After(p)',
         \A u \in Tickets \ {t} : Aside(u), Asks(t)',
         Req(p) \notin stale /\ Finds(req[p].pc, clock[t].status) =>
           IF On(p, t)' THEN Finds(req'[p].pc, clock'[t].status) ELSE Agree(st[t], clock'[t].status)
  PROVE  IInv'
<1>1. st[t] # None
  BY DEF IInv, TicketInv, Untouched, On
<1>2. Fit(t)'
  <2> SUFFICES ASSUME Clean(t)', ~Overtaken(t)'
               PROVE  \/ (\A q \in Procs : ~On(q, t)') /\ Agree(st[t], clock'[t].status)
                      \/ \E q \in Procs : /\ On(q, t)' /\ \A r \in Procs : On(r, t)' => r = q
                                          /\ Finds(req'[q].pc, clock'[t].status)
    BY DEF Fit
  <2>1. /\ Req(p) \notin stale /\ \A q \in Procs : On(q, t) => q = p
        /\ Finds(req[p].pc, clock[t].status)
    BY HalfFinds
  <2>2. \A q \in Procs : On(q, t)' => q = p
    BY <2>1 DEF On, Half
  <2> QED BY <2>1, <2>2
<1>3. TicketInv(t)'
  BY <1>1, <1>2 DEF TicketInv, Untouched
<1>4. Considerate(Req(p))
  BY DEF Considerate
<1>5. req[p].t \in {t, None}
  BY DEF On
<1> QED BY <1>3, <1>4, <1>5, RequestKeeps

LEMMA HalfSteps ==
  ASSUME TypeOK, IInv, WellShaped, NEW p \in Procs, NEW t \in Tickets, req[p].t = t,
         ApproveRelease(p) \/ ApproveSign(p) \/ ApproveResume(p) \/ RejectRefuse(p)
  PROVE  IInv'
<1> DEFINE next == CASE req[p].pc = "release" -> "sign" [] req[p].pc = "sign" -> "unpause"
                     [] req[p].pc = "unpause" -> "verdict" [] OTHER -> "restartClock"
<1>1. /\ req[p].pc \in {"release", "sign", "unpause", "refuse"} /\ req[p] \in Request /\ On(p, t)
      /\ clock[t] \in Clock /\ After(p)
  BY ActiveRequest DEF ApproveRelease, ApproveSign, ApproveResume, RejectRefuse, At, On, Half, TypeOK, IInv
<1>2. /\ UNCHANGED <<st, deleted, closing, torn, stale>> /\ Blames(Req(p), t)
      /\ req' = [req EXCEPT ![p].pc = next]
      /\ clock' = IF req[p].pc = "unpause" THEN [clock EXCEPT ![t] = Resumed(clock[t])] ELSE clock
      /\ approvals' = CASE req[p].pc = "sign" -> [approvals EXCEPT ![t] = Answered(approvals[t], "approved")]
                        [] req[p].pc = "refuse" -> [approvals EXCEPT ![t] = Answered(approvals[t], "rejected")]
                        [] OTHER -> approvals
  BY DEF ApproveRelease, ApproveSign, ApproveResume, RejectRefuse, At, Goto, row, sweeps
<1>3. /\ req'[p].pc = next /\ req'[p].t = t /\ req'[p].to = req[p].to
      /\ \A q \in Procs \ {p} : req'[q] = req[q]
  <2>1. req'[p] = [req[p] EXCEPT !.pc = next] /\ \A q \in Procs \ {p} : req'[q] = req[q]
    BY <1>2 DEF TypeOK
  <2> QED BY <1>1, <2>1 DEF Request
<1>4. After(p)' /\ On(p, t)'
  BY <1>1, <1>2, <1>3 DEF After, On, Half, Req
<1>5. \A u \in Tickets \ {t} : Aside(u)
  BY <1>1, <1>2 DEF Aside, Blames, TypeOK
<1>6. Finds(req[p].pc, clock[t].status) => Finds(next, clock'[t].status)
  <2>1. clock'[t] = IF req[p].pc = "unpause" THEN Resumed(clock[t]) ELSE clock[t]
    BY <1>2 DEF TypeOK
  <2>2. clock[t].status \in {"active", "paused", "breached"} => Resumed(clock[t]).status \in {"active", "breached"}
    BY <1>1, ClockWrites
  <2> QED BY <1>1, <2>1, <2>2 DEF Finds
<1>7. Asks(t)'
  <2>1. CASE req[p].pc \in {"sign", "refuse"}
    <3>1. Req(p) \in stale => t \in overwritten'
      BY <1>2 DEF Blames
    <3>2. Req(p) \notin stale => st[t] \in Final \cup Working
      BY <1>1, <2>1 DEF After, Half
    <3> QED BY <1>2, <3>1, <3>2 DEF Asks, WellShaped, Working
  <2>2. CASE req[p].pc \notin {"sign", "refuse"}
    BY <1>2, <2>2 DEF IInv, TicketInv, Asks, Blames
  <2> QED BY <2>1, <2>2
<1> HIDE DEF next
<1> QED BY <1>1, <1>2, <1>3, <1>4, <1>5, <1>6, <1>7, HalfKeeps

LEMMA LastWrites ==
  ASSUME TypeOK, IInv, WellShaped, NEW p \in Procs, NEW t \in Tickets, req[p].t = t,
         CreateClock(p) \/ ApproveVerdict(p) \/ RejectResume(p)
  PROVE  IInv'
<1> DEFINE d == CASE req[p].pc = "track" ->
                       IF clock[t].status = "none" THEN [status |-> "active", late |-> FALSE, heldLate |-> FALSE]
                       ELSE clock[t]
                  [] req[p].pc = "verdict" -> Settled(clock[t], {"active"})
                  [] OTHER -> IF clock[t].status = "paused" THEN ByDeadline(Resumed(clock[t]), "active")
                              ELSE clock[t]
<1>1. /\ req[p].pc \in {"track", "verdict", "restartClock"} /\ req[p] \in Request /\ On(p, t)
      /\ clock[t] \in Clock /\ After(p)
  BY ActiveRequest DEF CreateClock, ApproveVerdict, RejectResume, At, On, Half, TypeOK, IInv
<1>2. /\ UNCHANGED <<st, deleted, closing, torn, approvals>> /\ Blames(Req(p), t)
      /\ stale \ {Req(p)} \subseteq stale' /\ clock' = [clock EXCEPT ![t] = d]
      /\ req' = [req EXCEPT ![p].pc = "autoAssign"] \/ req' = [req EXCEPT ![p] = Idle]
  <2>1. CASE CreateClock(p)
    BY <2>1 DEF CreateClock, At, Goto, row, sweeps
  <2>2. CASE ApproveVerdict(p)
    BY <2>2 DEF ApproveVerdict, At, Return, Ends, row, sweeps
  <2>3. CASE RejectResume(p)
    BY <2>3 DEF RejectResume, At, Return, Ends, row, sweeps
  <2> QED BY <2>1, <2>2, <2>3
<1>3. /\ req'[p].pc \in {"autoAssign", "done"} /\ req'[p].t \in {t, None}
      /\ \A q \in Procs \ {p} : req'[q] = req[q]
  <2>1. /\ req'[p] = [req[p] EXCEPT !.pc = "autoAssign"] \/ req'[p] = Idle
        /\ \A q \in Procs \ {p} : req'[q] = req[q]
    BY <1>2 DEF TypeOK
  <2> QED BY <1>1, <2>1 DEF Request, Idle
<1>4. After(p)' /\ ~On(p, t)'
  BY <1>3 DEF After, On, Half
<1>5. (\A u \in Tickets \ {t} : Aside(u)) /\ clock'[t] = d
  BY <1>1, <1>2 DEF Aside, Blames, TypeOK
<1>6. Asks(t)'
  BY <1>2 DEF IInv, TicketInv, Asks, Blames
<1>7. ASSUME Req(p) \notin stale, Finds(req[p].pc, clock[t].status) PROVE Agree(st[t], d.status)
  <2>1. st[t] = IF req[p].pc = "track" THEN Initial ELSE req[p].to
    BY <1>1, <1>7 DEF After, Half
  <2>2. CASE req[p].pc = "track"
    BY <1>7, <2>1, <2>2 DEF Finds, Agree, WellShaped, Working
  <2>3. CASE req[p].pc = "verdict"
    <3>1. st[t] \in Final
      BY <1>1, <2>1, <2>3 DEF After
    <3>2. d.status \in {"met", "breached"}
      BY <1>1, <1>7, <2>3, ClockWrites DEF Finds
    <3> QED BY <3>1, <3>2 DEF Agree
  <2>4. CASE req[p].pc = "restartClock"
    <3>1. st[t] \in Working
      BY <1>1, <2>1, <2>4 DEF After
    <3>2. d.status \in {"active", "breached"}
      BY <1>1, <1>7, <2>4, ClockWrites DEF Finds
    <3> QED BY <3>1, <3>2 DEF Agree, Working
  <2> QED BY <1>1, <2>2, <2>3, <2>4
<1> HIDE DEF d
<1> QED BY <1>1, <1>2, <1>3, <1>4, <1>5, <1>6, <1>7, HalfKeeps

\* A sweep or a forced reopening that moves t and its clock in one transaction.
LEMMA SweepMoveKeeps ==
  ASSUME TypeOK, IInv, NEW h, \A p \in Procs : Req(p) # h, NEW t \in Tickets, Clean(t)' => st[t] # None,
         Considerate(h), Readers(t) \ {h} \subseteq stale', req' = req, torn' = torn,
         \A u \in Tickets : closing'[u] = None \/ (<<"closing", u>> # h /\ closing'[u] = closing[u]),
         Blames(h, t) \/ overwritten' = overwritten, \A u \in Tickets \ {t} : Aside(u),
         st'[t] \in States \ Approval,
         Clean(t)' /\ Agree(st[t], clock[t].status) => Agree(st'[t], clock'[t].status)
  PROVE  IInv'
<1>1. Fit(t)'
  <2> SUFFICES ASSUME Clean(t)', ~Overtaken(t)'
               PROVE  (\A q \in Procs : ~On(q, t)') /\ Agree(st'[t], clock'[t].status)
    BY DEF Fit
  <2>1. \A q \in Procs : On(q, t) => Req(q) # h /\ req'[q] = req[q]
    OBVIOUS
  <2>2. overwritten \subseteq overwritten' /\ torn \subseteq torn'
    BY DEF Blames
  <2>3. (\A q \in Procs : ~On(q, t)) /\ Agree(st[t], clock[t].status)
    BY <2>1, <2>2, MoverFinds
  <2> QED BY <2>3 DEF On, Half
<1>2. TicketInv(t)'
  BY <1>1, NoneAssumption DEF TicketInv, Untouched, Asks
<1> QED BY <1>2, SweepKeeps

LEMMA ForceReopenKeeps ==
  ASSUME TypeOK, IInv, WellShaped, NEW t \in Tickets, ForceReopen(t)
  PROVE  IInv'
<1>1. /\ st' = [st EXCEPT ![t] = Initial] /\ clock' = [clock EXCEPT ![t] = Reactivated(clock[t])]
      /\ stale' = stale \cup Readers(t) /\ st[t] \in Final /\ st[t] # None
      /\ UNCHANGED <<deleted, approvals, req, closing, overwritten, torn>>
  BY DEF ForceReopen, Alive, sweeps
<1>2. (\A p \in Procs : Req(p) # NoOne) /\ \A u \in Tickets : <<"closing", u>> # NoOne
  BY DEF Req, NoOne
<1>3. /\ Considerate(NoOne) /\ (\A u \in Tickets \ {t} : Aside(u))
      /\ st'[t] = Initial /\ clock'[t] = Reactivated(clock[t]) /\ clock[t] \in Clock
  BY <1>1 DEF Considerate, Aside, TypeOK
<1>4. Initial \in Working /\ Initial \in States \ Approval
  BY DEF WellShaped, Working
<1>5. Agree(st[t], clock[t].status) => Agree(st'[t], clock'[t].status)
  BY <1>1, <1>3, <1>4, ClockWrites DEF Agree, Working
<1> QED BY <1>1, <1>2, <1>3, <1>4, <1>5, SweepMoveKeeps

LEMMA ExpiryKeeps ==
  ASSUME TypeOK, Snapshots, IInv, WellShaped, NEW t \in Tickets, ExpiryCloses(t) \/ ExpiryReopens(t)
  PROVE  IInv'
<1> DEFINE h == <<"expiry", t>>
           d == IF ExpiryCloses(t) THEN Settled(clock[t], {"active", "paused", "breached"})
                ELSE Rearmed(clock[t])
<1>1. /\ expiry[t].n > 0 /\ UNCHANGED <<deleted, req, closing, torn>>
      /\ clock' = [clock EXCEPT ![t] = d] /\ approvals' = [approvals EXCEPT ![t] = Answered(approvals[t], "expired")]
      /\ Blames(h, t) /\ ExpiryMoves(t)
  BY DEF ExpiryCloses, ExpiryReopens
<1>2. PICK to \in IF ExpiryCloses(t) THEN Final ELSE Working : st' = [st EXCEPT ![t] = to]
  BY DEF ExpiryCloses, ExpiryReopens, Targets
<1>3. to \in States \ Approval
  BY <1>2, WorkflowAssumption DEF WellShaped, Working
<1>4. (\A p \in Procs : Req(p) # h) /\ \A u \in Tickets : <<"closing", u>> # h
  BY DEF Req
<1>5. /\ Considerate(h) /\ Readers(t) \ {h} \subseteq stale' /\ (\A u \in Tickets \ {t} : Aside(u))
      /\ st'[t] = to /\ clock'[t] = d /\ clock[t] \in Clock
  BY <1>1, <1>2 DEF Considerate, Aside, TypeOK, ExpiryMoves, Blames
<1>6. ASSUME Clean(t)' PROVE st[t] \in Approval
  BY <1>1, <1>6 DEF Blames, Clean, Snapshots, ExpirySnapshot
<1>7. Clean(t)' => st[t] # None
  BY <1>6, NoneAssumption, WorkflowAssumption
<1>8. ASSUME Clean(t)', Agree(st[t], clock[t].status) PROVE Agree(to, d.status)
  <2>1. clock[t].status \in {"active", "breached"}
    BY <1>6, <1>8 DEF Agree, WellShaped
  <2>2. CASE ExpiryCloses(t)
    BY <1>2, <1>5, <2>1, <2>2, ClockWrites DEF Agree
  <2>3. CASE ~ExpiryCloses(t)
    BY <1>2, <1>5, <2>1, <2>3, ClockWrites DEF Agree, Working
  <2> QED BY <2>2, <2>3
<1> HIDE DEF d, h
<1> QED BY <1>1, <1>3, <1>4, <1>5, <1>7, <1>8, SweepMoveKeeps

LEMMA AutoCloseKeeps ==
  ASSUME TypeOK, IInv, WellShaped, NEW t \in Tickets, AutoClose(t)
  PROVE  IInv'
<1> DEFINE h == <<"closing", t>>
<1>1. /\ closing[t] # None /\ UNCHANGED <<deleted, req, approvals, torn>> /\ st' = [st EXCEPT ![t] = closing[t]]
      /\ clock' = [clock EXCEPT ![t] = Settled(clock[t], {"active"})] /\ closing' = [closing EXCEPT ![t] = None]
      /\ Blames(h, t) /\ MovesAndEnds(h, t)
  BY DEF AutoClose
<1>2. closing[t] \in Final /\ (h \in stale \/ st[t] \in Approval) /\ closing[t] \in States \ Approval
  BY <1>1, WorkflowAssumption DEF IInv, ClosingFrom, WellShaped
<1>3. /\ \A p \in Procs : Req(p) # h
      /\ \A u \in Tickets : closing'[u] = None \/ (<<"closing", u>> # h /\ closing'[u] = closing[u])
  BY <1>1 DEF Req, TypeOK
<1>4. /\ Considerate(h) /\ Readers(t) \ {h} \subseteq stale' /\ (\A u \in Tickets \ {t} : Aside(u))
      /\ st'[t] = closing[t] /\ clock'[t] = Settled(clock[t], {"active"}) /\ clock[t] \in Clock
  BY <1>1 DEF Considerate, Aside, TypeOK, MovesAndEnds, Blames
<1>5. ASSUME Clean(t)' PROVE st[t] \in Approval
  BY <1>1, <1>2, <1>5 DEF Blames, Clean
<1>6. Clean(t)' => st[t] # None
  BY <1>5, NoneAssumption, WorkflowAssumption
<1>7. ASSUME Clean(t)', Agree(st[t], clock[t].status) PROVE Agree(st'[t], clock'[t].status)
  <2>1. clock[t].status \in {"active", "breached"}
    BY <1>5, <1>7 DEF Agree, WellShaped
  <2> QED BY <1>2, <1>4, <2>1, ClockWrites DEF Agree
<1> HIDE DEF h
<1> QED BY <1>1, <1>2, <1>3, <1>4, <1>6, <1>7, SweepMoveKeeps

\* Steps that mark or read tickets only.
LEMMA StillSteps ==
  ASSUME TypeOK, IInv, WellShaped,
         \/ StartExpiry \/ StartWaiting
         \/ \E t \in Tickets : \/ SetDeleted(t, TRUE) \/ SetDeleted(t, FALSE) \/ ExpirySkips(t)
                               \/ AutoCloseFails(t) \/ WaitingEscalates(t) \/ WaitingFails(t)
  PROVE  IInv'
<1>1. ASSUME UNCHANGED <<st, clock, approvals, req, torn>>, overwritten \subseteq overwritten',
             NEW h \in {NoOne} \cup ({"expiry", "closing", "waiting"} \X Tickets), Considerate(h),
             \A u \in Tickets : closing'[u] = None \/ (<<"closing", u>> # h /\ closing'[u] = closing[u])
      PROVE  IInv'
  <2>1. \A p \in Procs : Req(p) # h
    <3>1. CASE h = NoOne
      BY <3>1 DEF Req, NoOne
    <3>2. CASE h \in {"expiry", "closing", "waiting"} \X Tickets
      BY <3>2 DEF Req
    <3> QED BY <3>1, <3>2
  <2>2. \A u \in Tickets : Aside(u)
    BY <1>1 DEF Aside
  <2> QED BY <1>1, <2>1, <2>2, StillKeeps
<1>2. \A u \in Tickets : <<"closing", u>> # NoOne
  BY DEF NoOne
<1>3. CASE StartExpiry \/ StartWaiting
  <2>1. Considerate(NoOne) /\ UNCHANGED <<st, clock, approvals, req, torn, overwritten, closing>>
    BY <1>3 DEF StartExpiry, StartWaiting, Considerate, row, history
  <2> QED BY <1>1, <1>2, <2>1
<1>4. ASSUME NEW t \in Tickets, SetDeleted(t, TRUE) \/ SetDeleted(t, FALSE) PROVE IInv'
  <2>1. Considerate(NoOne) /\ UNCHANGED <<st, clock, approvals, req, torn, overwritten, closing>>
    BY <1>4 DEF SetDeleted, Considerate, TypeOK, sweeps
  <2> QED BY <1>1, <1>2, <2>1
<1>5. ASSUME NEW t \in Tickets, ExpirySkips(t) PROVE IInv'
  <2>1. Considerate(<<"expiry", t>>) /\ UNCHANGED <<st, clock, approvals, req, torn, overwritten, closing>>
    BY <1>5 DEF ExpirySkips, Considerate, Ends, row
  <2> QED BY <1>1, <2>1
<1>6. ASSUME NEW t \in Tickets, AutoCloseFails(t) PROVE IInv'
  <2>1. Considerate(<<"closing", t>>) /\ UNCHANGED <<st, clock, approvals, req, torn, overwritten>>
    BY <1>6 DEF AutoCloseFails, Considerate, Ends, row
  <2>2. \A u \in Tickets : closing'[u] = None \/ (<<"closing", u>> # <<"closing", t>> /\ closing'[u] = closing[u])
    BY <1>6 DEF AutoCloseFails, TypeOK
  <2> QED BY <1>1, <2>1, <2>2
<1>7. ASSUME NEW t \in Tickets, WaitingEscalates(t) \/ WaitingFails(t) PROVE IInv'
  <2>1. /\ Considerate(<<"waiting", t>>) /\ UNCHANGED <<st, clock, approvals, req, torn, closing>>
        /\ overwritten \subseteq overwritten'
    BY <1>7 DEF WaitingEscalates, WaitingFails, Considerate, Ends, Blames, row
  <2> QED BY <1>1, <2>1
<1> QED BY <1>3, <1>4, <1>5, <1>6, <1>7

LEMMA StartAutoCloseKeeps ==
  ASSUME TypeOK, IInv, StartAutoClose
  PROVE  IInv'
<1>1. UNCHANGED <<st, deleted, clock, approvals, req, stale, overwritten, torn>>
  BY DEF StartAutoClose, row, history
<1>2. \A u \in Tickets : closing'[u] # None => closing'[u] \in Final /\ st[u] \in Approval
  BY DEF StartAutoClose
<1>3. \A u \in Tickets : ClosingFrom(u)'
  BY <1>1, <1>2 DEF ClosingFrom
<1>4. \A p \in Procs : After(p)'
  BY <1>1 DEF IInv, After, Half, Req
<1>5. ASSUME NEW u \in Tickets PROVE TicketInv(u)'
  BY <1>1, <1>5 DEF IInv, TicketInv, Fit, Asks, Untouched, Clean, Overtaken, On, Half, Req
<1> QED BY <1>3, <1>4, <1>5 DEF IInv

\* Time passes and a breach is noted: the verdict of the clock does not change,
\* only what it will be.
LEMMA TimeKeeps ==
  ASSUME TypeOK, IInv, WellShaped, SlaBreach \/ \E t \in Tickets : DeadlinePasses(t)
  PROVE  IInv'
<1>1. UNCHANGED <<st, deleted, approvals, req, closing, stale, overwritten, torn>>
  BY DEF SlaBreach, DeadlinePasses, row, history, sweeps
<1>2. ASSUME NEW u \in Tickets
      PROVE  \/ clock'[u].status = clock[u].status
             \/ clock[u].status = "active" /\ clock'[u].status = "breached"
  <2>1. clock[u] \in Clock
    BY DEF TypeOK
  <2>2. CASE SlaBreach
    BY <2>1, <2>2 DEF SlaBreach, Overdue, Clock
  <2>3. ASSUME NEW t \in Tickets, DeadlinePasses(t)
        PROVE  clock'[u].status = clock[u].status
    <3>1. clock' = [clock EXCEPT ![t] = [clock[t] EXCEPT !.late = TRUE]]
      BY <2>3 DEF DeadlinePasses
    <3> QED BY <2>1, <3>1 DEF Clock, TypeOK
  <2> QED BY <2>2, <2>3
<1>3. \A u \in Tickets : ClosingFrom(u)'
  BY <1>1 DEF IInv, ClosingFrom
<1>4. \A p \in Procs : After(p)'
  BY <1>1 DEF IInv, After, Half, Req
<1>5. ASSUME NEW u \in Tickets PROVE TicketInv(u)'
  <2>1. TicketInv(u)
    BY DEF IInv
  <2>2. Agree(st[u], clock[u].status) => Agree(st[u], clock'[u].status)
    BY <1>2 DEF Agree
  <2>3. \A pc \in Steps : Finds(pc, clock[u].status) => Finds(pc, clock'[u].status)
    BY <1>2 DEF Finds
  <2>4. \A q \in Procs : On(q, u) => req[q].pc \in Steps
    BY ActiveRequest DEF On, Half, Request
  <2>5. Fit(u)'
    BY <1>1, <2>1, <2>2, <2>3, <2>4 DEF TicketInv, Fit, Clean, Overtaken, On, Half, Req
  <2>6. Asks(u)' /\ Untouched(u)'
    BY <1>1, <1>2, <2>1 DEF TicketInv, Asks, Untouched
  <2> QED BY <2>5, <2>6 DEF TicketInv
<1> QED BY <1>3, <1>4, <1>5 DEF IInv

LEMMA ApprovalLapsesKeeps ==
  ASSUME TypeOK, IInv, NEW t \in Tickets, ApprovalLapses(t)
  PROVE  IInv'
<1>1. UNCHANGED <<st, deleted, clock, req, closing, stale, overwritten, torn>>
  BY DEF ApprovalLapses, row, history, sweeps
<1>2. PICK i \in DOMAIN approvals[t] : approvals' = [approvals EXCEPT ![t] = [approvals[t] EXCEPT ![i] = "lapsed"]]
  BY DEF ApprovalLapses, Waits
<1>3. \A u \in Tickets : ClosingFrom(u)'
  BY <1>1 DEF IInv, ClosingFrom
<1>4. \A p \in Procs : After(p)'
  BY <1>1 DEF IInv, After, Half, Req
<1>5. ASSUME NEW u \in Tickets PROVE TicketInv(u)'
  <2>1. TicketInv(u)
    BY DEF IInv
  <2>2. Fit(u)' /\ Untouched(u)'
    BY <1>1, <2>1 DEF TicketInv, Fit, Untouched, Clean, Overtaken, On, Half, Req
  <2>3. CASE u = t
    <3>1. approvals[t] \in Seq(ApprovalStatus) /\ approvals'[t] = [approvals[t] EXCEPT ![i] = "lapsed"]
      BY <1>2 DEF TypeOK
    <3>2. i \in DOMAIN approvals'[t] /\ approvals'[t][i] = "lapsed"
      BY <1>2, <3>1
    <3> QED BY <2>2, <2>3, <3>2 DEF TicketInv, Asks
  <2>4. CASE u # t
    BY <1>1, <1>2, <2>1, <2>2, <2>4 DEF TicketInv, Asks, TypeOK
  <2> QED BY <2>3, <2>4
<1> QED BY <1>3, <1>4, <1>5 DEF IInv

\* A handler that dies between the move and the clock tears the ticket.
LEMMA RequestFailsKeeps ==
  ASSUME TypeOK, IInv, NEW p \in Procs, RequestFails(p)
  PROVE  IInv'
<1>1. /\ UNCHANGED <<st, deleted, clock, approvals, closing, overwritten>>
      /\ Considerate(Req(p)) /\ torn' = IF Half(p) THEN torn \cup {req[p].t} ELSE torn
      /\ \A u \in Tickets : Aside(u)
  BY DEF RequestFails, row, sweeps, Considerate, Ends, Aside
<1>2. req'[p] = Idle /\ \A q \in Procs \ {p} : req'[q] = req[q]
  BY DEF RequestFails, Return, TypeOK
<1>3. After(p)' /\ ~Half(p)' /\ req'[p].t = None
  BY <1>2 DEF After, Half, Idle
<1>4. CASE ~Half(p)
  BY <1>1, <1>2, <1>3, <1>4, QuietKeeps
<1>5. CASE Half(p)
  <2>1. PICK t \in Tickets : req[p].t = t
    BY <1>5, ActiveRequest DEF Half, Request
  <2>2. t \in torn' /\ st[t] # None
    BY <1>1, <1>5, <2>1 DEF IInv, TicketInv, Untouched
  <2>3. TicketInv(t)'
    BY <1>1, <2>2 DEF IInv, TicketInv, Fit, Clean, Asks, Untouched
  <2> QED BY <1>1, <1>2, <1>3, <2>1, <2>3, RequestKeeps
<1> QED BY <1>4, <1>5

\* And so does a restart to all it finds there.
LEMMA RestartKeeps ==
  ASSUME TypeOK, IInv, Restart
  PROVE  IInv'
<1>1. /\ UNCHANGED <<st, clock, approvals, overwritten>> /\ stale' = {}
      /\ torn' = torn \cup {t \in Tickets : MidWrite(t)}
      /\ (\A p \in Procs : req'[p] = Idle) /\ \A t \in Tickets : closing'[t] = None
  BY DEF Restart, row
<1>2. \A p \in Procs : After(p)' /\ ~Half(p)' /\ req'[p].t = None
  BY <1>1 DEF After, Half, Idle
<1>3. \A t \in Tickets : ClosingFrom(t)'
  BY <1>1 DEF ClosingFrom
<1>4. ASSUME NEW t \in Tickets PROVE TicketInv(t)'
  <2>1. TicketInv(t)
    BY DEF IInv
  <2>2. Clean(t)' => Clean(t) /\ \A p \in Procs : ~On(p, t)
    BY <1>1 DEF Clean, MidWrite, On
  <2>3. Fit(t)'
    BY <1>1, <1>2, <2>1, <2>2 DEF TicketInv, Fit, Overtaken, On
  <2>4. Asks(t)' /\ Untouched(t)'
    BY <1>1, <1>2, <2>1, NoneAssumption DEF TicketInv, Asks, Untouched
  <2> QED BY <2>3, <2>4 DEF TicketInv
<1> QED BY <1>2, <1>3, <1>4 DEF IInv

\* Every step keeps the clock, the approvals and the state together.
LEMMA NextIInv == WellShaped /\ TypeOK /\ Snapshots /\ IInv /\ [Next]_vars => IInv'
<1> SUFFICES ASSUME WellShaped, TypeOK, Snapshots, IInv, [Next]_vars PROVE IInv'
  OBVIOUS
<1>1. \A p \in Procs : req[p].pc # "done" => req[p].t \in Tickets
  BY ActiveRequest DEF Request
<1>2. ASSUME NEW p \in Procs, Continue(p) PROVE IInv'
  <2>1. req[p].t \in Tickets
    BY <1>1, <1>2 DEF Continue, CreateClock, CreateAssign, RereadBulkClose, PassBlocksGuard, RefuseBlocked,
        CommitTransition, ApproveClose, ApproveRelease, ApproveSign, ApproveResume, ApproveVerdict,
        RejectReopen, RejectFails, RejectRefuse, RejectResume, DemoteOwner, InsertAssignment, At
  <2> QED BY <1>2, <2>1, QuietSteps, CommitKeeps, HandlerMoveKeeps, HalfSteps, LastWrites DEF Continue
<1>3. ASSUME NEW p \in Procs, NEW t \in Tickets, Read(p, t) PROVE IInv'
  BY <1>3, QuietSteps, CreateTicketKeeps DEF Read
<1>4. ASSUME NEW p \in Procs, RequestFails(p) PROVE IInv'
  BY <1>4, RequestFailsKeeps
<1>5. ASSUME NEW t \in Tickets,
             \/ ForceReopen(t) \/ SetDeleted(t, TRUE) \/ SetDeleted(t, FALSE) \/ ExpiryStep(t)
             \/ AutoClose(t) \/ AutoCloseFails(t) \/ WaitingEscalates(t) \/ WaitingFails(t)
             \/ DeadlinePasses(t) \/ ApprovalLapses(t)
      PROVE  IInv'
  BY <1>5, ForceReopenKeeps, StillSteps, ExpiryKeeps, AutoCloseKeeps, TimeKeeps, ApprovalLapsesKeeps
     DEF ExpiryStep
<1>6. ASSUME StartExpiry \/ StartAutoClose \/ StartWaiting \/ SlaBreach \/ Restart PROVE IInv'
  BY <1>6, StillSteps, StartAutoCloseKeeps, TimeKeeps, RestartKeeps
<1>7. ASSUME UNCHANGED vars PROVE IInv'
  <2>1. Considerate(NoOne) /\ UNCHANGED <<req, closing>> /\ \A u \in Tickets : Aside(u)
    BY <1>7 DEF vars, row, sweeps, history, Considerate, Aside
  <2>2. (\A p \in Procs : Req(p) # NoOne) /\ \A u \in Tickets : <<"closing", u>> # NoOne
    BY DEF Req, NoOne
  <2> QED BY <2>1, <2>2, StillKeeps
<1> QED BY <1>2, <1>3, <1>4, <1>5, <1>6, <1>7 DEF Next

LEMMA ClockAndState == ASSUME WellShaped PROVE Spec => []IInv
<1>1. TypeOK /\ Snapshots /\ IInv /\ [Next]_vars => IInv'
  BY NextIInv
<1> QED BY <1>1, InitIInv, SnapshotsCorrect, PTL DEF Spec

\* Whatever the workflow, as long as it is shaped as bootstrapping shapes it:
\* the clock tells the state of every ticket that no handler is writing, wrote
\* on a stale read or left half written.
THEOREM ClockTellsState == ASSUME WellShaped PROVE Spec => []ClockFollowsState
<1>1. IInv => ClockFollowsState
  <2> SUFFICES ASSUME IInv, NEW t \in Tickets, st[t] # None, Clean(t), ~MidWrite(t) PROVE ClockAgrees(t)
    BY DEF ClockFollowsState
  <2>1. Agree(st[t], clock[t].status)
    BY DEF IInv, TicketInv, Fit, Overtaken, On, MidWrite
  <2> QED BY <2>1 DEF Agree, ClockAgrees, WellShaped
<1> QED BY <1>1, ClockAndState, PTL

\* And a ticket that waits for its requester has an approval still open.
THEOREM ApprovalStaysOpen == ASSUME WellShaped PROVE Spec => []ValidationIsOpen
<1>1. IInv => ValidationIsOpen
  <2> SUFFICES ASSUME IInv, NEW t \in Tickets, st[t] \in Approval, t \notin overwritten
               PROVE  Waits(approvals[t], "pending") \cup Waits(approvals[t], "lapsed") # {}
    BY DEF ValidationIsOpen
  <2>1. PICK i \in DOMAIN approvals[t] : approvals[t][i] \in {"pending", "lapsed"}
    BY DEF IInv, TicketInv, Asks
  <2> QED BY <2>1 DEF Waits
<1> QED BY <1>1, ClockAndState, PTL

-----------------------------------------------------------------------------
(* Counts and priorities                                                   *)
(*                                                                         *)
(* A rejection and the sweeps write back a count or a priority that they   *)
(* read some time before.  As long as they are not stale it is still the   *)
(* ticket's: what changes it either moves the ticket, which makes them     *)
(* stale, or is the waiting sweep, which finds it paused while they found  *)
(* it in validation.                                                       *)

Recalls(t, count, prio) == t \in overwritten \/ (reprocess[t] = count /\ priority[t] = prio)

RequestRecall(p) ==
  req[p].pc = "reopen" =>
    /\ req[p].from \in Approval
    /\ Req(p) \in stale \/ Recalls(req[p].t, req[p].count, req[p].prio)

ExpiryRecall(t) ==
  expiry[t].n > 0 => <<"expiry", t>> \in stale \/ Recalls(t, expiry[t].count, expiry[t].prio)

WaitingRecall(t) ==
  waiting[t] > 0 =>
    \/ <<"waiting", t>> \in stale
    \/ st[t] \in Pause /\ (t \in overwritten \/ priority[t] = waiting[t])

Memory ==
  /\ \A p \in Procs : RequestRecall(p)
  /\ \A t \in Tickets : ExpiryRecall(t) /\ WaitingRecall(t)

SameRow(u) == st'[u] = st[u] /\ reprocess'[u] = reprocess[u] /\ priority'[u] = priority[u]

\* What every step owes the readers other than h, counts and priorities included.
Careful(h) ==
  /\ stale \ {h} \subseteq stale' /\ overwritten \subseteq overwritten'
  /\ \A u \in Tickets : SameRow(u) \/ Readers(u) \ {h} \subseteq stale'

LEMMA OthersKeepMemory ==
  ASSUME TypeOK, Memory, NEW h, Careful(h)
  PROVE  /\ \A p \in Procs : Req(p) # h /\ req'[p] = req[p] => RequestRecall(p)'
         /\ \A t \in Tickets : <<"expiry", t>> # h /\ expiry'[t] = expiry[t] => ExpiryRecall(t)'
         /\ \A t \in Tickets : <<"waiting", t>> # h /\ waiting'[t] = waiting[t] => WaitingRecall(t)'
<1>1. ASSUME NEW p \in Procs, Req(p) # h, req'[p] = req[p], req[p].pc = "reopen"
      PROVE  RequestRecall(p)'
  <2>1. req[p].t \in Tickets
    BY <1>1, ActiveRequest DEF Request
  <2>2. RequestRecall(p) /\ Req(p)' = Req(p)
    BY DEF Memory, Req
  <2> QED BY <1>1, <2>1, <2>2, WhoReads DEF RequestRecall, Recalls, Careful, SameRow
<1>2. ASSUME NEW p \in Procs, req'[p] = req[p], req[p].pc # "reopen"
      PROVE  RequestRecall(p)'
  BY <1>2 DEF RequestRecall
<1>3. ASSUME NEW t \in Tickets, <<"expiry", t>> # h, expiry'[t] = expiry[t]
      PROVE  ExpiryRecall(t)'
  BY <1>3, WhoReads DEF Memory, ExpiryRecall, Recalls, Careful, SameRow
<1>4. ASSUME NEW t \in Tickets, <<"waiting", t>> # h, waiting'[t] = waiting[t]
      PROVE  WaitingRecall(t)'
  <2>1. waiting[t] > 0 => <<"waiting", t>> \in Readers(t)
    BY DEF Readers
  <2> QED BY <1>4, <2>1 DEF Memory, WaitingRecall, Careful, SameRow
<1> QED BY <1>1, <1>2, <1>3, <1>4

\* A step of one request, which does not read for a rejection.
LEMMA RequestKeepsMemory ==
  ASSUME TypeOK, Memory, NEW p \in Procs, Careful(Req(p)), req'[p].pc # "reopen",
         \A q \in Procs \ {p} : req'[q] = req[q], UNCHANGED <<expiry, waiting>>
  PROVE  Memory'
<1>1. \A q \in Procs \ {p} : Req(q) # Req(p)
  BY DEF Req
<1>2. \A t \in Tickets : <<"expiry", t>> # Req(p) /\ <<"waiting", t>> # Req(p)
  BY DEF Req
<1>3. RequestRecall(p)'
  BY DEF RequestRecall
<1> QED BY <1>1, <1>2, <1>3, OthersKeepMemory DEF Memory

\* A step that leaves every request and both sweeps alone.
LEMMA OthersStepKeepsMemory ==
  ASSUME TypeOK, Memory, Careful(NoOne), UNCHANGED <<req, expiry, waiting>>
  PROVE  Memory'
<1>1. \A p \in Procs : NoOne # Req(p)
  BY DEF NoOne, Req
<1>2. \A t \in Tickets : NoOne # <<"expiry", t>> /\ NoOne # <<"waiting", t>>
  BY DEF NoOne
<1> QED BY <1>1, <1>2, OthersKeepMemory DEF Memory

LEMMA ContinueKeepsMemory ==
  ASSUME TypeOK, Memory, NEW p \in Procs, Continue(p) \/ RequestFails(p)
  PROVE  Memory'
<1>1. req[p] \in Request /\ req[p].t \in Tickets
  <2>1. req[p].pc # "done"
    BY DEF Continue, CreateClock, CreateAssign, RereadBulkClose, PassBlocksGuard, RefuseBlocked,
        CommitTransition, ApproveClose, ApproveRelease, ApproveSign, ApproveResume, ApproveVerdict,
        RejectReopen, RejectFails, RejectRefuse, RejectResume, DemoteOwner, InsertAssignment, At,
        RequestFails, Free, TypeOK, Request, Steps
  <2> QED BY <2>1, ActiveRequest DEF Request
<1>2. ASSUME NEW pc \in Steps \ {"reopen"}, Goto(p, pc) \/ Return(p)
      PROVE  req'[p].pc # "reopen" /\ \A q \in Procs \ {p} : req'[q] = req[q]
  <2>1. /\ req'[p] = [req[p] EXCEPT !.pc = pc] \/ req'[p] = Idle
        /\ \A q \in Procs \ {p} : req'[q] = req[q]
    BY <1>2 DEF Goto, Return, TypeOK
  <2> QED BY <1>1, <2>1 DEF Idle, Request
<1>3. \E pc \in Steps \ {"reopen"} : Goto(p, pc) \/ Return(p)
  BY DEF Continue, CreateClock, CreateAssign, RereadBulkClose, PassBlocksGuard, RefuseBlocked,
        CommitTransition, ApproveClose, ApproveRelease, ApproveSign, ApproveResume, ApproveVerdict,
        RejectReopen, RejectFails, RejectRefuse, RejectResume, DemoteOwner, InsertAssignment,
        RequestFails, Steps
<1>4. UNCHANGED <<expiry, waiting>>
  BY DEF Continue, CreateClock, CreateAssign, RereadBulkClose, PassBlocksGuard, RefuseBlocked,
        CommitTransition, ApproveClose, ApproveRelease, ApproveSign, ApproveResume, ApproveVerdict,
        RejectReopen, RejectFails, RejectRefuse, RejectResume, DemoteOwner, InsertAssignment,
        RequestFails, sweeps
<1>5. Careful(Req(p))
  <2>1. CASE CommitTransition(p)
    BY <1>1, <2>1 DEF CommitTransition, Careful, SameRow, TypeOK, MovesAndEnds, Blames
  <2>2. CASE ApproveClose(p)
    BY <1>1, <2>2 DEF ApproveClose, Careful, SameRow, TypeOK, Moves, Blames
  <2>3. CASE RejectReopen(p)
    BY <1>1, <2>3 DEF RejectReopen, Careful, SameRow, TypeOK, Moves, Blames
  <2>4. CASE ~(CommitTransition(p) \/ ApproveClose(p) \/ RejectReopen(p))
    BY <2>4 DEF Continue, CreateClock, CreateAssign, RereadBulkClose, PassBlocksGuard, RefuseBlocked,
        ApproveRelease, ApproveSign, ApproveResume, ApproveVerdict, RejectFails, RejectRefuse, RejectResume,
        DemoteOwner, InsertAssignment, RequestFails, Careful, SameRow, Blames, Ends, row, history
  <2> QED BY <2>1, <2>2, <2>3, <2>4
<1> QED BY <1>2, <1>3, <1>4, <1>5, RequestKeepsMemory

LEMMA ReadKeepsMemory ==
  ASSUME TypeOK, Snapshots, Memory, WellShaped, NEW p \in Procs, NEW t \in Tickets, Read(p, t)
  PROVE  Memory'
<1>1. CASE CreateTicket(p, t)
  <2>1. /\ st[t] = None /\ \A u \in Tickets \ {t} : SameRow(u)
        /\ UNCHANGED <<expiry, waiting, stale, overwritten>>
    BY <1>1 DEF CreateTicket, SameRow, TypeOK, sweeps, history
  <2>2. req'[p].pc = "track" /\ \A q \in Procs \ {p} : req'[q] = req[q]
    BY <1>1 DEF CreateTicket, Start, TypeOK
  <2>3. st[t] \notin Approval \cup Pause
    BY <2>1, NoneAssumption, WorkflowAssumption
  <2>4. ASSUME NEW q \in Procs \ {p}, req[q].pc = "reopen" PROVE RequestRecall(q)'
    <3>1. req[q].t \in Tickets /\ RequestRecall(q) /\ RequestSnapshot(q)
      BY <2>4, ActiveRequest DEF Request, Memory, Snapshots
    <3>2. req[q].t = t => Req(q) \in stale
      BY <2>3, <2>4, <3>1 DEF RequestRecall, RequestSnapshot, Deciding
    <3> QED BY <2>1, <2>2, <2>4, <3>1, <3>2 DEF RequestRecall, Recalls, SameRow, Req
  <2>5. \A q \in Procs : RequestRecall(q)'
    BY <2>2, <2>4 DEF RequestRecall
  <2>6. ASSUME NEW u \in Tickets PROVE ExpiryRecall(u)' /\ WaitingRecall(u)'
    <3>1. ExpirySnapshot(u) /\ ExpiryRecall(u) /\ WaitingRecall(u)
      BY DEF Memory, Snapshots
    <3> QED BY <2>1, <2>3, <3>1 DEF ExpirySnapshot, ExpiryRecall, WaitingRecall, Recalls, SameRow
  <2> QED BY <2>5, <2>6 DEF Memory
<1>2. CASE ReadReject(p, t)
  <2>1. /\ st[t] \in Approval /\ UNCHANGED <<row, sweeps, history>>
        /\ \E to : Start(p, "reopen", t, st[t], to, None)
    BY <1>2 DEF ReadReject
  <2>2. /\ req'[p].t = t /\ req'[p].from = st[t] /\ req'[p].count = reprocess[t] /\ req'[p].prio = priority[t]
        /\ \A q \in Procs \ {p} : req'[q] = req[q]
    BY <2>1 DEF Start, TypeOK
  <2>3. Careful(Req(p)) /\ UNCHANGED <<reprocess, priority, expiry, waiting>>
    BY <2>1 DEF Careful, SameRow, row, sweeps, history
  <2>4. RequestRecall(p)'
    BY <2>1, <2>2, <2>3 DEF RequestRecall, Recalls
  <2>5. \A q \in Procs \ {p} : Req(q) # Req(p)
    BY DEF Req
  <2>6. \A u \in Tickets : <<"expiry", u>> # Req(p) /\ <<"waiting", u>> # Req(p)
    BY DEF Req
  <2> QED BY <2>2, <2>3, <2>4, <2>5, <2>6, OthersKeepMemory DEF Memory
<1>3. CASE ReadTransition(p, t) \/ ReadBulkClose(p, t) \/ ReadApprove(p, t) \/ ReadAssign(p, t)
  <2>1. /\ UNCHANGED <<row, sweeps, history>>
        /\ \E pc \in Steps \ {"reopen"} : \E from, to, who : Start(p, pc, t, from, to, who)
    BY <1>3 DEF ReadTransition, ReadBulkClose, ReadApprove, ReadAssign, AfterRead, Steps
  <2>2. req'[p].pc # "reopen" /\ \A q \in Procs \ {p} : req'[q] = req[q]
    BY <2>1 DEF Start, TypeOK
  <2>3. Careful(Req(p)) /\ UNCHANGED <<expiry, waiting>>
    BY <2>1 DEF Careful, SameRow, row, sweeps, history
  <2> QED BY <2>2, <2>3, RequestKeepsMemory
<1> QED BY <1>1, <1>2, <1>3 DEF Read

LEMMA SweepKeepsMemory ==
  ASSUME TypeOK, Snapshots, Memory, WellShaped, NEW t \in Tickets,
         \/ ForceReopen(t) \/ SetDeleted(t, TRUE) \/ SetDeleted(t, FALSE) \/ ExpiryStep(t)
         \/ AutoClose(t) \/ AutoCloseFails(t) \/ WaitingEscalates(t) \/ WaitingFails(t)
         \/ DeadlinePasses(t) \/ ApprovalLapses(t)
  PROVE  Memory'
<1>1. CASE ForceReopen(t) \/ SetDeleted(t, TRUE) \/ SetDeleted(t, FALSE) \/ DeadlinePasses(t) \/ ApprovalLapses(t)
  <2>1. CASE ForceReopen(t)
    BY <2>1, OthersStepKeepsMemory DEF ForceReopen, Careful, SameRow, NoOne, TypeOK, sweeps
  <2>2. CASE SetDeleted(t, TRUE) \/ SetDeleted(t, FALSE)
    BY <2>2, OthersStepKeepsMemory DEF SetDeleted, Careful, SameRow, NoOne, sweeps
  <2>3. CASE DeadlinePasses(t) \/ ApprovalLapses(t)
    BY <2>3, OthersStepKeepsMemory DEF DeadlinePasses, ApprovalLapses, Careful, SameRow, row, history, sweeps
  <2> QED BY <1>1, <2>1, <2>2, <2>3
<1>2. CASE AutoClose(t) \/ AutoCloseFails(t)
  <2>1. Careful(<<"closing", t>>) /\ UNCHANGED <<req, expiry, waiting>>
    BY <1>2 DEF AutoClose, AutoCloseFails, Careful, SameRow, TypeOK, MovesAndEnds, Ends, Blames, row
  <2>2. \A p \in Procs : Req(p) # <<"closing", t>>
    BY DEF Req
  <2> QED BY <2>1, <2>2, OthersKeepMemory DEF Memory
<1>3. CASE ExpiryStep(t)
  <2> DEFINE h == <<"expiry", t>>
  <2>1. (\A p \in Procs : Req(p) # h) /\ \A u \in Tickets : <<"waiting", u>> # h
    BY DEF Req
  <2>2. UNCHANGED <<req, waiting>> /\ NextExpiryItem(t) /\ expiry[t].n > 0
    BY <1>3 DEF ExpiryStep, ExpiryCloses, ExpiryReopens, ExpirySkips
  <2>3. CASE ExpiryCloses(t) \/ ExpiryReopens(t)
    <3>1. Careful(h)
      BY <2>3 DEF ExpiryCloses, ExpiryReopens, Careful, SameRow, TypeOK, ExpiryMoves, Blames
    <3>2. expiry[t].n # 1 => h \in stale'
      BY <2>2, <2>3, WhoReads DEF ExpiryCloses, ExpiryReopens, ExpiryMoves
    <3>3. ExpiryRecall(t)'
      BY <2>2, <3>2 DEF ExpiryRecall, NextExpiryItem, TypeOK, NoExpiry
    <3>4. \A u \in Tickets \ {t} : expiry'[u] = expiry[u] /\ <<"expiry", u>> # h
      BY <2>2 DEF NextExpiryItem, TypeOK
    <3> HIDE DEF h
    <3> QED BY <2>1, <2>2, <3>1, <3>3, <3>4, OthersKeepMemory DEF Memory
  <2>4. CASE ExpirySkips(t)
    <3>1. Careful(h) /\ UNCHANGED <<reprocess, priority, overwritten>>
      BY <2>4 DEF ExpirySkips, Careful, SameRow, Ends, row
    <3>2. ExpiryRecall(t)'
      <4>1. CASE expiry[t].n = 1
        BY <2>2, <4>1 DEF ExpiryRecall, NextExpiryItem, TypeOK, NoExpiry
      <4>2. CASE expiry[t].n # 1
        <5>1. expiry'[t] = [expiry[t] EXCEPT !.n = expiry[t].n - 1] /\ expiry[t] \in ExpiryItem
          BY <2>2, <4>2 DEF NextExpiryItem, TypeOK
        <5>2. expiry'[t].count = expiry[t].count /\ expiry'[t].prio = expiry[t].prio /\ stale' = stale
          BY <2>4, <4>2, <5>1 DEF ExpirySkips, ExpiryItem
        <5> QED BY <2>2, <3>1, <5>2 DEF Memory, ExpiryRecall, Recalls
      <4> QED BY <4>1, <4>2
    <3>3. \A u \in Tickets \ {t} : expiry'[u] = expiry[u] /\ <<"expiry", u>> # h
      BY <2>2 DEF NextExpiryItem, TypeOK
    <3> HIDE DEF h
    <3> QED BY <2>1, <2>2, <3>1, <3>2, <3>3, OthersKeepMemory DEF Memory
  <2> QED BY <1>3, <2>3, <2>4 DEF ExpiryStep
<1>4. CASE WaitingFails(t)
  <2>1. Careful(<<"waiting", t>>) /\ UNCHANGED <<req, expiry>> /\ waiting' = [waiting EXCEPT ![t] = 0]
    BY <1>4 DEF WaitingFails, Careful, SameRow, Ends, row
  <2>2. \A p \in Procs : Req(p) # <<"waiting", t>>
    BY DEF Req
  <2>3. WaitingRecall(t)' /\ \A u \in Tickets \ {t} : waiting'[u] = waiting[u]
    BY <2>1 DEF WaitingRecall, TypeOK
  <2> QED BY <2>1, <2>2, <2>3, OthersKeepMemory DEF Memory
<1>5. CASE WaitingEscalates(t)
  <2> DEFINE h == <<"waiting", t>>
  <2>1. /\ waiting[t] > 0 /\ waiting' = [waiting EXCEPT ![t] = 0] /\ Blames(h, t) /\ stale' = stale \ {h}
        /\ UNCHANGED <<st, reprocess, req, expiry>> /\ \A u \in Tickets \ {t} : priority'[u] = priority[u]
    BY <1>5 DEF WaitingEscalates, Ends, TypeOK
  <2>2. /\ \A p \in Procs : Req(p) # h /\ Req(p)' = Req(p)
        /\ \A u \in Tickets : <<"expiry", u>> # h /\ (u # t => <<"waiting", u>> # h)
    BY DEF Req
  <2>3. st[t] \in Approval => t \in overwritten'
    BY <2>1 DEF Memory, WaitingRecall, Blames, WellShaped
  <2>4. overwritten \subseteq overwritten'
    BY <2>1 DEF Blames
  <2>5. ASSUME NEW p \in Procs PROVE RequestRecall(p)'
    <3>1. RequestRecall(p) /\ RequestSnapshot(p)
      BY DEF Memory, Snapshots
    <3>2. req[p].pc = "reopen" => req[p].t \in Tickets
      BY ActiveRequest DEF Request
    <3> QED BY <2>1, <2>2, <2>3, <2>4, <3>1, <3>2 DEF RequestRecall, Recalls, RequestSnapshot, Deciding
  <2>6. ASSUME NEW u \in Tickets PROVE ExpiryRecall(u)' /\ WaitingRecall(u)'
    <3>1. ExpiryRecall(u) /\ WaitingRecall(u) /\ ExpirySnapshot(u)
      BY DEF Memory, Snapshots
    <3>2. ExpiryRecall(u)'
      BY <2>1, <2>2, <2>3, <2>4, <3>1 DEF ExpiryRecall, Recalls, ExpirySnapshot
    <3>3. WaitingRecall(u)'
      BY <2>1, <2>2, <2>4, <3>1 DEF WaitingRecall, TypeOK
    <3> QED BY <3>2, <3>3
  <2> QED BY <2>5, <2>6 DEF Memory
<1> QED BY <1>1, <1>2, <1>3, <1>4, <1>5

LEMMA InitMemory == Init => Memory
BY DEF Init, Memory, RequestRecall, ExpiryRecall, WaitingRecall, Idle, NoExpiry

LEMMA NextMemory == WellShaped /\ TypeOK /\ Snapshots /\ Memory /\ [Next]_vars => Memory'
<1> SUFFICES ASSUME WellShaped, TypeOK, Snapshots, Memory, [Next]_vars PROVE Memory'
  OBVIOUS
<1>1. CASE StartExpiry
  <2>1. Careful(NoOne) /\ UNCHANGED <<req, waiting, reprocess, priority>>
    BY <1>1 DEF StartExpiry, Careful, SameRow, row, history
  <2>2. (\A p \in Procs : NoOne # Req(p)) /\ \A u \in Tickets : NoOne # <<"waiting", u>>
    BY DEF Req, NoOne
  <2>3. \A u \in Tickets : ExpiryRecall(u)'
    BY <1>1, <2>1 DEF StartExpiry, ExpiryRecall, Recalls, NoExpiry
  <2> QED BY <2>1, <2>2, <2>3, OthersKeepMemory DEF Memory
<1>2. CASE StartWaiting
  <2>1. Careful(NoOne) /\ UNCHANGED <<req, expiry, st, priority>>
    BY <1>2 DEF StartWaiting, Careful, SameRow, row, history
  <2>2. (\A p \in Procs : NoOne # Req(p)) /\ \A u \in Tickets : NoOne # <<"expiry", u>>
    BY DEF Req, NoOne
  <2>3. \A u \in Tickets : WaitingRecall(u)'
    BY <1>2, <2>1 DEF StartWaiting, WaitingRecall
  <2> QED BY <2>1, <2>2, <2>3, OthersKeepMemory DEF Memory
<1>3. CASE StartAutoClose \/ SlaBreach \/ UNCHANGED vars
  BY <1>3, OthersStepKeepsMemory DEF StartAutoClose, SlaBreach, vars, Careful, SameRow, row, history, sweeps
<1>4. CASE Restart
  BY <1>4 DEF Restart, Memory, RequestRecall, ExpiryRecall, WaitingRecall, Idle, NoExpiry
<1> QED BY <1>1, <1>2, <1>3, <1>4, ContinueKeepsMemory, ReadKeepsMemory, SweepKeepsMemory DEF Next

\* No priority falls by being escalated or kept.
LEMMA PrioritiesRise ==
  ASSUME NEW pr \in Priorities
  PROVE  Escalate(pr) >= pr /\ \A n : ReopenPriority(n, pr) >= pr
BY BoundsAssumption DEF Priorities, Escalate, ReopenPriority

\* Of the steps only a creation, a reopening and an escalation write a count or
\* a priority.
LEMMA WhoCounts ==
  ASSUME TypeOK, [Next]_vars
  PROVE  \/ UNCHANGED <<reprocess, priority>>
         \/ \E p \in Procs, t \in Tickets : CreateTicket(p, t)
         \/ \E p \in Procs : RejectReopen(p)
         \/ \E t \in Tickets : ForceReopen(t) \/ ExpiryReopens(t) \/ WaitingEscalates(t)
<1>1. ASSUME NEW p \in Procs, Continue(p), ~RejectReopen(p) PROVE UNCHANGED <<reprocess, priority>>
  BY <1>1 DEF Continue, CreateClock, CreateAssign, RereadBulkClose, PassBlocksGuard, RefuseBlocked,
        CommitTransition, ApproveClose, ApproveRelease, ApproveSign, ApproveResume, ApproveVerdict,
        RejectFails, RejectRefuse, RejectResume, DemoteOwner, InsertAssignment, row
<1>2. ASSUME NEW p \in Procs, NEW t \in Tickets, Read(p, t), ~CreateTicket(p, t)
      PROVE  UNCHANGED <<reprocess, priority>>
  BY <1>2 DEF Read, ReadTransition, ReadBulkClose, ReadApprove, ReadReject, ReadAssign, row
<1>3. ASSUME NEW p \in Procs, RequestFails(p) PROVE UNCHANGED <<reprocess, priority>>
  BY <1>3 DEF RequestFails, row
<1>4. ASSUME NEW t \in Tickets,
             \/ SetDeleted(t, TRUE) \/ SetDeleted(t, FALSE) \/ ExpiryCloses(t) \/ ExpirySkips(t)
             \/ AutoClose(t) \/ AutoCloseFails(t) \/ WaitingFails(t) \/ DeadlinePasses(t) \/ ApprovalLapses(t)
      PROVE  UNCHANGED <<reprocess, priority>>
  BY <1>4 DEF SetDeleted, ExpiryCloses, ExpirySkips, AutoClose, AutoCloseFails, WaitingFails,
              DeadlinePasses, ApprovalLapses, row
<1>5. ASSUME StartExpiry \/ StartAutoClose \/ StartWaiting \/ SlaBreach \/ Restart \/ UNCHANGED vars
      PROVE  UNCHANGED <<reprocess, priority>>
  BY <1>5 DEF StartExpiry, StartAutoClose, StartWaiting, SlaBreach, Restart, vars, row
<1> QED BY <1>1, <1>2, <1>3, <1>4, <1>5 DEF Next, ExpiryStep

Remembers(t) == reprocess'[t] >= reprocess[t] /\ priority'[t] >= priority[t]

LEMMA CountsStand ==
  ASSUME TypeOK, Memory, [Next]_vars, NEW t \in Tickets
  PROVE  Remembers(t) \/ t \in overwritten' \/ st[t] = None
<1>1. /\ reprocess[t] \in Nat /\ priority[t] \in Nat /\ priority[t] \in Priorities
      /\ Escalate(priority[t]) >= priority[t]
      /\ \A n : ReopenPriority(n, priority[t]) >= priority[t]
  BY PrioritiesRise DEF TypeOK, Priorities
<1>2. UNCHANGED <<reprocess[t], priority[t]>> => Remembers(t)
  BY <1>1 DEF Remembers
<1>3. ASSUME NEW p \in Procs, NEW u \in Tickets, CreateTicket(p, u) PROVE Remembers(t) \/ st[t] = None
  BY <1>2, <1>3 DEF CreateTicket, TypeOK
<1>4. ASSUME NEW u \in Tickets, ForceReopen(u) PROVE Remembers(t)
  <2>1. CASE u = t
    <3>1. reprocess'[t] = reprocess[t] + 1 /\ priority'[t] = ReopenPriority(reprocess[t] + 1, priority[t])
      BY <1>4, <2>1 DEF ForceReopen, TypeOK
    <3> QED BY <1>1, <3>1 DEF Remembers
  <2>2. CASE u # t
    BY <1>2, <1>4, <2>2 DEF ForceReopen, TypeOK
  <2> QED BY <2>1, <2>2
<1>5. ASSUME NEW p \in Procs, RejectReopen(p) PROVE Remembers(t) \/ t \in overwritten'
  <2>1. req[p].pc = "reopen" /\ RequestRecall(p)
    BY <1>5 DEF RejectReopen, At, Memory
  <2>2. CASE req[p].t = t
    <3>1. /\ reprocess'[t] = req[p].count + 1 /\ priority'[t] = ReopenPriority(req[p].count + 1, req[p].prio)
          /\ Blames(Req(p), t)
      BY <1>5, <2>2 DEF RejectReopen, TypeOK
    <3>2. t \in overwritten' \/ (reprocess[t] = req[p].count /\ priority[t] = req[p].prio)
      BY <2>1, <2>2, <3>1 DEF RequestRecall, Recalls, Blames
    <3> QED BY <1>1, <3>1, <3>2 DEF Remembers
  <2>3. CASE req[p].t # t
    BY <1>2, <1>5, <2>3 DEF RejectReopen, TypeOK
  <2> QED BY <2>2, <2>3
<1>6. ASSUME NEW u \in Tickets, ExpiryReopens(u) PROVE Remembers(t) \/ t \in overwritten'
  <2>1. CASE u = t
    <3>1. /\ reprocess'[t] = expiry[t].count + 1
          /\ priority'[t] = ReopenPriority(expiry[t].count + 1, expiry[t].prio)
          /\ Blames(<<"expiry", t>>, t) /\ expiry[t].n > 0
      BY <1>6, <2>1 DEF ExpiryReopens, TypeOK
    <3>2. t \in overwritten' \/ (reprocess[t] = expiry[t].count /\ priority[t] = expiry[t].prio)
      BY <3>1 DEF Memory, ExpiryRecall, Recalls, Blames
    <3> QED BY <1>1, <3>1, <3>2 DEF Remembers
  <2>2. CASE u # t
    BY <1>2, <1>6, <2>2 DEF ExpiryReopens, TypeOK
  <2> QED BY <2>1, <2>2
<1>7. ASSUME NEW u \in Tickets, WaitingEscalates(u) PROVE Remembers(t) \/ t \in overwritten'
  <2>1. CASE u = t
    <3>1. /\ reprocess'[t] = reprocess[t] /\ priority'[t] = Escalate(waiting[t])
          /\ Blames(<<"waiting", t>>, t) /\ waiting[t] > 0
      BY <1>7, <2>1 DEF WaitingEscalates, TypeOK
    <3>2. t \in overwritten' \/ priority[t] = waiting[t]
      BY <3>1 DEF Memory, WaitingRecall, Blames
    <3> QED BY <1>1, <3>1, <3>2 DEF Remembers
  <2>2. CASE u # t
    BY <1>2, <1>7, <2>2 DEF WaitingEscalates, TypeOK
  <2> QED BY <2>1, <2>2
<1> QED BY <1>2, <1>3, <1>4, <1>5, <1>6, <1>7, WhoCounts

\* In every workflow of that shape, no count of reopenings is lost and no
\* priority lowered but by a handler that writes back what it read before the
\* ticket moved.
THEOREM NothingIsForgotten == ASSUME WellShaped PROVE Spec => NothingForgotten
<1>1. TypeOK /\ Snapshots /\ Memory /\ [Next]_vars => Memory'
  BY NextMemory
<1>2. TypeOK /\ Memory /\ [Next]_vars =>
        [\A t \in Tickets : reprocess'[t] < reprocess[t] \/ priority'[t] < priority[t]
           => t \in overwritten' \/ st[t] = None]_vars
  <2> SUFFICES ASSUME TypeOK, Memory, [Next]_vars, NEW t \in Tickets,
                      reprocess'[t] < reprocess[t] \/ priority'[t] < priority[t]
               PROVE  t \in overwritten' \/ st[t] = None
    OBVIOUS
  <2>1. TypeOK'
    BY NextTypeOK
  <2>2. /\ reprocess[t] \in Nat /\ reprocess'[t] \in Nat
        /\ priority[t] \in Nat /\ priority'[t] \in Nat
    BY <2>1 DEF TypeOK, Priorities
  <2> QED BY <2>2, CountsStand DEF Remembers
<1> QED BY <1>1, <1>2, InitMemory, SnapshotsCorrect, PTL DEF Spec, NothingForgotten

(***************************************************************************)
(* TicketLifecycle implements TicketContract                               *)
(***************************************************************************)
-----------------------------------------------------------------------------
(* What the mapping needs beyond Snapshots and Limits *)

\* Who is about to reopen a ticket knows how often that was done, or is stale.
RejectCount(p) ==
  req[p].pc = "reopen" =>
    /\ req[p].from \in Approval /\ req[p].to \in Working
    /\ Req(p) \in stale \/ req[p].count = reprocess[req[p].t]
ExpiryCount(t) ==
  expiry[t].n > 0 => <<"expiry", t>> \in stale \/ expiry[t].count = reprocess[t]
Counted == (\A p \in Procs : RejectCount(p)) /\ (\A t \in Tickets : ExpiryCount(t))

\* A clock is breached only after its deadline.
Sound(c) == c.status = "breached" => c.late
BreachIsLate == \A t \in Tickets : Sound(clock[t])

\* A step that counts nothing and leaves who does in peace.
KeepsCounts ==
  /\ UNCHANGED reprocess
  /\ \A q \in Procs : req'[q].pc = "reopen" =>
       req'[q] = req[q] /\ (Req(q) \in stale => Req(q) \in stale')
  /\ \A t \in Tickets : expiry'[t].n > 0 =>
       /\ expiry[t].n > 0 /\ expiry'[t].count = expiry[t].count
       /\ <<"expiry", t>> \in stale => <<"expiry", t>> \in stale'

LEMMA KeptCounts == ASSUME Counted, KeepsCounts PROVE Counted'
BY DEF Counted, KeepsCounts, RejectCount, ExpiryCount

\* A step that counts a reopening of ticket t makes its other readers stale.
LEMMA CountingIsNoticed ==
  ASSUME TypeOK, Counted, NEW t \in Tickets, NEW h,
         stale \ {h} \subseteq stale', Readers(t) \ {h} \subseteq stale',
         \A u \in Tickets : u # t => reprocess'[u] = reprocess[u]
  PROVE  /\ \A q \in Procs : req'[q] = req[q] /\ Req(q) # h => RejectCount(q)'
         /\ \A u \in Tickets : expiry'[u] = expiry[u] /\ <<"expiry", u>> # h => ExpiryCount(u)'
<1>1. ASSUME NEW q \in Procs, req'[q] = req[q], Req(q) # h, req[q].pc = "reopen"
      PROVE  RejectCount(q)'
  <2>1. req[q] \in Request /\ RejectCount(q)
    BY <1>1, ActiveRequest DEF Counted
  <2>2. CASE req[q].t = t
    BY <1>1, <2>1, <2>2, WhoReads DEF RejectCount
  <2>3. CASE req[q].t # t
    BY <1>1, <2>1, <2>3 DEF RejectCount, Request
  <2> QED BY <2>2, <2>3
<1>2. ASSUME NEW u \in Tickets, expiry'[u] = expiry[u], <<"expiry", u>> # h, expiry[u].n > 0
      PROVE  ExpiryCount(u)'
  BY <1>2, WhoReads DEF Counted, ExpiryCount
<1> QED BY <1>1, <1>2 DEF RejectCount, ExpiryCount

\* Every step keeps the counts: RejectReopen, ForceReopen and ExpiryReopens
\* count, ReadReject and StartExpiry read, the others leave both alone.
LEMMA StepKeepsCounts ==
  ASSUME TypeOK, Counted, [Next]_vars
  PROVE  /\ Counted'
         /\ \/ UNCHANGED reprocess
            \/ \E p \in Procs : RejectReopen(p)
            \/ \E t \in Tickets : ForceReopen(t) \/ ExpiryReopens(t)
<1> USE BoundsAssumption
<1>1. ASSUME NEW p \in Procs, NEW t \in Tickets, ReadReject(p, t)
      PROVE  Counted' /\ UNCHANGED reprocess
  <2>1. UNCHANGED <<reprocess, expiry, stale>>
    BY <1>1 DEF ReadReject, row, sweeps, history
  <2>2. \A q \in Procs \ {p} : req'[q] = req[q]
    BY <1>1 DEF ReadReject, Start, TypeOK
  <2>3. PICK to \in Targets(st[t], Working) : Start(p, "reopen", t, st[t], to, None)
    BY <1>1 DEF ReadReject
  <2>4. /\ req'[p].from = st[t] /\ req'[p].to = to /\ req'[p].t = t
        /\ req'[p].count = reprocess[t] /\ st[t] \in Approval /\ to \in Working
    BY <1>1, <2>3 DEF ReadReject, Start, Targets, TypeOK
  <2>5. RejectCount(p)'
    BY <2>1, <2>4 DEF RejectCount
  <2> QED BY <2>1, <2>2, <2>5 DEF Counted, RejectCount, ExpiryCount, Req
<1>2. ASSUME NEW p \in Procs, RejectReopen(p) PROVE Counted'
  <2>1. req[p] \in Request /\ req[p].t \in Tickets
    BY <1>2, ActiveRequest DEF RejectReopen, At, Request
  <2>2. /\ \A u \in Tickets : u # req[p].t => reprocess'[u] = reprocess[u]
        /\ stale \ {Req(p)} \subseteq stale' /\ Readers(req[p].t) \ {Req(p)} \subseteq stale'
        /\ UNCHANGED expiry
    BY <1>2, <2>1 DEF RejectReopen, Moves, TypeOK, sweeps
  <2>3. \A q \in Procs : q # p => req'[q] = req[q] /\ Req(q) # Req(p)
    BY <1>2, <2>1 DEF RejectReopen, Goto, TypeOK, Req
  <2>4. RejectCount(p)'
    BY <1>2, <2>1 DEF RejectReopen, Goto, TypeOK, RejectCount, Request
  <2>5. \A u \in Tickets : <<"expiry", u>> # Req(p)
    BY DEF Req
  <2>6. (\A q \in Procs : q # p => RejectCount(q)') /\ (\A u \in Tickets : ExpiryCount(u)')
    BY <2>1, <2>2, <2>3, <2>5, CountingIsNoticed
  <2> QED BY <2>4, <2>6 DEF Counted
<1>3. ASSUME NEW t \in Tickets, ForceReopen(t) PROVE Counted'
  <2>1. /\ \A u \in Tickets : u # t => reprocess'[u] = reprocess[u]
        /\ stale \ {NoOne} \subseteq stale' /\ Readers(t) \ {NoOne} \subseteq stale'
        /\ UNCHANGED <<req, expiry>>
    BY <1>3 DEF ForceReopen, TypeOK, sweeps
  <2>2. (\A q \in Procs : Req(q) # NoOne) /\ (\A u \in Tickets : <<"expiry", u>> # NoOne)
    BY DEF Req, NoOne
  <2> QED BY <2>1, <2>2, CountingIsNoticed DEF Counted
<1>4. ASSUME NEW t \in Tickets, ExpiryReopens(t) PROVE Counted'
  <2>1. /\ \A u \in Tickets : u # t => reprocess'[u] = reprocess[u] /\ expiry'[u] = expiry[u]
        /\ UNCHANGED req
    BY <1>4 DEF ExpiryReopens, NextExpiryItem, TypeOK
  <2>2. stale \ {<<"expiry", t>>} \subseteq stale' /\ Readers(t) \ {<<"expiry", t>>} \subseteq stale'
    BY <1>4 DEF ExpiryReopens, ExpiryMoves
  <2>3. ASSUME expiry'[t].n > 0 PROVE <<"expiry", t>> \in stale'
    <3>1. expiry[t].n # 1
      BY <1>4, <2>3 DEF ExpiryReopens, NextExpiryItem, NoExpiry, TypeOK
    <3>2. expiry[t].n > 0
      BY <1>4 DEF ExpiryReopens
    <3> QED BY <1>4, <3>1, <3>2, WhoReads DEF ExpiryReopens, ExpiryMoves
  <2>4. ExpiryCount(t)'
    BY <2>3 DEF ExpiryCount
  <2>5. \A q \in Procs : Req(q) # <<"expiry", t>>
    BY DEF Req
  <2>6. (\A q \in Procs : RejectCount(q)') /\ (\A u \in Tickets : u # t => ExpiryCount(u)')
    BY <2>1, <2>2, <2>5, CountingIsNoticed
  <2> QED BY <2>4, <2>6 DEF Counted
<1>5. ASSUME StartExpiry PROVE Counted' /\ UNCHANGED reprocess
  <2>1. UNCHANGED <<reprocess, req, stale>>
    BY <1>5 DEF StartExpiry, row, history
  <2>2. \A t \in Tickets : expiry'[t].n > 0 => expiry'[t].count = reprocess[t]
    BY <1>5 DEF StartExpiry, NoExpiry
  <2> QED BY <2>1, <2>2 DEF Counted, RejectCount, ExpiryCount, Req
<1>6. ASSUME NEW p \in Procs, NEW t \in Tickets, CreateTicket(p, t) \/ ReadAssign(p, t)
      PROVE  KeepsCounts
  BY <1>6 DEF KeepsCounts, CreateTicket, ReadAssign, Start, TypeOK, row, sweeps, history
<1>7. ASSUME NEW p \in Procs, NEW t \in Tickets, ReadTransition(p, t) \/ ReadBulkClose(p, t) \/ ReadApprove(p, t)
      PROVE  KeepsCounts
  BY <1>7 DEF KeepsCounts, ReadTransition, ReadBulkClose, ReadApprove, AfterRead, Start, TypeOK, row, sweeps, history
<1>8. ASSUME NEW p \in Procs, CreateAssign(p) \/ RefuseBlocked(p) \/ CommitTransition(p) \/ ApproveVerdict(p)
      PROVE  KeepsCounts
  BY <1>8 DEF KeepsCounts, CreateAssign, RefuseBlocked, CommitTransition, ApproveVerdict, Return, Ends,
              MovesAndEnds, Req, Idle, TypeOK, row, sweeps
<1>9. ASSUME NEW p \in Procs, RejectFails(p) \/ RejectResume(p) \/ InsertAssignment(p) \/ RequestFails(p)
      PROVE  KeepsCounts
  BY <1>9 DEF KeepsCounts, RejectFails, RejectResume, InsertAssignment, RequestFails, Return, Ends, Req, Idle,
              TypeOK, row, sweeps
<1>10. ASSUME NEW p \in Procs, CreateClock(p) \/ RereadBulkClose(p) \/ PassBlocksGuard(p)
       PROVE  KeepsCounts
  <2>1. \A q \in Procs : req'[q] = req[q] \/ req'[q].pc # "reopen"
    BY <1>10, GoesOn DEF CreateClock, RereadBulkClose, PassBlocksGuard, Return, Idle, TypeOK
  <2>2. At(p, "track") \/ At(p, "reread") \/ At(p, "blocks")
    BY <1>10 DEF CreateClock, RereadBulkClose, PassBlocksGuard
  <2>3. UNCHANGED <<reprocess, expiry>> /\ stale \ {Req(p)} \subseteq stale'
    BY <1>10 DEF CreateClock, RereadBulkClose, PassBlocksGuard, Ends, row, sweeps, history
  <2>4. \A q \in Procs : Req(q) = Req(p) => q = p
    BY DEF Req
  <2>5. \A u \in Tickets : <<"expiry", u>> # Req(p)
    BY DEF Req
  <2> QED BY <2>1, <2>2, <2>3, <2>4, <2>5 DEF KeepsCounts, At
<1>11. ASSUME NEW p \in Procs, ApproveClose(p) \/ ApproveRelease(p) \/ ApproveSign(p) \/ ApproveResume(p)
       PROVE  KeepsCounts
  <2>1. \A q \in Procs : req'[q] = req[q] \/ req'[q].pc # "reopen"
    BY <1>11, GoesOn DEF ApproveClose, ApproveRelease, ApproveSign, ApproveResume
  <2>2. UNCHANGED <<reprocess, expiry>> /\ stale \subseteq stale'
    BY <1>11 DEF ApproveClose, ApproveRelease, ApproveSign, ApproveResume, Moves, row, sweeps
  <2> QED BY <2>1, <2>2 DEF KeepsCounts
<1>12. ASSUME NEW p \in Procs, RejectRefuse(p) \/ DemoteOwner(p)
       PROVE  KeepsCounts
  <2>1. \A q \in Procs : req'[q] = req[q] \/ req'[q].pc # "reopen"
    BY <1>12, GoesOn DEF RejectRefuse, DemoteOwner
  <2>2. UNCHANGED <<reprocess, expiry, stale>>
    BY <1>12 DEF RejectRefuse, DemoteOwner, row, sweeps, history
  <2> QED BY <2>1, <2>2 DEF KeepsCounts
<1>13. ASSUME NEW t \in Tickets, ExpiryCloses(t) \/ ExpirySkips(t)
       PROVE  KeepsCounts
  <2>1. UNCHANGED <<reprocess, req>>
    BY <1>13 DEF ExpiryCloses, ExpirySkips, row
  <2>2. expiry[t].n > 0 /\ expiry[t] \in ExpiryItem
    BY <1>13 DEF ExpiryCloses, ExpirySkips, TypeOK
  <2>3. \/ expiry[t].n = 1 /\ expiry'[t].n = 0
        \/ expiry[t].n # 1 /\ expiry'[t].count = expiry[t].count /\ stale \subseteq stale'
    BY <1>13, <2>2 DEF ExpiryCloses, ExpirySkips, NextExpiryItem, ExpiryMoves, NoExpiry, TypeOK, ExpiryItem
  <2>4. \A u \in Tickets : u # t => expiry'[u] = expiry[u]
    BY <1>13 DEF ExpiryCloses, ExpirySkips, NextExpiryItem, TypeOK
  <2>5. stale \ {<<"expiry", t>>} \subseteq stale'
    BY <1>13 DEF ExpiryCloses, ExpirySkips, ExpiryMoves, Ends
  <2>6. \A q \in Procs : Req(q) # <<"expiry", t>>
    BY DEF Req
  <2> QED BY <2>1, <2>2, <2>3, <2>4, <2>5, <2>6 DEF KeepsCounts
<1>14. ASSUME NEW t \in Tickets, \/ SetDeleted(t, TRUE) \/ SetDeleted(t, FALSE) \/ AutoClose(t)
                                 \/ AutoCloseFails(t) \/ WaitingEscalates(t) \/ WaitingFails(t)
       PROVE  KeepsCounts
  BY <1>14 DEF KeepsCounts, SetDeleted, AutoClose, AutoCloseFails, WaitingEscalates, WaitingFails,
               MovesAndEnds, Ends, Req, row, sweeps
<1>15. ASSUME \/ \E t \in Tickets : DeadlinePasses(t) \/ ApprovalLapses(t)
              \/ StartAutoClose \/ StartWaiting \/ SlaBreach \/ UNCHANGED vars
       PROVE  KeepsCounts
  BY <1>15 DEF KeepsCounts, DeadlinePasses, ApprovalLapses, StartAutoClose, StartWaiting, SlaBreach,
               vars, row, sweeps, history
<1>16. ASSUME Restart PROVE KeepsCounts
  BY <1>16 DEF KeepsCounts, Restart, Idle, NoExpiry, row
<1>17. KeepsCounts => Counted' /\ UNCHANGED reprocess
  BY KeptCounts DEF KeepsCounts
<1> QED
  BY <1>1, <1>2, <1>3, <1>4, <1>5, <1>6, <1>7, <1>8, <1>9, <1>10, <1>11, <1>12, <1>13, <1>14, <1>15, <1>16, <1>17
  DEF Next, Continue, Read, ExpiryStep

-----------------------------------------------------------------------------
(* The clock *)

\* A clock goes the way of the contract, and stays sound.
Runs(c, d) ==
  /\ Sound(d)
  /\ Sla[d.status] = Sla[c.status] \/ <<Sla[c.status], Sla[d.status]>> \in Contract!ClockSteps

\* Every UPDATE of a clock but the one of a forced reopening runs it.
LEMMA UpdatesRun ==
  ASSUME NEW c \in Clock, Sound(c)
  PROVE  /\ Runs(c, c) /\ Runs(c, Resumed(c)) /\ Runs(c, Rearmed(c))
         /\ Runs(c, Settled(c, {"active"})) /\ Runs(c, Settled(c, {"active", "paused", "breached"}))
         /\ Runs(c, Settled(Resumed(c), {"active"})) /\ Runs(c, Suspended(Resumed(c)))
         /\ c.status = "paused" => Runs(c, ByDeadline(Resumed(c), "active"))
         /\ c.status = "none" => Runs(c, [status |-> "active", late |-> FALSE, heldLate |-> FALSE])
         /\ c.status = "active" /\ c.late => Runs(c, [c EXCEPT !.status = "breached"])
         /\ Runs(c, [c EXCEPT !.late = TRUE])
<1>1. c.status \in {"none", "active", "paused", "met", "breached"} /\ c.late \in BOOLEAN /\ c.heldLate \in BOOLEAN
  BY DEF Clock, ClockStatus
<1>2. CASE c.status \in {"none", "met", "breached"}
  BY <1>1, <1>2 DEF Runs, Sound, Sla, Resumed, Rearmed, Settled, Suspended, ByDeadline, Clock, ClockStatus,
                    Contract!ClockSteps, Contract!Verdicts
<1>3. CASE c.status = "active"
  BY <1>1, <1>3 DEF Runs, Sound, Sla, Resumed, Rearmed, Settled, Suspended, ByDeadline, Clock, ClockStatus,
                    Contract!ClockSteps, Contract!Verdicts
<1>4. CASE c.status = "paused"
  BY <1>1, <1>4 DEF Runs, Sound, Sla, Resumed, Rearmed, Settled, Suspended, ByDeadline, Clock, ClockStatus,
                    Contract!ClockSteps, Contract!Verdicts
<1> QED BY <1>1, <1>2, <1>3, <1>4

AllRun == \A t \in Tickets : Runs(clock[t], clock'[t])

\* Every step runs every clock, except that a forced reopening may start one again.
LEMMA StepRunsClocks ==
  ASSUME TypeOK, BreachIsLate, [Next]_vars
  PROVE  BreachIsLate' /\ (AllRun \/ \E t \in Tickets : ForceReopen(t))
<1> USE UpdatesRun DEF BreachIsLate
<1>0. \A t \in Tickets : clock[t] \in Clock /\ Sound(clock[t]) /\ Runs(clock[t], clock[t])
  BY DEF TypeOK
<1>1. ASSUME NEW t \in Tickets, ForceReopen(t) PROVE BreachIsLate'
  BY <1>0, <1>1 DEF ForceReopen, Reactivated, Sound, Clock, TypeOK
<1>2. ASSUME NEW t \in Tickets, NEW d, clock' = [clock EXCEPT ![t] = d], Runs(clock[t], d)
      PROVE  AllRun
  BY <1>0, <1>2 DEF AllRun, TypeOK
<1>3. ASSUME UNCHANGED clock PROVE AllRun
  BY <1>0, <1>3 DEF AllRun
<1>4. \A p \in Procs : req[p].pc # "done" => req[p].t \in Tickets
  BY ActiveRequest DEF Request
<1>5. ASSUME NEW p \in Procs, CreateClock(p) PROVE AllRun
  BY <1>0, <1>2, <1>4, <1>5 DEF CreateClock, At
<1>6. ASSUME NEW p \in Procs, CommitTransition(p) PROVE AllRun
  <2>1. req[p].t \in Tickets /\ clock[req[p].t] \in Clock /\ Sound(clock[req[p].t])
    BY <1>0, <1>4, <1>6 DEF CommitTransition, At
  <2> DEFINE c == Resumed(clock[req[p].t])
             d == IF req[p].to \in Final THEN Settled(c, {"active"})
                  ELSE IF req[p].to \in Pause THEN Suspended(c) ELSE c
  <2>2. Runs(clock[req[p].t], d)
    BY <2>1
  <2>3. clock' = [clock EXCEPT ![req[p].t] = d]
    BY <1>6 DEF CommitTransition
  <2> HIDE DEF d
  <2> QED BY <1>2, <2>1, <2>2, <2>3
<1>7. ASSUME NEW p \in Procs, ApproveResume(p) \/ ApproveVerdict(p) PROVE AllRun
  <2>1. req[p].t \in Tickets /\ clock[req[p].t] \in Clock /\ Sound(clock[req[p].t])
    BY <1>0, <1>4, <1>7 DEF ApproveResume, ApproveVerdict, At
  <2>2. CASE ApproveResume(p)
    BY <1>2, <2>1, <2>2 DEF ApproveResume
  <2>3. CASE ApproveVerdict(p)
    BY <1>2, <2>1, <2>3 DEF ApproveVerdict
  <2> QED BY <1>7, <2>2, <2>3
<1>8. ASSUME NEW p \in Procs, RejectResume(p) PROVE AllRun
  BY <1>0, <1>2, <1>4, <1>8 DEF RejectResume, At
<1>9. ASSUME NEW t \in Tickets, ExpiryCloses(t) \/ ExpiryReopens(t) \/ AutoClose(t) PROVE AllRun
  <2>1. CASE ExpiryCloses(t)
    BY <1>0, <1>2, <2>1 DEF ExpiryCloses
  <2>2. CASE ExpiryReopens(t)
    BY <1>0, <1>2, <2>2 DEF ExpiryReopens
  <2>3. CASE AutoClose(t)
    BY <1>0, <1>2, <2>3 DEF AutoClose
  <2> QED BY <1>9, <2>1, <2>2, <2>3
<1>10. ASSUME NEW t \in Tickets, DeadlinePasses(t) PROVE AllRun
  <2>1. clock' = [clock EXCEPT ![t] = [clock[t] EXCEPT !.late = TRUE]]
    BY <1>10 DEF DeadlinePasses
  <2> QED BY <1>0, <1>2, <2>1
<1>11. ASSUME SlaBreach PROVE AllRun
  BY <1>0, <1>11 DEF SlaBreach, Overdue, AllRun
<1>12. ASSUME NEW p \in Procs, NEW t \in Tickets, Read(p, t) PROVE UNCHANGED clock
  BY <1>12 DEF Read, CreateTicket, ReadTransition, ReadBulkClose, ReadApprove, ReadReject, ReadAssign
<1>13. ASSUME NEW p \in Procs,
              \/ CreateAssign(p) \/ RereadBulkClose(p) \/ PassBlocksGuard(p) \/ RefuseBlocked(p)
              \/ ApproveClose(p) \/ ApproveRelease(p) \/ ApproveSign(p) \/ RejectReopen(p)
              \/ RejectFails(p) \/ RejectRefuse(p) \/ DemoteOwner(p) \/ InsertAssignment(p) \/ RequestFails(p)
       PROVE  UNCHANGED clock
  BY <1>13 DEF CreateAssign, RereadBulkClose, PassBlocksGuard, RefuseBlocked, ApproveClose, ApproveRelease,
               ApproveSign, RejectReopen, RejectFails, RejectRefuse, DemoteOwner, InsertAssignment, RequestFails
<1>14. ASSUME NEW t \in Tickets,
              \/ SetDeleted(t, TRUE) \/ SetDeleted(t, FALSE) \/ ExpirySkips(t) \/ AutoCloseFails(t)
              \/ WaitingEscalates(t) \/ WaitingFails(t) \/ ApprovalLapses(t)
       PROVE  UNCHANGED clock
  BY <1>14 DEF SetDeleted, ExpirySkips, AutoCloseFails, WaitingEscalates, WaitingFails, ApprovalLapses
<1>15. ASSUME StartExpiry \/ StartAutoClose \/ StartWaiting \/ Restart \/ UNCHANGED vars
       PROVE  UNCHANGED clock
  BY <1>15 DEF StartExpiry, StartAutoClose, StartWaiting, Restart, vars
<1>16. AllRun => BreachIsLate'
  BY DEF AllRun, Runs
<1> QED
  BY <1>1, <1>3, <1>5, <1>6, <1>7, <1>8, <1>9, <1>10, <1>11, <1>12, <1>13, <1>14, <1>15, <1>16
  DEF Next, Continue, ExpiryStep

-----------------------------------------------------------------------------
(* The simulation *)

\* The phases of the contract, for a ticket whose state is well typed.
LEMMA PhasesOfStates ==
  /\ \A s \in States \cup {None} : Phase[s] \in Contract!Phases
  /\ Phase[None] = "none" /\ Phase[Initial] = "open"
  /\ \A s \in Working : Phase[s] = "open"
  /\ \A s \in Approval : Phase[s] \in {"validation", "closed"}
  /\ \A s \in Final : Phase[s] = "closed"
  /\ \A e \in Edges : <<Phase[e[1]], Phase[e[2]]>> \in PhaseMoves
BY WorkflowAssumption, NoneAssumption, InitialAssumption DEF Phase, Contract!Phases, Working, PhaseMoves

\* Ticket t takes a step of the contract, in terms of the rows of the database.
Keeps(t) ==
  /\ Runs(clock[t], clock'[t]) /\ reprocess'[t] = reprocess[t]
  /\ st'[t] = st[t] \/ Accountable(t)
ComesBack(t) ==
  /\ st[t] \in Approval \cup Final /\ st'[t] \in Working
  /\ reprocess'[t] = reprocess[t] + 1
  /\ Runs(clock[t], clock'[t]) \/ (st[t] \in Final /\ clock'[t] = Reactivated(clock[t]))
Wrong(t) == t \in overwritten' /\ Runs(clock[t], clock'[t])

\* Nobody is taken off the list of disputed tickets.
LEMMA DisputesStay ==
  ASSUME [Next]_vars PROVE overwritten \subseteq overwritten'
<1> USE DEF Blames, history
<1>1. ASSUME NEW p \in Procs, NEW t \in Tickets, Read(p, t) PROVE overwritten \subseteq overwritten'
  BY <1>1 DEF Read, CreateTicket, ReadTransition, ReadBulkClose, ReadApprove, ReadReject, ReadAssign
<1>2. ASSUME NEW p \in Procs,
             \/ CreateClock(p) \/ CreateAssign(p) \/ RereadBulkClose(p) \/ PassBlocksGuard(p)
             \/ RefuseBlocked(p) \/ CommitTransition(p) \/ ApproveClose(p) \/ ApproveRelease(p)
      PROVE  overwritten \subseteq overwritten'
  BY <1>2 DEF CreateClock, CreateAssign, RereadBulkClose, PassBlocksGuard, RefuseBlocked, CommitTransition,
              ApproveClose, ApproveRelease
<1>3. ASSUME NEW p \in Procs,
             \/ ApproveSign(p) \/ ApproveResume(p) \/ ApproveVerdict(p) \/ RejectReopen(p) \/ RejectFails(p)
             \/ RejectRefuse(p) \/ RejectResume(p) \/ DemoteOwner(p) \/ InsertAssignment(p) \/ RequestFails(p)
      PROVE  overwritten \subseteq overwritten'
  BY <1>3 DEF ApproveSign, ApproveResume, ApproveVerdict, RejectReopen, RejectFails, RejectRefuse, RejectResume,
              DemoteOwner, InsertAssignment, RequestFails
<1>4. ASSUME NEW t \in Tickets,
             \/ ForceReopen(t) \/ SetDeleted(t, TRUE) \/ SetDeleted(t, FALSE) \/ ExpiryStep(t) \/ AutoClose(t)
             \/ AutoCloseFails(t) \/ WaitingEscalates(t) \/ WaitingFails(t) \/ DeadlinePasses(t) \/ ApprovalLapses(t)
      PROVE  overwritten \subseteq overwritten'
  BY <1>4 DEF ExpiryStep, ForceReopen, SetDeleted, ExpiryCloses, ExpiryReopens, ExpirySkips, AutoClose,
              AutoCloseFails, WaitingEscalates, WaitingFails, DeadlinePasses, ApprovalLapses
<1>5. ASSUME StartExpiry \/ StartAutoClose \/ StartWaiting \/ SlaBreach \/ Restart \/ UNCHANGED vars
      PROVE  overwritten \subseteq overwritten'
  BY <1>5 DEF StartExpiry, StartAutoClose, StartWaiting, SlaBreach, Restart, vars
<1> QED BY <1>1, <1>2, <1>3, <1>4, <1>5 DEF Next, Continue

\* What a step does to each ticket.
LEMMA StepByTicket ==
  ASSUME TypeOK, Snapshots, Counted, BreachIsLate, [Next]_vars, NEW t \in Tickets
  PROVE  Keeps(t) \/ ComesBack(t) \/ Wrong(t)
<1>0. \A u \in Tickets : clock[u] \in Clock /\ Sound(clock[u]) /\ Runs(clock[u], clock[u])
  BY UpdatesRun DEF TypeOK, BreachIsLate
<1>1. ASSUME NEW p \in Procs, RejectReopen(p) PROVE Keeps(t) \/ ComesBack(t) \/ Wrong(t)
  <2>1. req[p] \in Request /\ RequestSnapshot(p) /\ RejectCount(p) /\ req[p].pc = "reopen"
    BY <1>1, ActiveRequest DEF RejectReopen, At, Snapshots, Counted
  <2>2. Runs(clock[t], clock'[t])
    BY <1>0, <1>1 DEF RejectReopen
  <2>3. CASE req[p].t # t
    BY <1>1, <2>1, <2>2, <2>3 DEF RejectReopen, Keeps, TypeOK, Request
  <2>4. CASE req[p].t = t /\ Req(p) \in stale
    BY <1>1, <2>2, <2>4 DEF RejectReopen, Blames, Wrong
  <2>5. CASE req[p].t = t /\ Req(p) \notin stale
    BY <1>1, <2>1, <2>2, <2>5 DEF RejectReopen, ComesBack, RequestSnapshot, RejectCount, Deciding, TypeOK
  <2> QED BY <2>3, <2>4, <2>5
<1>2. ASSUME NEW u \in Tickets, ForceReopen(u) PROVE Keeps(t) \/ ComesBack(t) \/ Wrong(t)
  <2>1. CASE u # t
    BY <1>0, <1>2, <2>1 DEF ForceReopen, Keeps, TypeOK
  <2>2. CASE u = t
    BY <1>2, <2>2, InitialAssumption DEF ForceReopen, ComesBack, TypeOK
  <2> QED BY <2>1, <2>2
<1>3. ASSUME NEW u \in Tickets, ExpiryReopens(u) PROVE Keeps(t) \/ ComesBack(t) \/ Wrong(t)
  <2>1. ExpirySnapshot(u) /\ ExpiryCount(u) /\ expiry[u].n > 0
    BY <1>3 DEF ExpiryReopens, Snapshots, Counted
  <2>2. PICK to \in Targets(expiry[u].from, Working) : st' = [st EXCEPT ![u] = to]
    BY <1>3 DEF ExpiryReopens
  <2>3. Runs(clock[t], clock'[t])
    BY <1>0, <1>3, UpdatesRun DEF ExpiryReopens, TypeOK
  <2>4. CASE u # t
    BY <1>3, <2>2, <2>3, <2>4 DEF ExpiryReopens, Keeps, TypeOK
  <2>5. CASE u = t /\ <<"expiry", t>> \in stale
    BY <1>3, <2>3, <2>5 DEF ExpiryReopens, Blames, Wrong
  <2>6. CASE u = t /\ <<"expiry", t>> \notin stale
    BY <1>3, <2>1, <2>2, <2>3, <2>6 DEF ExpiryReopens, ComesBack, ExpirySnapshot, ExpiryCount, Targets, TypeOK
  <2> QED BY <2>4, <2>5, <2>6
<1>4. ASSUME UNCHANGED reprocess, AllRun PROVE Keeps(t)
  BY <1>4, MovesAreAccountable DEF Keeps, AllRun
<1> QED BY <1>1, <1>2, <1>3, <1>4, StepKeepsCounts, StepRunsClocks

\* Each of the three is a step of the contract.
LEMMA KeepsIsContract ==
  ASSUME TypeOK, TypeOK', ReopenBounded', NEW t \in Tickets,
         Keeps(t) \/ ComesBack(t) \/ Wrong(t)
  PROVE  Contract!Opens(t) \/ Contract!Proceeds(t) \/ Contract!Reopens(t) \/ Contract!Errs(t)
<1> USE DEF Contract!ClockRuns, Runs
<1>1. st[t] \in States \cup {None} /\ st'[t] \in States \cup {None} /\ reprocess[t] \in Nat /\ reprocess'[t] \in 0 .. MaxReopen
  BY BoundsAssumption DEF TypeOK, ReopenBounded
<1>2. ASSUME Wrong(t) PROVE Contract!Errs(t)
  BY <1>1, <1>2, PhasesOfStates DEF Wrong, Contract!Errs
<1>3. ASSUME ComesBack(t) PROVE Contract!Reopens(t)
  <2>1. Phase[st[t]] \in {"validation", "closed"} /\ Phase[st'[t]] = "open" /\ (st[t] \in Final => Phase[st[t]] = "closed")
    BY <1>1, <1>3, PhasesOfStates DEF ComesBack
  <2>2. reprocess'[t] = reprocess[t] + 1 /\ reprocess'[t] <= MaxReopen
    BY <1>1, <1>3 DEF ComesBack
  <2>3. \/ Contract!ClockRuns(t)
        \/ Phase[st[t]] = "closed" /\ Sla[clock[t].status] \in Contract!Verdicts /\ Sla[clock'[t].status] = "running"
    <3>1. CASE Runs(clock[t], clock'[t])
      BY <3>1
    <3>2. CASE st[t] \in Final /\ clock'[t] = Reactivated(clock[t])
      BY <2>1, <3>2 DEF Reactivated, Sla, ClockStatus, Contract!Verdicts, TypeOK, Clock
    <3> QED BY <1>3, <3>1, <3>2 DEF ComesBack
  <2> QED BY <2>1, <2>2, <2>3 DEF Contract!Reopens
<1>4. ASSUME Keeps(t) PROVE Contract!Opens(t) \/ Contract!Proceeds(t) \/ Contract!Errs(t)
  <2>1. Runs(clock[t], clock'[t]) /\ reprocess'[t] = reprocess[t]
    BY <1>4 DEF Keeps
  <2>2. CASE st'[t] = st[t]
    BY <2>1, <2>2 DEF Contract!Proceeds
  <2>3. CASE t \in overwritten'
    BY <1>2, <2>1, <2>3 DEF Wrong
  <2>4. CASE st[t] = None /\ st'[t] = Initial
    BY <2>1, <2>4, PhasesOfStates DEF Contract!Opens
  <2>5. CASE <<st[t], st'[t]>> \in Edges
    BY <2>1, <2>5, PhasesOfStates DEF Contract!Proceeds
  <2> QED BY <1>1, <1>4, <2>2, <2>3, <2>4, <2>5 DEF Keeps, Accountable, MoveAllowed
<1> QED BY <1>2, <1>3, <1>4

\* The code keeps the contract of a ticket, whichever handlers, sweeps and
\* failures interleave, if every approval state has a way to close:
\* ImplementsContract.
THEOREM Refinement ==
  ASSUME \A s \in Approval : Targets(s, Final) # {}
  PROVE  Spec => ImplementsContract
<1> DEFINE More == Limits /\ Counted /\ BreachIsLate
<1>1. Init => More /\ Contract!Init
  BY BoundsAssumption, NoneAssumption, PhasesOfStates
  DEF Init, Limits, ReopenBounded, RejectsBelowLimit, Counted, RejectCount, ExpiryCount, BreachIsLate, Sound,
      Idle, NoExpiry, Contract!Init, Sla, ClockStatus
<1>2. TypeOK /\ Snapshots /\ More /\ [Next]_vars => More'
  BY StepKeepsLimits, StepKeepsCounts, StepRunsClocks
<1>3. TypeOK /\ Snapshots /\ More /\ [Next]_vars /\ TypeOK' /\ More' => Contract!Next
  BY StepByTicket, KeepsIsContract, DisputesStay DEF Contract!Next, Limits
<1>4. TypeOK /\ Snapshots /\ More /\ [Next]_vars /\ TypeOK' /\ More' => [Contract!Next]_Contract!vars
  BY <1>3
<1> HIDE DEF More
<1>5. Spec => []More
  BY <1>1, <1>2, SnapshotsCorrect, PTL DEF Spec
<1> QED BY <1>1, <1>4, <1>5, SnapshotsCorrect, PTL DEF Spec, ImplementsContract, Contract!Spec
==============================================================================
