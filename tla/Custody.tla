------------------------------ MODULE Custody ------------------------------
(***************************************************************************)
(* InventoryService: who holds which asset.  The status of an asset and    *)
(* the assignments that make it so are two tables.  assign and unassign    *)
(* write them query by query outside a transaction.  transition writes     *)
(* both in one, which never commits: UPDATE ... RETURNING gives it         *)
(* [rows, count], so that the line of the history it inserts for each has  *)
(* no user_id, the line of its other branch has NULL, and the column is    *)
(* NOT NULL.  Only the legacy PATCH repairs an asset or writes it off.     *)
(*                                                                         *)
(* Serial numbers, images and the parent of an asset are left out; so are  *)
(* assignments for certain hours, whose conflict query compares a time     *)
(* with the varchar columns of migration 023: PostgreSQL refuses it, and   *)
(* the call ends before it has written anything.                           *)
(***************************************************************************)
EXTENDS Naturals, Sequences, FiniteSets

CONSTANTS
  Assets, Users,
  Slots,         \* calls that may be under way at a time
  Ops,           \* the operations in use, "fail" when a query may fail
  MaxAssigned    \* bound: assignments made

ASSUME CustodyAssumption ==
  /\ Assets # {} /\ Users # {} /\ MaxAssigned \in Nat
  /\ Ops \subseteq {"assign", "unassign", "transition", "delete", "trash", "legacy", "fail"}

VARIABLES
  status,      \* assets.status
  deleted,     \* assets with deleted_at
  assignments, \* asset_assignments in the order of assigned_at
  call,        \* the calls under way
  upset        \* history: what happened to each asset that its checks do not foresee

vars == <<status, deleted, assignments, call, upset>>

AssetStatus == {"disponible", "asignado", "en_reparacion", "dado_de_baja"}
FSM == [disponible    |-> {"asignado", "en_reparacion", "dado_de_baja"},
        asignado      |-> {"disponible", "en_reparacion", "dado_de_baja"},
        en_reparacion |-> {"disponible", "dado_de_baja"},
        dado_de_baja  |-> {}]

\* returned: the lines of the history that tell of its end.
Assignment == [asset : Assets, user : Users, active : BOOLEAN, returned : Nat]

Call == [op : {"none", "assign", "unassign", "transition", "delete"},
         pc : {"idle", "read", "free", "marked", "found", "closed",
               "logged", "freeing"},
         asset : Assets, user : Users,
         seen : AssetStatus,   \* the status it has read
         to : AssetStatus,     \* the status a transition leads to
         row : Nat]            \* the assignment it works on
Idle == [op |-> "none", pc |-> "idle", asset |-> CHOOSE a \in Assets : TRUE,
         user |-> CHOOSE u \in Users : TRUE,
         seen |-> "disponible", to |-> "disponible", row |-> 0]

TypeOK ==
  /\ status \in [Assets -> AssetStatus]
  /\ deleted \subseteq Assets
  /\ assignments \in Seq(Assignment)
  /\ call \in [Slots -> Call]
  /\ upset \in [Assets -> SUBSET {"together", "legacy", "fail"}]
  /\ \A s \in Slots : call[s].row \in 0 .. Len(assignments)

Init ==
  /\ status = [a \in Assets |-> "disponible"]
  /\ deleted = {}
  /\ assignments = <<>>
  /\ call = [s \in Slots |-> Idle]
  /\ upset = [a \in Assets |-> {}]

\* Two calls that write on it at a time, a PATCH that contradicts its
\* assignments, a query that failed.
Upsets(a, what) == upset' = [upset EXCEPT ![a] = @ \cup {what}]
Writers == {"assign", "unassign"}
Shared(a) == \E s \in Slots : call[s].op \in Writers /\ call[s].asset = a

Active(a) == {i \in DOMAIN assignments : assignments[i].asset = a /\ assignments[i].active}

At(s, op, pc) == call[s].op = op /\ call[s].pc = pc
Goto(s, pc) == call' = [call EXCEPT ![s].pc = pc]
Ends(s) == call' = [call EXCEPT ![s] = Idle]
Starts(s, op, a, c) ==
  /\ op \in Ops /\ At(s, "none", "idle") /\ a \notin deleted
  /\ call' = [call EXCEPT ![s] = [c EXCEPT !.op = op, !.pc = "read", !.asset = a,
                                           !.seen = status[a]]]
  /\ IF op \in Writers /\ Shared(a) THEN Upsets(a, "together") ELSE UNCHANGED upset
  /\ UNCHANGED <<status, deleted, assignments>>
(***************************************************************************)
(* assign                                                                  *)
(***************************************************************************)
\* A plausible bug: a retired asset may be given out.
AssignableAny(st) == st # "en_reparacion"
Assignable(st) == st \notin {"dado_de_baja", "en_reparacion"}

AssignReads(s, a, u) ==
  /\ Len(assignments) < MaxAssigned
  /\ Assignable(status[a])
  /\ Starts(s, "assign", a, [Idle EXCEPT !.user = u])

\* A plausible bug: the assignments that have ended are looked at.
HoldsReturned(a, u) == \E i \in DOMAIN assignments \ Active(a) :
  assignments[i].asset = a /\ assignments[i].user = u
Holds(a, u) == \E i \in Active(a) : assignments[i].user = u
AssignFindsNone(s) ==
  /\ At(s, "assign", "read")
  /\ IF Holds(call[s].asset, call[s].user) THEN Ends(s) ELSE Goto(s, "free")
  /\ UNCHANGED <<status, deleted, assignments, upset>>

\* UPDATE assets SET status = 'asignado' WHERE id = $1 AND status != 'asignado'
AssignMarks(s) ==
  /\ At(s, "assign", "free")
  /\ status' = [status EXCEPT ![call[s].asset] = "asignado"]
  /\ Goto(s, "marked")
  /\ UNCHANGED <<deleted, assignments, upset>>

AssignInserts(s) ==
  /\ At(s, "assign", "marked")
  /\ assignments' = Append(assignments,
       [asset |-> call[s].asset, user |-> call[s].user, active |-> TRUE, returned |-> 0])
  /\ Ends(s)
  /\ UNCHANGED <<status, deleted, upset>>
(***************************************************************************)
(* unassign: of one holder, or of the one who got the asset last           *)
(***************************************************************************)
UnassignReads(s, a, u) ==
  /\ status[a] = "asignado"
  /\ Starts(s, "unassign", a, [Idle EXCEPT !.user = u])

\* A plausible bug: a row that was returned is found again.
CandidatesEver(a, u) ==
  {i \in DOMAIN assignments : assignments[i].asset = a /\ assignments[i].user = u}
\* With a user_id one row of that user's, if there is any; without, the newest.
Candidates(a, u) == {i \in Active(a) : assignments[i].user = u}
Newest(a) == {i \in Active(a) : \A j \in Active(a) : j <= i}
UnassignFinds(s) ==
  LET a == call[s].asset
      found == Candidates(a, call[s].user) \cup Newest(a)
      missing == Candidates(a, call[s].user) = {} IN
  /\ At(s, "unassign", "read")
  /\ \/ \E i \in found : call' = [call EXCEPT ![s].pc = "found", ![s].row = i]
     \/ missing /\ Goto(s, "closed")
  /\ UNCHANGED <<status, deleted, assignments, upset>>

UnassignCloses(s) ==
  /\ At(s, "unassign", "found")
  /\ assignments' = [assignments EXCEPT ![call[s].row].active = FALSE]
  /\ Goto(s, "logged")
  /\ UNCHANGED <<status, deleted, upset>>

UnassignLogs(s) ==
  /\ At(s, "unassign", "logged")
  /\ assignments' = [assignments EXCEPT ![call[s].row].returned = @ + 1]
  /\ Goto(s, "closed")
  /\ UNCHANGED <<status, deleted, upset>>

\* A plausible bug: the asset is freed one return too early.
EmptyButOne(a) == Cardinality(Active(a)) < 2
Empty(a) == Active(a) = {}
UnassignCounts(s) ==
  /\ At(s, "unassign", "closed")
  /\ IF Empty(call[s].asset) THEN Goto(s, "freeing") ELSE Ends(s)
  /\ UNCHANGED <<status, deleted, assignments, upset>>

Free == "disponible"
UnassignFrees(s) ==
  /\ At(s, "unassign", "freeing")
  /\ status' = [status EXCEPT ![call[s].asset] = Free]
  /\ Ends(s)
  /\ UNCHANGED <<deleted, assignments, upset>>
(***************************************************************************)
(* transition, deleteAsset, the administrator's trash, updateStatus        *)
(***************************************************************************)
TransitionReads(s, a, to) ==
  /\ to \in FSM[status[a]] \ {"asignado"}
  /\ Starts(s, "transition", a, [Idle EXCEPT !.to = to])

\* A plausible bug: its queries run outside the transaction, as assign's do.
ClosedAnyway(a, seen) ==
  [i \in DOMAIN assignments |->
     IF seen = "asignado" /\ i \in Active(a)
       THEN [assignments[i] EXCEPT !.active = FALSE] ELSE assignments[i]]
\* What a transition that found seen leaves of the assignments.
RolledBack(a, seen) == assignments
TransitionRollsBack(s) ==
  /\ At(s, "transition", "read")
  /\ assignments' = RolledBack(call[s].asset, call[s].seen)
  /\ Ends(s)
  /\ UNCHANGED <<status, deleted, upset>>

DeleteReads(s, a) ==
  /\ status[a] # "asignado"
  /\ Starts(s, "delete", a, Idle)

\* The line of the history that follows has no user_id either: the call
\* answers with an error though the asset is gone.
DeleteUpdates(s) ==
  /\ At(s, "delete", "read")
  /\ deleted' = deleted \cup {call[s].asset}
  /\ Ends(s)
  /\ UNCHANGED <<status, assignments, upset>>

\* AdminService's softDeleteOne and restoreOne ask for no status.
Trash(a) ==
  /\ "trash" \in Ops /\ a \notin deleted
  /\ deleted' = deleted \cup {a}
  /\ UNCHANGED <<status, assignments, call, upset>>
Restore(a) ==
  /\ "trash" \in Ops /\ a \in deleted
  /\ deleted' = deleted \ {a}
  /\ UNCHANGED <<status, assignments, call, upset>>

UpdateStatus(a, st) ==
  /\ "legacy" \in Ops /\ a \notin deleted
  /\ status' = [status EXCEPT ![a] = st]
  /\ upset' = [upset EXCEPT ![a] = @ \cup (IF Shared(a) THEN {"together"} ELSE {})
                \cup (IF (st = "asignado") # (Active(a) # {}) THEN {"legacy"} ELSE {})]
  /\ UNCHANGED <<deleted, assignments, call>>

\* A query fails: what the call has written stays written.
CallFails(s) ==
  /\ "fail" \in Ops /\ call[s].op # "none"
  /\ Ends(s) /\ Upsets(call[s].asset, "fail")
  /\ UNCHANGED <<status, deleted, assignments>>

Next ==
  \/ \E s \in Slots, a \in Assets :
       \/ \E u \in Users : AssignReads(s, a, u) \/ UnassignReads(s, a, u)
       \/ \E to \in AssetStatus : TransitionReads(s, a, to)
       \/ DeleteReads(s, a)
  \/ \E s \in Slots :
       \/ AssignFindsNone(s) \/ AssignMarks(s)
       \/ AssignInserts(s)
       \/ UnassignFinds(s) \/ UnassignCloses(s) \/ UnassignLogs(s)
       \/ UnassignCounts(s) \/ UnassignFrees(s)
       \/ TransitionRollsBack(s) \/ DeleteUpdates(s) \/ CallFails(s)
  \/ \E a \in Assets : Trash(a) \/ Restore(a) \/ \E st \in AssetStatus : UpdateStatus(a, st)

Spec == Init /\ [][Next]_vars
(***************************************************************************)
(* Properties                                                              *)
(***************************************************************************)
\* Whoever holds an asset finds it marked asignado, in the middle of a call
\* and after one that failed: assign and unassign order their writes so, and a
\* transition leaves nothing behind.  Only two of them at a time and a PATCH
\* that contradicts the assignments break it.
HeldIsMarked ==
  \A a \in Assets : upset[a] \subseteq {"fail"} /\ Active(a) # {} => status[a] = "asignado"

\* An asset is marked asignado for as long as somebody holds it and no longer,
\* once assign and unassign have ended: the count of unassign, whatever a
\* transition had closed before it was rolled back.
CustodyAgrees ==
  \A a \in Assets : upset[a] = {} /\ ~Shared(a) => (status[a] = "asignado" <=> Active(a) # {})

\* No user has an asset twice, whatever failed or was patched: assign looks
\* for it three queries before it writes.
OneEach ==
  \A a \in Assets : "together" \notin upset[a] =>
    \A i, j \in Active(a) : assignments[i].user = assignments[j].user => i = j

\* The history tells of every return once: an assignment that ended has a line,
\* or the unassign that ended it is about to write it, unless a query failed,
\* and it has one only, unless two calls ran together.
ReturnsAreTold ==
  \A i \in DOMAIN assignments :
    LET row == assignments[i] IN
    /\ ~row.active /\ "fail" \notin upset[row.asset] =>
         \/ row.returned > 0
         \/ \E s \in Slots : At(s, "unassign", "logged") /\ call[s].row = i
    /\ "together" \notin upset[row.asset] => row.returned <= (IF row.active THEN 0 ELSE 1)

\* What a PATCH has written off stays so until another PATCH, whatever assign
\* and unassign read before: only one that ran while the PATCH did writes over it.
RetiredStays ==
  [][\A a \in Assets : status[a] = "dado_de_baja" /\ status'[a] # "dado_de_baja"
       => "together" \in upset'[a] \/ \E st \in AssetStatus : UpdateStatus(a, st)]_vars

\* inventory.service.ts says in its comment that a transition always closes the
\* assignments of an asset it takes out of asignado.  Checked where no query
\* fails and no calls meet, and violated: its transaction is rolled back.
AlwaysCloses ==
  [][\A s \in Slots : At(s, "transition", "read") /\ call[s].seen = "asignado" /\ call'[s] = Idle
       => Active(call[s].asset)' = {}]_vars
=============================================================================
