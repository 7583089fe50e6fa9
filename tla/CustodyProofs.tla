---------------------------- MODULE CustodyProofs ----------------------------
(***************************************************************************)
(* What holds of Custody for every number of assets, users and calls at a  *)
(* time: its properties exempt what two calls do together, and the proofs  *)
(* show that nothing else breaks them.                                     *)
(***************************************************************************)
EXTENDS Custody, SequenceTheorems, TLAPS

-----------------------------------------------------------------------------
(* Sequences and types *)

\* An UPDATE of one assignment keeps the others.
LEMMA RowUpdated ==
  ASSUME assignments \in Seq(Assignment), NEW i \in DOMAIN assignments, NEW e \in Assignment
  PROVE  /\ [assignments EXCEPT ![i] = e] \in Seq(Assignment)
         /\ DOMAIN [assignments EXCEPT ![i] = e] = DOMAIN assignments
         /\ Len([assignments EXCEPT ![i] = e]) = Len(assignments)
         /\ \A j \in DOMAIN assignments :
              [assignments EXCEPT ![i] = e][j] = IF j = i THEN e ELSE assignments[j]
BY ExceptSeq, LenProperties

\* An INSERT adds one at the end.
LEMMA RowInserted ==
  ASSUME assignments \in Seq(Assignment), NEW e \in Assignment
  PROVE  LET new == Append(assignments, e)  n == Len(assignments) + 1 IN
         /\ new \in Seq(Assignment) /\ Len(new) = n
         /\ DOMAIN new = DOMAIN assignments \cup {n} /\ n \notin DOMAIN assignments
         /\ new[n] = e
         /\ \A j \in DOMAIN assignments : new[j] = assignments[j]
BY AppendProperties, LenProperties

\* What ends an assignment, and what tells of its end.
LEMMA AssignmentUpdates ==
  ASSUME NEW e \in Assignment
  PROVE  /\ [e EXCEPT !.active = FALSE] \in Assignment
         /\ [e EXCEPT !.returned = @ + 1] \in Assignment
         /\ \A f \in {[e EXCEPT !.active = FALSE], [e EXCEPT !.returned = @ + 1]} :
              f.asset = e.asset /\ f.user = e.user
         /\ ~[e EXCEPT !.active = FALSE].active /\ [e EXCEPT !.active = FALSE].returned = e.returned
         /\ [e EXCEPT !.returned = @ + 1].active = e.active
         /\ [e EXCEPT !.returned = @ + 1].returned = e.returned + 1
<1>1. e.returned + 1 \in Nat
  BY DEF Assignment
<1> DEFINE n == e.returned + 1
<1> HIDE DEF n
<1>2. /\ [e EXCEPT !.active = FALSE] \in Assignment
      /\ [e EXCEPT !.returned = n] \in Assignment
      /\ \A f \in {[e EXCEPT !.active = FALSE], [e EXCEPT !.returned = n]} :
           f.asset = e.asset /\ f.user = e.user
      /\ ~[e EXCEPT !.active = FALSE].active /\ [e EXCEPT !.active = FALSE].returned = e.returned
      /\ [e EXCEPT !.returned = n].active = e.active /\ [e EXCEPT !.returned = n].returned = n
  BY <1>1 DEF Assignment, n
<1> QED BY <1>1, <1>2 DEF n

\* An idle slot is a well-typed call.
LEMMA IdleIsCall == Idle \in Call
BY CustodyAssumption DEF Idle, Call, AssetStatus

LEMMA InitTypeOK == Init => TypeOK
<1> SUFFICES ASSUME Init PROVE TypeOK
  OBVIOUS
<1>1. assignments \in Seq(Assignment) /\ Len(assignments) = 0
  BY EmptySeq DEF Init
<1>2. Idle.row = 0
  BY DEF Idle
<1> QED BY <1>1, <1>2, IdleIsCall DEF Init, TypeOK, AssetStatus

\* A call that starts is typed.
LEMMA StartsTypeOK ==
  ASSUME TypeOK, NEW s \in Slots, NEW op \in {"assign", "unassign", "transition", "delete"},
         NEW a \in Assets, NEW c \in Call, c.row = 0, Starts(s, op, a, c)
  PROVE  TypeOK'
<1>1. [c EXCEPT !.op = op, !.pc = "read", !.asset = a, !.seen = status[a]] \in Call
  BY DEF Call, TypeOK
<1>2. call' \in [Slots -> Call]
  BY <1>1 DEF Starts, TypeOK
<1>3. \A r \in Slots : call'[r].row \in 0 .. Len(assignments)
  <2>1. Len(assignments) \in Nat
    BY LenProperties DEF TypeOK
  <2> QED BY <2>1 DEF Starts, TypeOK, Call
<1> QED BY <1>2, <1>3 DEF Starts, TypeOK, Upsets

\* A call that goes on or ends is typed.
LEMMA GoesOnTyped ==
  ASSUME TypeOK, NEW s \in Slots, NEW pc \in {"free", "marked", "closed", "logged", "freeing"},
         Goto(s, pc) \/ Ends(s), Len(assignments') \in Nat, Len(assignments) <= Len(assignments')
  PROVE  /\ call' \in [Slots -> Call]
         /\ \A r \in Slots : call'[r].row \in 0 .. Len(assignments')
<1>0. Len(assignments) \in Nat
  BY LenProperties DEF TypeOK
<1>1. [call[s] EXCEPT !.pc = pc] \in Call
  BY DEF TypeOK, Call
<1>2. Idle.row = 0
  BY DEF Idle
<1>3. CASE Goto(s, pc)
  <2>1. call' = [call EXCEPT ![s] = [call[s] EXCEPT !.pc = pc]]
    BY <1>3 DEF Goto
  <2>2. [call[s] EXCEPT !.pc = pc].row = call[s].row
    BY DEF TypeOK, Call
  <2> QED BY <1>0, <1>1, <2>1, <2>2 DEF TypeOK
<1>4. CASE Ends(s)
  BY <1>0, <1>2, <1>4, IdleIsCall DEF TypeOK, Ends
<1> QED BY <1>3, <1>4

LEMMA NextTypeOK == TypeOK /\ [Next]_vars => TypeOK'
<1> SUFFICES ASSUME TypeOK, [Next]_vars PROVE TypeOK'
  OBVIOUS
<1>0. Len(assignments) \in Nat /\ DOMAIN assignments = 1 .. Len(assignments)
  BY LenProperties DEF TypeOK
<1>1. ASSUME NEW s \in Slots, NEW a \in Assets, NEW u \in Users, AssignReads(s, a, u) PROVE TypeOK'
  <2>1. [Idle EXCEPT !.user = u] \in Call /\ [Idle EXCEPT !.user = u].row = 0
    BY IdleIsCall DEF Call, Idle
  <2> QED BY <1>1, <2>1, StartsTypeOK DEF AssignReads
<1>2. ASSUME NEW s \in Slots, NEW a \in Assets, NEW u \in Users, UnassignReads(s, a, u) PROVE TypeOK'
  <2>1. [Idle EXCEPT !.user = u] \in Call /\ [Idle EXCEPT !.user = u].row = 0
    BY IdleIsCall DEF Call, Idle
  <2> QED BY <1>2, <2>1, StartsTypeOK DEF UnassignReads
<1>3. ASSUME NEW s \in Slots, NEW a \in Assets, NEW to \in AssetStatus, TransitionReads(s, a, to) PROVE TypeOK'
  <2>1. [Idle EXCEPT !.to = to] \in Call /\ [Idle EXCEPT !.to = to].row = 0
    BY IdleIsCall DEF Call, Idle
  <2> QED BY <1>3, <2>1, StartsTypeOK DEF TransitionReads
<1>4. ASSUME NEW s \in Slots, NEW a \in Assets, DeleteReads(s, a) PROVE TypeOK'
  <2>1. Idle.row = 0
    BY DEF Idle
  <2> QED BY <1>4, <2>1, IdleIsCall, StartsTypeOK DEF DeleteReads
<1>5. ASSUME NEW s \in Slots,
             AssignFindsNone(s) \/ AssignMarks(s) \/ UnassignCounts(s) \/ UnassignFrees(s)
               \/ TransitionRollsBack(s) \/ DeleteUpdates(s) \/ CallFails(s)
      PROVE  TypeOK'
  <2>1. (\E pc \in {"free", "marked", "closed", "logged", "freeing"} : Goto(s, pc) \/ Ends(s))
          /\ assignments' = assignments
    BY <1>5 DEF AssignFindsNone, AssignMarks, UnassignCounts, UnassignFrees, TransitionRollsBack,
                RolledBack, DeleteUpdates, CallFails
  <2>2. call' \in [Slots -> Call] /\ \A r \in Slots : call'[r].row \in 0 .. Len(assignments')
    BY <1>0, <2>1, GoesOnTyped
  <2>3. call[s] \in Call /\ call[s].asset \in Assets
    BY DEF TypeOK, Call
  <2>4. status' \in [Assets -> AssetStatus] /\ deleted' \subseteq Assets
    BY <1>5, <2>3 DEF AssignFindsNone, AssignMarks, UnassignCounts, UnassignFrees,
                      TransitionRollsBack, DeleteUpdates, CallFails, TypeOK, AssetStatus, Free
  <2>5. upset' \in [Assets -> SUBSET {"together", "legacy", "fail"}]
    BY <1>5, <2>3 DEF AssignFindsNone, AssignMarks, UnassignCounts, UnassignFrees,
                      TransitionRollsBack, DeleteUpdates, CallFails, Upsets, TypeOK
  <2> QED BY <2>1, <2>2, <2>4, <2>5 DEF TypeOK
<1>6. ASSUME NEW s \in Slots, AssignInserts(s) PROVE TypeOK'
  <2>1. [asset |-> call[s].asset, user |-> call[s].user, active |-> TRUE, returned |-> 0] \in Assignment
    BY DEF TypeOK, Call, Assignment
  <2>2. assignments' \in Seq(Assignment) /\ Len(assignments') = Len(assignments) + 1
    BY <1>6, <2>1, RowInserted DEF AssignInserts, TypeOK
  <2>3. call' \in [Slots -> Call] /\ \A r \in Slots : call'[r].row \in 0 .. Len(assignments')
    BY <1>0, <1>6, <2>2, GoesOnTyped DEF AssignInserts
  <2> QED BY <1>6, <2>2, <2>3 DEF AssignInserts, TypeOK
<1>7. ASSUME NEW s \in Slots, UnassignFinds(s) PROVE TypeOK'
  <2> DEFINE a == call[s].asset
             found == Candidates(a, call[s].user) \cup Newest(a)
  <2>1. found \subseteq 1 .. Len(assignments)
    BY <1>0 DEF Candidates, Newest, Active
  <2>2. \A i \in Nat : [call[s] EXCEPT !.pc = "found", !.row = i] \in Call
    BY DEF TypeOK, Call
  <2>3. CASE \E i \in found : call' = [call EXCEPT ![s].pc = "found", ![s].row = i]
    <3>1. PICK i \in found : call' = [call EXCEPT ![s].pc = "found", ![s].row = i]
      BY <2>3
    <3>2. call' = [call EXCEPT ![s] = [call[s] EXCEPT !.pc = "found", !.row = i]]
      BY <3>1 DEF TypeOK, Call
    <3>3. [call[s] EXCEPT !.pc = "found", !.row = i] \in Call
            /\ [call[s] EXCEPT !.pc = "found", !.row = i].row = i
      <4>1. i \in Nat
        BY <1>0, <2>1
      <4>2. call[s] \in Call
        BY DEF TypeOK
      <4> HIDE DEF found
      <4>3. [call[s] EXCEPT !.pc = "found", !.row = i].row = i
        BY <4>2 DEF Call
      <4> QED BY <4>1, <4>3, <2>2
    <3>4. i \in 0 .. Len(assignments)
      BY <1>0, <2>1
    <3>5. call' \in [Slots -> Call] /\ \A r \in Slots : call'[r].row \in 0 .. Len(assignments)
      BY <3>2, <3>3, <3>4 DEF TypeOK
    <3> QED BY <1>7, <3>5 DEF UnassignFinds, TypeOK
  <2>4. CASE Goto(s, "closed")
    <3>1. assignments' = assignments
      BY <1>7 DEF UnassignFinds
    <3>2. call' \in [Slots -> Call] /\ \A r \in Slots : call'[r].row \in 0 .. Len(assignments')
      BY <1>0, <2>4, <3>1, GoesOnTyped
    <3> QED BY <1>7, <3>1, <3>2 DEF UnassignFinds, TypeOK
  <2> QED BY <1>7, <2>3, <2>4 DEF UnassignFinds
<1>8. ASSUME NEW s \in Slots, NEW e \in Assignment, NEW pc \in {"logged", "closed"},
             assignments' = [assignments EXCEPT ![call[s].row] = e] \/ assignments' = assignments, Goto(s, pc),
             UNCHANGED <<status, deleted, upset>>
      PROVE  TypeOK'
  <2>1. assignments' \in Seq(Assignment) /\ Len(assignments') = Len(assignments)
    <3>1. CASE call[s].row \in DOMAIN assignments
      BY <1>8, <3>1, RowUpdated DEF TypeOK
    <3>2. CASE call[s].row \notin DOMAIN assignments
      <4>1. [assignments EXCEPT ![call[s].row] = e] = assignments
        BY <1>0, <3>2, LenProperties DEF TypeOK
      <4> QED BY <1>8, <4>1 DEF TypeOK
    <3> QED BY <3>1, <3>2
  <2>2. call' \in [Slots -> Call] /\ \A r \in Slots : call'[r].row \in 0 .. Len(assignments')
    BY <1>0, <1>8, <2>1, GoesOnTyped
  <2> QED BY <1>8, <2>1, <2>2 DEF TypeOK
<1>9. ASSUME NEW s \in Slots, UnassignCloses(s) \/ UnassignLogs(s) PROVE TypeOK'
  <2> DEFINE i == call[s].row
             closed == [assignments[i] EXCEPT !.active = FALSE]
             told == [assignments[i] EXCEPT !.returned = @ + 1]
  <2>1. CASE i \in DOMAIN assignments
    <3>1. closed \in Assignment /\ told \in Assignment
      BY <1>0, <2>1, ElementOfSeq, AssignmentUpdates DEF TypeOK
    <3> QED BY <1>8, <1>9, <3>1 DEF UnassignCloses, UnassignLogs
  <2>2. CASE i \notin DOMAIN assignments
    <3>1. assignments' = assignments
      BY <1>0, <1>9, <2>2, LenProperties DEF TypeOK, UnassignCloses, UnassignLogs
    <3>2. [asset |-> call[s].asset, user |-> call[s].user, active |-> TRUE, returned |-> 0] \in Assignment
      BY DEF TypeOK, Call, Assignment
    <3> QED BY <1>8, <1>9, <3>1, <3>2 DEF UnassignCloses, UnassignLogs
  <2> QED BY <2>1, <2>2
<1>11. ASSUME NEW a \in Assets, Trash(a) \/ Restore(a) PROVE TypeOK'
  BY <1>11 DEF Trash, Restore, TypeOK
<1>12. ASSUME NEW a \in Assets, NEW st \in AssetStatus, UpdateStatus(a, st) PROVE TypeOK'
  BY <1>12 DEF UpdateStatus, TypeOK
<1>13. ASSUME UNCHANGED vars PROVE TypeOK'
  BY <1>13 DEF vars, TypeOK
<1> QED
  BY <1>1, <1>2, <1>3, <1>4, <1>5, <1>6, <1>7, <1>9, <1>11, <1>12, <1>13 DEF Next

\* Status, assignments and calls keep their types, whatever runs together.
THEOREM TypeCorrect == Spec => []TypeOK
BY InitTypeOK, NextTypeOK, PTL DEF Spec

-----------------------------------------------------------------------------
(* The inductive invariant                                                 *)
(*                                                                         *)
(* assign and unassign act on what they read.  As long as no second one    *)
(* and no PATCH was on the asset beside them, what they read is still so:  *)
(* Alone makes a fact of the read a fact of the table, and Steady says     *)
(* which facts each statement relies on.                                   *)

Busy(s) == call[s].op \in Writers
On(s, a) == Busy(s) /\ call[s].asset = a
Lone(a) == "together" \notin upset[a]

Alone(a) == Lone(a) => \A s, r \in Slots : On(s, a) /\ On(r, a) => s = r

\* What is true of a call whatever happens beside it.
Shape(s) ==
  LET c == call[s] IN
  /\ c.op = "none" => c.pc = "idle"
  /\ c.op = "assign" => c.pc \in {"read", "free", "marked"} /\ Assignable(c.seen)
  /\ c.op = "unassign" => c.pc \in {"read", "found", "closed", "logged", "freeing"}
                            /\ c.seen = "asignado"
  /\ c.op \in {"transition", "delete"} => c.pc = "read"
  /\ c.pc \in {"found", "logged"} =>
       /\ c.row \in DOMAIN assignments
       /\ assignments[c.row].asset = c.asset

\* What is true of a call that had the asset for itself.
Steady(s) ==
  LET c == call[s]  a == c.asset IN
  Busy(s) =>
    /\ Lone(a) => status[a] = IF c.pc = "marked" THEN "asignado" ELSE c.seen
    /\ Lone(a) /\ c.pc \in {"free", "marked"} => ~Holds(a, c.user)
    /\ Lone(a) /\ c.pc = "found" => assignments[c.row].active
    /\ Lone(a) /\ c.pc = "logged" =>
         ~assignments[c.row].active /\ assignments[c.row].returned = 0
    /\ Lone(a) /\ c.pc = "freeing" => Empty(a)

\* A call that has written nothing that its status does not tell yet.
Even(s) == call[s].pc \in {"read", "free"}

Held(a) == upset[a] \subseteq {"fail"} /\ Active(a) # {} => status[a] = "asignado"
Single(a) == Lone(a) => \A i, j \in Active(a) : assignments[i].user = assignments[j].user => i = j
Agrees(a) ==
  upset[a] = {} /\ (\A s \in Slots : On(s, a) => Even(s))
    => (status[a] = "asignado" <=> Active(a) # {})

AssetInv(a) == Alone(a) /\ Held(a) /\ Single(a) /\ Agrees(a)
SlotInv(s) == Shape(s) /\ Steady(s)
IInv == (\A s \in Slots : SlotInv(s)) /\ (\A a \in Assets : AssetInv(a)) /\ ReturnsAreTold

LEMMA InitIInv == Init => IInv
<1> SUFFICES ASSUME Init PROVE IInv
  OBVIOUS
<1>1. \A s \in Slots : ~Busy(s) /\ call[s].op = "none" /\ call[s].pc = "idle"
  BY DEF Init, Idle, Busy, Writers
<1>2. \A s \in Slots : SlotInv(s)
  BY <1>1 DEF SlotInv, Shape, Steady, Busy
<1>3. \A a \in Assets : Active(a) = {}
  BY DEF Init, Active
<1>4. \A a \in Assets : AssetInv(a)
  BY <1>1, <1>3 DEF AssetInv, Alone, Held, Single, Agrees, On, Init
<1>5. ReturnsAreTold
  BY DEF Init, ReturnsAreTold
<1> QED BY <1>2, <1>4, <1>5 DEF IInv

\* A call starts: it reads, and finds the asset as it is.
LEMMA StartsKeeps ==
  ASSUME TypeOK, IInv, NEW s \in Slots, NEW op \in Writers,
         NEW a \in Assets, NEW c \in Call, Starts(s, op, a, c),
         op = "assign" => Assignable(status[a]),
         op = "unassign" => status[a] = "asignado"
  PROVE  IInv'
<1> DEFINE d == [c EXCEPT !.op = op, !.pc = "read", !.asset = a, !.seen = status[a]]
<1>1. /\ call' = [call EXCEPT ![s] = d]
      /\ d.op = op /\ d.pc = "read" /\ d.asset = a /\ d.seen = status[a]
      /\ UNCHANGED <<status, deleted, assignments>>
  BY DEF Starts, Call, Writers
<1> HIDE DEF d
<1>2. /\ \A b \in Assets : upset[b] \subseteq upset'[b]
      /\ \A b \in Assets : "legacy" \in upset'[b] => "legacy" \in upset[b]
      /\ \A b \in Assets : "fail" \in upset'[b] => "fail" \in upset[b]
      /\ \A b \in Assets \ {a} : upset'[b] = upset[b]
      /\ "together" \notin upset'[a] => ~Shared(a) /\ upset'[a] = upset[a]
  BY DEF Starts, Upsets, TypeOK
<1>3. \A b \in Assets : Active(b)' = Active(b)
  BY <1>1 DEF Active
<1>4. /\ call'[s] = d /\ \A r \in Slots \ {s} : call'[r] = call[r]
      /\ ~Busy(s)
  BY <1>1 DEF TypeOK, Starts, At, Busy, Writers
<1>5. SlotInv(s)'
  BY <1>1, <1>4 DEF SlotInv, Shape, Steady, Busy, Writers
<1>6. \A r \in Slots \ {s} : SlotInv(r)'
  <2> SUFFICES ASSUME NEW r \in Slots \ {s} PROVE SlotInv(r)'
    OBVIOUS
  <2>1. call'[r] = call[r] /\ call[r].asset \in Assets
    BY <1>4 DEF TypeOK, Call
  <2>2. Shape(r) /\ Steady(r)
    BY DEF IInv, SlotInv
  <2>3. Shape(r)'
    BY <1>1, <2>1, <2>2 DEF Shape
  <2>4. Steady(r)'
    BY <1>1, <1>2, <1>3, <2>1, <2>2 DEF Steady, Busy, Lone, Holds, Empty
  <2> QED BY <2>3, <2>4 DEF SlotInv
<1>7. \A b \in Assets : AssetInv(b)'
  <2> SUFFICES ASSUME NEW b \in Assets PROVE AssetInv(b)'
    OBVIOUS
  <2>1. AssetInv(b)
    BY DEF IInv
  <2>2. Alone(b)'
    BY <1>1, <1>2, <1>4, <2>1 DEF AssetInv, Alone, On, Busy, Lone, Shared
  <2>3. Held(b)' /\ Single(b)'
    BY <1>1, <1>2, <1>3, <2>1 DEF AssetInv, Held, Single, Lone
  <2>4. Agrees(b)'
    <3> SUFFICES ASSUME upset'[b] = {}, \A r \in Slots : On(r, b)' => Even(r)'
                 PROVE  status[b] = "asignado" <=> Active(b) # {}
      BY <1>1, <1>3 DEF Agrees
    <3>1. upset[b] = {} /\ (b = a => ~Shared(a))
      BY <1>2
    <3>2. ASSUME NEW r \in Slots, On(r, b) PROVE Even(r)
      <4>1. r # s /\ call'[r] = call[r]
        BY <1>4, <3>2 DEF On
      <4> QED BY <3>2, <4>1 DEF On, Busy, Even
    <3> QED BY <2>1, <3>1, <3>2 DEF AssetInv, Agrees
  <2> QED BY <2>2, <2>3, <2>4 DEF AssetInv
<1>8. ReturnsAreTold'
  <2>1. \A i \in DOMAIN assignments : assignments[i].asset \in Assets
    <3>1. \A i \in DOMAIN assignments : assignments[i] \in Assignment
      BY LenProperties DEF TypeOK
    <3> QED BY <3>1 DEF Assignment
  <2>2. \A r \in Slots : At(r, "unassign", "logged") => At(r, "unassign", "logged")' /\ call'[r] = call[r]
    BY <1>4 DEF At, Busy, Writers
  <2> QED BY <1>1, <1>2, <2>1, <2>2 DEF IInv, ReturnsAreTold
<1> QED BY <1>5, <1>6, <1>7, <1>8 DEF IInv

\* What a step of call s on asset a leaves to the other calls and assets.
Apart(s, a) ==
  /\ \A r \in Slots \ {s} : call'[r] = call[r]
  /\ Busy(s) /\ call[s].asset = a /\ (Busy(s)' => call'[s].asset = a)
  /\ \A i \in DOMAIN assignments :
       /\ i \in DOMAIN assignments'
       /\ assignments'[i].asset = assignments[i].asset
       /\ assignments'[i].user = assignments[i].user
       /\ assignments[i].asset # a => assignments'[i] = assignments[i]
  /\ \A b \in Assets \ {a} : status'[b] = status[b] /\ Active(b)' = Active(b)
                                /\ upset'[b] = upset[b]
  /\ upset[a] \subseteq upset'[a]

LEMMA OthersKeep ==
  ASSUME TypeOK, IInv, NEW s \in Slots, NEW a \in Assets, Apart(s, a)
  PROVE  /\ \A r \in Slots \ {s} : SlotInv(r)'
         /\ \A b \in Assets \ {a} : AssetInv(b)'
         /\ Alone(a)'
<1>1. ASSUME NEW r \in Slots \ {s} PROVE SlotInv(r)'
  <2>1. call'[r] = call[r] /\ Shape(r) /\ Steady(r) /\ call[r].asset \in Assets
    BY DEF Apart, IInv, SlotInv, TypeOK, Call
  <2>2. Shape(r)'
    BY <2>1 DEF Shape, Apart
  <2>3. CASE call[r].asset = a
    <3>1. Busy(r) => ~Lone(a)
      BY <2>3 DEF Apart, IInv, AssetInv, Alone, On
    <3> QED BY <2>1, <2>2, <2>3, <3>1 DEF SlotInv, Steady, Apart, Busy, Lone
  <2>4. CASE call[r].asset # a
    <3> DEFINE b == call[r].asset
    <3>1. b \in Assets \ {a} /\ Active(b)' = Active(b) /\ Active(b) \subseteq DOMAIN assignments
            /\ status'[b] = status[b] /\ upset'[b] = upset[b]
      BY <2>1, <2>4 DEF Apart, Active
    <3>2. \A u : Holds(b, u)' => Holds(b, u)
      BY <3>1 DEF Holds, Apart
    <3>3. call[r].pc \in {"found", "logged"} =>
            assignments'[call[r].row] = assignments[call[r].row]
      BY <2>1, <2>4 DEF Shape, Apart
    <3> QED BY <2>1, <2>2, <3>1, <3>2, <3>3 DEF SlotInv, Steady, Busy, Lone, Empty
  <2> QED BY <2>3, <2>4
<1>2. ASSUME NEW b \in Assets \ {a} PROVE AssetInv(b)'
  <2>1. AssetInv(b) /\ Active(b)' = Active(b) /\ Active(b) \subseteq DOMAIN assignments
          /\ status'[b] = status[b] /\ upset'[b] = upset[b]
    BY DEF IInv, Apart, Active
  <2>2. \A r \in Slots : On(r, b)' <=> On(r, b)
    BY DEF Apart, On, Busy
  <2>3. \A r \in Slots : On(r, b) => call'[r] = call[r]
    BY DEF Apart, On
  <2> QED BY <2>1, <2>2, <2>3 DEF AssetInv, Alone, Held, Single, Agrees, Lone, Even, Apart
<1>3. Alone(a)'
  <2>1. \A r \in Slots : On(r, a)' => On(r, a)
    BY DEF Apart, On, Busy
  <2> QED BY <2>1 DEF IInv, AssetInv, Alone, Apart, Lone
<1> QED BY <1>1, <1>2, <1>3

\* Nobody else is on the asset of a call that has it for itself.
LEMMA LoneCall ==
  ASSUME IInv, NEW s \in Slots, NEW a \in Assets, Busy(s), call[s].asset = a, Lone(a)
  PROVE  \A r \in Slots : On(r, a) => r = s
BY DEF IInv, AssetInv, Alone, On

-----------------------------------------------------------------------------
(* One lemma per step *)

\* A step of call s on asset a keeps the invariant if it keeps it for the two.
LEMMA StepKeeps ==
  ASSUME TypeOK, IInv, NEW s \in Slots, NEW a \in Assets, Apart(s, a),
         SlotInv(s)', Held(a)', Single(a)', Agrees(a)', ReturnsAreTold'
  PROVE  IInv'
<1>1. \A r \in Slots : SlotInv(r)'
  BY OthersKeep
<1>2. \A b \in Assets : AssetInv(b)'
  BY OthersKeep DEF AssetInv
<1> QED BY <1>1, <1>2 DEF IInv

\* A call that has ended owes nothing.
LEMMA EndedCall == ASSUME NEW s \in Slots, TypeOK, Ends(s)
                   PROVE  SlotInv(s)' /\ ~Busy(s)' /\ call'[s] = Idle
BY DEF Ends, TypeOK, SlotInv, Shape, Steady, Busy, Writers, Idle

\* A call that only goes on.
LEMMA GoneOn ==
  ASSUME NEW s \in Slots, TypeOK, NEW pc, Goto(s, pc)
  PROVE  /\ call'[s].pc = pc
         /\ call'[s].op = call[s].op /\ call'[s].asset = call[s].asset /\ call'[s].user = call[s].user
         /\ call'[s].seen = call[s].seen /\ call'[s].to = call[s].to /\ call'[s].row = call[s].row
         /\ \A r \in Slots \ {s} : call'[r] = call[r]
BY DEF Goto, TypeOK, Call

\* A step that writes nothing keeps the assets.
LEMMA NothingWritten ==
  ASSUME TypeOK, IInv, NEW s \in Slots, NEW a \in Assets, call[s].asset = a, Busy(s),
         UNCHANGED <<status, deleted, assignments, upset>>, Ends(s) \/ \E pc : Goto(s, pc),
         ~At(s, "unassign", "logged"), Even(s) \/ upset[a] # {} \/ Agrees(a)'
  PROVE  /\ Apart(s, a) /\ Held(a)' /\ Single(a)' /\ Agrees(a)' /\ ReturnsAreTold'
         /\ Active(a)' = Active(a)
<1>1. \A b \in Assets : Active(b)' = Active(b)
  BY DEF Active
<1>2. \A r \in Slots \ {s} : call'[r] = call[r]
  BY DEF Ends, Goto, TypeOK
<1>3. Busy(s)' => call'[s].asset = a
  BY GoneOn, EndedCall DEF Busy
<1>4. Apart(s, a)
  BY <1>1, <1>2, <1>3 DEF Apart
<1>5. AssetInv(a)
  BY DEF IInv
<1>6. Held(a)' /\ Single(a)'
  BY <1>1, <1>5 DEF AssetInv, Held, Single, Lone
<1>7. Agrees(a)'
  <2>1. CASE upset[a] = {} /\ Even(s)
    <3>1. \A r \in Slots : On(r, a) => Even(r)
      BY <2>1, LoneCall DEF Lone
    <3> QED BY <1>1, <1>5, <3>1 DEF AssetInv, Agrees
  <2>2. CASE upset[a] # {}
    BY <2>2 DEF Agrees
  <2> QED BY <2>1, <2>2
<1>8. ReturnsAreTold'
  BY <1>2 DEF IInv, ReturnsAreTold, At
<1> QED BY <1>1, <1>4, <1>6, <1>7, <1>8

LEMMA AssignFindsNoneKeeps ==
  ASSUME TypeOK, IInv, NEW s \in Slots, NEW a \in Assets, call[s].asset = a, AssignFindsNone(s)
  PROVE  IInv'
<1>1. /\ Busy(s) /\ call[s].op = "assign" /\ call[s].pc = "read" /\ Even(s)
      /\ UNCHANGED <<status, deleted, assignments, upset>>
  BY DEF AssignFindsNone, At, Busy, Even, Writers
<1>2. Ends(s) \/ (Goto(s, "free") /\ ~Holds(a, call[s].user))
  BY DEF AssignFindsNone
<1>3. Apart(s, a) /\ Held(a)' /\ Single(a)' /\ Agrees(a)' /\ ReturnsAreTold' /\ Active(a)' = Active(a)
  BY <1>1, <1>2, NothingWritten DEF At
<1>4. CASE Goto(s, "free") /\ ~Holds(a, call[s].user)
  <2>1. Shape(s) /\ Steady(s)
    BY DEF IInv, SlotInv
  <2>2. ~Holds(a, call[s].user)'
    BY <1>1, <1>3, <1>4, GoneOn DEF Holds
  <2>3. SlotInv(s)'
    BY <1>1, <1>4, <2>1, <2>2, GoneOn DEF SlotInv, Shape, Steady, Busy, Lone
  <2> QED BY <1>3, <2>3, StepKeeps
<1>5. CASE Ends(s)
  BY <1>3, <1>5, EndedCall, StepKeeps
<1> QED BY <1>2, <1>4, <1>5

LEMMA AssignMarksKeeps ==
  ASSUME TypeOK, IInv, NEW s \in Slots, NEW a \in Assets, call[s].asset = a, AssignMarks(s)
  PROVE  IInv'
<1>1. /\ Busy(s) /\ call[s].op = "assign" /\ call[s].pc = "free" /\ Goto(s, "marked")
      /\ status' = [status EXCEPT ![a] = "asignado"]
      /\ UNCHANGED <<deleted, assignments, upset>>
  BY DEF AssignMarks, At, Busy, Writers
<1>2. \A b \in Assets : Active(b)' = Active(b)
  BY <1>1 DEF Active
<1>3. Apart(s, a) /\ status'[a] = "asignado"
  BY <1>1, <1>2, GoneOn DEF Apart, TypeOK, Busy
<1>4. SlotInv(s)'
  <2>1. Shape(s) /\ Steady(s)
    BY DEF IInv, SlotInv
  <2>2. Lone(a) => ~Holds(a, call[s].user)'
    BY <1>1, <1>2, <2>1, GoneOn DEF Holds, Steady
  <2> QED BY <1>1, <1>3, <2>1, <2>2, GoneOn DEF SlotInv, Shape, Steady, Busy, Lone
<1>5. Held(a)' /\ Single(a)' /\ Agrees(a)'
  <2>1. On(s, a)' /\ ~Even(s)'
    BY <1>1, GoneOn DEF On, Busy, Even
  <2> QED BY <1>1, <1>2, <1>3, <2>1 DEF IInv, AssetInv, Held, Single, Lone, Agrees
<1>6. ReturnsAreTold'
  BY <1>1, <1>3 DEF IInv, ReturnsAreTold, At, Apart
<1> QED BY <1>3, <1>4, <1>5, <1>6, StepKeeps

LEMMA AssignInsertsKeeps ==
  ASSUME TypeOK, IInv, NEW s \in Slots, NEW a \in Assets, call[s].asset = a, AssignInserts(s)
  PROVE  IInv'
<1> DEFINE u == call[s].user
           n == Len(assignments) + 1
<1>1. /\ Busy(s) /\ call[s].op = "assign" /\ call[s].pc = "marked" /\ Ends(s)
      /\ UNCHANGED <<status, deleted, upset>>
  BY DEF AssignInserts, At, Busy, Writers
<1>2. [asset |-> a, user |-> u, active |-> TRUE, returned |-> 0] \in Assignment
  BY DEF TypeOK, Call, Assignment
<1>3. /\ DOMAIN assignments' = DOMAIN assignments \cup {n} /\ n \notin DOMAIN assignments
      /\ assignments'[n] = [asset |-> a, user |-> u, active |-> TRUE, returned |-> 0]
      /\ \A j \in DOMAIN assignments : assignments'[j] = assignments[j]
  BY <1>2, RowInserted DEF AssignInserts, TypeOK
<1>4. /\ Active(a)' = Active(a) \cup {n}
      /\ \A b \in Assets \ {a} : Active(b)' = Active(b)
      /\ Active(a) \subseteq DOMAIN assignments
  BY <1>3 DEF Active
<1>5. Apart(s, a)
  BY <1>1, <1>3, <1>4, EndedCall DEF Apart, Ends, TypeOK
<1>6. Steady(s) /\ AssetInv(a)
  BY DEF IInv, SlotInv
<1>7. Held(a)'
  BY <1>1, <1>6 DEF Held, Steady, Lone
<1>8. Single(a)'
  <2>1. Lone(a) => \A i \in Active(a) : assignments[i].user # u
    BY <1>1, <1>6 DEF Steady, Holds
  <2> QED BY <1>1, <1>3, <1>4, <1>6, <2>1 DEF AssetInv, Single, Lone
<1>9. Agrees(a)'
  BY <1>1, <1>4, <1>6 DEF Agrees, Steady, Lone
<1>10. ReturnsAreTold'
  BY <1>1, <1>3, <1>5 DEF IInv, ReturnsAreTold, At, Apart
<1> QED BY <1>1, <1>5, <1>7, <1>8, <1>9, <1>10, EndedCall, StepKeeps

LEMMA UnassignFindsKeeps ==
  ASSUME TypeOK, IInv, NEW s \in Slots, NEW a \in Assets, call[s].asset = a, UnassignFinds(s)
  PROVE  IInv'
<1>1. /\ Busy(s) /\ call[s].op = "unassign" /\ call[s].pc = "read" /\ call[s] \in Call
      /\ UNCHANGED <<status, deleted, assignments, upset>>
  BY DEF UnassignFinds, At, Busy, Writers, TypeOK
<1>2. PICK i \in Nat, pc \in {"found", "closed"} :
        /\ call' = [call EXCEPT ![s] = [call[s] EXCEPT !.pc = pc, !.row = i]]
        /\ pc = "found" => i \in Active(a)
  <2>1. CASE Goto(s, "closed")
    <3>1. call' = [call EXCEPT ![s] = [call[s] EXCEPT !.pc = "closed", !.row = call[s].row]]
            /\ call[s].row \in Nat
      BY <2>1, <1>1 DEF Goto, Call, TypeOK
    <3> QED BY <3>1
  <2>2. CASE ~Goto(s, "closed")
    <3>1. PICK i \in Active(a) : call' = [call EXCEPT ![s].pc = "found", ![s].row = i]
      BY <2>2 DEF UnassignFinds, Candidates, Newest
    <3>2. i \in Nat
      BY LenProperties DEF Active, TypeOK
    <3>3. call' = [call EXCEPT ![s] = [call[s] EXCEPT !.pc = "found", !.row = i]]
      BY <3>1, <1>1 DEF TypeOK, Call
    <3> QED BY <3>2, <3>3
  <2> QED BY <2>1, <2>2
<1>3. /\ call'[s].pc = pc /\ call'[s].row = i /\ call'[s].op = "unassign" /\ call'[s].asset = a
      /\ call'[s].seen = call[s].seen
      /\ \A r \in Slots \ {s} : call'[r] = call[r]
  BY <1>1, <1>2 DEF TypeOK, Call
<1>4. \A b \in Assets : Active(b)' = Active(b)
  BY <1>1 DEF Active
<1>5. Apart(s, a)
  BY <1>1, <1>3, <1>4 DEF Apart, Busy
<1>6. SlotInv(s)'
  <2>1. Shape(s) /\ Steady(s)
    BY DEF IInv, SlotInv
  <2>2. pc = "found" => i \in DOMAIN assignments /\ assignments[i].asset = a /\ assignments[i].active
    BY <1>2 DEF Active
  <2>3. Shape(s)'
    BY <1>1, <1>3, <2>1, <2>2 DEF Shape
  <2>4. Steady(s)'
    BY <1>1, <1>3, <2>1, <2>2 DEF Steady, Busy, Lone
  <2> QED BY <2>3, <2>4 DEF SlotInv
<1>7. Held(a)' /\ Single(a)' /\ Agrees(a)'
  <2>1. On(s, a)' /\ ~Even(s)'
    BY <1>3 DEF On, Busy, Even, Writers
  <2> QED BY <1>1, <1>4, <2>1 DEF IInv, AssetInv, Held, Single, Lone, Agrees
<1>8. ReturnsAreTold'
  BY <1>1, <1>3 DEF IInv, ReturnsAreTold, At
<1> QED BY <1>5, <1>6, <1>7, <1>8, StepKeeps

LEMMA UnassignClosesKeeps ==
  ASSUME TypeOK, IInv, NEW s \in Slots, NEW a \in Assets, call[s].asset = a, UnassignCloses(s)
  PROVE  IInv'
<1> DEFINE i == call[s].row
           e == [assignments[i] EXCEPT !.active = FALSE]
<1>1. /\ Busy(s) /\ call[s].op = "unassign" /\ call[s].pc = "found" /\ Goto(s, "logged")
      /\ UNCHANGED <<status, deleted, upset>>
  BY DEF UnassignCloses, At, Busy, Writers
<1>2. Shape(s) /\ Steady(s) /\ AssetInv(a)
  BY DEF IInv, SlotInv
<1>3. call[s].row = i /\ i \in DOMAIN assignments /\ assignments[i].asset = a /\ assignments[i] \in Assignment
  BY <1>1, <1>2, LenProperties, ElementOfSeq DEF Shape, TypeOK
<1>4. e \in Assignment /\ e.asset = a /\ e.user = assignments[i].user /\ ~e.active
        /\ e.returned = assignments[i].returned
  BY <1>3, AssignmentUpdates
<1>5. /\ DOMAIN assignments' = DOMAIN assignments
      /\ assignments'[i] = e /\ \A j \in DOMAIN assignments \ {i} : assignments'[j] = assignments[j]
  BY <1>3, <1>4, RowUpdated DEF UnassignCloses, TypeOK
<1>0. Lone(a) => assignments[i].active /\ e.returned = 0
  <2>1. Lone(a) => assignments[i].active
    BY <1>1, <1>2, <1>3 DEF Steady
  <2>2. Lone(a) /\ assignments[i].active => assignments[i].returned <= 0
    BY <1>3 DEF IInv, ReturnsAreTold, Lone
  <2>3. assignments[i].returned \in Nat
    BY <1>3 DEF Assignment
  <2> QED BY <1>4, <2>1, <2>2, <2>3
<1> HIDE DEF i, e
<1>6. /\ Active(a)' = Active(a) \ {i}
      /\ \A b \in Assets \ {a} : Active(b)' = Active(b)
      /\ Active(a) \subseteq DOMAIN assignments
  BY <1>3, <1>4, <1>5 DEF Active
<1>7. Apart(s, a)
  BY <1>1, <1>3, <1>4, <1>5, <1>6, GoneOn DEF Apart, Busy
<1>8. SlotInv(s)'
  <2>1. Shape(s)'
    BY <1>1, <1>2, <1>3, <1>4, <1>5, GoneOn DEF Shape
  <2>2. Steady(s)'
    BY <1>0, <1>1, <1>2, <1>3, <1>4, <1>5, GoneOn DEF Steady, Busy, Lone
  <2> QED BY <2>1, <2>2 DEF SlotInv
<1>9. Held(a)'
  BY <1>1, <1>2, <1>6 DEF AssetInv, Held
<1>10. Single(a)'
  BY <1>1, <1>2, <1>5, <1>6 DEF AssetInv, Single, Lone
<1>11. Agrees(a)'
  <2>1. On(s, a)' /\ ~Even(s)'
    BY <1>1, GoneOn DEF On, Busy, Even
  <2> QED BY <2>1 DEF Agrees
<1>12. ReturnsAreTold'
  <2>1. At(s, "unassign", "logged")' /\ call'[s].row = i
    BY <1>1, <1>3, GoneOn DEF At
  <2>2. \A r \in Slots \ {s} : At(r, "unassign", "logged")' <=> At(r, "unassign", "logged")
    BY <1>7 DEF Apart, At
  <2>3. ~At(s, "unassign", "logged")
    BY <1>1 DEF At
  <2>4. Lone(a) => e.returned <= 1
    BY <1>0
  <2> QED BY <1>1, <1>3, <1>4, <1>5, <1>7, <2>1, <2>2, <2>3, <2>4
          DEF IInv, ReturnsAreTold, Apart, Lone
<1> QED BY <1>7, <1>8, <1>9, <1>10, <1>11, <1>12, StepKeeps

LEMMA UnassignLogsKeeps ==
  ASSUME TypeOK, IInv, NEW s \in Slots, NEW a \in Assets, call[s].asset = a, UnassignLogs(s)
  PROVE  IInv'
<1> DEFINE i == call[s].row
           e == [assignments[i] EXCEPT !.returned = @ + 1]
<1>1. /\ Busy(s) /\ call[s].op = "unassign" /\ call[s].pc = "logged" /\ Goto(s, "closed")
      /\ UNCHANGED <<status, deleted, upset>>
  BY DEF UnassignLogs, At, Busy, Writers
<1>2. Shape(s) /\ Steady(s) /\ AssetInv(a)
  BY DEF IInv, SlotInv
<1>3. call[s].row = i /\ i \in DOMAIN assignments /\ assignments[i].asset = a /\ assignments[i] \in Assignment
  BY <1>1, <1>2, LenProperties, ElementOfSeq DEF Shape, TypeOK
<1>4. e \in Assignment /\ e.asset = a /\ e.user = assignments[i].user
        /\ e.active = assignments[i].active /\ e.returned > 0
  <2>1. e \in Assignment /\ e.asset = a /\ e.user = assignments[i].user
          /\ e.active = assignments[i].active /\ e.returned = assignments[i].returned + 1
    BY <1>3, AssignmentUpdates
  <2>2. assignments[i].returned \in Nat
    BY <1>3 DEF Assignment
  <2> QED BY <2>1, <2>2
<1>0. Lone(a) => ~assignments[i].active /\ e.returned = 1
  <2>1. e.returned = assignments[i].returned + 1
    BY <1>3, AssignmentUpdates
  <2>2. Lone(a) => ~assignments[i].active /\ assignments[i].returned = 0
    BY <1>1, <1>2, <1>3 DEF Steady
  <2> QED BY <2>1, <2>2
<1>5. /\ DOMAIN assignments' = DOMAIN assignments
      /\ assignments'[i] = e /\ \A j \in DOMAIN assignments \ {i} : assignments'[j] = assignments[j]
  BY <1>3, <1>4, RowUpdated DEF UnassignLogs, TypeOK
<1> HIDE DEF i, e
<1>6. /\ \A b \in Assets : Active(b)' = Active(b)
      /\ Active(a) \subseteq DOMAIN assignments
  BY <1>3, <1>4, <1>5 DEF Active
<1>7. Apart(s, a)
  BY <1>1, <1>3, <1>4, <1>5, <1>6, GoneOn DEF Apart, Busy
<1>8. SlotInv(s)'
  BY <1>1, <1>2, GoneOn DEF SlotInv, Shape, Steady, Busy, Lone
<1>9. Held(a)' /\ Single(a)'
  BY <1>1, <1>2, <1>4, <1>5, <1>6 DEF AssetInv, Held, Single, Lone
<1>10. Agrees(a)'
  <2>1. On(s, a)' /\ ~Even(s)'
    BY <1>1, GoneOn DEF On, Busy, Even
  <2> QED BY <2>1 DEF Agrees
<1>11. ReturnsAreTold'
  <2>1. \A r \in Slots \ {s} : At(r, "unassign", "logged")' <=> At(r, "unassign", "logged")
    BY <1>7 DEF Apart, At
  <2>2. Lone(a) => e.returned <= 1
    BY <1>0
  <2> QED BY <1>0, <1>1, <1>3, <1>4, <1>5, <1>7, <2>1, <2>2 DEF IInv, ReturnsAreTold, Apart, Lone
<1> QED BY <1>7, <1>8, <1>9, <1>10, <1>11, StepKeeps

LEMMA UnassignCountsKeeps ==
  ASSUME TypeOK, IInv, NEW s \in Slots, NEW a \in Assets, call[s].asset = a, UnassignCounts(s)
  PROVE  IInv'
<1>1. /\ Busy(s) /\ call[s].op = "unassign" /\ call[s].pc = "closed"
      /\ UNCHANGED <<status, deleted, assignments, upset>>
  BY DEF UnassignCounts, At, Busy, Writers
<1>2. (Goto(s, "freeing") /\ Empty(a)) \/ (Ends(s) /\ ~Empty(a))
  BY DEF UnassignCounts
<1>3. Shape(s) /\ Steady(s) /\ Active(a)' = Active(a)
  BY <1>1 DEF IInv, SlotInv, Active
<1>4. Agrees(a)'
  <2>1. CASE Goto(s, "freeing")
    <3>1. On(s, a)' /\ ~Even(s)'
      BY <1>1, <2>1, GoneOn DEF On, Busy, Even
    <3> QED BY <3>1 DEF Agrees
  <2>2. CASE ~Empty(a)
    BY <1>1, <1>3, <2>2 DEF Agrees, Steady, Lone, Empty, Shape, Busy
  <2> QED BY <1>2, <2>1, <2>2
<1>5. Apart(s, a) /\ Held(a)' /\ Single(a)' /\ Agrees(a)' /\ ReturnsAreTold'
  BY <1>1, <1>2, <1>4, NothingWritten DEF At
<1>6. SlotInv(s)'
  <2>1. CASE Goto(s, "freeing") /\ Empty(a)
    BY <1>1, <1>3, <2>1, GoneOn DEF SlotInv, Shape, Steady, Busy, Lone, Empty
  <2> QED BY <1>2, <2>1, EndedCall
<1> QED BY <1>5, <1>6, StepKeeps

LEMMA UnassignFreesKeeps ==
  ASSUME TypeOK, IInv, NEW s \in Slots, NEW a \in Assets, call[s].asset = a, UnassignFrees(s)
  PROVE  IInv'
<1>1. /\ Busy(s) /\ call[s].op = "unassign" /\ call[s].pc = "freeing" /\ Ends(s)
      /\ status' = [status EXCEPT ![a] = "disponible"]
      /\ UNCHANGED <<deleted, assignments, upset>>
  BY DEF UnassignFrees, At, Busy, Free, Writers
<1>2. /\ \A b \in Assets : Active(b)' = Active(b)
      /\ status'[a] = "disponible"
      /\ Steady(s) /\ AssetInv(a)
  BY <1>1 DEF Active, TypeOK, IInv, SlotInv
<1>3. Apart(s, a)
  BY <1>1, <1>2, EndedCall DEF Apart, Ends, TypeOK
<1>4. Held(a)' /\ Single(a)' /\ Agrees(a)'
  BY <1>1, <1>2 DEF AssetInv, Held, Single, Lone, Agrees, Steady, Empty
<1>5. ReturnsAreTold'
  BY <1>1, <1>3 DEF IInv, ReturnsAreTold, At, Apart
<1> QED BY <1>1, <1>3, <1>4, <1>5, EndedCall, StepKeeps

\* A call that writes neither a status nor an assignment, when it starts, ends
\* or fails, keeps the invariant.
LEMMA QuietKeeps ==
  ASSUME TypeOK, IInv, NEW s \in Slots, ~Busy(s), ~Busy(s)', Shape(s)',
         \A r \in Slots \ {s} : call'[r] = call[r],
         UNCHANGED <<status, assignments>>,
         \A b \in Assets : upset'[b] \in {upset[b], upset[b] \cup {"fail"}}
  PROVE  IInv'
<1>1. \A b \in Assets : /\ Active(b)' = Active(b)
                        /\ Lone(b)' <=> Lone(b)
                        /\ upset'[b] = {} => upset[b] = {}
                        /\ upset'[b] \subseteq {"fail"} => upset[b] \subseteq {"fail"}
                        /\ "fail" \notin upset'[b] => "fail" \notin upset[b]
                        /\ "together" \notin upset'[b] => "together" \notin upset[b]
  BY DEF Active, Lone
<1>2. SlotInv(s)'
  BY DEF SlotInv, Steady
<1>3. ASSUME NEW r \in Slots \ {s} PROVE SlotInv(r)'
  <2>1. call'[r] = call[r] /\ Shape(r) /\ Steady(r) /\ call[r].asset \in Assets
    BY DEF IInv, SlotInv, TypeOK, Call
  <2>2. Shape(r)'
    BY <2>1 DEF Shape
  <2>3. Steady(r)'
    BY <1>1, <2>1 DEF Steady, Busy, Holds, Empty
  <2> QED BY <2>2, <2>3 DEF SlotInv
<1>4. ASSUME NEW b \in Assets PROVE AssetInv(b)'
  <2>1. AssetInv(b)
    BY DEF IInv
  <2>2. \A r \in Slots : (On(r, b)' <=> On(r, b)) /\ (On(r, b) => call'[r] = call[r])
    BY DEF On, Busy
  <2> QED BY <1>1, <2>1, <2>2 DEF AssetInv, Alone, Held, Single, Agrees, Even
<1>5. ReturnsAreTold'
  <2>1. \A i \in DOMAIN assignments : assignments[i].asset \in Assets
    <3>1. \A i \in DOMAIN assignments : assignments[i] \in Assignment
      BY LenProperties DEF TypeOK
    <3> QED BY <3>1 DEF Assignment
  <2>2. \A r \in Slots : At(r, "unassign", "logged") => r # s
    BY DEF At, Busy, Writers
  <2> QED BY <1>1, <2>1, <2>2 DEF IInv, ReturnsAreTold, At
<1> QED BY <1>2, <1>3, <1>4, <1>5 DEF IInv

LEMMA QuietStartKeeps ==
  ASSUME TypeOK, IInv, NEW s \in Slots, NEW op \in {"transition", "delete"}, NEW a \in Assets,
         NEW c \in Call, Starts(s, op, a, c)
  PROVE  IInv'
<1> DEFINE d == [c EXCEPT !.op = op, !.pc = "read", !.asset = a, !.seen = status[a]]
<1>1. /\ call' = [call EXCEPT ![s] = d] /\ d.op = op /\ d.pc = "read"
      /\ UNCHANGED <<status, assignments, upset>>
  BY DEF Starts, Call, Writers
<1> HIDE DEF d
<1>2. ~Busy(s) /\ ~Busy(s)' /\ Shape(s)' /\ \A r \in Slots \ {s} : call'[r] = call[r]
  BY <1>1 DEF TypeOK, Starts, At, Busy, Writers, Shape
<1> QED BY <1>1, <1>2, QuietKeeps

LEMMA QuietEndKeeps ==
  ASSUME TypeOK, IInv, NEW s \in Slots, TransitionRollsBack(s) \/ DeleteUpdates(s)
  PROVE  IInv'
<1>1. ~Busy(s) /\ Ends(s) /\ UNCHANGED <<status, assignments, upset>>
  BY DEF TransitionRollsBack, RolledBack, DeleteUpdates, At, Busy, Writers
<1>2. \A r \in Slots \ {s} : call'[r] = call[r]
  BY <1>1 DEF Ends, TypeOK
<1> QED BY <1>1, <1>2, EndedCall, QuietKeeps DEF SlotInv

\* A query fails: what assign and unassign have written stays.
LEMMA CallFailsKeeps ==
  ASSUME TypeOK, IInv, NEW s \in Slots, NEW a \in Assets, call[s].asset = a, CallFails(s)
  PROVE  IInv'
<1>1. /\ Ends(s) /\ upset' = [upset EXCEPT ![a] = @ \cup {"fail"}]
      /\ UNCHANGED <<status, deleted, assignments>>
  BY DEF CallFails, Upsets
<1>2. /\ \A b \in Assets : Active(b)' = Active(b)
      /\ upset'[a] = upset[a] \cup {"fail"} /\ \A b \in Assets \ {a} : upset'[b] = upset[b]
  BY <1>1 DEF Active, TypeOK
<1>3. CASE ~Busy(s)
  <2>1. \A r \in Slots \ {s} : call'[r] = call[r]
    BY <1>1 DEF Ends, TypeOK
  <2> QED BY <1>1, <1>2, <1>3, <2>1, EndedCall, QuietKeeps DEF SlotInv
<1>4. CASE Busy(s)
  <2>1. Apart(s, a)
    BY <1>1, <1>2, <1>4, EndedCall DEF Apart, Ends, TypeOK
  <2>2. Held(a)' /\ Single(a)' /\ Agrees(a)'
    BY <1>1, <1>2 DEF IInv, AssetInv, Held, Single, Lone, Agrees
  <2>3. ReturnsAreTold'
    <3> SUFFICES ASSUME NEW i \in DOMAIN assignments PROVE
            LET row == assignments[i] IN
            /\ ~row.active /\ "fail" \notin upset'[row.asset] =>
                 \/ row.returned > 0
                 \/ \E r \in Slots : At(r, "unassign", "logged")' /\ call'[r].row = i
            /\ "together" \notin upset'[row.asset] =>
                 row.returned <= (IF row.active THEN 0 ELSE 1)
      BY <1>1 DEF ReturnsAreTold
    <3>1. assignments[i].asset \in Assets
      <4>1. assignments[i] \in Assignment
        BY LenProperties DEF TypeOK
      <4> QED BY <4>1 DEF Assignment
    <3>2. CASE assignments[i].asset = a
      BY <1>2, <3>2 DEF IInv, ReturnsAreTold
    <3>3. CASE assignments[i].asset # a
      <4>1. \A r \in Slots : At(r, "unassign", "logged") /\ call[r].row = i => r # s
        BY <3>3 DEF IInv, SlotInv, Shape, At
      <4> QED BY <1>2, <2>1, <3>1, <3>3, <4>1 DEF IInv, ReturnsAreTold, At, Apart
    <3> QED BY <3>2, <3>3
  <2> QED BY <1>1, <2>1, <2>2, <2>3, EndedCall, StepKeeps
<1> QED BY <1>3, <1>4

\* The legacy PATCH writes the status of an asset, and says so when a call that
\* writes is under way or the assignments contradict it.
LEMMA UpdateStatusKeeps ==
  ASSUME TypeOK, IInv, NEW a \in Assets, NEW st \in AssetStatus, UpdateStatus(a, st)
  PROVE  IInv'
<1>1. /\ \A b \in Assets \ {a} : status'[b] = status[b] /\ upset'[b] = upset[b]
      /\ status'[a] = st /\ upset[a] \subseteq upset'[a]
      /\ "fail" \in upset'[a] => "fail" \in upset[a]
      /\ "together" \notin upset'[a] => ~Shared(a)
      /\ "legacy" \notin upset'[a] => (st = "asignado" <=> Active(a) # {})
      /\ UNCHANGED <<deleted, assignments, call>>
  BY DEF UpdateStatus, TypeOK
<1>2. \A b \in Assets : Active(b)' = Active(b)
  BY <1>1 DEF Active
<1>3. \A s \in Slots : SlotInv(s)'
  <2> SUFFICES ASSUME NEW s \in Slots PROVE SlotInv(s)'
    OBVIOUS
  <2>1. Shape(s) /\ Steady(s) /\ call[s].asset \in Assets
    BY DEF IInv, SlotInv, TypeOK, Call
  <2>2. Shape(s)'
    BY <1>1, <2>1 DEF Shape
  <2>3. Busy(s) /\ call[s].asset = a => ~Lone(a)'
    BY <1>1 DEF Lone, Shared, Busy
  <2>4. Lone(call[s].asset)' => Lone(call[s].asset)
    BY <1>1, <2>1 DEF Lone
  <2>5. Steady(s)'
    BY <1>1, <1>2, <2>1, <2>3, <2>4 DEF Steady, Busy, Holds, Empty
  <2> QED BY <2>2, <2>5 DEF SlotInv
<1>4. \A b \in Assets : AssetInv(b)'
  <2> SUFFICES ASSUME NEW b \in Assets PROVE AssetInv(b)'
    OBVIOUS
  <2>1. AssetInv(b)
    BY DEF IInv
  <2>2. Alone(b)' /\ Single(b)'
    BY <1>1, <1>2, <2>1 DEF AssetInv, Alone, Single, Lone, On, Busy
  <2>3. Held(b)' /\ Agrees(b)'
    BY <1>1, <1>2, <2>1 DEF AssetInv, Held, Agrees, On, Busy, Even
  <2> QED BY <2>2, <2>3 DEF AssetInv
<1>5. ReturnsAreTold'
  <2>1. \A i \in DOMAIN assignments : assignments[i].asset \in Assets
    <3>1. \A i \in DOMAIN assignments : assignments[i] \in Assignment
      BY LenProperties DEF TypeOK
    <3> QED BY <3>1 DEF Assignment
  <2> QED BY <1>1, <2>1 DEF IInv, ReturnsAreTold, At
<1> QED BY <1>3, <1>4, <1>5 DEF IInv

\* The trash, and steps that change nothing the invariant looks at.
LEMMA TrashKeeps ==
  ASSUME IInv, UNCHANGED <<status, assignments, call, upset>> PROVE IInv'
BY DEF IInv, SlotInv, Shape, Steady, AssetInv, Alone, Held, Single, Agrees, ReturnsAreTold,
       Busy, On, Lone, Even, At, Holds, Empty, Active

LEMMA NextIInv == TypeOK /\ IInv /\ [Next]_vars => IInv'
<1> SUFFICES ASSUME TypeOK, IInv, [Next]_vars PROVE IInv'
  OBVIOUS
<1>0. \A s \in Slots : call[s].asset \in Assets
  BY DEF TypeOK, Call
<1>1. ASSUME NEW s \in Slots, NEW a \in Assets, NEW u \in Users, AssignReads(s, a, u) PROVE IInv'
  <2>1. [Idle EXCEPT !.user = u] \in Call
    BY IdleIsCall DEF Call
  <2> QED BY <1>1, <2>1, StartsKeeps DEF AssignReads, Writers
<1>2. ASSUME NEW s \in Slots, NEW a \in Assets, NEW u \in Users, UnassignReads(s, a, u) PROVE IInv'
  <2>1. [Idle EXCEPT !.user = u] \in Call
    BY IdleIsCall DEF Call
  <2> QED BY <1>2, <2>1, StartsKeeps DEF UnassignReads, Writers
<1>3. ASSUME NEW s \in Slots, NEW a \in Assets, NEW to \in AssetStatus, TransitionReads(s, a, to) PROVE IInv'
  <2>1. [Idle EXCEPT !.to = to] \in Call
    BY IdleIsCall DEF Call
  <2> QED BY <1>3, <2>1, QuietStartKeeps DEF TransitionReads
<1>4. ASSUME NEW s \in Slots, NEW a \in Assets, DeleteReads(s, a) PROVE IInv'
  BY <1>4, IdleIsCall, QuietStartKeeps DEF DeleteReads
<1>5. ASSUME NEW s \in Slots, AssignFindsNone(s) \/ AssignMarks(s) \/ AssignInserts(s) PROVE IInv'
  BY <1>0, <1>5, AssignFindsNoneKeeps, AssignMarksKeeps, AssignInsertsKeeps
<1>6. ASSUME NEW s \in Slots, UnassignFinds(s) \/ UnassignCloses(s) \/ UnassignLogs(s) PROVE IInv'
  BY <1>0, <1>6, UnassignFindsKeeps, UnassignClosesKeeps, UnassignLogsKeeps
<1>7. ASSUME NEW s \in Slots, UnassignCounts(s) \/ UnassignFrees(s) PROVE IInv'
  BY <1>0, <1>7, UnassignCountsKeeps, UnassignFreesKeeps
<1>8. ASSUME NEW s \in Slots, TransitionRollsBack(s) \/ DeleteUpdates(s) \/ CallFails(s) PROVE IInv'
  BY <1>0, <1>8, QuietEndKeeps, CallFailsKeeps
<1>9. ASSUME NEW a \in Assets, Trash(a) \/ Restore(a) PROVE IInv'
  BY <1>9, TrashKeeps DEF Trash, Restore
<1>10. ASSUME NEW a \in Assets, NEW st \in AssetStatus, UpdateStatus(a, st) PROVE IInv'
  BY <1>10, UpdateStatusKeeps
<1>11. ASSUME UNCHANGED vars PROVE IInv'
  BY <1>11, TrashKeeps DEF vars
<1> QED
  BY <1>1, <1>2, <1>3, <1>4, <1>5, <1>6, <1>7, <1>8, <1>9, <1>10, <1>11 DEF Next

LEMMA Invariant == Spec => [](TypeOK /\ IInv)
BY InitTypeOK, NextTypeOK, InitIInv, NextIInv, PTL DEF Spec

-----------------------------------------------------------------------------
(* Theorems *)

\* Whoever holds an asset finds it marked asignado: the writes of assign and
\* unassign come in an order that keeps it, also when one fails.
THEOREM HoldersAreMarked == Spec => []HeldIsMarked
<1>1. IInv => HeldIsMarked
  BY DEF IInv, AssetInv, Held, HeldIsMarked
<1> QED BY <1>1, Invariant, PTL

\* Status and assignments say the same once assign and unassign have ended.
THEOREM TablesAgree == Spec => []CustodyAgrees
<1>1. IInv => CustodyAgrees
  BY DEF IInv, AssetInv, Agrees, CustodyAgrees, Shared, On, Busy
<1> QED BY <1>1, Invariant, PTL

\* No user has an asset twice unless two calls were on it at a time.
THEOREM OnceEach == Spec => []OneEach
<1>1. IInv => OneEach
  BY DEF IInv, AssetInv, Single, OneEach, Lone
<1> QED BY <1>1, Invariant, PTL

\* The history tells of every return, unless a query failed, and tells of it
\* once, unless two calls ran together.
THEOREM ReturnsTold == Spec => []ReturnsAreTold
<1>1. IInv => ReturnsAreTold
  BY DEF IInv
<1> QED BY <1>1, Invariant, PTL

\* What was written off comes back by a PATCH, or by a call it ran beside.
THEOREM RetiredForGood == Spec => RetiredStays
<1>1. TypeOK /\ IInv /\ [Next]_vars =>
        [\A a \in Assets : status[a] = "dado_de_baja" /\ status'[a] # "dado_de_baja"
           => "together" \in upset'[a] \/ \E st \in AssetStatus : UpdateStatus(a, st)]_vars
  <2> SUFFICES ASSUME TypeOK, IInv, Next, NEW a \in Assets,
                      status[a] = "dado_de_baja", status'[a] # "dado_de_baja"
               PROVE  "together" \in upset'[a] \/ \E st \in AssetStatus : UpdateStatus(a, st)
    BY DEF vars
  <2>1. ASSUME NEW s \in Slots, AssignMarks(s) \/ UnassignFrees(s)
        PROVE  ~Lone(a) /\ upset' = upset
    <3>1. call[s].asset = a /\ Busy(s) /\ Shape(s) /\ Steady(s) /\ upset' = upset
      BY <2>1 DEF AssignMarks, UnassignFrees, TypeOK, At, Busy, Writers, IInv, SlotInv
    <3>2. call[s].pc # "marked" /\ call[s].seen # "dado_de_baja"
      BY <2>1, <3>1 DEF AssignMarks, UnassignFrees, At, Shape, Assignable
    <3> QED BY <3>1, <3>2 DEF Steady
  <2>2. ASSUME NEW st \in AssetStatus, NEW b \in Assets, UpdateStatus(b, st)
        PROVE  b = a
    BY <2>2 DEF UpdateStatus, TypeOK
  <2>3. \/ \E s \in Slots : AssignMarks(s) \/ UnassignFrees(s)
        \/ \E st \in AssetStatus, b \in Assets : UpdateStatus(b, st)
    BY DEF Next, AssignReads, UnassignReads, TransitionReads, DeleteReads, Starts, AssignFindsNone,
           AssignInserts, UnassignFinds, UnassignCloses, UnassignLogs, UnassignCounts,
           TransitionRollsBack, DeleteUpdates, CallFails, Trash, Restore
  <2> QED BY <2>1, <2>2, <2>3 DEF Lone
<1> QED BY <1>1, Invariant, PTL DEF Spec, RetiredStays
=============================================================================
