----------------------------- MODULE OrgTreeProofs -----------------------------
(***************************************************************************)
(* What holds of OrgTree for every number of nodes, of calls at a time and *)
(* of writes: a node never comes to hang below itself, every active node   *)
(* is shown, and the recursive query of a move ends, unless a move is      *)
(* begun beside another.                                                   *)
(***************************************************************************)
EXTENDS OrgTree, FiniteSetTheorems, WellFoundedInduction, TLAPS

-----------------------------------------------------------------------------
(* The inductive invariant.  Below themselves hang the nodes of a set in   *)
(* which each has its parent; there is none.                               *)

Grounded == \A S \in SUBSET created : S # {} => \E n \in S : parent[n] \notin S

\* The way from p up to its root, and n does not lie on it: what the query of
\* a move has found out.
Leads(n, p) ==
  \E U \in SUBSET created :
    p \in U /\ n \notin U /\ \A m \in U : parent[m] \in U \cup {None}

\* What a call names is there, and what it is about to create is not.
Named(s) ==
  /\ call[s].op \in {"move", "activate", "delete"} => call[s].node \in created
  /\ call[s].op = "move" => call[s].to \in Parents \ {call[s].node}
  /\ At(s, "create", "write") =>
       /\ call[s].node \notin created /\ call[s].to \in Parents
       /\ \A r \in Slots :
            At(r, "create", "write") /\ call[r].node = call[s].node => r = s

OneMove == \A r, s \in Slots : call[r].op = "move" /\ call[s].op = "move" => r = s
Checked(s) ==
  At(s, "move", "write") /\ call[s].to # None => Leads(call[s].node, call[s].to)

AllNamed == \A s \in Slots : Named(s)
Orderly  == OneMove /\ Grounded /\ \A s \in Slots : Checked(s)
IInv == TypeOK /\ AllNamed /\ (~together => Orderly)

-----------------------------------------------------------------------------
(* Types                                                                   *)

LEMMA IdleIsCall == Idle \in Call
BY OrgAssumption DEF Idle, Call, Keys

\* What one slot does to its own call.
LEMMA SlotKeepsType ==
  ASSUME call \in [Slots -> Call], NEW s \in Slots, NEW c \in Call,
         call' = [call EXCEPT ![s] = c]
  PROVE  /\ call' \in [Slots -> Call] /\ call'[s] = c
         /\ \A r \in Slots \ {s} : call'[r] = call[r]
OBVIOUS

LEMMA GotoKeepsType ==
  ASSUME call \in [Slots -> Call], NEW s \in Slots,
         NEW pc \in {"idle", "check", "write", "clear", "miss", "fill"}, Goto(s, pc)
  PROVE  /\ call' \in [Slots -> Call] /\ call'[s] = [call[s] EXCEPT !.pc = pc]
         /\ \A r \in Slots \ {s} : call'[r] = call[r]
<1>1. call[s] \in Call /\ [call[s] EXCEPT !.pc = pc] \in Call
  BY DEF Call
<1>2. call' = [call EXCEPT ![s] = [call[s] EXCEPT !.pc = pc]]
  BY DEF Goto
<1> QED BY <1>1, <1>2, SlotKeepsType

LEMMA StartsKeepType ==
  ASSUME TypeOK, NEW s \in Slots, NEW n \in Nodes, NEW p \in Nodes \cup {None},
         NEW k \in Keys, NEW op \in {"create", "move", "activate", "delete", "type"},
         NEW pc \in {"check", "write"}, Starts(s, op, pc, n, p, k)
  PROVE  /\ TypeOK'
         /\ call'[s].op = op /\ call'[s].pc = pc /\ call'[s].node = n /\ call'[s].to = p
         /\ \A r \in Slots \ {s} : call'[r] = call[r]
<1> DEFINE c == [Idle EXCEPT !.op = op, !.pc = pc, !.node = n, !.to = p, !.key = k]
<1>1. c \in Call /\ c.op = op /\ c.pc = pc /\ c.node = n /\ c.to = p
  BY IdleIsCall DEF Call
<1>2. call' = [call EXCEPT ![s] = c]
  BY DEF Starts
<1>3. /\ call' \in [Slots -> Call] /\ call'[s] = c
      /\ \A r \in Slots \ {s} : call'[r] = call[r]
  <2> HIDE DEF c
  <2> QED BY <1>1, <1>2, SlotKeepsType DEF TypeOK
<1>4. /\ writes' \in 0 .. MaxWrites /\ together' \in BOOLEAN
      /\ UNCHANGED <<created, parent, active, label, cache>>
  BY OrgAssumption DEF Starts, TypeOK, table
<1> HIDE DEF c
<1> QED BY <1>1, <1>3, <1>4 DEF TypeOK

LEMMA RowsAreTrees == ASSUME TypeOK, NEW k \in Keys PROVE Of(k) \in Tree
<1>1. Current \in Tree
  BY DEF TypeOK, Current, Tree
<1>2. [active |-> {}, parent |-> [n \in Nodes |-> None], label |-> label] \in Tree
  BY DEF TypeOK, Tree
<1> QED BY <1>1, <1>2 DEF Of

\* The calls that are no more than read, or look before they write.
LEMMA StepsKeepType ==
  ASSUME TypeOK, NEW s \in Slots,
         ChecksMove(s) \/ ChecksDelete(s) \/ Clears(s) \/ Queries(s) \/ Fills(s)
           \/ (\E k \in Keys : Misses(s, k))
  PROVE  /\ TypeOK' /\ UNCHANGED <<table, writes, together>>
         /\ \A r \in Slots \ {s} : call'[r] = call[r]
         /\ \/ call'[s].op \in {"none", "read"}
            \/ \E pc \in {"write"} : call'[s] = [call[s] EXCEPT !.pc = pc]
<1>0. /\ call \in [Slots -> Call] /\ call[s] \in Call
      /\ cache \in [Keys -> Tree \cup {Nothing}]
  BY DEF TypeOK
<1>1. CASE Ends(s) \/ Goto(s, "write")
  <2>1. /\ call' \in [Slots -> Call]
        /\ \A r \in Slots \ {s} : call'[r] = call[r]
        /\ \/ call'[s].op \in {"none", "read"}
           \/ call'[s] = [call[s] EXCEPT !.pc = "write"]
    <3>1. CASE Ends(s)
      <4>1. Idle.op = "none"
        BY DEF Idle
      <4> QED BY <3>1, <4>1, <1>0, IdleIsCall, SlotKeepsType DEF Ends
    <3>2. CASE Goto(s, "write")
      BY <3>2, <1>0, GotoKeepsType
    <3> QED BY <1>1, <3>1, <3>2
  <2>2. UNCHANGED <<table, writes, together>> /\ cache' \in [Keys -> Tree \cup {Nothing}]
    <3>1. CASE ChecksMove(s) \/ ChecksDelete(s)
      BY <3>1, <1>0 DEF ChecksMove, ChecksDelete
    <3>2. CASE Clears(s)
      BY <3>2, <1>0 DEF Clears
    <3>3. CASE Fills(s)
      <4>1. call[s].got \in Tree \cup {Nothing} /\ call[s].key \in Keys
        BY <1>0 DEF Call
      <4> QED BY <3>3, <4>1, <1>0 DEF Fills
    <3>4. CASE Queries(s)
      <4>1. call'[s].op = "read" /\ call'[s].pc = "fill"
        BY <3>4, <1>0 DEF Queries, At, Call
      <4>2. FALSE
        BY <1>1, <4>1, <1>0 DEF Ends, Goto, Idle, Call
      <4> QED BY <4>2
    <3>5. CASE \E k \in Keys : Misses(s, k)
      <4>1. call'[s].op = "read" /\ call'[s].pc = "miss"
        BY <3>5, <1>0, IdleIsCall DEF Misses, Call
      <4>2. FALSE
        BY <1>1, <4>1, <1>0 DEF Ends, Goto, Idle, Call
      <4> QED BY <4>2
    <3> QED BY <3>1, <3>2, <3>3, <3>4, <3>5
  <2> QED BY <2>1, <2>2 DEF TypeOK, table
<1>2. CASE Queries(s)
  <2> DEFINE c == [call[s] EXCEPT !.pc = "fill", !.got = Of(call[s].key)]
  <2>1. call[s].key \in Keys /\ Of(call[s].key) \in Tree /\ call[s].op = "read"
    BY <1>0, <1>2, RowsAreTrees DEF Call, Queries, At
  <2>2. c \in Call /\ c.op = "read"
    BY <2>1, <1>0 DEF Call
  <2>3. call' = [call EXCEPT ![s] = c] /\ UNCHANGED <<table, cache, writes, together>>
    BY <1>2, <1>0 DEF Queries
  <2>4. /\ call' \in [Slots -> Call] /\ call'[s] = c
        /\ \A r \in Slots \ {s} : call'[r] = call[r]
    <3> HIDE DEF c
    <3> QED BY <1>0, <2>2, <2>3, SlotKeepsType
  <2> HIDE DEF c
  <2> QED BY <2>2, <2>3, <2>4 DEF TypeOK, table
<1>3. CASE \E k \in Keys : Misses(s, k)
  <2>1. PICK k \in Keys : Misses(s, k)
    BY <1>3
  <2> DEFINE c == [Idle EXCEPT !.op = "read", !.pc = "miss", !.key = k]
  <2>2. c \in Call /\ c.op = "read"
    BY IdleIsCall DEF Call
  <2>3. call' = [call EXCEPT ![s] = c] /\ UNCHANGED <<table, cache, writes, together>>
    BY <2>1 DEF Misses
  <2>4. /\ call' \in [Slots -> Call] /\ call'[s] = c
        /\ \A r \in Slots \ {s} : call'[r] = call[r]
    <3> HIDE DEF c
    <3> QED BY <1>0, <2>2, <2>3, SlotKeepsType
  <2> HIDE DEF c
  <2> QED BY <2>2, <2>3, <2>4 DEF TypeOK, table
<1> QED BY <1>1, <1>2, <1>3 DEF ChecksMove, ChecksDelete, Clears, Fills

\* The INSERT or UPDATE of a call.
LEMMA WriteKeepsType ==
  ASSUME TypeOK, AllNamed, NEW s \in Slots, Writes(s)
  PROVE  /\ TypeOK' /\ UNCHANGED <<cache, writes, together>>
         /\ call'[s] = [call[s] EXCEPT !.pc = "clear"]
         /\ \A r \in Slots \ {s} : call'[r] = call[r]
         /\ created' = IF call[s].op = "create" THEN created \cup {call[s].node} ELSE created
         /\ parent' = IF call[s].op \in {"create", "move"}
                      THEN [parent EXCEPT ![call[s].node] = call[s].to] ELSE parent
<1> DEFINE c == call[s]
<1>1. c \in Call /\ Named(s) /\ c.pc = "write"
  BY DEF TypeOK, AllNamed, Writes
<1>2. c.node \in Nodes /\ c.op \in {"none", "create", "move", "activate", "delete", "type", "read"}
  BY <1>1 DEF Call
<1>3. /\ created' = IF c.op = "create" THEN created \cup {c.node} ELSE created
      /\ parent' = IF c.op \in {"create", "move"} THEN [parent EXCEPT ![c.node] = c.to] ELSE parent
      /\ UNCHANGED <<cache, writes, together>> /\ Goto(s, "clear")
      /\ label' = IF c.op = "type" THEN ~label ELSE label
  BY DEF Writes
<1>4. created' \subseteq Nodes /\ created \subseteq created'
  BY <1>2, <1>3 DEF TypeOK
<1>5. c.op \in {"create", "move"} => c.to \in created \cup {None}
  BY <1>1 DEF Named, At, Parents
<1>6. parent' \in [Nodes -> created' \cup {None}]
  <2>1. CASE c.op \in {"create", "move"}
    BY <2>1, <1>2, <1>3, <1>4, <1>5 DEF TypeOK
  <2>2. CASE c.op \notin {"create", "move"}
    BY <2>2, <1>3, <1>4 DEF TypeOK
  <2> QED BY <2>1, <2>2
<1>7. active' \subseteq created'
  <2>1. active \subseteq created
    BY DEF TypeOK
  <2>2. CASE c.op = "create"
    BY <2>1, <2>2, <1>3 DEF Writes
  <2>3. CASE c.op = "activate"
    <3>1. c.node \in created
      BY <2>3, <1>1 DEF Named
    <3>2. active' \in {active \cup {c.node}, active \ {c.node}}
      BY <2>3 DEF Writes
    <3> QED BY <2>1, <3>1, <3>2, <1>4
  <2>4. CASE c.op = "delete"
    <3>1. active' = active \ {c.node}
      BY <2>4 DEF Writes
    <3> QED BY <2>1, <3>1, <1>4
  <2>5. CASE c.op \notin {"create", "activate", "delete"}
    <3>1. active' = active
      BY <2>5 DEF Writes
    <3> QED BY <2>1, <3>1, <1>4
  <2> QED BY <2>2, <2>3, <2>4, <2>5
<1>8. /\ call' \in [Slots -> Call] /\ call'[s] = [c EXCEPT !.pc = "clear"]
      /\ \A r \in Slots \ {s} : call'[r] = call[r]
  BY <1>3, GotoKeepsType DEF TypeOK
<1>9. label' \in BOOLEAN
  <2>1. label \in BOOLEAN
    BY DEF TypeOK
  <2> QED BY <1>3, <2>1, Zenon
<1> QED BY <1>3, <1>4, <1>6, <1>7, <1>8, <1>9 DEF TypeOK

-----------------------------------------------------------------------------
(* Calls that leave the rows and their parents alone.                      *)

\* A step after which the slot neither is about to create a node or to move
\* one, nor names another node than before, disturbs nothing.
LEMMA QuietKeeps ==
  ASSUME IInv, TypeOK', NEW s \in Slots, UNCHANGED <<created, parent, together>>,
         \A r \in Slots \ {s} : call'[r] = call[r],
         \/ call'[s].op \in {"none", "read", "type"}
         \/ call'[s].op \in {"activate", "delete"} /\ call'[s].node \in created
  PROVE  IInv'
<1>1. ASSUME NEW r \in Slots PROVE Named(r)'
  <2>1. CASE r = s
    BY <2>1 DEF Named, At
  <2>2. CASE r # s
    <3>1. call'[r] = call[r] /\ Named(r)
      BY <2>2 DEF IInv, AllNamed
    <3>2. ASSUME NEW q \in Slots, call'[q].op = "create" PROVE call'[q] = call[q]
      BY <3>2
    <3> QED BY <3>1, <3>2 DEF Named, At, Parents
  <2> QED BY <2>1, <2>2
<1>2. ASSUME ~together' PROVE Orderly'
  <2>1. Orderly
    BY <1>2 DEF IInv
  <2>2. ASSUME NEW q \in Slots, call'[q].op = "move" PROVE call'[q] = call[q]
    BY <2>2
  <2>3. OneMove'
    BY <2>1, <2>2 DEF Orderly, OneMove
  <2>4. Grounded'
    BY <2>1 DEF Orderly, Grounded
  <2>5. ASSUME NEW r \in Slots PROVE Checked(r)'
    BY <2>1, <2>2 DEF Orderly, Checked, At, Leads
  <2> QED BY <2>3, <2>4, <2>5 DEF Orderly
<1> QED BY <1>1, <1>2 DEF IInv, AllNamed

\* What a call of another kind than a move is about to do is not checked.
LEMMA ReadsKeep ==
  ASSUME IInv, NEW s \in Slots,
         ChecksDelete(s) \/ Clears(s) \/ Queries(s) \/ Fills(s)
           \/ (\E k \in Keys : Misses(s, k))
  PROVE  IInv'
<1>0. TypeOK /\ call[s] \in Call
  BY DEF IInv, TypeOK
<1>1. /\ TypeOK' /\ UNCHANGED <<table, writes, together>>
      /\ \A r \in Slots \ {s} : call'[r] = call[r]
      /\ \/ call'[s].op \in {"none", "read"}
         \/ call'[s] = [call[s] EXCEPT !.pc = "write"]
  BY <1>0, StepsKeepType
<1>2. CASE call'[s].op \in {"none", "read"}
  BY <1>1, <1>2, QuietKeeps DEF table
<1>3. CASE call'[s].op \notin {"none", "read"}
  <2>1. call'[s].pc = "write" /\ call'[s].op = call[s].op /\ call'[s].node = call[s].node
    BY <1>0, <1>1, <1>3 DEF Call
  <2>2. call[s].op = "delete"
    <3>1. CASE ChecksDelete(s)
      BY <3>1 DEF ChecksDelete, At
    <3>2. CASE Clears(s)
      BY <3>2, <1>0, <1>3 DEF Clears, Ends, Idle, TypeOK
    <3>3. CASE Fills(s)
      BY <3>3, <1>0, <1>3 DEF Fills, Ends, Idle, TypeOK
    <3>4. CASE Queries(s)
      BY <3>4, <1>3, <2>1 DEF Queries, At
    <3>5. CASE \E k \in Keys : Misses(s, k)
      <4>1. call'[s].op = "read"
        BY <3>5, <1>0, IdleIsCall DEF Misses, Call, TypeOK
      <4> QED BY <4>1, <1>3
    <3> QED BY <3>1, <3>2, <3>3, <3>4, <3>5
  <2>3. call[s].node \in created
    BY <2>2 DEF IInv, AllNamed, Named
  <2> QED BY <1>1, <2>1, <2>2, <2>3, QuietKeeps DEF table
<1> QED BY <1>2, <1>3

-----------------------------------------------------------------------------
(* Calls that begin.                                                       *)

LEMMA StartsKeep ==
  ASSUME IInv, NEW s \in Slots, NEW n \in Nodes,
         StartActivate(s, n) \/ StartDelete(s, n) \/ StartType(s, n)
  PROVE  IInv'
<1>0. TypeOK /\ None \in Nodes \cup {None} /\ {"org:tree", "org:structure-types"} = Keys
  BY DEF IInv, Keys
<1>1. PICK op \in {"activate", "delete", "type"}, pc \in {"check", "write"}, k \in Keys :
        Starts(s, op, pc, n, None, k) /\ (op # "type" => n \in created)
  BY <1>0 DEF StartActivate, StartDelete, StartType
<1>2. /\ TypeOK' /\ call'[s].op = op /\ call'[s].node = n
      /\ \A r \in Slots \ {s} : call'[r] = call[r]
  BY <1>0, <1>1, StartsKeepType
<1>3. UNCHANGED <<created, parent, together>>
  <2>1. together' = (together \/ FALSE) /\ together \in BOOLEAN
    BY <1>0, <1>1 DEF Starts, TypeOK
  <2> QED BY <1>1, <2>1 DEF Starts, table
<1> QED BY <1>1, <1>2, <1>3, QuietKeeps

LEMMA StartCreateKeeps ==
  ASSUME IInv, NEW s \in Slots, NEW n \in Nodes, NEW p \in Nodes \cup {None},
         StartCreate(s, n, p)
  PROVE  IInv'
<1>0. TypeOK /\ "org:tree" \in Keys
  BY DEF IInv, Keys
<1>1. /\ Starts(s, "create", "write", n, p, "org:tree")
      /\ n \notin created /\ p \in Parents
      /\ \A r \in Slots : At(r, "create", "write") => call[r].node # n
  BY DEF StartCreate
<1>2. /\ TypeOK' /\ call'[s].op = "create" /\ call'[s].pc = "write"
      /\ call'[s].node = n /\ call'[s].to = p
      /\ \A r \in Slots \ {s} : call'[r] = call[r]
  BY <1>0, <1>1, StartsKeepType
<1>3. UNCHANGED <<created, parent, together>>
  <2>1. together' = (together \/ FALSE) /\ together \in BOOLEAN
    BY <1>0, <1>1 DEF Starts, TypeOK
  <2> QED BY <1>1, <2>1 DEF Starts, table
<1>4. ASSUME NEW r \in Slots PROVE Named(r)'
  <2>1. CASE r = s
    BY <2>1, <1>1, <1>2, <1>3 DEF Named, At, Parents
  <2>2. CASE r # s
    <3>1. call'[r] = call[r] /\ Named(r)
      BY <2>2, <1>2 DEF IInv, AllNamed
    <3> QED BY <3>1, <1>1, <1>2, <1>3 DEF Named, At, Parents
  <2> QED BY <2>1, <2>2
<1>5. ASSUME ~together' PROVE Orderly'
  <2>1. Orderly
    BY <1>3, <1>5 DEF IInv
  <2>2. ASSUME NEW q \in Slots, call'[q].op = "move" PROVE call'[q] = call[q]
    BY <2>2, <1>2
  <2>3. OneMove'
    BY <2>1, <2>2 DEF Orderly, OneMove
  <2>4. Grounded'
    BY <2>1, <1>3 DEF Orderly, Grounded
  <2>5. ASSUME NEW r \in Slots PROVE Checked(r)'
    BY <2>1, <2>2, <1>3 DEF Orderly, Checked, At, Leads
  <2> QED BY <2>3, <2>4, <2>5 DEF Orderly
<1> QED BY <1>2, <1>4, <1>5 DEF IInv, AllNamed

LEMMA StartMoveKeeps ==
  ASSUME IInv, NEW s \in Slots, NEW n \in Nodes, NEW p \in Nodes \cup {None},
         StartMove(s, n, p)
  PROVE  IInv'
<1>0. TypeOK /\ "org:tree" \in Keys
  BY DEF IInv, Keys
<1> DEFINE pc == IF p = None THEN "write" ELSE "check"
<1>1. /\ Starts(s, "move", pc, n, p, "org:tree")
      /\ n \in created /\ p \in Parents \ {n} /\ pc \in {"check", "write"}
  BY DEF StartMove
<1>2. /\ TypeOK' /\ call'[s].op = "move" /\ call'[s].pc = pc
      /\ call'[s].node = n /\ call'[s].to = p
      /\ \A r \in Slots \ {s} : call'[r] = call[r]
  <2> HIDE DEF pc
  <2> QED BY <1>0, <1>1, StartsKeepType
<1>3. /\ UNCHANGED <<created, parent>>
      /\ ~together' => ~together /\ \A r \in Slots : call[r].op # "move"
  BY <1>1 DEF Starts, table
<1>4. ASSUME NEW r \in Slots PROVE Named(r)'
  <2>1. CASE r = s
    BY <2>1, <1>1, <1>2, <1>3 DEF Named, At, Parents
  <2>2. CASE r # s
    <3>1. call'[r] = call[r] /\ Named(r)
      BY <2>2, <1>2 DEF IInv, AllNamed
    <3> QED BY <3>1, <1>1, <1>2, <1>3 DEF Named, At, Parents
  <2> QED BY <2>1, <2>2
<1>5. ASSUME ~together' PROVE Orderly'
  <2>1. Orderly
    BY <1>3, <1>5 DEF IInv
  <2>2. ASSUME NEW q \in Slots, call'[q].op = "move" PROVE q = s
    BY <2>2, <1>2, <1>3, <1>5
  <2>3. OneMove'
    BY <2>2 DEF OneMove
  <2>4. Grounded'
    BY <2>1, <1>3 DEF Orderly, Grounded
  <2>5. ASSUME NEW r \in Slots PROVE Checked(r)'
    <3>1. call'[s].pc = "write" => call'[s].to = None
      BY <1>2
    <3> QED BY <2>2, <3>1 DEF Checked, At
  <2> QED BY <2>3, <2>4, <2>5 DEF Orderly
<1> QED BY <1>2, <1>4, <1>5 DEF IInv, AllNamed
-----------------------------------------------------------------------------
(* Recursive definitions.                                                  *)

\* Every set of natural numbers that is not empty has a least element.
LEMMA Least ==
  ASSUME NEW S \in SUBSET Nat, S # {}
  PROVE  \E i \in S : \A j \in S : i <= j
<1> DEFINE R == OpToRel(<, Nat)
<1>1. IsWellFoundedOn(R, Nat)
  BY NatLessThanWellFounded
<1>2. PICK i \in S : \A j \in S : ~(<<j, i>> \in R)
  <2> HIDE DEF R
  <2> QED BY <1>1, WFMin, Zenon
<1>3. \A j \in S : i <= j
  <2> SUFFICES ASSUME NEW j \in S PROVE i <= j
    OBVIOUS
  <2>1. <<j, i>> \notin R
    BY <1>2
  <2>2. ~(j < i)
    BY <2>1 DEF OpToRel
  <2> QED BY <2>2
<1> QED BY <1>3

\* What one gets from A by applying F up to N times.
Iterated(g, N, A, F) == g = [k \in 0 .. N |-> IF k = 0 THEN A ELSE F[g[k - 1]]]

\* There is such a function, so that a recursive definition means what it says.
LEMMA Iterates ==
  ASSUME NEW P, NEW A \in P, NEW F \in [P -> P], NEW N \in Nat
  PROVE  \E g \in [0 .. N -> P] : Iterated(g, N, A, F)
<1> DEFINE Works(n) == \E g \in [0 .. n -> P] : Iterated(g, n, A, F)
           Bad == {n \in Nat : ~Works(n)}
<1>1. SUFFICES ASSUME Bad # {} PROVE FALSE
  BY Zenon
<1>2. PICK n \in Bad : \A j \in Bad : n <= j
  <2>1. Bad \in SUBSET Nat
    OBVIOUS
  <2> HIDE DEF Bad
  <2> QED BY <1>1, <2>1, Least
<1>3. CASE n = 0
  <2> DEFINE g == [k \in 0 .. 0 |-> A]
  <2>1. g \in [0 .. 0 -> P] /\ g = [k \in 0 .. 0 |-> IF k = 0 THEN A ELSE F[g[k - 1]]]
    OBVIOUS
  <2>2. Works(0)
    BY <2>1 DEF Iterated
  <2> QED BY <2>2, <1>2, <1>3
<1>4. CASE n # 0
  <2>1. n \in Nat /\ n - 1 \in Nat /\ n - 1 \notin Bad
    BY <1>2, <1>4
  <2>2. PICK g \in [0 .. n - 1 -> P] :
           g = [k \in 0 .. n - 1 |-> IF k = 0 THEN A ELSE F[g[k - 1]]]
    BY <2>1 DEF Iterated
  <2> DEFINE h == [k \in 0 .. n |-> IF k = n THEN F[g[n - 1]] ELSE g[k]]
  <2>3. h \in [0 .. n -> P]
    <3>1. g[n - 1] \in P
      BY <2>1
    <3> QED BY <2>1, <2>2, <3>1
  <2>4. ASSUME NEW k \in 0 .. n PROVE h[k] = IF k = 0 THEN A ELSE F[h[k - 1]]
    <3>1. CASE k = n
      <4>1. h[k - 1] = g[n - 1] /\ h[k] = F[g[n - 1]]
        BY <3>1, <2>1
      <4> QED BY <4>1, <3>1, <1>4
    <3>2. CASE k # n
      <4>1. k \in 0 .. n - 1 /\ h[k] = g[k] /\ (k # 0 => h[k - 1] = g[k - 1])
        BY <3>2, <2>1
      <4> QED BY <4>1, <2>2
    <3> QED BY <3>1, <3>2
  <2>5. h = [k \in 0 .. n |-> IF k = 0 THEN A ELSE F[h[k - 1]]]
    <3>1. h = [k \in 0 .. n |-> h[k]]
      BY <2>3
    <3> QED BY <3>1, <2>4
  <2> HIDE DEF h
  <2>6. Works(n)
    BY <2>3, <2>5 DEF Iterated
  <2> QED BY <2>6, <1>2
<1> QED BY <1>3, <1>4

\* The rounds of the recursive query: the children of n, theirs, and so on.
LEMMA RoundIs ==
  ASSUME NEW n, created \subseteq Nodes
  PROVE  LET N == Cardinality(Nodes) IN
         /\ Round(n) \in [0 .. N -> SUBSET created]
         /\ Round(n)[0] = Children(n)
         /\ \A k \in 1 .. N : Round(n)[k] = UNION {Children(m) : m \in Round(n)[k - 1]}
<1> DEFINE N == Cardinality(Nodes)
           F == [X \in SUBSET created |-> UNION {Children(m) : m \in X}]
<1>1. N \in Nat
  BY OrgAssumption, FS_CardinalityType
<1>2. Children(n) \in SUBSET created /\ F \in [SUBSET created -> SUBSET created]
  BY DEF Children
<1>3. PICK g \in [0 .. N -> SUBSET created] : Iterated(g, N, Children(n), F)
  <2> HIDE DEF N, F
  <2> QED BY <1>1, <1>2, Iterates
<1>4. g = [k \in 0 .. N |-> IF k = 0 THEN Children(n) ELSE UNION {Children(m) : m \in g[k - 1]}]
  <2>1. \A k \in 0 .. N : k # 0 => F[g[k - 1]] = UNION {Children(m) : m \in g[k - 1]}
    BY <1>1
  <2> QED BY <1>3, <2>1 DEF Iterated
<1>5. \A h : h = [k \in 0 .. N |-> IF k = 0 THEN Children(n) ELSE UNION {Children(m) : m \in h[k - 1]}]
        => h \in [0 .. N -> SUBSET created]
  <2> SUFFICES ASSUME NEW h, h = [k \in 0 .. N |-> IF k = 0 THEN Children(n) ELSE UNION {Children(m) : m \in h[k - 1]}]
       PROVE h \in [0 .. N -> SUBSET created]
    OBVIOUS
  <2>1. \A k \in 0 .. N : h[k] \subseteq created
    BY DEF Children
  <2> QED BY <2>1
<1>6. Round(n) = [k \in 0 .. N |-> IF k = 0 THEN Children(n) ELSE UNION {Children(m) : m \in Round(n)[k - 1]}]
  BY <1>4 DEF Round
<1> HIDE DEF N
<1>7. Round(n) \in [0 .. N -> SUBSET created]
  BY <1>5, <1>6
<1>8. \A k \in 0 .. N : Round(n)[k] = IF k = 0 THEN Children(n) ELSE UNION {Children(m) : m \in Round(n)[k - 1]}
  BY <1>6, Zenon
<1>9. 0 \in 0 .. N /\ \A k \in 1 .. N : k \in 0 .. N /\ k # 0
  BY <1>1
<1>10. Round(n)[0] = Children(n) /\ \A k \in 1 .. N : Round(n)[k] = UNION {Children(m) : m \in Round(n)[k - 1]}
  BY <1>8, <1>9, Zenon
<1> QED BY <1>7, <1>10 DEF N


-----------------------------------------------------------------------------
(* The check of a move and what it is worth when the row is written.       *)

\* Once the query has ended, what it has found has no children besides.
LEMMA DescendantsClosed ==
  ASSUME TypeOK, NEW n \in Nodes, Terminates(n)
  PROVE  LET D == Descendants(n) IN
         /\ Children(n) \subseteq D
         /\ \A m \in D : Children(m) \subseteq D
<1> DEFINE N == Cardinality(Nodes)
           D == Descendants(n)
<1>1. N \in Nat /\ created \subseteq Nodes
  BY OrgAssumption, FS_CardinalityType DEF TypeOK
<1>2. /\ Round(n)[0] = Children(n)
      /\ \A k \in 1 .. N : Round(n)[k] = UNION {Children(m) : m \in Round(n)[k - 1]}
  BY <1>1, RoundIs
<1>3. \A m : m \in D <=> \E k \in 0 .. N : m \in Round(n)[k]
  BY DEF Descendants
<1>4. Children(n) \subseteq D
  <2>1. 0 \in 0 .. N
    BY <1>1
  <2> QED BY <2>1, <1>2, <1>3
<1>5. ASSUME NEW m \in D PROVE Children(m) \subseteq D
  <2>1. PICK k \in 0 .. N : m \in Round(n)[k]
    BY <1>3, <1>5
  <2>2. k # N
    BY <2>1 DEF Terminates
  <2>3. k + 1 \in 1 .. N /\ k + 1 \in 0 .. N /\ (k + 1) - 1 = k
    BY <1>1, <2>2
  <2>4. Round(n)[k + 1] = UNION {Children(q) : q \in Round(n)[k]}
    BY <1>2, <2>3
  <2>5. Children(m) \subseteq Round(n)[k + 1]
    BY <2>1, <2>4
  <2> QED BY <1>3, <2>3, <2>5
<1> QED BY <1>4, <1>5

\* A node that is not below n has a way up past n.
LEMMA NotBelowLeads ==
  ASSUME TypeOK, NEW n \in Nodes, Terminates(n), NEW p \in created, p # n,
         ~Circular(n, p)
  PROVE  Leads(n, p)
<1> DEFINE D == Descendants(n)
           U == created \ (D \cup {n})
<1>1. Children(n) \subseteq D /\ \A m \in D : Children(m) \subseteq D
  BY DescendantsClosed
<1>2. p \in U /\ n \notin U /\ U \in SUBSET created
  BY DEF Circular
<1>3. ASSUME NEW m \in U PROVE parent[m] \in U \cup {None}
  <2>1. m \in Nodes /\ parent[m] \in created \cup {None}
    BY <1>3 DEF TypeOK
  <2>2. \A q : parent[m] = q => m \in Children(q)
    BY <1>3 DEF Children
  <2>3. parent[m] # n /\ parent[m] \notin D
    BY <1>1, <1>3, <2>2
  <2> QED BY <2>1, <2>3
<1> HIDE DEF U
<1> QED BY <1>2, <1>3 DEF Leads

LEMMA ChecksMoveKeeps ==
  ASSUME IInv, NEW s \in Slots, ChecksMove(s)
  PROVE  IInv'
<1>0. TypeOK /\ call[s] \in Call /\ call[s].op = "move" /\ Named(s)
  BY DEF IInv, AllNamed, TypeOK, ChecksMove, At
<1>1. /\ TypeOK' /\ UNCHANGED <<created, parent, active, together>>
      /\ \A r \in Slots \ {s} : call'[r] = call[r]
  BY <1>0, StepsKeepType DEF table
<1>2. CASE Ends(s)
  <2>1. call'[s].op = "none"
    BY <1>2, <1>0 DEF Ends, Idle, TypeOK
  <2> QED BY <2>1, <1>1, QuietKeeps
<1>3. CASE ~Ends(s)
  <2>1. /\ Goto(s, "write") /\ Terminates(call[s].node)
        /\ ~Circular(call[s].node, call[s].to)
    BY <1>3 DEF ChecksMove
  <2>2. call'[s] = [call[s] EXCEPT !.pc = "write"]
    BY <2>1, <1>0, GotoKeepsType DEF TypeOK
  <2>3. /\ call'[s].op = "move" /\ call'[s].pc = "write"
        /\ call'[s].node = call[s].node /\ call'[s].to = call[s].to
    BY <2>2, <1>0 DEF Call
  <2>4. call[s].node \in created /\ call[s].to \in Parents \ {call[s].node}
    BY <1>0 DEF Named
  <2>5. call[s].to # None => Leads(call[s].node, call[s].to)
    <3>1. call[s].to # None => call[s].to \in created /\ call[s].to # call[s].node
      BY <2>4 DEF Parents
    <3>2. call[s].node \in Nodes
      BY <1>0 DEF Call
    <3> QED BY <3>1, <3>2, <2>1, <1>0, NotBelowLeads
  <2>6. ASSUME NEW r \in Slots PROVE Named(r)'
    <3>1. CASE r = s
      BY <3>1, <2>3, <2>4, <1>1 DEF Named, At, Parents
    <3>2. CASE r # s
      <4>1. call'[r] = call[r] /\ Named(r)
        BY <3>2, <1>1 DEF IInv, AllNamed
      <4>2. ASSUME NEW q \in Slots, call'[q].op = "create" PROVE call'[q] = call[q]
        BY <4>2, <2>3, <1>1
      <4> QED BY <4>1, <4>2, <1>1 DEF Named, At, Parents
    <3> QED BY <3>1, <3>2
  <2>7. ASSUME ~together' PROVE Orderly'
    <3>1. Orderly
      BY <2>7, <1>1 DEF IInv
    <3>2. ASSUME NEW q \in Slots PROVE call'[q].op = call[q].op
      BY <2>3, <1>0, <1>1
    <3>3. OneMove'
      BY <3>1, <3>2 DEF Orderly, OneMove
    <3>4. Grounded'
      BY <3>1, <1>1 DEF Orderly, Grounded
    <3>5. ASSUME NEW r \in Slots PROVE Checked(r)'
      <4>1. CASE r = s
        BY <4>1, <2>3, <2>5, <1>1 DEF Checked, Leads
      <4>2. CASE r # s
        BY <4>2, <3>1, <1>1 DEF Orderly, Checked, At, Leads
      <4> QED BY <4>1, <4>2
    <3> QED BY <3>3, <3>4, <3>5 DEF Orderly
  <2> QED BY <1>1, <2>6, <2>7 DEF IInv, AllNamed
<1> QED BY <1>2, <1>3

-----------------------------------------------------------------------------
(* The tree when a row is written.                                         *)

\* A new node is nobody's parent.
LEMMA CreatingGrounds ==
  ASSUME TypeOK, Grounded, NEW n \in Nodes \ created, NEW p \in Parents,
         created' = created \cup {n}, parent' = [parent EXCEPT ![n] = p]
  PROVE  /\ Grounded'
         /\ \A m, q \in created : Leads(m, q) => Leads(m, q)'
<1>0. /\ created \subseteq Nodes /\ parent \in [Nodes -> created \cup {None}]
      /\ None \notin Nodes
  BY OrgAssumption DEF TypeOK
<1>1. \A m \in created : parent'[m] = parent[m] /\ parent'[m] # n
  BY <1>0
<1>2. parent'[n] = p /\ p # n
  BY <1>0 DEF Parents
<1>3. ASSUME NEW S \in SUBSET created', S # {} PROVE \E m \in S : parent'[m] \notin S
  <2>1. CASE S \subseteq {n}
    BY <2>1, <1>2, <1>3
  <2>2. CASE ~(S \subseteq {n})
    <3>1. S \ {n} \in SUBSET created /\ S \ {n} # {}
      BY <2>2, <1>3
    <3>2. PICK m \in S \ {n} : parent[m] \notin S \ {n}
      BY <3>1 DEF Grounded
    <3> QED BY <3>1, <3>2, <1>1
  <2> QED BY <2>1, <2>2
<1>4. ASSUME NEW m \in created, NEW q \in created, Leads(m, q) PROVE Leads(m, q)'
  <2>1. PICK U \in SUBSET created :
          q \in U /\ m \notin U /\ \A x \in U : parent[x] \in U \cup {None}
    BY <1>4 DEF Leads
  <2>2. U \in SUBSET created' /\ \A x \in U : parent'[x] \in U \cup {None}
    BY <2>1, <1>1
  <2> QED BY <2>1, <2>2 DEF Leads
<1> QED BY <1>3, <1>4 DEF Grounded

\* A node that comes below one whose way up does not pass it.
LEMMA MovingGrounds ==
  ASSUME TypeOK, Grounded, NEW n \in created, NEW p \in Parents,
         p # None => Leads(n, p),
         created' = created, parent' = [parent EXCEPT ![n] = p]
  PROVE  Grounded'
<1>0. /\ created \subseteq Nodes /\ parent \in [Nodes -> created \cup {None}]
      /\ None \notin Nodes
  BY OrgAssumption DEF TypeOK
<1>1. /\ \A m \in created : m # n => parent'[m] = parent[m]
      /\ parent'[n] = p
  BY <1>0
<1>2. ASSUME NEW S \in SUBSET created, S # {} PROVE \E m \in S : parent'[m] \notin S
  <2>1. CASE n \notin S
    BY <2>1, <1>1, <1>2 DEF Grounded
  <2>2. CASE n \in S /\ p \notin S
    BY <2>2, <1>1
  <2>3. CASE n \in S /\ p \in S
    <3>1. p # None
      BY <2>3, <1>0
    <3>2. PICK U \in SUBSET created :
            p \in U /\ n \notin U /\ \A x \in U : parent[x] \in U \cup {None}
      BY <3>1 DEF Leads
    <3>3. PICK m \in S \cap U : parent[m] \notin S \cap U
      <4>1. S \cap U \in SUBSET created /\ S \cap U # {}
        BY <2>3, <3>2
      <4> QED BY <4>1 DEF Grounded
    <3>4. parent[m] \notin S
      BY <3>2, <3>3, <1>0
    <3>5. m \in S /\ m # n /\ m \in created
      BY <3>2, <3>3
    <3> QED BY <3>4, <3>5, <1>1
  <2> QED BY <2>1, <2>2, <2>3
<1> QED BY <1>2 DEF Grounded

LEMMA WritesKeep ==
  ASSUME IInv, NEW s \in Slots, Writes(s)
  PROVE  IInv'
<1> DEFINE c == call[s]
<1>0. TypeOK /\ AllNamed /\ c \in Call /\ Named(s) /\ c.pc = "write"
  BY DEF IInv, AllNamed, TypeOK, Writes
<1>1. /\ TypeOK' /\ UNCHANGED together
      /\ call'[s] = [c EXCEPT !.pc = "clear"]
      /\ \A r \in Slots \ {s} : call'[r] = call[r]
      /\ created' = IF c.op = "create" THEN created \cup {c.node} ELSE created
      /\ parent' = IF c.op \in {"create", "move"} THEN [parent EXCEPT ![c.node] = c.to] ELSE parent
  BY <1>0, WriteKeepsType
<1>2. /\ call'[s].op = c.op /\ call'[s].pc = "clear"
      /\ call'[s].node = c.node /\ call'[s].to = c.to
  BY <1>0, <1>1 DEF Call
<1> HIDE DEF c
<1>3. created \subseteq created' /\ Parents \subseteq Parents'
  BY <1>1 DEF Parents
<1>4. ASSUME NEW r \in Slots PROVE Named(r)'
  <2>1. CASE r = s
    BY <2>1, <1>0, <1>2, <1>3 DEF Named, At, c
  <2>2. CASE r # s
    <3>1. call'[r] = call[r] /\ Named(r)
      BY <2>2, <1>1 DEF IInv, AllNamed
    <3>2. ASSUME NEW q \in Slots, At(q, "create", "write")' PROVE call'[q] = call[q]
      BY <3>2, <1>1, <1>2 DEF At
    <3>3. ASSUME At(r, "create", "write")' PROVE call[r].node \notin created'
      <4>1. At(r, "create", "write") /\ call[r].node \notin created
        BY <3>1, <3>3 DEF At, Named
      <4>2. c.op = "create" => c.node # call[r].node
        BY <4>1, <2>2, <3>1, <1>0 DEF Named, At, c
      <4> QED BY <4>1, <4>2, <1>1
    <3>4. At(r, "create", "write")' => At(r, "create", "write")
      BY <3>1 DEF At
    <3>5. call[r].op \in {"move", "activate", "delete"} => call[r].node \in created'
      BY <3>1, <1>3 DEF Named
    <3>6. call[r].op = "move" => call[r].to \in Parents' \ {call[r].node}
      BY <3>1, <1>3 DEF Named
    <3>7. ASSUME At(r, "create", "write")'
          PROVE  /\ call[r].to \in Parents'
                 /\ \A q \in Slots :
                      At(q, "create", "write")' /\ call'[q].node = call'[r].node => q = r
      <4>1. call[r].to \in Parents
        BY <3>1, <3>4, <3>7 DEF Named
      <4>2. ASSUME NEW q \in Slots, At(q, "create", "write")', call'[q].node = call'[r].node
            PROVE  q = r
        <5>1. At(q, "create", "write") /\ call[q].node = call[r].node
          BY <4>2, <3>1, <3>2 DEF At
        <5> QED BY <5>1, <3>1, <3>4, <3>7 DEF Named
      <4> QED BY <4>1, <4>2, <1>3
    <3> QED BY <3>1, <3>3, <3>5, <3>6, <3>7 DEF Named
  <2> QED BY <2>1, <2>2
<1>5. ASSUME ~together' PROVE Orderly'
  <2>1. Orderly
    BY <1>5, <1>1 DEF IInv
  <2>2. ASSUME NEW q \in Slots PROVE call'[q].op = call[q].op
    BY <1>1, <1>2 DEF c
  <2>3. OneMove'
    BY <2>1, <2>2 DEF Orderly, OneMove
  <2>4. CASE c.op = "create"
    <3>1. c.node \in Nodes \ created /\ c.to \in Parents
      BY <2>4, <1>0 DEF Named, At, Call, c
    <3>2. created' = created \cup {c.node} /\ parent' = [parent EXCEPT ![c.node] = c.to]
      BY <2>4, <1>1
    <3>3. Grounded' /\ \A m, q \in created : Leads(m, q) => Leads(m, q)'
      BY <3>1, <3>2, <2>1, <1>0, CreatingGrounds DEF Orderly
    <3>4. ASSUME NEW r \in Slots, At(r, "move", "write")', call'[r].to # None
          PROVE  Leads(call[r].node, call[r].to)'
      <4>1. call'[r] = call[r] /\ At(r, "move", "write")
        BY <3>4, <1>1, <1>2 DEF At
      <4>2. call[r].node \in created /\ call[r].to \in created
        BY <3>4, <4>1 DEF IInv, AllNamed, Named, At, Parents
      <4>3. Leads(call[r].node, call[r].to)
        BY <3>4, <4>1, <2>1 DEF Orderly, Checked
      <4> QED BY <4>1, <4>2, <4>3, <3>3 DEF Leads
    <3>5. ASSUME NEW r \in Slots PROVE Checked(r)'
      BY <3>4 DEF Checked
    <3> QED BY <3>3, <3>5, <2>3 DEF Orderly
  <2>5. CASE c.op = "move"
    <3>1. c.node \in created /\ c.to \in Parents
      BY <2>5, <1>0 DEF Named, c
    <3>2. c.to # None => Leads(c.node, c.to)
      BY <2>1, <2>5, <1>0 DEF Orderly, Checked, At, c
    <3>3. created' = created /\ parent' = [parent EXCEPT ![c.node] = c.to]
      BY <2>5, <1>1
    <3>4. Grounded'
      BY <3>1, <3>2, <3>3, <2>1, <1>0, MovingGrounds DEF Orderly
    <3>5. ASSUME NEW r \in Slots, At(r, "move", "write")' PROVE FALSE
      <4>1. r # s /\ call[r].op = "move"
        BY <3>5, <1>1, <1>2 DEF At
      <4> QED BY <4>1, <2>1, <2>5 DEF Orderly, OneMove, c
    <3> QED BY <3>4, <3>5, <2>3 DEF Orderly, Checked
  <2>6. CASE c.op \notin {"create", "move"}
    <3>1. created' = created /\ parent' = parent
      BY <2>6, <1>1
    <3>2. ASSUME NEW r \in Slots PROVE Checked(r)'
      BY <3>1, <2>1, <1>1, <1>2 DEF Orderly, Checked, At, Leads
    <3> QED BY <3>1, <3>2, <2>1, <2>3 DEF Orderly, Grounded
  <2> QED BY <2>4, <2>5, <2>6
<1> QED BY <1>1, <1>4, <1>5 DEF IInv, AllNamed

-----------------------------------------------------------------------------
(* Every step.                                                             *)

LEMMA InitIInv == Init => IInv
<1> SUFFICES ASSUME Init PROVE IInv
  OBVIOUS
<1>0. /\ created = DOMAIN Begun /\ active = created
      /\ parent = [n \in Nodes |-> IF n \in created THEN Begun[n] ELSE None]
      /\ call = [s \in Slots |-> Idle]
  BY DEF Init
<1>1. created \subseteq Nodes /\ \A n \in created : Begun[n] \in created \cup {None}
  <2>1. PICK held \in SUBSET Nodes : Begun \in [held -> held \cup {None}]
    BY OrgAssumption
  <2> QED BY <2>1, <1>0
<1>2. TypeOK
  <2>1. parent \in [Nodes -> created \cup {None}]
    BY <1>0, <1>1
  <2>2. call \in [Slots -> Call]
    BY <1>0, IdleIsCall
  <2>3. cache \in [Keys -> Tree \cup {Nothing}] /\ label \in BOOLEAN
    BY DEF Init
  <2>4. writes \in 0 .. MaxWrites /\ together \in BOOLEAN
    <3>1. MaxWrites \in Nat
      BY OrgAssumption
    <3>2. 0 \in 0 .. MaxWrites
      BY <3>1
    <3>3. writes = 0 /\ together = FALSE
      BY DEF Init
    <3> QED BY <3>2, <3>3
  <2> QED BY <1>0, <1>1, <2>1, <2>2, <2>3, <2>4 DEF TypeOK
<1>3. \A s \in Slots : call[s].op = "none"
  BY <1>0 DEF Idle
<1>4. AllNamed
  BY <1>3 DEF AllNamed, Named, At
<1>5. Grounded
  <2> SUFFICES ASSUME NEW S \in SUBSET created, S # {} PROVE \E n \in S : parent[n] \notin S
    BY DEF Grounded
  <2>1. PICK n \in S : Begun[n] \notin S
    BY <1>0, OrgAssumption
  <2>2. parent[n] = Begun[n]
    BY <1>0, <1>1
  <2> QED BY <2>1, <2>2
<1>6. OneMove /\ \A s \in Slots : Checked(s)
  BY <1>3 DEF OneMove, Checked, At
<1> QED BY <1>2, <1>4, <1>5, <1>6 DEF IInv, Orderly

LEMMA NextIInv == IInv /\ [Next]_vars => IInv'
<1> SUFFICES ASSUME IInv, [Next]_vars PROVE IInv'
  OBVIOUS
<1>1. ASSUME NEW s \in Slots, NEW n \in Nodes, NEW p \in Nodes \cup {None},
             StartCreate(s, n, p) \/ StartMove(s, n, p)
      PROVE  IInv'
  BY <1>1, StartCreateKeeps, StartMoveKeeps
<1>2. ASSUME NEW s \in Slots, NEW n \in Nodes,
             StartActivate(s, n) \/ StartDelete(s, n) \/ StartType(s, n)
      PROVE  IInv'
  BY <1>2, StartsKeep
<1>3. ASSUME NEW s \in Slots, Steps(s) PROVE IInv'
  BY <1>3, ChecksMoveKeeps, WritesKeep, ReadsKeep DEF Steps
<1>4. ASSUME NEW s \in Slots, NEW k \in Keys, Misses(s, k) PROVE IInv'
  BY <1>4, ReadsKeep
<1>5. CASE (\E k \in Keys : Expires(k)) \/ UNCHANGED vars
  <2>1. UNCHANGED <<created, parent, active, label, call, writes, together>>
    BY <1>5 DEF Expires, vars, table
  <2>2. cache' \in [Keys -> Tree \cup {Nothing}]
    BY <1>5 DEF Expires, vars, IInv, TypeOK
  <2>3. TypeOK'
    BY <2>1, <2>2 DEF IInv, TypeOK
  <2>4. AllNamed'
    BY <2>1 DEF IInv, AllNamed, Named, At, Parents
  <2>5. ~together' => Orderly'
    BY <2>1 DEF IInv, Orderly, OneMove, Grounded, Checked, At, Leads
  <2> QED BY <2>3, <2>4, <2>5 DEF IInv
<1> QED BY <1>1, <1>2, <1>3, <1>4, <1>5 DEF Next

LEMMA Always == Spec => []IInv
BY InitIInv, NextIInv, PTL DEF Spec

-----------------------------------------------------------------------------
(* What the rounds of the query and of the tree come to.                   *)

\* Whatever the query finds below n hangs on nodes below n, up to n.
LEMMA FoundBelow ==
  ASSUME TypeOK, NEW n \in Nodes, NEW m \in Descendants(n)
  PROVE  \E U \in SUBSET created : m \in U /\ \A x \in U : parent[x] \in U \cup {n}
<1> DEFINE N == Cardinality(Nodes)
           Hung(q) == \E U \in SUBSET created : q \in U /\ \A x \in U : parent[x] \in U \cup {n}
           Bad == {k \in 0 .. N : \E q \in Round(n)[k] : ~Hung(q)}
<1>1. N \in Nat /\ created \subseteq Nodes
  BY OrgAssumption, FS_CardinalityType DEF TypeOK
<1>2. /\ Round(n)[0] = Children(n)
      /\ \A k \in 1 .. N : Round(n)[k] = UNION {Children(q) : q \in Round(n)[k - 1]}
  BY <1>1, RoundIs
<1>3. PICK i \in 0 .. N : m \in Round(n)[i]
  BY DEF Descendants
<1> SUFFICES ASSUME ~Hung(m) PROVE FALSE
  OBVIOUS
<1>4. PICK k \in Bad : \A j \in Bad : k <= j
  <2>1. i \in Bad /\ Bad \in SUBSET Nat
    BY <1>1, <1>3
  <2> HIDE DEF Bad
  <2> QED BY <2>1, Least
<1>5. PICK q \in Round(n)[k] : ~Hung(q)
  BY <1>4
<1>6. CASE k = 0
  <2>1. q \in created /\ parent[q] = n
    BY <1>2, <1>5, <1>6 DEF Children
  <2>2. {q} \in SUBSET created /\ q \in {q} /\ \A x \in {q} : parent[x] \in {q} \cup {n}
    BY <2>1
  <2> QED BY <2>2, <1>5
<1>7. CASE k # 0
  <2>1. k \in 1 .. N /\ k - 1 \in 0 .. N /\ ~(k <= k - 1)
    BY <1>1, <1>4, <1>7
  <2>2. PICK r \in Round(n)[k - 1] : q \in Children(r)
    BY <2>1, <1>2, <1>5
  <2>3. Hung(r)
    BY <2>1, <2>2, <1>4
  <2>4. PICK U \in SUBSET created : r \in U /\ \A x \in U : parent[x] \in U \cup {n}
    BY <2>3
  <2>5. q \in created /\ parent[q] = r
    BY <2>2 DEF Children
  <2>6. U \cup {q} \in SUBSET created /\ q \in U \cup {q}
        /\ \A x \in U \cup {q} : parent[x] \in (U \cup {q}) \cup {n}
    BY <2>4, <2>5
  <2> QED BY <2>6, <1>5
<1> QED BY <1>6, <1>7

\* The rounds of the tree that is shown: its roots, and what hangs on them.
Hanging(t, X) == X \cup {n \in t.active : t.parent[n] \in X}
LEMMA HangsIs ==
  ASSUME NEW t
  PROVE  \E g \in [0 .. Cardinality(Nodes) -> SUBSET t.active] :
           /\ g[0] = Roots(t) /\ Hangs(t) = g[Cardinality(Nodes)]
           /\ \A k \in 1 .. Cardinality(Nodes) : g[k] = Hanging(t, g[k - 1])
<1> DEFINE N == Cardinality(Nodes)
           F == [X \in SUBSET t.active |-> Hanging(t, X)]
           Is(h) == h = [k \in 0 .. N |->
                           IF k = 0 THEN Roots(t)
                           ELSE h[k - 1] \cup {n \in t.active : t.parent[n] \in h[k - 1]}]
           below == CHOOSE h : Is(h)
<1>1. N \in Nat
  BY OrgAssumption, FS_CardinalityType
<1>2. Roots(t) \in SUBSET t.active /\ F \in [SUBSET t.active -> SUBSET t.active]
  BY DEF Roots, Hanging
<1>3. PICK g \in [0 .. N -> SUBSET t.active] : Iterated(g, N, Roots(t), F)
  <2> HIDE DEF N, F
  <2> QED BY <1>1, <1>2, Iterates
<1>4. Is(g)
  <2>1. \A k \in 0 .. N : k # 0 => F[g[k - 1]] = Hanging(t, g[k - 1])
    BY <1>1
  <2> QED BY <1>3, <2>1 DEF Iterated, Hanging
<1>5. Is(below)
  <2> HIDE DEF Is
  <2> QED BY <1>4
<1>6. Hangs(t) = below[N]
  BY DEF Hangs
<1> HIDE DEF below
<1>7. \A k \in 0 .. N : below[k] =
        IF k = 0 THEN Roots(t)
        ELSE below[k - 1] \cup {n \in t.active : t.parent[n] \in below[k - 1]}
  <2> HIDE DEF N
  <2> QED BY <1>5, Zenon
<1>8. 0 \in 0 .. N /\ \A k \in 1 .. N : k \in 0 .. N /\ k # 0 /\ k - 1 \in 0 .. N
  BY <1>1
<1>9. below[0] = Roots(t) /\ \A k \in 1 .. N : below[k] = Hanging(t, below[k - 1])
  <2> HIDE DEF N
  <2> QED BY <1>7, <1>8, Zenon DEF Hanging
<1>10. \A k \in 0 .. N : below[k] \in SUBSET t.active
  <2>1. SUFFICES ASSUME {k \in 0 .. N : ~(below[k] \in SUBSET t.active)} # {} PROVE FALSE
    OBVIOUS
  <2> DEFINE Bad == {k \in 0 .. N : ~(below[k] \in SUBSET t.active)}
  <2>2. PICK k \in Bad : \A j \in Bad : k <= j
    <3>1. Bad \in SUBSET Nat
      BY <1>1
    <3> HIDE DEF Bad
    <3> QED BY <2>1, <3>1, Least DEF Bad
  <2>3. k # 0
    BY <1>2, <1>9, <2>2
  <2>4. k \in 1 .. N /\ k - 1 \in 0 .. N /\ ~(k <= k - 1)
    BY <1>1, <2>2, <2>3
  <2>5. below[k - 1] \in SUBSET t.active
    BY <2>2, <2>4
  <2>6. below[k] = Hanging(t, below[k - 1])
    BY <1>9, <2>4
  <2>7. below[k] \in SUBSET t.active
    BY <2>5, <2>6 DEF Hanging
  <2> QED BY <2>2, <2>7
<1>11. below \in [0 .. N -> SUBSET t.active]
  <2>1. below = [k \in 0 .. N |-> below[k]]
    BY <1>5
  <2> HIDE DEF N
  <2> QED BY <1>10, <2>1
<1> QED BY <1>6, <1>9, <1>11

\* In a tree no set of nodes has a child inside for each of its nodes.
LEMMA NoReturn ==
  ASSUME TypeOK, Grounded, NEW X \in SUBSET created,
         \A x \in X : \E y \in X : parent[y] = x
  PROVE  X = {}
<1> DEFINE P == {y \in X : parent[y] \in X}
           f == [y \in P |-> parent[y]]
<1>1. IsFiniteSet(X)
  BY OrgAssumption, FS_Subset DEF TypeOK
<1>2. IsFiniteSet(P) /\ Cardinality(P) <= Cardinality(X)
      /\ (Cardinality(X) = Cardinality(P) => X = P)
  BY <1>1, FS_Subset
<1>3. f \in Surjection(P, X)
  <2>1. f \in [P -> X]
    OBVIOUS
  <2>2. ASSUME NEW x \in X PROVE \E y \in P : f[y] = x
    OBVIOUS
  <2> QED BY <2>1, <2>2 DEF Surjection
<1>4. Cardinality(X) <= Cardinality(P)
  BY <1>2, <1>3, FS_Surjection
<1>5. X = P
  BY <1>1, <1>2, <1>4, FS_CardinalityType
<1> QED BY <1>5 DEF Grounded

\* A node that the query finds in a round has a node above it for every round
\* there was.
LEMMA FarBelow ==
  ASSUME TypeOK, Grounded, NEW n \in created
  PROVE  \A k \in 0 .. Cardinality(Nodes) : \A m \in Round(n)[k] :
           \E X \in SUBSET created :
             /\ Cardinality(X) = k + 1
             /\ \A x \in X : \E y \in X \cup {m} : parent[y] = x
<1> DEFINE N == Cardinality(Nodes)
           Above(m, k, X) == /\ Cardinality(X) = k + 1
                             /\ \A x \in X : \E y \in X \cup {m} : parent[y] = x
           Good(k) == \A m \in Round(n)[k] : \E X \in SUBSET created : Above(m, k, X)
           Bad == {k \in 0 .. N : ~Good(k)}
<1>1. N \in Nat /\ IsFiniteSet(Nodes) /\ created \subseteq Nodes
  BY OrgAssumption, FS_CardinalityType DEF TypeOK
<1>2. /\ Round(n)[0] = Children(n)
      /\ \A k \in 1 .. N : Round(n)[k] = UNION {Children(q) : q \in Round(n)[k - 1]}
  BY <1>1, RoundIs
<1> HIDE DEF N
<1>3. Good(0)
  <2> SUFFICES ASSUME NEW m \in Children(n) PROVE Above(m, 0, {n})
    BY <1>2
  <2>1. Cardinality({n}) = 0 + 1
    BY FS_Singleton
  <2>2. parent[m] = n
    BY DEF Children
  <2> QED BY <2>1, <2>2
<1>4. ASSUME NEW k \in 1 .. N, Good(k - 1) PROVE Good(k)
  <2> SUFFICES ASSUME NEW m \in Round(n)[k] PROVE \E X \in SUBSET created : Above(m, k, X)
    OBVIOUS
  <2>1. PICK r \in Round(n)[k - 1] : m \in Children(r)
    BY <1>2
  <2>2. PICK X \in SUBSET created : Above(r, k - 1, X)
    BY <1>4, <2>1
  <2>3. Cardinality(X) = k /\ k # 0
    BY <1>1, <2>2
  <2>4. r \in created
    <3>1. k - 1 \in 0 .. N
      BY <1>1
    <3>2. Round(n) \in [0 .. N -> SUBSET created]
      BY <1>1, RoundIs DEF N
    <3> QED BY <2>1, <3>1, <3>2
  <2>5. r \notin X
    <3>1. SUFFICES ASSUME r \in X PROVE FALSE
      OBVIOUS
    <3>2. \A x \in X : \E y \in X : parent[y] = x
      BY <2>2, <3>1
    <3>3. X = {}
      BY <3>2, NoReturn
    <3> QED BY <3>1, <3>3
  <2>6. Cardinality(X \cup {r}) = k + 1
    <3>1. IsFiniteSet(X)
      BY <1>1, FS_Subset
    <3> QED BY <2>3, <2>5, <3>1, FS_AddElement
  <2>7. ASSUME NEW x \in X \cup {r}
        PROVE  \E y \in (X \cup {r}) \cup {m} : parent[y] = x
    <3>1. CASE x \in X
      BY <3>1, <2>2
    <3>2. CASE x = r
      BY <3>2, <2>1 DEF Children
    <3> QED BY <2>7, <3>1, <3>2
  <2>8. X \cup {r} \in SUBSET created
    BY <2>4
  <2> QED BY <2>6, <2>7, <2>8
<1>5. Bad = {}
  <2>1. SUFFICES ASSUME Bad # {} PROVE FALSE
    OBVIOUS
  <2> HIDE DEF Good
  <2>2. Bad \in SUBSET Nat
    BY <1>1
  <2>3. PICK k \in Bad : \A j \in Bad : k <= j
    <3> HIDE DEF Bad
    <3> QED BY <2>1, <2>2, Least
  <2>4. k \in 1 .. N /\ k - 1 \in 0 .. N /\ ~(k <= k - 1)
    BY <1>1, <1>3, <2>3
  <2>5. Good(k - 1)
    BY <2>3, <2>4
  <2> QED BY <1>4, <2>3, <2>4, <2>5
<1> QED BY <1>5 DEF N

\* As many rounds as there are nodes are enough: a round that adds nothing is
\* the last one that could.
LEMMA HangsClosed ==
  ASSUME NEW t, t.active \subseteq Nodes
  PROVE  /\ Roots(t) \subseteq Hangs(t) /\ Hangs(t) \subseteq t.active
         /\ Hanging(t, Hangs(t)) = Hangs(t)
<1> DEFINE N == Cardinality(Nodes)
<1>1. N \in Nat /\ IsFiniteSet(Nodes) /\ IsFiniteSet(t.active)
  BY OrgAssumption, FS_CardinalityType, FS_Subset
<1>2. PICK g \in [0 .. N -> SUBSET t.active] :
        /\ g[0] = Roots(t) /\ Hangs(t) = g[N]
        /\ \A k \in 1 .. N : g[k] = Hanging(t, g[k - 1])
  BY HangsIs
<1> DEFINE Good(k) == /\ Roots(t) \subseteq g[k]
                      /\ Hanging(t, g[k]) = g[k] \/ k + 1 <= Cardinality(g[k])
           Bad == {k \in 0 .. N : ~Good(k)}
<1>3. ASSUME NEW k \in 0 .. N
      PROVE  /\ g[k] \subseteq t.active /\ IsFiniteSet(g[k])
             /\ Cardinality(g[k]) \in Nat /\ Cardinality(g[k]) <= N
  <2>1. g[k] \subseteq t.active
    BY <1>2
  <2>2. g[k] \subseteq Nodes
    BY <2>1
  <2>3. IsFiniteSet(g[k]) /\ Cardinality(g[k]) <= Cardinality(Nodes)
    BY <1>1, <2>2, FS_Subset
  <2> QED BY <2>1, <2>3, FS_CardinalityType
<1> HIDE DEF N
<1>4. Good(0)
  <2>1. 0 \in 0 .. N
    BY <1>1
  <2>2. CASE g[0] = {}
    BY <1>2, <2>2 DEF Hanging
  <2>3. CASE g[0] # {}
    <3>1. Cardinality(g[0]) # 0 /\ Cardinality(g[0]) \in Nat
      BY <2>1, <2>3, <1>3, FS_EmptySet
    <3>2. 0 + 1 <= Cardinality(g[0])
      BY <3>1
    <3> QED BY <3>2, <1>2
  <2> QED BY <2>2, <2>3
<1>5. ASSUME NEW k \in 1 .. N, Good(k - 1) PROVE Good(k)
  <2>1. k - 1 \in 0 .. N /\ k \in 0 .. N /\ k \in Nat
    BY <1>1
  <2>2. g[k] = Hanging(t, g[k - 1])
    BY <1>2
  <2>3. Roots(t) \subseteq g[k]
    BY <2>2, <1>5 DEF Hanging
  <2>4. CASE g[k] = g[k - 1]
    BY <2>2, <2>3, <2>4
  <2>5. CASE g[k] # g[k - 1]
    <3>1. g[k - 1] \subseteq g[k]
      BY <2>2 DEF Hanging
    <3>2. PICK m : m \in g[k] /\ m \notin g[k - 1]
      BY <2>5, <3>1
    <3>3. IsFiniteSet(g[k - 1]) /\ Cardinality(g[k - 1]) \in Nat
      BY <1>3, <2>1
    <3>4. Cardinality(g[k - 1] \cup {m}) = Cardinality(g[k - 1]) + 1
      BY <3>2, <3>3, FS_AddElement
    <3>5. IsFiniteSet(g[k]) /\ Cardinality(g[k]) \in Nat /\ g[k - 1] \cup {m} \subseteq g[k]
      BY <3>1, <3>2, <1>3, <2>1
    <3>6. Cardinality(g[k - 1]) + 1 <= Cardinality(g[k])
      BY <3>4, <3>5, FS_Subset
    <3>7. (k - 1) + 1 <= Cardinality(g[k - 1])
      BY <2>2, <2>5, <1>5
    <3>8. k + 1 <= Cardinality(g[k])
      BY <3>3, <3>5, <3>6, <3>7, <2>1
    <3> QED BY <2>3, <3>8
  <2> QED BY <2>4, <2>5
<1>6. Bad = {}
  <2>1. SUFFICES ASSUME Bad # {} PROVE FALSE
    OBVIOUS
  <2> HIDE DEF Good
  <2>2. Bad \in SUBSET Nat
    BY <1>1
  <2>3. PICK k \in Bad : \A j \in Bad : k <= j
    <3> HIDE DEF Bad
    <3> QED BY <2>1, <2>2, Least
  <2>4. k \in 1 .. N /\ k - 1 \in 0 .. N /\ ~(k <= k - 1)
    BY <1>1, <1>4, <2>3
  <2>5. Good(k - 1)
    BY <2>3, <2>4
  <2> QED BY <1>5, <2>3, <2>4, <2>5
<1>7. Good(N)
  <2>1. N \in 0 .. N
    BY <1>1
  <2> HIDE DEF Good
  <2> QED BY <1>6, <2>1
<1>8. ~(N + 1 <= Cardinality(g[N]))
  <2>1. N \in 0 .. N
    BY <1>1
  <2>2. Cardinality(g[N]) \in Nat /\ Cardinality(g[N]) <= N
    BY <1>3, <2>1
  <2> QED BY <1>1, <2>2
<1>9. g[N] \subseteq t.active
  BY <1>1, <1>3
<1> QED BY <1>2, <1>7, <1>8, <1>9

-----------------------------------------------------------------------------
\* Every variable of the organisation, its cache and its calls keeps its type.
THEOREM TypeCorrect == Spec => []TypeOK
<1>1. IInv => TypeOK
  BY DEF IInv
<1> QED BY <1>1, Always, PTL

\* No node comes to hang below itself, whatever is created, deactivated or
\* deleted between the check of a move and its UPDATE; only two moves checked
\* beside each other could bring that about.
THEOREM TreeStaysATree == Spec => []NoCycle
<1>1. IInv => NoCycle
  <2> SUFFICES ASSUME IInv, ~together, NEW n \in created, n \in Descendants(n)
               PROVE  FALSE
    BY DEF NoCycle
  <2>1. TypeOK /\ Grounded /\ n \in Nodes
    BY DEF IInv, Orderly, TypeOK
  <2>2. PICK U \in SUBSET created : n \in U /\ \A x \in U : parent[x] \in U \cup {n}
    BY <2>1, FoundBelow
  <2>3. \A x \in U : parent[x] \in U
    BY <2>2
  <2> QED BY <2>1, <2>2, <2>3 DEF Grounded
<1> QED BY <1>1, Always, PTL

\* getOrgNodeTree shows every active node, whatever was deactivated above it.
THEOREM EveryoneIsShown == Spec => []NobodyMissing
<1>1. IInv => NobodyMissing
  <2> SUFFICES ASSUME IInv, ~together PROVE Hangs(Current) = active
    BY DEF NobodyMissing
  <2>1. TypeOK /\ Grounded /\ active \subseteq created /\ created \subseteq Nodes
    BY DEF IInv, Orderly, TypeOK
  <2>2. Current.active = active /\ \A n \in active : Current.parent[n] = parent[n]
    BY <2>1 DEF Current
  <2>3. /\ Roots(Current) \subseteq Hangs(Current) /\ Hangs(Current) \subseteq active
        /\ Hanging(Current, Hangs(Current)) = Hangs(Current)
    BY <2>1, <2>2, HangsClosed
  <2> DEFINE S == active \ Hangs(Current)
  <2>4. S = {}
    <3> SUFFICES ASSUME S # {} PROVE FALSE
      OBVIOUS
    <3>1. PICK n \in S : parent[n] \notin S
      BY <2>1 DEF Grounded
    <3>2. CASE parent[n] \notin active
      BY <3>2, <2>2, <2>3 DEF Roots
    <3>3. CASE parent[n] \in Hangs(Current)
      BY <3>3, <2>2, <2>3 DEF Hanging
    <3> QED BY <3>1, <3>2, <3>3
  <2> QED BY <2>3, <2>4
<1> QED BY <1>1, Always, PTL

\* The recursive query of a move always ends, and the move is answered: only
\* two moves checked beside each other could leave a cycle along which it
\* would go on for ever.
THEOREM QueriesEnd == Spec => [](~together => \A n \in created : Terminates(n))
<1>1. IInv => (~together => \A n \in created : Terminates(n))
  <2> SUFFICES ASSUME IInv, ~together, NEW n \in created,
                      NEW m \in Round(n)[Cardinality(Nodes)]
               PROVE  FALSE
    BY DEF Terminates
  <2>1. TypeOK /\ Grounded /\ created \subseteq Nodes
    BY DEF IInv, Orderly, TypeOK
  <2>2. Cardinality(Nodes) \in Nat /\ IsFiniteSet(Nodes)
    BY OrgAssumption, FS_CardinalityType
  <2>3. Cardinality(Nodes) \in 0 .. Cardinality(Nodes)
    BY <2>2
  <2>4. PICK X \in SUBSET created : Cardinality(X) = Cardinality(Nodes) + 1
    BY <2>1, <2>3, FarBelow
  <2>5. X \subseteq Nodes
    BY <2>1
  <2>6. Cardinality(X) <= Cardinality(Nodes)
    BY <2>2, <2>5, FS_Subset
  <2> QED BY <2>2, <2>4, <2>6
<1> QED BY <1>1, Always, PTL
=============================================================================
