--------------------------- MODULE RequestsProofs ---------------------------
(***************************************************************************)
(* What holds of Requests for every number of requests, people and calls   *)
(* in flight, whatever they issue.                                         *)
(***************************************************************************)
EXTENDS Requests, TLAPS

-----------------------------------------------------------------------------
(* Type correctness *)

\* Every reader of a request is an actor.
LEMMA ReadersAreActors == \A r \in Rs : Readers(r) \subseteq Actors
BY DEF Readers, Actors

\* A busy slot holds a call.
LEMMA BusyHoldsCall ==
  ASSUME TypeOK, NEW p \in Procs, req[p].pc # "free"
  PROVE  req[p] \in Call
BY DEF TypeOK, Free

LEMMA InitTypeOK == Init => TypeOK
BY DEF Init, TypeOK, Free, Rest

LEMMA NextTypeOK == TypeOK /\ [Next]_vars => TypeOK'
<1> SUFFICES ASSUME TypeOK, [Next]_vars PROVE TypeOK'
  OBVIOUS
<1> USE ReadersAreActors DEF TypeOK, row
<1>1. ASSUME NEW p \in Procs, NEW u \in Users, NEW r \in Rs, Create(p, u, r) PROVE TypeOK'
  BY <1>1 DEF Create, Call, Operations, Status, Active
<1>2. ASSUME NEW p \in Procs, Recurs(p) PROVE TypeOK'
  <2>1. req[p] \in Call
    BY <1>2, BusyHoldsCall DEF Recurs, At, Busy
  <2> QED BY <1>2, <2>1 DEF Recurs, Call, Blames, Ends
<1>3. ASSUME NEW p \in Procs, NEW u \in Users, NEW r \in Rs, NEW op \in Operations, NEW new \in Status,
             Read(p, u, r, op, new) PROVE TypeOK'
  BY <1>3 DEF Read, Call
<1>4. ASSUME NEW p \in Procs, Write(p) PROVE TypeOK'
  <2>1. req[p] \in Call
    BY <1>4, BusyHoldsCall DEF Write, At, Busy, Free
  <2>2. TakerAfter(req[p]) \in Users \cup {None}
    BY <2>1 DEF TakerAfter, Call
  <2>3. [req[p] EXCEPT !.pc = "log"] \in Call
    BY <2>1 DEF Call
  <2>4. req' \in [Procs -> Call \cup {Free}]
    BY <1>4, <2>3 DEF Write
  <2>5. stale' \subseteq Actors
    BY <1>4, <2>1 DEF Write, Moves, Call
  <2> QED BY <1>4, <2>1, <2>2, <2>4, <2>5 DEF Write, Blames, Call
<1>5. ASSUME NEW p \in Procs, Log(p) PROVE TypeOK'
  <2>1. req[p] \in Call
    BY <1>5, BusyHoldsCall DEF Log, At, Busy, Free
  <2>2. [req[p] EXCEPT !.pc = "count"] \in Call /\ Line(req[p]) \in Status \cup {None}
    BY <2>1 DEF Call, Line
  <2>3. req' \in [Procs -> Call \cup {Free}]
    BY <1>5, <2>2 DEF Log
  <2> QED BY <1>5, <2>1, <2>2, <2>3 DEF Log, Blames, Ends, Call
<1>6. ASSUME NEW p \in Procs, CallFails(p) PROVE TypeOK'
  <2>1. req[p] \in Call
    BY <1>6 DEF CallFails, Busy
  <2> QED BY <1>6, <2>1 DEF CallFails, Call, Ends
<1>7. ASSUME NEW r \in Rs, NEW d \in BOOLEAN, SetDeleted(r, d) PROVE TypeOK'
  BY <1>7 DEF SetDeleted
<1>8. ASSUME NEW r \in Rs, SlaPasses(r) PROVE TypeOK'
  BY <1>8 DEF SlaPasses
<1>9. ASSUME SweepStarts PROVE TypeOK'
  BY <1>9 DEF SweepStarts, Rest
<1>10. ASSUME NEW r \in Rs, SweepMarks(r) PROVE TypeOK'
  BY <1>10 DEF SweepMarks, Blames
<1>11. ASSUME NEW r \in Rs, SweepLogs(r) PROVE TypeOK'
  BY <1>11 DEF SweepLogs, Blames, Ends, Rest
<1>12. ASSUME SweepAborts PROVE TypeOK'
  BY <1>12 DEF SweepAborts, Rest
<1>13. ASSUME UNCHANGED vars PROVE TypeOK'
  BY <1>13 DEF vars
<1> QED
  BY <1>1, <1>2, <1>3, <1>4, <1>5, <1>6, <1>7, <1>8, <1>9, <1>10, <1>11, <1>12, <1>13
  DEF Next, SweepStep

\* Every variable keeps its type, whatever calls and sweeps interleave.
THEOREM TypeCorrect == Spec => []TypeOK
BY InitTypeOK, NextTypeOK, PTL DEF Spec

-----------------------------------------------------------------------------
(* The inductive invariant *)

\* The calls a handler may be working on: what it checked before it came to
\* its present statement, true whatever happened to the request since.
Checked ==
  {c \in Call :
     /\ c.op = "create"     => c.new = "pending" /\ c.pc # "write"
     /\ c.op = "take"       => c.old = "pending" /\ c.new = "taken" /\ c.who \in Users
     /\ c.op = "untake"     => c.old = "taken" /\ c.new = "pending"
     /\ c.op = "review"     => <<c.old, c.new>> \in ReviewMoves
     /\ c.op = "progress"   => <<c.old, c.new>> \in ProgressMoves
     /\ c.op = "cancel"     => c.old \in Active /\ c.new = "cancelled"
     /\ c.op = "complete"   => c.r \in Tasks /\ c.new = "approved"
     /\ c.op = "escalate"   => c.old \in Active /\ c.new = c.old
     /\ c.op = "deescalate" => c.new = c.old
     /\ c.op # "create"     => c.old \in Status
     /\ c.pc = "count"      => c.op = "create"}

\* What a handler that is not stale still knows of its request.
Knows(c) == /\ status[c.r] = IF c.pc = "write" THEN c.old ELSE c.new
            /\ c.pc = "write" => ~deleted[c.r]

\* A handler whose line will end the timeline with the present status.
WillTell(c) == c.pc = "log" /\ c.op \notin {"escalate", "deescalate"} /\ status[c.r] = c.new

CallInv(p) ==
  req[p].pc # "free" =>
    /\ req[p] \in Checked
    /\ <<"call", p>> \in stale \/ Knows(req[p])
SweepInv(r) ==
  sweep[r].pc # "idle" =>
    /\ sweep[r].old \in Active
    /\ <<"sweep", r>> \in stale \/ status[r] = sweep[r].old
TimelineInv(r) ==
  \/ r \in overwritten \cup torn
  \/ told[r] = status[r]
  \/ \E p \in Procs : req[p].r = r /\ WillTell(req[p])

IInv ==
  /\ \A p \in Procs : CallInv(p)
  /\ \A r \in Rs : SweepInv(r) /\ TimelineInv(r)
  /\ TakerFollowsStatus
  /\ \A r \in Rs : status[r] = None => taker[r] = None /\ ~deleted[r]

LEMMA InitIInv == Init => IInv
BY NoneAssumption
DEF Init, IInv, CallInv, SweepInv, TimelineInv, TakerFollowsStatus, Free, Rest, Status, Active

\* A call that reads a request checked it.
LEMMA ReadChecks ==
  ASSUME TypeOK, TypeOK', NEW p \in Procs, NEW u \in Users, NEW r \in Rs, NEW op \in Operations,
         NEW new \in Status, Read(p, u, r, op, new)
  PROVE  req'[p] \in Checked /\ req'[p].pc = "write" /\ req'[p].r = r
         /\ status[r] = req'[p].old /\ ~deleted[r]
<1>1. req'[p] = [pc |-> "write", op |-> op, r |-> r, who |-> IF op = "take" THEN u ELSE None,
                 old |-> status[r], new |-> new]
  BY DEF Read, TypeOK
<1>2. Accepts(op, u, r, new) /\ ~deleted[r]
  BY DEF Read, Visible
<1>3. req'[p] \in Checked
  <2> DEFINE c == req'[p]
  <2>1. c.op = op /\ c.new = new /\ c.old = status[r] /\ c.r = r /\ c.pc = "write"
        /\ (op = "take" => c.who = u) /\ c \in Call /\ status[r] \in Status
    BY <1>1 DEF Call, Read, Visible, TypeOK
  <2> HIDE DEF c
  <2>2. c \in Checked
    BY <1>2, <2>1 DEF Accepts, Checked, AcceptsTake, AcceptsUntake, AcceptsReview, AcceptsProgress,
       AcceptsCancel, AcceptsComplete, AcceptsEscalate, AcceptsDeescalate, Active
  <2> QED BY <2>2 DEF c
<1> QED BY <1>1, <1>2, <1>3

\* A call that writes on what it still knows, writes what its check allows.
LEMMA WriteKnows ==
  ASSUME TypeOK, IInv, NEW p \in Procs, Write(p)
  PROVE  /\ req[p] \in Call /\ req[p].pc = "write" /\ req[p] \in Checked /\ req[p].op # "create"
         /\ req[p].r \in overwritten' \/ Knows(req[p])
<1>1. req[p] \in Call /\ req[p].pc = "write" /\ req[p].pc # "free"
  BY BusyHoldsCall DEF Write, At, Busy, Free
<1>2. req[p] \in Checked /\ (<<"call", p>> \in stale \/ Knows(req[p]))
  BY <1>1 DEF IInv, CallInv
<1> QED BY <1>1, <1>2 DEF Write, Blames, Checked

\* Each statement preserves the invariant.
LEMMA CreateIInv ==
  ASSUME TypeOK, IInv, NEW p \in Procs, NEW u \in Users, NEW r \in Rs, Create(p, u, r)
  PROVE  IInv'
<1>1. /\ req'[p] = [pc |-> "log", op |-> "create", r |-> r, who |-> None, old |-> None, new |-> "pending"]
      /\ \A q \in Procs : q # p => req'[q] = req[q]
      /\ status[r] = None /\ status'[r] = "pending" /\ \A s \in Rs : s # r => status'[s] = status[s]
  BY DEF Create, TypeOK
<1>2. UNCHANGED <<deleted, taker, told, sweep, stale, overwritten, torn>>
  BY DEF Create
<1>3. ASSUME NEW q \in Procs PROVE CallInv(q)'
  <2>1. CASE q = p
    BY <1>1, <2>1 DEF CallInv, Checked, Knows, Call, Operations, Status, Active
  <2>2. CASE q # p
    <3>1. req[q].pc # "free" => req[q] \in Call
      BY BusyHoldsCall
    <3>2. CallInv(q)
      BY DEF IInv
    <3>3. req[q].pc # "free" /\ <<"call", q>> \notin stale => req[q].r # r
      BY <1>1, <3>1, <3>2, NoneAssumption DEF CallInv, Knows, Call, Checked, Active, Status, Done,
         ReviewMoves, ProgressMoves
    <3> QED BY <1>1, <1>2, <2>2, <3>1, <3>2, <3>3 DEF CallInv, Knows, Checked, Call
  <2> QED BY <2>1, <2>2
<1>4. ASSUME NEW s \in Rs PROVE SweepInv(s)' /\ TimelineInv(s)'
  <2>1. SweepInv(s) /\ TimelineInv(s)
    BY DEF IInv
  <2>2. SweepInv(s)'
    BY <1>1, <1>2, <2>1, NoneAssumption DEF SweepInv, Status
  <2>3. TimelineInv(s)'
    BY <1>1, <1>2, <2>1 DEF TimelineInv, WillTell, Create, Busy, Free
  <2> QED BY <2>2, <2>3
<1>5. TakerFollowsStatus' /\ (\A s \in Rs : status'[s] = None => taker'[s] = None /\ ~deleted'[s])
  BY <1>1, <1>2, NoneAssumption DEF IInv, TakerFollowsStatus, Status, Active
<1> QED BY <1>3, <1>4, <1>5 DEF IInv

LEMMA ReadIInv ==
  ASSUME TypeOK, IInv, NEW p \in Procs, NEW u \in Users, NEW r \in Rs, NEW op \in Operations,
         NEW new \in Status, Read(p, u, r, op, new)
  PROVE  IInv'
<1>1. req'[p] \in Checked /\ req'[p].pc = "write" /\ req'[p].r = r /\ status[r] = req'[p].old /\ ~deleted[r]
  BY ReadChecks, NextTypeOK DEF Next
<1>2. (\A q \in Procs : q # p => req'[q] = req[q]) /\ req[p].pc = "free"
      /\ UNCHANGED <<row, told, sweep, stale, overwritten, torn>>
  BY DEF Read, TypeOK, Busy, Free
<1>3. ASSUME NEW q \in Procs PROVE CallInv(q)'
  <2>1. CASE q = p
    BY <1>1, <1>2, <2>1 DEF CallInv, Knows, Checked, row
  <2>2. CASE q # p
    BY <1>2, <2>2 DEF IInv, CallInv, Knows, Checked, row
  <2> QED BY <2>1, <2>2
<1>4. ASSUME NEW s \in Rs PROVE SweepInv(s)' /\ TimelineInv(s)'
  <2>1. SweepInv(s)'
    BY <1>2 DEF IInv, SweepInv, row
  <2>2. TimelineInv(s)
    BY DEF IInv
  <2>3. ASSUME NEW q \in Procs, req[q].r = s, WillTell(req[q])
        PROVE req'[q].r = s /\ WillTell(req[q])' /\ req'[q] = req[q]
    BY <1>2, <2>3 DEF WillTell, row
  <2>4. TimelineInv(s)'
    BY <1>2, <2>2, <2>3 DEF TimelineInv, row
  <2> QED BY <2>1, <2>4
<1>5. TakerFollowsStatus' /\ (\A s \in Rs : status'[s] = None => taker'[s] = None /\ ~deleted'[s])
  BY <1>2 DEF IInv, TakerFollowsStatus, row
<1> QED BY <1>3, <1>4, <1>5 DEF IInv

LEMMA WriteIInv ==
  ASSUME TypeOK, IInv, NEW p \in Procs, Write(p)
  PROVE  IInv'
<1> DEFINE c == req[p]
           r == req[p].r
<1>1. c \in Call /\ c.pc = "write" /\ c \in Checked /\ c.op # "create" /\ r \in Rs
      /\ (r \in overwritten' \/ Knows(c))
  BY WriteKnows DEF Call
<1>2. /\ req'[p] = [c EXCEPT !.pc = "log"] /\ \A q \in Procs : q # p => req'[q] = req[q]
      /\ UNCHANGED <<deleted, told, sweep, torn>>
      /\ overwritten \subseteq overwritten' /\ stale \subseteq stale'
  BY DEF Write, TypeOK, Moves, Blames
<1>3. /\ \A s \in Rs : s # r => status'[s] = status[s] /\ taker'[s] = taker[s]
      /\ SetsStatus(c.op) => status'[r] = c.new /\ taker'[r] = TakerAfter(c)
                             /\ stale' = stale \cup (Readers(r) \ {<<"call", p>>})
      /\ ~SetsStatus(c.op) => UNCHANGED <<status, taker, stale>>
  BY <1>1 DEF Write, TypeOK, Moves
<1>4. ASSUME NEW q \in Procs PROVE CallInv(q)'
  <2>1. CallInv(q)
    BY DEF IInv
  <2>2. CASE q = p
    <3>1. req'[p] \in Checked
      BY <1>1, <1>2 DEF Checked, Call
    <3>2. <<"call", p>> \in stale' \/ status'[r] = c.new
      BY <1>1, <1>2, <1>3, <2>1, <2>2 DEF Checked, SetsStatus, CallInv, Knows
    <3> QED BY <1>1, <1>2, <2>2, <3>1, <3>2 DEF CallInv, Knows, Call
  <2>3. CASE q # p
    <3>1. req[q].pc # "free" /\ req[q].r = r => <<"call", q>> \in Readers(r)
      BY DEF Readers, Busy, Free
    <3>2. req[q].pc # "free" => req[q] \in Call
      BY BusyHoldsCall
    <3> QED BY <1>2, <1>3, <2>1, <2>3, <3>1, <3>2 DEF CallInv, Knows, Checked, Call
  <2> QED BY <2>2, <2>3
<1>5. ASSUME NEW s \in Rs PROVE SweepInv(s)'
  <2>1. sweep[s].pc # "idle" => <<"sweep", s>> \in Readers(s)
    BY DEF Readers, Rest
  <2> QED BY <1>2, <1>3, <2>1 DEF IInv, SweepInv
<1>6. ASSUME NEW s \in Rs PROVE TimelineInv(s)'
  <2>1. TimelineInv(s)
    BY DEF IInv
  <2>2. CASE SetsStatus(c.op) /\ s = r
    BY <1>1, <1>2, <1>3, <2>2 DEF TimelineInv, WillTell, SetsStatus, Call
  <2>3. CASE ~SetsStatus(c.op) \/ s # r
    BY <1>1, <1>2, <1>3, <2>1, <2>3 DEF TimelineInv, WillTell
  <2> QED BY <2>2, <2>3
<1>7. TakerFollowsStatus' /\ (\A s \in Rs : status'[s] = None => taker'[s] = None /\ ~deleted'[s])
  <2>0. /\ c.new \in Status /\ c.op \in Operations /\ TakerFollowsStatus
        /\ r \in overwritten' \/ status[r] = c.old
    BY <1>1 DEF Call, IInv, Knows
  <2>1. CASE c.op = "take"
    BY <1>1, <1>2, <1>3, <2>0, <2>1, NoneAssumption
    DEF IInv, TakerFollowsStatus, TakerAfter, SetsStatus, Checked, Status, Active
  <2>2. CASE c.op = "untake"
    BY <1>1, <1>2, <1>3, <2>0, <2>2, NoneAssumption
    DEF IInv, TakerFollowsStatus, TakerAfter, SetsStatus, Checked, Status, Active
  <2>3. CASE c.op \in {"review", "cancel", "complete", "progress"}
    <3>1. /\ c.new \in Status \ {"pending", "taken"}
          /\ c.new = "in_progress" => c.old = "taken"
      BY <1>1, <2>3 DEF Checked, ReviewMoves, ProgressMoves, Status, Active, Done
    <3>2. status'[r] = c.new /\ taker'[r] = taker[r]
      BY <1>3, <2>3 DEF SetsStatus, TakerAfter
    <3> QED BY <1>2, <1>3, <2>0, <3>1, <3>2, <2>3, NoneAssumption
        DEF IInv, TakerFollowsStatus, SetsStatus, Status
  <2>4. CASE c.op \in {"escalate", "deescalate"}
    BY <1>2, <1>3, <2>4 DEF IInv, TakerFollowsStatus, SetsStatus
  <2> QED BY <1>1, <2>0, <2>1, <2>2, <2>3, <2>4 DEF Operations
<1> QED BY <1>4, <1>5, <1>6, <1>7 DEF IInv

\* A slot that ends, or goes on with its line written, keeps the others' claims.
LEMMA EndsIInv ==
  ASSUME TypeOK, IInv, NEW p \in Procs, Recurs(p) \/ CallFails(p)
  PROVE  IInv'
<1>1. /\ req'[p] = Free /\ \A q \in Procs : q # p => req'[q] = req[q]
      /\ UNCHANGED <<status, deleted, taker, told, sweep>>
      /\ overwritten \subseteq overwritten' /\ torn \subseteq torn'
      /\ stale' = stale \ {<<"call", p>>}
  BY DEF Recurs, CallFails, TypeOK, Ends, Blames, row
<1>2. req[p].pc = "log" => req[p].r \in torn'
  BY DEF Recurs, CallFails, At
<1>3. ASSUME NEW q \in Procs PROVE CallInv(q)'
  <2>1. CASE q = p
    BY <1>1, <2>1 DEF CallInv, Free
  <2>2. CASE q # p
    BY <1>1, <2>2 DEF IInv, CallInv, Knows
  <2> QED BY <2>1, <2>2
<1>4. ASSUME NEW s \in Rs PROVE SweepInv(s)' /\ TimelineInv(s)'
  <2>1. SweepInv(s)'
    BY <1>1 DEF IInv, SweepInv
  <2>2. TimelineInv(s)
    BY DEF IInv
  <2>3. ASSUME NEW q \in Procs, req[q].r = s, WillTell(req[q]), s \notin torn'
        PROVE req'[q].r = s /\ WillTell(req[q])' /\ req'[q] = req[q]
    BY <1>1, <1>2, <2>3 DEF WillTell
  <2>4. TimelineInv(s)'
    BY <1>1, <2>2, <2>3 DEF TimelineInv
  <2> QED BY <2>1, <2>4
<1>5. TakerFollowsStatus' /\ (\A s \in Rs : status'[s] = None => taker'[s] = None /\ ~deleted'[s])
  BY <1>1 DEF IInv, TakerFollowsStatus
<1> QED BY <1>3, <1>4, <1>5 DEF IInv

LEMMA LogIInv ==
  ASSUME TypeOK, IInv, NEW p \in Procs, Log(p)
  PROVE  IInv'
<1> DEFINE c == req[p]
           r == req[p].r
<1>1. c \in Call /\ r \in Rs /\ c.pc = "log" /\ c \in Checked
      /\ (<<"call", p>> \in stale \/ Knows(c))
  BY BusyHoldsCall DEF Log, At, Busy, Free, Call, IInv, CallInv
<1>2. /\ \A q \in Procs : q # p => req'[q] = req[q]
      /\ req'[p] = IF c.op = "create" THEN [c EXCEPT !.pc = "count"] ELSE Free
      /\ UNCHANGED <<status, deleted, taker, sweep, torn>>
      /\ overwritten' = IF <<"call", p>> \in stale THEN overwritten \cup {r} ELSE overwritten
      /\ stale' = IF c.op = "create" THEN stale ELSE stale \ {<<"call", p>>}
      /\ told'[r] = Line(c) /\ \A s \in Rs : s # r => told'[s] = told[s]
  BY <1>1 DEF Log, TypeOK, Ends, Blames, row
<1>3. ASSUME NEW q \in Procs PROVE CallInv(q)'
  <2>1. CASE q = p /\ c.op = "create"
    <3>1. req'[p] \in Checked /\ req'[p].r = r /\ req'[p].new = c.new /\ req'[p].pc = "count"
      BY <1>1, <1>2, <2>1 DEF Checked, Call
    <3> QED BY <1>1, <1>2, <2>1, <3>1 DEF CallInv, Knows
  <2>2. CASE q = p /\ c.op # "create"
    BY <1>2, <2>2 DEF CallInv, Free
  <2>3. CASE q # p
    BY <1>2, <2>3 DEF IInv, CallInv, Knows
  <2> QED BY <2>1, <2>2, <2>3
<1>4. ASSUME NEW s \in Rs PROVE SweepInv(s)' /\ TimelineInv(s)'
  <2>1. SweepInv(s)'
    BY <1>2 DEF IInv, SweepInv
  <2>2. TimelineInv(s)
    BY DEF IInv
  <2>3. ASSUME NEW q \in Procs, q # p, req[q].r = s, WillTell(req[q])
        PROVE req'[q].r = s /\ WillTell(req[q])' /\ req'[q] = req[q]
    BY <1>2, <2>3 DEF WillTell
  <2>4. CASE s = r /\ (<<"call", p>> \in stale \/ c.op # "deescalate")
    <3>1. CASE <<"call", p>> \in stale
      BY <1>2, <2>1, <2>4, <3>1 DEF TimelineInv
    <3>2. CASE <<"call", p>> \notin stale
      <4>1. status[r] = c.new /\ Line(c) = c.new
        BY <1>1, <2>4, <3>2 DEF Knows, Line
      <4>2. told'[r] = status'[r]
        BY <1>2, <4>1
      <4> QED BY <2>1, <2>4, <4>2 DEF TimelineInv
    <3> QED BY <3>1, <3>2
  <2>5. CASE s # r \/ c.op = "deescalate"
    <3>1. told'[s] = told[s]
      BY <1>2, <2>5 DEF Line
    <3>2. req[p].r = s => ~WillTell(req[p])
      BY <2>5 DEF WillTell
    <3>3. CASE s \in overwritten \cup torn \/ told[s] = status[s]
      BY <1>2, <2>1, <3>1, <3>3 DEF TimelineInv
    <3>4. CASE \E q \in Procs : req[q].r = s /\ WillTell(req[q])
      BY <2>1, <2>3, <3>2, <3>4 DEF TimelineInv
    <3> QED BY <2>2, <3>3, <3>4 DEF TimelineInv
  <2> QED BY <2>1, <2>4, <2>5
<1>5. TakerFollowsStatus' /\ (\A s \in Rs : status'[s] = None => taker'[s] = None /\ ~deleted'[s])
  BY <1>2 DEF IInv, TakerFollowsStatus
<1> QED BY <1>3, <1>4, <1>5 DEF IInv

\* The trash, the clock and the sweep leave calls and statuses alone.
LEMMA OthersIInv ==
  ASSUME TypeOK, IInv,
         \/ \E r \in Rs : SetDeleted(r, TRUE) \/ SetDeleted(r, FALSE) \/ SlaPasses(r)
                          \/ SweepMarks(r) \/ SweepLogs(r)
         \/ SweepStarts \/ SweepAborts \/ UNCHANGED vars
  PROVE  IInv'
<1>1. UNCHANGED <<status, taker, req, torn>> /\ overwritten \subseteq overwritten'
  BY DEF SetDeleted, SlaPasses, SweepMarks, SweepLogs, SweepStarts, SweepAborts, Blames, vars, row
<1>2. \A q \in Procs : <<"call", q>> \in stale => <<"call", q>> \in stale'
  BY DEF SetDeleted, SlaPasses, SweepMarks, SweepLogs, SweepStarts, SweepAborts, Ends, vars
<1>3. ASSUME NEW q \in Procs PROVE CallInv(q)'
  <2>1. req[q].pc # "free" => req[q] \in Call
    BY BusyHoldsCall
  <2>2. CASE deleted' = deleted
    BY <1>1, <1>2, <2>2 DEF IInv, CallInv, Knows
  <2>3. CASE deleted' # deleted
    <3>1. PICK r \in Rs : SetDeleted(r, TRUE) \/ SetDeleted(r, FALSE)
      BY <2>3 DEF SlaPasses, SweepMarks, SweepLogs, SweepStarts, SweepAborts, vars, row
    <3>2. \A s \in Rs : s # r => deleted'[s] = deleted[s]
      BY <3>1 DEF SetDeleted, TypeOK
    <3>3. req[q].pc # "free" /\ req[q].r = r => <<"call", q>> \in stale'
      <4>1. stale' = stale \cup Readers(r)
        BY <3>1 DEF SetDeleted
      <4>2. req[q].pc # "free" /\ req[q].r = r => <<"call", q>> \in Readers(r)
        BY DEF Readers, Busy, Free
      <4> QED BY <4>1, <4>2
    <3> QED BY <1>1, <1>2, <2>1, <3>2, <3>3 DEF IInv, CallInv, Knows, Call
  <2> QED BY <2>2, <2>3
<1>4. ASSUME NEW s \in Rs PROVE SweepInv(s)' /\ TimelineInv(s)'
  <2>1. SweepInv(s) /\ TimelineInv(s)
    BY DEF IInv
  <2>0. \A q \in Procs : WillTell(req[q]) => WillTell(req[q])'
    BY <1>1 DEF WillTell
  <2>2. SweepInv(s)'
    <3>1. CASE \E r \in Rs : SetDeleted(r, TRUE) \/ SetDeleted(r, FALSE) \/ SlaPasses(r)
      BY <2>1, <3>1 DEF SweepInv, SetDeleted, SlaPasses
    <3>2. ASSUME NEW r \in Rs, SweepMarks(r) PROVE SweepInv(s)'
      BY <2>1, <3>2 DEF SweepInv, SweepMarks, TypeOK
    <3>3. ASSUME NEW r \in Rs, SweepLogs(r) PROVE SweepInv(s)'
      BY <2>1, <3>3 DEF SweepInv, SweepLogs, Ends, TypeOK, Rest, row
    <3>4. CASE SweepStarts
      BY <2>1, <3>4 DEF SweepInv, SweepStarts, Selects, Rest, TypeOK, row
    <3>5. CASE SweepAborts \/ UNCHANGED vars
      BY <2>1, <3>5 DEF SweepInv, SweepAborts, Rest, vars, row
    <3> QED BY <3>1, <3>2, <3>3, <3>4, <3>5
  <2>3. CASE told' = told
    BY <1>1, <2>0, <2>1, <2>2, <2>3 DEF TimelineInv
  <2>4. CASE told' # told
    <3>1. PICK r \in Rs : SweepLogs(r) /\ told' = [told EXCEPT ![r] = sweep[r].old]
                          /\ Blames(<<"sweep", r>>, r)
      BY <2>4 DEF SetDeleted, SlaPasses, SweepMarks, SweepLogs, SweepStarts, SweepAborts, vars
    <3>2. CASE s = r
      <4>1. SweepInv(r) /\ sweep[r].pc = "log" /\ told'[r] = sweep[r].old
        BY <3>1 DEF IInv, SweepLogs, TypeOK
      <4>2. r \in overwritten' \/ status'[r] = sweep[r].old
        BY <1>1, <3>1, <4>1 DEF SweepInv, Blames
      <4>3. told'[r] = sweep[r].old
        BY <4>1
      <4> QED BY <2>2, <3>2, <4>2, <4>3 DEF TimelineInv
    <3>3. CASE s # r
      <4>1. told'[s] = told[s]
        BY <3>1, <3>3 DEF TypeOK
      <4> QED BY <1>1, <2>0, <2>1, <2>2, <4>1 DEF TimelineInv
    <3> QED BY <3>2, <3>3
  <2> QED BY <2>2, <2>3, <2>4
<1>5. TakerFollowsStatus' /\ (\A s \in Rs : status'[s] = None => taker'[s] = None /\ ~deleted'[s])
  BY <1>1 DEF IInv, TakerFollowsStatus, TypeOK, SetDeleted, SlaPasses, SweepMarks, SweepLogs,
     SweepStarts, SweepAborts, vars, row
<1> QED BY <1>3, <1>4, <1>5 DEF IInv

LEMMA NextIInv == TypeOK /\ IInv /\ [Next]_vars => IInv'
BY CreateIInv, ReadIInv, WriteIInv, EndsIInv, LogIInv, OthersIInv DEF Next, SweepStep

LEMMA Inductive == Spec => [](TypeOK /\ IInv)
BY InitTypeOK, NextTypeOK, InitIInv, NextIInv, PTL DEF Spec

-----------------------------------------------------------------------------
(* The properties *)

\* A request names its taker exactly as its status says, in every interleaving.
THEOREM TakerAgrees == Spec => []TakerFollowsStatus
BY Inductive, PTL DEF IInv

\* The timeline of a request ends with its status once no line is outstanding.
THEOREM TimelineTells == Spec => []TimelineAgrees
<1>1. TypeOK /\ IInv => TimelineAgrees
  <2> SUFFICES ASSUME TypeOK, IInv, NEW r \in Rs \ (overwritten \cup torn), told[r] # status[r]
               PROVE MidWrite(r)
    BY DEF TimelineAgrees
  <2>1. PICK p \in Procs : req[p].r = r /\ WillTell(req[p])
    BY DEF IInv, TimelineInv
  <2> QED BY <2>1 DEF MidWrite, At, Busy, Free, WillTell
<1> QED BY <1>1, Inductive, PTL

\* The row of a request changes status or taker only in create and in a Write.
LEMMA RowChanges ==
  ASSUME TypeOK, [Next]_vars, NEW r \in Rs, status[r] # None,
         status'[r] # status[r] \/ taker'[r] # taker[r]
  PROVE  \E p \in Procs : Write(p) /\ req[p].r = r /\ SetsStatus(req[p].op)
                          /\ status'[r] = req[p].new /\ taker'[r] = TakerAfter(req[p])
<1>1. \A p \in Procs, u \in Users, s \in Rs : Create(p, u, s) => s # r /\ UNCHANGED <<status[r], taker[r]>>
  BY DEF Create, TypeOK
<1>2. PICK p \in Procs : Write(p)
  BY <1>1 DEF Next, Recurs, Log, CallFails, Read, SetDeleted, SlaPasses, SweepStarts, SweepStep,
     SweepMarks, SweepLogs, SweepAborts, vars, row
<1>3. req[p] \in Call
  BY <1>2, BusyHoldsCall DEF Write, At, Busy, Free
<1>4. SetsStatus(req[p].op)
  BY <1>2 DEF Write
<1>5. req[p].r = r
  BY <1>2, <1>3, <1>4 DEF Write, TypeOK, Call
<1> QED BY <1>2, <1>3, <1>4, <1>5 DEF Write, TypeOK

\* Decided and deleted requests rest, but for acts on an old read and the
\* completion of a task.
THEOREM DecisionsStand == Spec => FinishedIsFinal
<1>1. TypeOK /\ IInv /\ [Next]_vars =>
        \A r \in Rs : (status[r] \in Done \/ deleted[r]) /\ status'[r] # status[r]
          => r \in overwritten' \/ (r \in Tasks /\ ~deleted[r] /\ status'[r] = "approved")
  <2> SUFFICES ASSUME TypeOK, IInv, [Next]_vars, NEW r \in Rs,
                      status[r] \in Done \/ deleted[r], status'[r] # status[r], r \notin overwritten',
                      status[r] # None
               PROVE  r \in Tasks /\ ~deleted[r] /\ status'[r] = "approved"
    BY NoneAssumption DEF IInv, Status
  <2>1. PICK p \in Procs : Write(p) /\ req[p].r = r /\ SetsStatus(req[p].op) /\ status'[r] = req[p].new
    BY RowChanges
  <2>2. req[p] \in Checked /\ req[p].op # "create" /\ status[r] = req[p].old /\ ~deleted[r]
    BY <2>1, WriteKnows DEF Knows
  <2>3. req[p].op = "complete"
    BY <2>1, <2>2 DEF Checked, Call, Operations, SetsStatus, ReviewMoves, ProgressMoves, Active, Done
  <2> QED BY <2>1, <2>2, <2>3 DEF Checked
<1>2. TypeOK /\ IInv /\ [Next]_vars => [\A r \in Rs :
        (status[r] \in Done \/ deleted[r]) /\ status'[r] # status[r]
          => r \in overwritten' \/ (r \in Tasks /\ ~deleted[r] /\ status'[r] = "approved")]_vars
  BY <1>1
<1> QED BY <1>2, Inductive, PTL DEF Spec, FinishedIsFinal

\* Nobody loses a request they hold to another taker.
THEOREM HoldersKeep == Spec => HoldsUntilReleased
<1>1. TypeOK /\ IInv /\ [Next]_vars =>
        \A r \in Rs : taker[r] # None /\ taker'[r] \notin {taker[r], None} => r \in overwritten'
  <2> SUFFICES ASSUME TypeOK, IInv, [Next]_vars, NEW r \in Rs, taker[r] # None,
                      taker'[r] \notin {taker[r], None}, r \notin overwritten'
               PROVE  FALSE
    OBVIOUS
  <2>1. status[r] # None
    BY DEF IInv
  <2>2. PICK p \in Procs : Write(p) /\ req[p].r = r /\ taker'[r] = TakerAfter(req[p])
    BY <2>1, RowChanges
  <2>3. req[p] \in Checked /\ status[r] = req[p].old
    BY <2>2, WriteKnows DEF Knows
  <2>4. req[p].op = "take"
    BY <2>2 DEF TakerAfter
  <2> QED BY <2>3, <2>4 DEF Checked, IInv, TakerFollowsStatus
<1>2. TypeOK /\ IInv /\ [Next]_vars => [\A r \in Rs :
        taker[r] # None /\ taker'[r] \notin {taker[r], None} => r \in overwritten']_vars
  BY <1>1
<1> QED BY <1>2, Inductive, PTL DEF Spec, HoldsUntilReleased

\* A decided request is escalated only by somebody who read it before.
THEOREM EscalationsAreCurrent == Spec => EscalatesOnlyActive
<1>1. TypeOK /\ IInv /\ [Next]_vars =>
        \A r \in Rs : status[r] \in Done /\ escalated'[r] /\ ~escalated[r] => r \in overwritten'
  <2> SUFFICES ASSUME TypeOK, IInv, [Next]_vars, NEW r \in Rs, status[r] \in Done,
                      escalated'[r], ~escalated[r], r \notin overwritten'
               PROVE  FALSE
    OBVIOUS
  <2>1. ASSUME NEW p \in Procs, NEW u \in Users, NEW s \in Rs, Create(p, u, s) PROVE FALSE
    BY <2>1, NoneAssumption DEF Create, TypeOK, Status
  <2>2. ASSUME NEW p \in Procs, Recurs(p) PROVE FALSE
    <3>1. req[p] \in Call /\ req[p].pc = "count"
      BY <2>2, BusyHoldsCall DEF Recurs, At, Busy, Free
    <3>2. req[p] \in Checked /\ (<<"call", p>> \in stale \/ Knows(req[p]))
      BY <3>1 DEF IInv, CallInv
    <3>3. req[p].r = r /\ <<"call", p>> \notin stale
      BY <2>2, <3>1 DEF Recurs, Blames, TypeOK, Call
    <3> QED BY <3>1, <3>2, <3>3 DEF Checked, Knows, Done
  <2>3. ASSUME NEW p \in Procs, Write(p) PROVE FALSE
    <3>1. req[p] \in Call /\ req[p] \in Checked /\ (req[p].r \in overwritten' \/ Knows(req[p]))
          /\ req[p].pc = "write"
      BY <2>3, WriteKnows
    <3>2. req[p].r = r /\ req[p].op = "escalate"
      BY <2>3, <3>1 DEF Write, TypeOK, Call
    <3> QED BY <3>1, <3>2 DEF Checked, Knows, Active, Done
  <2>4. ASSUME NEW s \in Rs, SweepMarks(s) PROVE FALSE
    <3>1. s = r /\ <<"sweep", r>> \notin stale /\ sweep[r].pc = "mark"
      BY <2>4 DEF SweepMarks, Blames, TypeOK
    <3>2. SweepInv(r)
      BY DEF IInv
    <3> QED BY <3>1, <3>2 DEF SweepInv, Active, Done
  <2> QED BY <2>1, <2>2, <2>3, <2>4
      DEF Next, Log, CallFails, Read, SetDeleted, SlaPasses, SweepStarts, SweepStep, SweepLogs,
          SweepAborts, vars, row
<1>2. TypeOK /\ IInv /\ [Next]_vars => [\A r \in Rs :
        status[r] \in Done /\ escalated'[r] /\ ~escalated[r] => r \in overwritten']_vars
  BY <1>1
<1> QED BY <1>2, Inductive, PTL DEF Spec, EscalatesOnlyActive
=============================================================================
