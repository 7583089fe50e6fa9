------------------------- MODULE SlaDeadlineProofs -------------------------
(***************************************************************************)
(* What advanceBusinessTime computes, for every calendar, creation, number *)
(* of hours and length of days and weeks: whenever the loop stands, the    *)
(* working hours behind the cursor and the remaining ones make up the      *)
(* hours to resolve; a deadline falls at the end of a working hour; and     *)
(* every round but the first uses an hour up or passes a holiday.          *)
(***************************************************************************)
EXTENDS SlaDeadline, FiniteSetTheorems, WellFoundedInduction, TLAPS

\* The hours there are.
Hour == [day : Nat, at : 0..Day - 1]

\* The hours a..b-1 of a day.
Block(day, a, b) == {[day |-> day, at |-> i] : i \in a..(b - 1)}

\* HoursAccounted with what makes it inductive: the cursor never stands
\* before the creation, and what lies between is finitely many hours.
Counted ==
  /\ ~Earlier(cursor, start)
  /\ IsFiniteSet(Worked(start, cursor))
  /\ HoursAccounted

IInv == TypeOK /\ Counted /\ EndsAtWork

-----------------------------------------------------------------------------
(* Facts about numbers and sets.                                           *)

\* Every set of natural numbers that is not empty has a least element.
LEMMA Least ==
  ASSUME NEW S \in SUBSET Nat, S # {}
  PROVE  \E i \in S : \A j \in S : i <= j
<1> DEFINE R == OpToRel(<, Nat)
<1>1. IsWellFoundedOn(R, Nat)
  BY NatLessThanWellFounded
<1>2. PICK i \in S : \A j \in S : ~(<<j, i>> \in R)
  <2> HIDE DEF R
  <2> QED BY <1>1, WFMin, Zenon
<1>3. \A j \in S : i <= j
  <2> SUFFICES ASSUME NEW j \in S PROVE i <= j
    OBVIOUS
  <2>1. <<j, i>> \notin R
    BY <1>2
  <2>2. ~(j < i)
    BY <2>1 DEF OpToRel
  <2> QED BY <2>2
<1> QED BY <1>3

\* A block of hours has as many elements as it has hours.
LEMMA BlockSize ==
  ASSUME NEW day, NEW a \in Nat, NEW b \in Nat, a <= b
  PROVE  /\ IsFiniteSet(Block(day, a, b))
         /\ Cardinality(Block(day, a, b)) = b - a
<1> DEFINE S == a..(b - 1)
           f == [i \in S |-> [day |-> day, at |-> i]]
<1>1. IsFiniteSet(S) /\ Cardinality(S) = b - a
  <2>1. b - 1 \in Int
    OBVIOUS
  <2>2. /\ IsFiniteSet(S)
        /\ Cardinality(S) = IF a > b - 1 THEN 0 ELSE (b - 1) - a + 1
    BY <2>1, FS_Interval
  <2> HIDE DEF S
  <2>3. (IF a > b - 1 THEN 0 ELSE (b - 1) - a + 1) = b - a
    OBVIOUS
  <2> QED BY <2>2, <2>3
<1>2. f \in Bijection(S, Block(day, a, b))
  <2>1. f \in [S -> Block(day, a, b)]
    BY DEF Block
  <2>2. ASSUME NEW i \in S, NEW j \in S, f[i] = f[j] PROVE i = j
    <3>1. f[i].at = i /\ f[j].at = j
      OBVIOUS
    <3> QED BY <2>2, <3>1
  <2>3. ASSUME NEW m \in Block(day, a, b) PROVE \E i \in S : f[i] = m
    BY DEF Block
  <2> QED BY <2>1, <2>2, <2>3 DEF Bijection, Injection, Surjection, IsInjective
<1>3. ExistsBijection(S, Block(day, a, b))
  BY <1>2 DEF ExistsBijection
<1> QED BY <1>1, <1>3, FS_Bijection

-----------------------------------------------------------------------------
(* Facts about the calendar of a state.                                    *)

\* The days that Worked looks at are those between the two moments.
LEMMA WorkedIs ==
  ASSUME NEW from \in Moment, NEW to \in Moment, NEW m
  PROVE  m \in Worked(from, to) <=>
           m \in Hour /\ Working(m) /\ ~Earlier(m, from) /\ Earlier(m, to)
<1>1. Day \in Nat
  BY DeadlineAssumption
<1>2. CASE m \in Hour
  <2>1. m.day \in Nat /\ from.day \in Nat /\ to.day \in Nat
    BY <1>2 DEF Hour, Moment
  <2>2. ~Earlier(m, from) /\ Earlier(m, to) => m.day \in from.day..to.day
    BY <2>1 DEF Earlier
  <2>3. m.day \in from.day..to.day => m \in [day : from.day..to.day, at : 0..Day - 1]
    BY <1>2 DEF Hour
  <2> QED BY <1>2, <2>2, <2>3 DEF Worked
<1>3. CASE m \notin Hour
  <2>1. m \notin [day : from.day..to.day, at : 0..Day - 1]
    BY <1>3 DEF Hour, Moment
  <2> QED BY <1>3, <2>1 DEF Worked
<1> QED BY <1>2, <1>3

\* Where nobody works between two moments, nothing is added.
LEMMA NothingBetween ==
  ASSUME NEW from \in Moment, NEW c \in Moment, NEW d \in Moment,
         ~Earlier(d, c),
         \A m \in Hour : Working(m) /\ ~Earlier(m, c) => ~Earlier(m, d)
  PROVE  Worked(from, d) = Worked(from, c)
<1>1. Day \in Nat
  BY DeadlineAssumption
<1>2. ASSUME NEW m \in Hour PROVE Earlier(m, c) => Earlier(m, d)
  BY <1>1, <1>2 DEF Hour, Moment, Earlier
<1>3. ASSUME NEW m PROVE m \in Worked(from, d) <=> m \in Worked(from, c)
  <2>1. m \in Worked(from, d) <=>
          m \in Hour /\ Working(m) /\ ~Earlier(m, from) /\ Earlier(m, d)
    BY WorkedIs
  <2>2. m \in Worked(from, c) <=>
          m \in Hour /\ Working(m) /\ ~Earlier(m, from) /\ Earlier(m, c)
    BY WorkedIs
  <2> QED BY <2>1, <2>2, <1>2
<1> QED BY <1>3

\* nextDayStart goes to a later day and passes no working hour of it or of
\* the days between.
LEMMA NextOpening ==
  ASSUME NEW c \in Moment, dayMap \in DayMaps
  PROVE  LET n == NextDayStart(c)
         IN  /\ n \in Moment /\ c.day < n.day
             /\ \A m \in Hour : Working(m) /\ c.day < m.day => ~Earlier(m, n)
<1> DEFINE n == NextDayStart(c)
           found == {i \in 1..Week : Opens(c.day + i)}
           first == CHOOSE i \in found : \A j \in found : i <= j
<1>0. Day \in Nat /\ Week \in Nat \ {0} /\ c.day \in Nat /\ c.at \in 0..Day
  BY DeadlineAssumption DEF Moment
<1>1. CASE found = {}
  <2>1. n = [day |-> c.day + 1, at |-> c.at]
    BY <1>1 DEF NextDayStart
  <2>2. ~Opens(c.day + 1)
    <3>1. 1 \in 1..Week
      BY <1>0
    <3> QED BY <1>1, <3>1
  <2>3. n \in Moment /\ c.day < n.day
    BY <2>1, <1>0 DEF Moment
  <2>4. ASSUME NEW m \in Hour, Working(m), c.day < m.day PROVE ~Earlier(m, n)
    <3>1. m.day \in Nat /\ m.day # c.day + 1
      BY <2>4, <2>2 DEF Hour, Working, Works
    <3> QED BY <3>1, <2>1, <2>4, <1>0 DEF Earlier
  <2> QED BY <2>3, <2>4
<1>2. CASE found # {}
  <2>1. first \in found /\ \A j \in found : first <= j
    <3>1. found \in SUBSET Nat
      BY <1>0
    <3>2. \E i \in found : \A j \in found : i <= j
      BY <3>1, <1>2, Least
    <3> QED BY <3>2
  <2> DEFINE day == c.day + first
  <2>2. first \in 1..Week /\ Opens(day)
    BY <2>1
  <2>3. n = [day |-> day, at |-> dayMap[Dow(day)].from]
    BY <1>2 DEF NextDayStart
  <2>4. dayMap[Dow(day)] \in Hours
    BY <2>2 DEF DayMaps, Opens
  <2>5. dayMap[Dow(day)].from \in 0..Day
    BY <2>4 DEF Hours
  <2>6. n \in Moment /\ c.day < n.day
    <3>1. day \in Nat /\ c.day < day
      BY <2>2, <1>0
    <3> QED BY <2>3, <2>5, <3>1 DEF Moment
  <2>7. ASSUME NEW m \in Hour, Working(m), c.day < m.day PROVE ~Earlier(m, n)
    <3>1. m.day \in Nat /\ m.at \in 0..Day - 1 /\ Opens(m.day)
      BY <2>7 DEF Hour, Working, Works
    <3>2. ~(m.day < day)
      <4>1. SUFFICES ASSUME m.day < day PROVE FALSE
        OBVIOUS
      <4> DEFINE i == m.day - c.day
      <4>2. i \in 1..Week /\ i < first /\ c.day + i = m.day
        BY <4>1, <3>1, <2>7, <2>2, <1>0
      <4>3. i \in found
        BY <4>2, <3>1
      <4> HIDE DEF i, found, first
      <4> QED BY <4>2, <4>3, <2>1, <2>2
    <3>3. m.day = day => ~(m.at < n.at)
      <4>1. m.day = day => dayMap[Dow(day)].from <= m.at
        BY <2>7 DEF Working
      <4>2. n.at = dayMap[Dow(day)].from
        BY <2>3
      <4> QED BY <4>1, <4>2, <2>5, <3>1
    <3>4. n.day = day
      BY <2>3
    <3> QED BY <3>2, <3>3, <3>4 DEF Earlier
  <2> QED BY <2>6, <2>7
<1> QED BY <1>1, <1>2

\* What an hour of today is worth: the working hours from the cursor up to
\* an hour that is not after closing.
LEMMA WorksToday ==
  ASSUME NEW from \in Moment, NEW c \in Moment, NEW b \in Nat,
         dayMap \in DayMaps, Works(c.day), ~Earlier(c, from),
         dayMap[Dow(c.day)].from <= c.at, c.at <= b, b <= dayMap[Dow(c.day)].to,
         IsFiniteSet(Worked(from, c))
  PROVE  LET d == [c EXCEPT !.at = b]
         IN  /\ d \in Moment
             /\ IsFiniteSet(Worked(from, d))
             /\ Cardinality(Worked(from, d)) = Cardinality(Worked(from, c)) + (b - c.at)
<1> DEFINE d == [c EXCEPT !.at = b]
           today == Block(c.day, c.at, b)
<1>0. Day \in Nat /\ c.day \in Nat /\ c.at \in 0..Day /\ c.at \in Nat
  BY DeadlineAssumption DEF Moment
<1>1. dayMap[Dow(c.day)] \in Hours
  BY DEF DayMaps, Opens, Works
<1>2. b <= Day /\ dayMap[Dow(c.day)].from \in Nat /\ dayMap[Dow(c.day)].to \in 0..Day
  BY <1>1, <1>0 DEF Hours
<1>3. d \in Moment /\ d.day = c.day /\ d.at = b
  BY <1>0, <1>2 DEF Moment
<1>4. ASSUME NEW m PROVE m \in Worked(from, d) <=> m \in Worked(from, c) \cup today
  <2>1. m \in Worked(from, d) <=>
          m \in Hour /\ Working(m) /\ ~Earlier(m, from) /\ Earlier(m, d)
    BY <1>3, WorkedIs
  <2>2. m \in Worked(from, c) <=>
          m \in Hour /\ Working(m) /\ ~Earlier(m, from) /\ Earlier(m, c)
    BY WorkedIs
  <2>3. m \in today <=> m \in Hour /\ m.day = c.day /\ c.at <= m.at /\ m.at < b
    <3>1. ASSUME m \in today
          PROVE  m \in Hour /\ m.day = c.day /\ c.at <= m.at /\ m.at < b
      <4>1. PICK i \in c.at..(b - 1) : m = [day |-> c.day, at |-> i]
        BY <3>1 DEF Block
      <4>2. i \in 0..Day - 1
        BY <1>0, <1>2
      <4> QED BY <4>1, <4>2, <1>0 DEF Hour
    <3>2. ASSUME m \in Hour, m.day = c.day, c.at <= m.at, m.at < b
          PROVE  m \in today
      <4>1. m = [day |-> c.day, at |-> m.at] /\ m.at \in Nat
        BY <3>2, <1>0 DEF Hour
      <4>2. m.at \in c.at..(b - 1)
        BY <4>1, <3>2, <1>0
      <4> QED BY <4>1, <4>2 DEF Block
    <3> QED BY <3>1, <3>2
  <2>4. ASSUME m \in Hour, m.day = c.day, c.at <= m.at, m.at < b
        PROVE  Working(m) /\ ~Earlier(m, from)
    <3>1. m.at \in Nat
      BY <2>4, <1>0 DEF Hour
    <3>2. Working(m)
      BY <2>4, <3>1, <1>0, <1>2 DEF Working
    <3>3. ~Earlier(m, from)
      BY <2>4, <3>1, <1>0 DEF Earlier, Moment
    <3> QED BY <3>2, <3>3
  <2>5. ASSUME m \in Hour
        PROVE  Earlier(m, d) <=>
                 Earlier(m, c) \/ (m.day = c.day /\ c.at <= m.at /\ m.at < b)
    <3>1. m.at \in Nat /\ m.day \in Nat
      BY <2>5, <1>0 DEF Hour
    <3> QED BY <3>1, <1>0, <1>3 DEF Earlier
  <2> QED BY <2>1, <2>2, <2>3, <2>4, <2>5
<1>5. Worked(from, d) = Worked(from, c) \cup today
  BY <1>4
<1>6. Worked(from, c) \cap today = {}
  <2> SUFFICES ASSUME NEW m \in Worked(from, c), m \in today PROVE FALSE
    OBVIOUS
  <2>1. Earlier(m, c)
    BY WorkedIs
  <2>2. PICK i \in c.at..(b - 1) : m = [day |-> c.day, at |-> i]
    BY DEF Block
  <2> QED BY <2>1, <2>2, <1>0 DEF Earlier
<1>7. IsFiniteSet(today) /\ Cardinality(today) = b - c.at
  BY <1>0, BlockSize
<1>8. /\ IsFiniteSet(Worked(from, c) \cup today)
      /\ Cardinality(Worked(from, c) \cup today) =
           Cardinality(Worked(from, c)) + Cardinality(today) - Cardinality({})
  BY <1>6, <1>7, FS_Union
<1>9. Cardinality({}) = 0 /\ Cardinality(Worked(from, c)) \in Nat
  BY FS_EmptySet, FS_CardinalityType
<1>10. Cardinality(Worked(from, d)) = Cardinality(Worked(from, c)) + (b - c.at)
  <2> DEFINE before == Cardinality(Worked(from, c))
             after == Cardinality(Worked(from, d))
  <2>1. after = before + (b - c.at) - 0
    BY <1>5, <1>7, <1>8, <1>9
  <2>2. before \in Nat /\ b - c.at \in Int
    BY <1>9, <1>0
  <2> HIDE DEF before, after
  <2>3. after = before + (b - c.at)
    BY <2>1, <2>2
  <2> QED BY <2>3 DEF before, after
<1> QED BY <1>3, <1>5, <1>8, <1>10

-----------------------------------------------------------------------------
(* The loop.                                                               *)

\* A round that leaves the calendar alone leaves what is worked by a moment.
LEMMA CalendarStands ==
  ASSUME UNCHANGED inputs
  PROVE  /\ Worked(start, cursor)' = Worked(start, cursor')
         /\ EndsAtWork' <=> (remaining' = 0 /\ hours > 0 =>
              Working([day |-> cursor'.day, at |-> cursor'.at - 1]))
<1>1. start' = start /\ hours' = hours /\ dayMap' = dayMap /\ holidays' = holidays
  BY DEF inputs
<1>2. Worked(start, cursor)' = Worked(start, cursor')
  BY <1>1 DEF Worked, Working, Works, Opens, Dow, Earlier
<1>3. EndsAtWork' <=> (remaining' = 0 /\ hours > 0 =>
        Working([day |-> cursor'.day, at |-> cursor'.at - 1]))
  BY <1>1 DEF EndsAtWork, Working, Works, Opens, Dow
<1> QED BY <1>2, <1>3

\* The round of the safeguard keeps the types of what it does not touch.
LEMMA RoundKeeps ==
  ASSUME TypeOK, Round, UNCHANGED inputs,
         cursor' \in Moment, remaining' \in 0..hours
  PROVE  TypeOK'
<1>1. start' = start /\ hours' = hours /\ dayMap' = dayMap /\ holidays' = holidays
  BY DEF inputs
<1>2. safeguard' \in 0..Safeguard
  BY DeadlineAssumption DEF TypeOK, Round
<1> QED BY <1>1, <1>2 DEF TypeOK

\* A round that passes no working hour and uses none up.
LEMMA Passes ==
  ASSUME IInv, Round, UNCHANGED <<inputs, remaining>>,
         cursor' \in Moment, ~Earlier(cursor', cursor),
         \A m \in Hour : Working(m) /\ ~Earlier(m, cursor) => ~Earlier(m, cursor')
  PROVE  IInv'
<1>1. TypeOK /\ Counted /\ UNCHANGED inputs /\ remaining' = remaining
  BY DEF IInv
<1>2. start \in Moment /\ cursor \in Moment /\ remaining \in 0..hours
  BY <1>1 DEF TypeOK
<1>3. TypeOK'
  BY <1>1, <1>2, RoundKeeps
<1>4. Worked(start, cursor)' = Worked(start, cursor)
  <2>1. Worked(start, cursor') = Worked(start, cursor)
    BY <1>2, NothingBetween
  <2> QED BY <2>1, <1>1, CalendarStands
<1>5. ~Earlier(cursor, start)'
  <2>1. start' = start /\ Day \in Nat
    BY <1>1, DeadlineAssumption DEF inputs
  <2>2. ~Earlier(cursor, start)
    BY <1>1 DEF Counted
  <2> QED BY <2>1, <2>2, <1>2 DEF Earlier, Moment
<1>6. Counted'
  <2>1. hours' = hours
    BY <1>1 DEF inputs
  <2> QED BY <1>1, <1>4, <1>5, <2>1 DEF Counted, HoursAccounted
<1>7. EndsAtWork'
  <2>1. remaining' > 0
    BY <1>1 DEF Round
  <2> QED BY <2>1, <1>1, CalendarStands
<1> QED BY <1>3, <1>6, <1>7 DEF IInv

\* The cursor goes from a moment of today to the opening of a later day.
LEMMA OpensLater ==
  ASSUME NEW c \in Moment, dayMap \in DayMaps,
         \A m \in Hour : Working(m) /\ m.day = c.day => Earlier(m, c)
  PROVE  LET n == NextDayStart(c)
         IN  /\ n \in Moment /\ ~Earlier(n, c)
             /\ \A m \in Hour : Working(m) /\ ~Earlier(m, c) => ~Earlier(m, n)
<1> DEFINE n == NextDayStart(c)
<1>1. /\ n \in Moment /\ c.day < n.day
      /\ \A m \in Hour : Working(m) /\ c.day < m.day => ~Earlier(m, n)
  BY NextOpening
<1>2. c.day \in Nat /\ n.day \in Nat
  BY <1>1 DEF Moment
<1> HIDE DEF n
<1>3. ~Earlier(n, c)
  BY <1>1, <1>2 DEF Earlier
<1>4. ASSUME NEW m \in Hour, Working(m), ~Earlier(m, c) PROVE ~Earlier(m, n)
  <2>1. m.day \in Nat /\ m.day # c.day
    BY <1>4 DEF Hour
  <2>2. c.day < m.day
    BY <2>1, <1>2, <1>4 DEF Earlier
  <2> QED BY <2>2, <1>1, <1>4
<1> QED BY <1>1, <1>3, <1>4 DEF n

\* What holds when the loop starts: no hour is behind the cursor.
LEMMA Starts == Init => IInv
<1> SUFFICES ASSUME Init PROVE IInv
  OBVIOUS
<1>1. TypeOK
  <2>1. start \in Moment /\ start.at < Day
    BY DeadlineAssumption DEF Init, Moment
  <2>2. hours \in Nat /\ holidays \subseteq Nat
    BY DeadlineAssumption DEF Init
  <2> QED BY <2>1, <2>2, DeadlineAssumption DEF Init, TypeOK
<1>2. cursor = start /\ remaining = hours
  BY DEF Init
<1>3. start \in Moment /\ hours \in Nat /\ Day \in Nat
  BY <1>1, DeadlineAssumption DEF TypeOK
<1>4. ~Earlier(cursor, start)
  BY <1>2, <1>3 DEF Earlier, Moment
<1>5. Worked(start, cursor) = {}
  BY <1>2 DEF Worked
<1>6. Counted
  <2>1. IsFiniteSet({}) /\ Cardinality({}) = 0
    BY FS_EmptySet
  <2> QED BY <2>1, <1>2, <1>3, <1>4, <1>5 DEF Counted, HoursAccounted
<1>7. EndsAtWork
  BY <1>2, <1>3 DEF EndsAtWork
<1> QED BY <1>1, <1>6, <1>7 DEF IInv

\* What a round does to it, action by action.
LEMMA Goes == IInv /\ [Next]_vars => IInv'
<1> SUFFICES ASSUME IInv, [Next]_vars PROVE IInv'
  OBVIOUS
<1>0. /\ TypeOK /\ Counted /\ Day \in Nat
      /\ start \in Moment /\ cursor \in Moment /\ dayMap \in DayMaps
      /\ remaining \in 0..hours /\ hours \in Nat
  BY DeadlineAssumption DEF IInv, TypeOK
<1>1. CASE SkipsDay
  <2>1. Round /\ UNCHANGED <<inputs, remaining>> /\ cursor' = NextDayStart(cursor)
    BY <1>1 DEF SkipsDay
  <2>2. \A m \in Hour : Working(m) /\ m.day = cursor.day => Earlier(m, cursor)
    BY <1>1 DEF SkipsDay, Working
  <2> QED BY <2>1, <2>2, <1>0, OpensLater, Passes
<1>2. CASE AwaitsOpening
  <2>1. /\ Round /\ UNCHANGED <<inputs, remaining>> /\ Works(cursor.day)
        /\ cursor.at < Opening /\ cursor' = [cursor EXCEPT !.at = Opening]
    BY <1>2 DEF AwaitsOpening
  <2>2. Opening \in 0..Day
    BY <2>1, <1>0 DEF Opening, Works, Opens, DayMaps, Hours
  <2>3. /\ cursor.day \in Nat /\ cursor.at \in 0..Day
        /\ cursor'.day = cursor.day /\ cursor'.at = Opening /\ cursor' \in Moment
    BY <2>1, <2>2, <1>0 DEF Moment
  <2>4. ~Earlier(cursor', cursor)
    BY <2>1, <2>2, <2>3, <1>0 DEF Earlier
  <2>5. ASSUME NEW m \in Hour, Working(m), ~Earlier(m, cursor)
        PROVE  ~Earlier(m, cursor')
    <3>1. m.day \in Nat /\ m.at \in Nat
      BY <2>5, <1>0 DEF Hour
    <3>2. m.day = cursor.day => Opening <= m.at
      BY <2>5 DEF Working, Opening
    <3> QED BY <3>1, <3>2, <2>2, <2>3, <2>5, <1>0 DEF Earlier
  <2> QED BY <2>1, <2>3, <2>4, <2>5, Passes
<1>3. CASE ComesLate
  <2>1. /\ Round /\ UNCHANGED <<inputs, remaining>> /\ cursor' = NextDayStart(cursor)
        /\ Works(cursor.day) /\ cursor.at >= Closing
    BY <1>3 DEF ComesLate
  <2>2. Closing \in 0..Day
    BY <2>1, <1>0 DEF Closing, Works, Opens, DayMaps, Hours
  <2>3. ASSUME NEW m \in Hour, Working(m), m.day = cursor.day
        PROVE  Earlier(m, cursor)
    <3>1. m.at \in Nat /\ cursor.at \in Nat
      BY <2>3, <1>0 DEF Hour, Moment
    <3>2. m.at < Closing
      BY <2>3 DEF Working, Closing
    <3> QED BY <3>1, <3>2, <2>1, <2>2, <2>3 DEF Earlier
  <2> QED BY <2>1, <2>3, <1>0, OpensLater, Passes
<1>4. CASE EndsToday \/ UsesDay
  <2> DEFINE b == IF EndsToday THEN cursor.at + remaining ELSE Closing
             d == [cursor EXCEPT !.at = b]
  <2>1. /\ Round /\ UNCHANGED inputs /\ Works(cursor.day)
        /\ Opening <= cursor.at /\ cursor.at < Closing
    BY <1>4 DEF EndsToday, UsesDay
  <2>2. /\ Opening \in 0..Day /\ Closing \in 0..Day /\ remaining \in Nat
        /\ cursor.at \in Nat /\ cursor.day \in Nat
    BY <2>1, <1>0 DEF Opening, Closing, Works, Opens, DayMaps, Hours, Moment
  <2>3. b \in Nat /\ cursor.at <= b /\ b <= Closing
    BY <1>4, <2>1, <2>2 DEF EndsToday, UsesDay, Fits, Available
  <2>4. remaining' = remaining - (b - cursor.at) /\ remaining' \in 0..hours
    BY <1>4, <2>1, <2>2, <1>0 DEF EndsToday, UsesDay, Fits, Available, Round
  <2>5. ~Earlier(cursor, start) /\ IsFiniteSet(Worked(start, cursor))
    BY <1>0 DEF Counted
  <2>6. /\ d \in Moment
        /\ IsFiniteSet(Worked(start, d))
        /\ Cardinality(Worked(start, d)) =
             Cardinality(Worked(start, cursor)) + (b - cursor.at)
    <3> HIDE DEF b
    <3> QED BY <2>1, <2>3, <2>5, <1>0, WorksToday DEF Opening, Closing
  <2>7. d.day = cursor.day /\ d.at = b
    BY <1>0, <2>2 DEF Moment
  <2>8. /\ cursor' \in Moment /\ ~Earlier(cursor', cursor)
        /\ Worked(start, cursor') = Worked(start, d)
    <3>1. CASE EndsToday
      <4>1. cursor' = d
        BY <3>1 DEF EndsToday
      <4> QED BY <4>1, <2>2, <2>3, <2>6, <2>7 DEF Earlier
    <3>2. CASE ~EndsToday
      <4>1. cursor' = NextDayStart(cursor) /\ b = Closing
        BY <3>2, <1>4 DEF UsesDay
      <4>2. /\ cursor' \in Moment /\ cursor.day < cursor'.day
            /\ \A m \in Hour : Working(m) /\ cursor.day < m.day => ~Earlier(m, cursor')
        BY <4>1, <1>0, NextOpening
      <4>3. cursor'.day \in Nat
        BY <4>2 DEF Moment
      <4>4. ~Earlier(cursor', cursor) /\ ~Earlier(cursor', d)
        BY <4>2, <4>3, <2>2, <2>7 DEF Earlier
      <4>5. ASSUME NEW m \in Hour, Working(m), ~Earlier(m, d)
            PROVE  ~Earlier(m, cursor')
        <5>1. m.day \in Nat /\ m.at \in Nat
          BY <4>5, <1>0 DEF Hour
        <5>2. m.day = cursor.day => m.at < Closing
          BY <4>5 DEF Working, Closing
        <5>3. cursor.day < m.day
          BY <5>1, <5>2, <4>1, <4>5, <2>2, <2>7 DEF Earlier
        <5> QED BY <5>3, <4>2, <4>5
      <4>6. Worked(start, cursor') = Worked(start, d)
        <5> HIDE DEF d
        <5> QED BY <4>2, <4>4, <4>5, <2>6, <1>0, NothingBetween
      <4> QED BY <4>2, <4>4, <4>6
    <3> QED BY <3>1, <3>2
  <2>9. TypeOK'
    BY <2>1, <2>4, <2>8, <1>0, RoundKeeps
  <2>10. ~Earlier(cursor, start)'
    <3>1. start' = start
      BY <2>1 DEF inputs
    <3> QED BY <3>1, <2>5, <2>8, <1>0 DEF Earlier, Moment
  <2>11. Counted'
    <3>1. Worked(start, cursor)' = Worked(start, d)
      BY <2>1, <2>8, CalendarStands
    <3>2. hours' = hours
      BY <2>1 DEF inputs
    <3>3. Cardinality(Worked(start, cursor)) \in Nat
      BY <2>5, FS_CardinalityType
    <3>4. Cardinality(Worked(start, cursor)) + remaining = hours
      BY <1>0 DEF Counted, HoursAccounted
    <3>5. Cardinality(Worked(start, d)) + remaining' = hours
      <4> DEFINE before == Cardinality(Worked(start, cursor))
                 after == Cardinality(Worked(start, d))
                 spent == b - cursor.at
      <4>1. /\ before \in Nat /\ before + remaining = hours
            /\ after = before + spent /\ remaining' = remaining - spent
        BY <3>3, <3>4, <2>4, <2>6
      <4>2. spent \in Int /\ remaining \in Int
        <5> HIDE DEF b
        <5> QED BY <2>2, <2>3
      <4> HIDE DEF before, after, spent
      <4>3. after + remaining' = hours
        BY <4>1, <4>2
      <4> QED BY <4>3 DEF before, after
    <3> HIDE DEF b, d
    <3> QED BY <3>1, <3>2, <3>5, <2>6, <2>10 DEF Counted, HoursAccounted
  <2>12. EndsAtWork'
    <3>1. SUFFICES ASSUME remaining' = 0
                   PROVE  Working([day |-> cursor'.day, at |-> cursor'.at - 1])
      BY <2>1, CalendarStands
    <3>2. EndsToday
      BY <3>1, <1>4, <2>2, <2>1 DEF UsesDay, Fits, Available
    <3>3. cursor' = d /\ b = cursor.at + remaining /\ remaining > 0
      BY <3>2, <2>1 DEF EndsToday, Round
    <3>4. Opening <= b - 1 /\ b - 1 < Closing
      BY <3>3, <2>1, <2>2, <2>3
    <3>5. cursor'.day = cursor.day /\ cursor'.at = b
      BY <3>3, <2>7
    <3> HIDE DEF b, d
    <3> QED BY <3>4, <3>5, <2>1 DEF Working, Opening, Closing
  <2> QED BY <2>9, <2>11, <2>12 DEF IInv
<1>5. CASE UNCHANGED vars
  <2>1. UNCHANGED <<start, hours, dayMap, holidays, cursor, remaining, safeguard>>
    BY <1>5 DEF vars, inputs
  <2> QED BY <2>1 DEF IInv, TypeOK, Counted, HoursAccounted, EndsAtWork, Worked,
                      Working, Works, Opens, Dow, Earlier
<1> QED BY <1>1, <1>2, <1>3, <1>4, <1>5 DEF Next

LEMMA Always == Spec => []IInv
<1>1. Init => IInv
  BY Starts
<1>2. IInv /\ [Next]_vars => IInv'
  BY Goes
<1> QED BY <1>1, <1>2, PTL DEF Spec

-----------------------------------------------------------------------------
(* How often the loop goes round.                                          *)

\* The holidays the cursor has left behind, and the cursor at an opening.
Between(H, a, b) == {h \in H : a <= h /\ h < b}
Passed == Between(holidays, start.day, cursor.day)
AtOpening == Opens(cursor.day) /\ cursor.at = Opening

\* RoundsBounded with what makes it inductive: from the first round on the
\* cursor stands at an opening, so that the next round meets a holiday there
\* or the first hour of a working day.
Bounded ==
  /\ IsFiniteSet(holidays)
  /\ start.day <= cursor.day
  /\ safeguard = 0 \/ remaining = 0 \/ AtOpening
  /\ safeguard <= (hours - remaining) + Cardinality(Passed) + 1

\* Every day of the week comes within a week.
LEMMA ComesRound ==
  ASSUME NEW day \in Nat, NEW w \in 0..Week - 1
  PROVE  \E i \in 1..Week : Dow(day + i) = w
<1>0. Week \in Nat \ {0}
  BY DeadlineAssumption
<1> DEFINE r == day % Week
           q == day \div Week
<1>1. r \in 0..Week - 1 /\ q \in Nat /\ day = Week * q + r
  BY <1>0
<1> HIDE DEF r, q
<1>2. CASE w > r
  <2>1. day + (w - r) = Week * q + w /\ w - r \in 1..Week
    BY <1>0, <1>1, <1>2
  <2>2. (Week * q + w) % Week = w
    BY <1>0, <1>1
  <2> QED BY <2>1, <2>2 DEF Dow
<1>3. CASE w <= r
  <2>1. w - r + Week \in 1..Week
    BY <1>0, <1>1, <1>3
  <2>2. day + (w - r + Week) = Week * (q + 1) + w
    BY <1>0, <1>1
  <2>3. (Week * (q + 1) + w) % Week = w
    BY <1>0, <1>1
  <2> QED BY <2>1, <2>2, <2>3 DEF Dow
<1> QED BY <1>0, <1>1, <1>2, <1>3

\* nextDayStart finds a day with opening hours and stands at its opening.
LEMMA OpensThere ==
  ASSUME NEW c \in Moment, dayMap \in DayMaps
  PROVE  LET n == NextDayStart(c)
         IN  Opens(n.day) /\ n.at = dayMap[Dow(n.day)].from
<1> DEFINE n == NextDayStart(c)
           found == {i \in 1..Week : Opens(c.day + i)}
           first == CHOOSE i \in found : \A j \in found : i <= j
<1>0. Week \in Nat \ {0} /\ c.day \in Nat
  BY DeadlineAssumption DEF Moment
<1>1. found # {}
  <2>1. PICK w \in DOMAIN dayMap : w \in 0..Week - 1
    BY DEF DayMaps
  <2>2. PICK i \in 1..Week : Dow(c.day + i) = w
    BY <1>0, <2>1, ComesRound
  <2>3. i \in found
    BY <2>1, <2>2 DEF Opens
  <2> QED BY <2>3
<1>2. first \in found
  <2>1. found \in SUBSET Nat
    BY <1>0
  <2>2. \E i \in found : \A j \in found : i <= j
    BY <2>1, <1>1, Least
  <2> QED BY <2>2
<1>3. n = [day |-> c.day + first, at |-> dayMap[Dow(c.day + first)].from]
  BY <1>1 DEF NextDayStart
<1>4. Opens(c.day + first)
  BY <1>2
<1> HIDE DEF first, found
<1> QED BY <1>3, <1>4

\* The holidays behind the cursor stay behind it, and are never more than
\* there are; one that the cursor leaves is one more.
LEMMA Leaves ==
  ASSUME NEW H \in SUBSET Nat, IsFiniteSet(H),
         NEW a \in Nat, NEW b \in Nat, NEW c \in Nat, a <= b, b <= c
  PROVE  LET P(d) == Between(H, a, d)
         IN  /\ Cardinality(P(b)) \in Nat /\ Cardinality(P(c)) \in Nat
             /\ Cardinality(P(b)) <= Cardinality(P(c))
             /\ Cardinality(P(c)) <= Cardinality(H)
             /\ b \in H /\ b < c => Cardinality(P(b)) + 1 <= Cardinality(P(c))
<1> DEFINE P(d) == Between(H, a, d)
<1>1. P(b) \subseteq P(c) /\ P(c) \subseteq H
  <2>1. ASSUME NEW h \in H, a <= h, h < b PROVE h < c
    BY <2>1
  <2> QED BY <2>1 DEF Between
<1>2. IsFiniteSet(P(c)) /\ Cardinality(P(c)) <= Cardinality(H)
  BY <1>1, FS_Subset
<1>3. IsFiniteSet(P(b)) /\ Cardinality(P(b)) <= Cardinality(P(c))
  BY <1>1, <1>2, FS_Subset
<1>4. Cardinality(P(b)) \in Nat /\ Cardinality(P(c)) \in Nat
  BY <1>2, <1>3, FS_CardinalityType
<1>5. ASSUME b \in H, b < c
      PROVE  Cardinality(P(b)) + 1 <= Cardinality(P(c))
  <2>1. b \notin P(b)
    BY DEF Between
  <2>2. Cardinality(P(b) \cup {b}) = Cardinality(P(b)) + 1
    BY <2>1, <1>3, FS_AddElement
  <2>3. P(b) \cup {b} \subseteq P(c)
    BY <1>1, <1>5 DEF Between
  <2>4. Cardinality(P(b) \cup {b}) <= Cardinality(P(c))
    BY <2>3, <1>2, FS_Subset
  <2> QED BY <2>2, <2>4
<1> QED BY <1>2, <1>3, <1>4, <1>5

\* The numbers of a round: what it uses up, or the holiday it passes, pays
\* for it; only the first need not be paid for.
LEMMA Pays ==
  ASSUME NEW s \in Nat, NEW h \in Nat, NEW r \in 0..h, NEW rr \in 0..h,
         NEW p \in Nat, NEW pp \in Nat,
         s <= (h - r) + p + 1, rr <= r, p <= pp,
         s = 0 \/ rr < r \/ p + 1 <= pp
  PROVE  s + 1 <= (h - rr) + pp + 1
OBVIOUS

LEMMA BoundedGoes == IInv /\ Bounded /\ [Next]_vars => Bounded'
<1> SUFFICES ASSUME IInv, Bounded, [Next]_vars PROVE Bounded'
  OBVIOUS
<1>0. /\ TypeOK /\ Day \in Nat
      /\ start \in Moment /\ cursor \in Moment /\ dayMap \in DayMaps
      /\ remaining \in 0..hours /\ hours \in Nat /\ safeguard \in Nat
      /\ holidays \in SUBSET Nat
  BY DeadlineAssumption DEF IInv, TypeOK
<1>1. CASE Next
  <2>1. Round /\ UNCHANGED <<start, hours, dayMap, holidays>>
    BY <1>1 DEF Next, SkipsDay, AwaitsOpening, ComesLate, EndsToday, UsesDay, inputs
  <2>2. TypeOK'
    BY <1>0, Goes DEF IInv
  <2>3. remaining' \in 0..hours /\ cursor' \in Moment /\ remaining' <= remaining
    <3>1. CASE remaining' = remaining
      BY <3>1, <2>1, <2>2, <1>0 DEF TypeOK
    <3>2. CASE EndsToday
      BY <3>2, <2>1, <2>2, <1>0 DEF TypeOK, EndsToday
    <3>3. CASE UsesDay
      <4>1. Closing \in 0..Day /\ cursor.at \in 0..Day /\ cursor.at < Closing
        BY <3>3, <1>0 DEF UsesDay, Closing, Works, Opens, DayMaps, Hours, Moment
      <4> QED BY <4>1, <3>3, <2>1, <2>2, <1>0 DEF TypeOK, UsesDay, Available
    <3> QED BY <3>1, <3>2, <3>3, <1>1
            DEF Next, SkipsDay, AwaitsOpening, ComesLate
  <2>4. cursor.day <= cursor'.day /\ (cursor' = NextDayStart(cursor) => cursor.day < cursor'.day)
    <3>1. CASE cursor' = NextDayStart(cursor)
      <4>1. cursor.day < cursor'.day
        BY <3>1, <1>0, NextOpening
      <4> QED BY <4>1, <1>0, <2>3 DEF Moment
    <3>2. CASE cursor' # NextDayStart(cursor)
      <4>1. cursor'.day = cursor.day
        BY <3>2, <1>1, <1>0
           DEF Next, SkipsDay, AwaitsOpening, ComesLate, EndsToday, UsesDay, Moment
      <4> QED BY <4>1, <3>2, <1>0 DEF Moment
    <3> QED BY <3>1, <3>2
  <2>5. remaining' = 0 \/ AtOpening'
    <3>1. CASE cursor' = NextDayStart(cursor)
      <4>1. Opens(cursor'.day) /\ cursor'.at = dayMap[Dow(cursor'.day)].from
        BY <3>1, <1>0, OpensThere
      <4> QED BY <4>1, <2>1 DEF AtOpening, Opens, Dow, Opening
    <3>2. CASE AwaitsOpening
      <4>1. cursor'.day = cursor.day /\ cursor'.at = Opening /\ Opens(cursor.day)
        BY <3>2, <1>0 DEF AwaitsOpening, Works, Moment
      <4> QED BY <4>1, <2>1 DEF AtOpening, Opens, Dow, Opening
    <3>3. CASE EndsToday
      BY <3>3 DEF EndsToday
    <3> QED BY <3>1, <3>2, <3>3, <1>1 DEF Next, SkipsDay, ComesLate, UsesDay
  <2>6. safeguard = 0 \/ remaining' < remaining
          \/ (cursor.day \in holidays /\ cursor.day < cursor'.day)
    <3>1. SUFFICES ASSUME AtOpening
                   PROVE  remaining' < remaining
                            \/ (cursor.day \in holidays /\ cursor.day < cursor'.day)
      BY <2>1, <1>0 DEF Bounded, Round
    <3>2. Opens(cursor.day) /\ cursor.at = Opening /\ Opening \in Nat
          /\ Closing \in Nat /\ Opening < Closing
      BY <3>1, <1>0 DEF AtOpening, Opening, Closing, Opens, DayMaps, Hours
    <3>3. CASE SkipsDay
      BY <3>2, <3>3, <2>4 DEF SkipsDay, Works
    <3>4. CASE EndsToday
      BY <3>4, <2>1, <1>0 DEF EndsToday, Round
    <3>5. CASE UsesDay
      BY <3>5, <3>2, <1>0 DEF UsesDay, Available
    <3> QED BY <3>2, <3>3, <3>4, <3>5, <1>1 DEF Next, AwaitsOpening, ComesLate
  <2>7. /\ start.day \in Nat /\ cursor.day \in Nat /\ cursor'.day \in Nat
        /\ start.day <= cursor.day
    BY <1>0, <2>3 DEF Moment, Bounded
  <2>8. Passed' = Between(holidays, start.day, cursor'.day)
    BY <2>1 DEF Passed, Between
  <2>9. /\ Cardinality(Passed) \in Nat /\ Cardinality(Passed') \in Nat
        /\ Cardinality(Passed) <= Cardinality(Passed')
        /\ cursor.day \in holidays /\ cursor.day < cursor'.day
             => Cardinality(Passed) + 1 <= Cardinality(Passed')
    <3>1. IsFiniteSet(holidays)
      BY DEF Bounded
    <3> QED BY <3>1, <2>4, <2>7, <2>8, <1>0, Leaves DEF Passed
  <2>10. safeguard + 1 <= (hours - remaining') + Cardinality(Passed') + 1
    <3>1. safeguard <= (hours - remaining) + Cardinality(Passed) + 1
      BY DEF Bounded
    <3>2. \/ safeguard = 0 \/ remaining' < remaining
          \/ Cardinality(Passed) + 1 <= Cardinality(Passed')
      BY <2>6, <2>9
    <3> QED BY <3>1, <3>2, <2>3, <2>9, <1>0, Pays
  <2>11. start.day <= cursor'.day
    BY <2>4, <2>7
  <2> QED BY <2>1, <2>5, <2>10, <2>11 DEF Bounded, Round
<1>2. CASE UNCHANGED vars
  BY <1>2 DEF vars, inputs, Bounded, Passed, Between, AtOpening, Opens, Dow, Opening
<1> QED BY <1>1, <1>2

LEMMA AlwaysBounded == Spec => []Bounded
<1>1. Init => Bounded
  <2> SUFFICES ASSUME Init PROVE Bounded
    OBVIOUS
  <2>1. IsFiniteSet(holidays)
    <3>1. 0 \in Int /\ LastDay \in Int
      BY DeadlineAssumption
    <3>2. IsFiniteSet(0..LastDay)
      BY <3>1, FS_Interval
    <3>3. holidays \subseteq 0..LastDay
      BY DEF Init
    <3> QED BY <3>2, <3>3, FS_Subset
  <2>2. start.day \in Nat /\ cursor = start
    BY DeadlineAssumption DEF Init
  <2>3. hours \in Nat /\ remaining = hours /\ safeguard = 0
    BY DeadlineAssumption DEF Init
  <2>4. Cardinality(Passed) \in Nat
    <3>1. Passed \subseteq holidays
      BY DEF Passed, Between
    <3>2. IsFiniteSet(Passed)
      BY <3>1, <2>1, FS_Subset
    <3> QED BY <3>2, FS_CardinalityType
  <2> QED BY <2>1, <2>2, <2>3, <2>4 DEF Bounded
<1>2. IInv /\ Bounded /\ [Next]_vars => Bounded'
  BY BoundedGoes
<1> QED BY <1>1, <1>2, Always, PTL DEF Spec

-----------------------------------------------------------------------------
\* Every variable of advanceBusinessTime keeps its type, whatever the
\* calendar and the hours.
THEOREM TypeCorrect == Spec => []TypeOK
<1>1. IInv => TypeOK
  BY DEF IInv
<1> QED BY <1>1, Always, PTL

\* advanceBusinessTime neither loses nor counts twice a working hour,
\* whatever nights, weekends and holidays lie on its way.
THEOREM HoursAreAccounted == Spec => []HoursAccounted
<1>1. IInv => HoursAccounted
  BY DEF IInv, Counted
<1> QED BY <1>1, Always, PTL

\* The deadline advanceBusinessTime returns is the end of a working hour:
\* no earlier moment has the hours to resolve before it.
THEOREM DeadlinesEndAtWork == Spec => []EndsAtWork
<1>1. IInv => EndsAtWork
  BY DEF IInv
<1> QED BY <1>1, Always, PTL

\* Every round of advanceBusinessTime but the first uses a working hour up or
\* passes a holiday: the safeguard is never met by a calendar that is closed
\* for long, only by as many hours and holidays as it has rounds.
THEOREM RoundsAreBounded == Spec => []RoundsBounded
<1>1. IInv /\ Bounded => RoundsBounded
  <2> SUFFICES ASSUME IInv, Bounded PROVE RoundsBounded
    OBVIOUS
  <2>1. safeguard \in Nat /\ hours \in Nat /\ remaining \in 0..hours
    BY DeadlineAssumption DEF IInv, TypeOK
  <2>2. IsFiniteSet(holidays)
    BY DEF Bounded
  <2>3. Passed \subseteq holidays
    BY DEF Passed, Between
  <2>4. IsFiniteSet(Passed) /\ Cardinality(Passed) <= Cardinality(holidays)
    BY <2>2, <2>3, FS_Subset
  <2>5. Cardinality(Passed) \in Nat /\ Cardinality(holidays) \in Nat
    BY <2>2, <2>4, FS_CardinalityType
  <2>6. safeguard <= (hours - remaining) + Cardinality(Passed) + 1
    BY DEF Bounded
  <2> QED BY <2>1, <2>4, <2>5, <2>6 DEF RoundsBounded
<1> QED BY <1>1, Always, AlwaysBounded, PTL

\* The loop ends by its safeguard.
GivesUp == safeguard = Safeguard /\ remaining > 0

\* Where hours and holidays together stay below the 400 rounds, the loop is
\* never ended by the safeguard with hours still to pass: what it returns is
\* the deadline, however long the office is closed.
THEOREM NeverGivesUp == Spec => [](hours + Cardinality(holidays) < Safeguard => ~GivesUp)
<1>1. IInv /\ Bounded /\ RoundsBounded
        => (hours + Cardinality(holidays) < Safeguard => ~GivesUp)
  <2> SUFFICES ASSUME IInv, Bounded, RoundsBounded PROVE
                 hours + Cardinality(holidays) < Safeguard => ~GivesUp
    OBVIOUS
  <2>1. Cardinality(holidays) \in Nat
    BY FS_CardinalityType DEF Bounded
  <2>2. hours \in Nat /\ remaining \in 0..hours /\ safeguard \in Nat
    BY DeadlineAssumption DEF IInv, TypeOK
  <2> QED BY <2>1, <2>2, DeadlineAssumption DEF RoundsBounded, GivesUp
<1> QED BY <1>1, Always, AlwaysBounded, RoundsAreBounded, PTL
=============================================================================
