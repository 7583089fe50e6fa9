---------------------------- MODULE SlaDeadline ----------------------------
(***************************************************************************)
(* SlaEvaluatorService.advanceBusinessTime: the deadline of a ticket or a  *)
(* request is so many working hours after its creation.  The loop walks    *)
(* from opening to opening; one action is one way round the loop.          *)
(*                                                                         *)
(* A moment is a day and an hour of that day in the organisation's time    *)
(* zone; every day has the same number of hours (no change of the clocks). *)
(***************************************************************************)
EXTENDS Integers, FiniteSets

CONSTANTS
  Week,      \* days of a week, 7 in the code
  Day,       \* hours of a day, 24 in the code
  Safeguard, \* rounds after which the loop gives up, 400 in the code
  LastDay,   \* bound: days on which a ticket is created or a holiday falls
  MaxHours   \* bound: hours_to_resolve

ASSUME DeadlineAssumption ==
  /\ Week \in Nat \ {0} /\ Day \in Nat \ {0} /\ Safeguard \in Nat
  /\ LastDay \in Nat /\ MaxHours \in Nat

VARIABLES
  start, hours,     \* the creation and the hours to resolve
  dayMap,           \* opening hours of the days of the week that have any
  holidays,
  cursor, remaining, safeguard  \* the loop's own

inputs == <<start, hours, dayMap, holidays>>
vars == <<inputs, cursor, remaining, safeguard>>

Moment == [day : Nat, at : 0..Day]
Hours == {h \in [from : 0..Day, to : 0..Day] : h.from < h.to}
DayMaps == UNION {[D -> Hours] : D \in (SUBSET (0..Week - 1)) \ {{}}}

TypeOK ==
  /\ start \in Moment /\ start.at < Day
  /\ hours \in Nat
  /\ dayMap \in DayMaps /\ holidays \subseteq Nat
  /\ cursor \in Moment
  /\ remaining \in 0..hours
  /\ safeguard \in 0..Safeguard

Dow(day) == day % Week
Opens(day) == Dow(day) \in DOMAIN dayMap
Works(day) == Opens(day) /\ day \notin holidays

Init ==
  /\ start \in [day : 0..LastDay, at : 0..Day - 1]
  /\ hours \in 0..MaxHours
  /\ dayMap \in DayMaps
  /\ holidays \in SUBSET (0..LastDay)
  /\ cursor = start /\ remaining = hours /\ safeguard = 0

-----------------------------------------------------------------------------
TomorrowAtOnce(from) == [day |-> from.day + 1, at |-> from.at]

\* The opening of the next day that has opening hours, holiday or not.
NextDayStart(from) ==
  LET found == {i \in 1..Week : Opens(from.day + i)}
      first == CHOOSE i \in found : \A j \in found : i <= j
  IN  IF found = {} THEN [day |-> from.day + 1, at |-> from.at]
      ELSE [day |-> from.day + first, at |-> dayMap[Dow(from.day + first)].from]

Opening == dayMap[Dow(cursor.day)].from
Closing == dayMap[Dow(cursor.day)].to
Available == Closing - cursor.at

Round == remaining > 0 /\ safeguard < Safeguard /\ safeguard' = safeguard + 1

SkipsDay ==
  /\ Round /\ ~Works(cursor.day)
  /\ cursor' = NextDayStart(cursor)
  /\ UNCHANGED <<inputs, remaining>>

AwaitsOpening ==
  /\ Round /\ Works(cursor.day) /\ cursor.at < Opening
  /\ cursor' = [cursor EXCEPT !.at = Opening]
  /\ UNCHANGED <<inputs, remaining>>

ComesLate ==
  /\ Round /\ Works(cursor.day) /\ cursor.at >= Closing
  /\ cursor' = NextDayStart(cursor)
  /\ UNCHANGED <<inputs, remaining>>

FitsStrictly == remaining < Available
Fits == remaining <= Available

EndsToday ==
  /\ Round /\ Works(cursor.day) /\ Opening <= cursor.at /\ cursor.at < Closing
  /\ Fits
  /\ cursor' = [cursor EXCEPT !.at = @ + remaining]
  /\ remaining' = 0
  /\ UNCHANGED inputs

UsesDay ==
  /\ Round /\ Works(cursor.day) /\ Opening <= cursor.at /\ cursor.at < Closing
  /\ ~Fits
  /\ remaining' = remaining - Available
  /\ cursor' = NextDayStart(cursor)
  /\ UNCHANGED inputs

Next == SkipsDay \/ AwaitsOpening \/ ComesLate \/ EndsToday \/ UsesDay

Spec == Init /\ [][Next]_vars

-----------------------------------------------------------------------------
(* What a deadline is: so many working hours lie before it.                *)

Earlier(a, b) == a.day < b.day \/ (a.day = b.day /\ a.at < b.at)

Working(m) ==
  Works(m.day) /\ dayMap[Dow(m.day)].from <= m.at /\ m.at < dayMap[Dow(m.day)].to

Worked(from, to) ==
  {m \in [day : from.day..to.day, at : 0..Day - 1] :
     Working(m) /\ ~Earlier(m, from) /\ Earlier(m, to)}

\* However the loop has walked over nights, weekends and holidays, the
\* working hours passed and those still to pass make up the hours to resolve
\* (sla-evaluator.service.ts:277-303).
HoursAccounted == Cardinality(Worked(start, cursor)) + remaining = hours

\* A deadline is the earliest moment with these hours before it: it falls
\* at the end of a working hour, never after a night that follows one
\* (sla-evaluator.service.ts:296-298).
EndsAtWork ==
  (remaining = 0 /\ hours > 0) =>
    Working([day |-> cursor.day, at |-> cursor.at - 1])

\* Every round but the first uses a working hour up or passes a holiday, so
\* that the safeguard of 400 rounds bounds hours and holidays, not weeks
\* (sla-evaluator.service.ts:276-278).
RoundsBounded ==
  safeguard <= (hours - remaining) + Cardinality(holidays) + 1
=============================================================================
