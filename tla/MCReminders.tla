---------------------------- MODULE MCReminders ----------------------------
(* Small instances of Reminders: all meetings belong to one ticket and     *)
(* start within the same hour.                                             *)
EXTENDS Reminders, TLC
CONSTANTS m1, m2, u1, u2
OneHour == [m \in Meetings |-> Meetings]
=============================================================================
