--------------------------- MODULE MCSlaDeadline ---------------------------
(* Small instances of SlaDeadline: short days and short weeks.            *)
EXTENDS SlaDeadline, TLC
=============================================================================
