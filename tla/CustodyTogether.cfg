\* Two calls at a time that may fail, every operation.
CONSTANTS
  Assets = {a1}
  Users = {u1, u2}
  Slots = {s1, s2}
  Ops = {"assign", "unassign", "transition", "delete", "trash", "legacy", "fail"}
  MaxAssigned = 2
SPECIFICATION Spec
INVARIANTS HeldIsMarked CustodyAgrees OneEach ReturnsAreTold
PROPERTIES RetiredStays
SYMMETRY Symmetry
CHECK_DEADLOCK FALSE
