\* One call at a time, no query fails: a transition out of asignado.
CONSTANTS
  Assets = {a1}
  Users = {u1, u2}
  Slots = {s1}
  Ops = {"assign", "unassign", "transition"}
  MaxAssigned = 2
SPECIFICATION Spec
PROPERTIES AlwaysCloses
CHECK_DEADLOCK FALSE
