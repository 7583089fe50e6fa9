\* Two calls at a time, a Redis that may not answer.
CONSTANTS
  n1 = n1
  n2 = n2
  n3 = n3
  Nodes = {n1, n2, n3}
  None = None
  Begun <- OneBelow
  Slots = {s1, s2}
  Ops = {"create", "move", "activate", "delete", "type", "read", "deaf"}
  MaxWrites = 2
SPECIFICATION LiveSpec
INVARIANTS NoCycle NobodyMissing
PROPERTIES CacheSettles
CHECK_DEADLOCK FALSE
