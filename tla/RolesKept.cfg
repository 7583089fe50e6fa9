\* Counterexample: deleteUser from beginning to end.
CONSTANTS
  u1 = u1
  u2 = u2
  r1 = r1
  a1 = a1
  None = None
  Items = {u1, u2}
  Table <- Kinds
  Refers <- RequestRefers
  Held = {}
  Slots = {s1}
  Ops = {"remove"}
SPECIFICATION Spec
PROPERTIES RemovedHoldsNoRole
CHECK_DEADLOCK FALSE
