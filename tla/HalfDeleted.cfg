\* Counterexample: a user with a request is deleted for good.
CONSTANTS
  u1 = u1
  u2 = u2
  r1 = r1
  a1 = a1
  None = None
  Items = {u2, r1}
  Table <- Kinds
  Refers <- RequestRefers
  Held = {}
  Slots = {s1}
  Ops = {"delete", "permanent"}
SPECIFICATION Spec
INVARIANTS TrashKeepsUsers
CHECK_DEADLOCK FALSE
