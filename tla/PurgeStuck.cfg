\* Counterexample: a user with a ticket assignment is due.
CONSTANTS
  u1 = u1
  u2 = u2
  r1 = r1
  a1 = a1
  None = None
  Items = {u1, r1}
  Table <- Kinds
  Refers <- RequestRefers
  Held = {u1}
  Slots = {s1}
  Ops = {"delete", "time"}
SPECIFICATION LiveSpec
PROPERTIES TokensAreCleaned
CHECK_DEADLOCK FALSE
