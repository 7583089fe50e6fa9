\* Two calls at a time that may fail on a user whose row a request refers to, and an asset that was assigned.
CONSTANTS
  u1 = u1
  u2 = u2
  r1 = r1
  a1 = a1
  None = None
  Items = {u2, r1, a1}
  Table <- Kinds
  Refers <- RequestRefers
  Held = {a1}
  Slots = {s1, s2}
  Ops = {"delete", "remove", "restore", "permanent", "time", "fail"}
SPECIFICATION LiveSpec
INVARIANTS AccessFollowsProfile
PROPERTIES OnlyTrashGoes DueIsPurged StaleIsCleaned
CHECK_DEADLOCK FALSE
