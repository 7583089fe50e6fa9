\* One meeting, two users, one of them without an inbox, one failure.
SPECIFICATION LiveSpec
CONSTANTS
  m1 = m1
  m2 = m2
  u1 = u1
  u2 = u2
  None = None
  Meetings = {m1}
  Users = {u1, u2}
  Host = u1
  Near <- OneHour
  InApp = {u1}
  Email = {u1, u2}
  Ops = {"update", "cancel", "event"}
  Fails = {"create", "sync", "unlink", "down", "select", "log", "mail"}
  MaxFails = 1
INVARIANTS RemindedOnce
PROPERTY ScheduledAreReminded
