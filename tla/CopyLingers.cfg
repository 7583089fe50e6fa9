\* Counterexample: a meeting is cancelled before its copy is inserted.
SPECIFICATION Spec
CONSTANTS
  m1 = m1
  m2 = m2
  u1 = u1
  u2 = u2
  None = None
  Meetings = {m1}
  Users = {u1}
  Host = u1
  Near <- OneHour
  InApp = {u1}
  Email = {u1}
  Ops = {"cancel"}
  Fails = {}
  MaxFails = 0
INVARIANT CopyFollows
