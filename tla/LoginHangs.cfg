\* Counterexample: a wrong password on the login page, twice.
CONSTANTS
  w1 = w1
  w2 = w2
  s1 = s1
  s2 = s2
  Tabs = {w1, w2}
  Slots = {s1, s2}
  Uses <- TwoAndOne
  MaxIssued = 1
  Events = {"wrong"}
SPECIFICATION LiveSpec
PROPERTIES LoginsSettle
CHECK_DEADLOCK FALSE
