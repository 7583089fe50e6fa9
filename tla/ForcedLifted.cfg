\* Counterexample: a session that must change its password is renewed.
CONSTANTS
  w1 = w1
  w2 = w2
  s1 = s1
  s2 = s2
  Tabs = {w1, w2}
  Slots = {s1, s2}
  Uses <- TwoAndOne
  MaxIssued = 1
  Events = {}
SPECIFICATION Spec
PROPERTIES ForcedStays
CHECK_DEADLOCK FALSE
