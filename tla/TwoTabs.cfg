\* Two tabs of one browser: lost answers, reloads, logouts, wrong passwords.
CONSTANTS
  w1 = w1
  w2 = w2
  s1 = s1
  s2 = s2
  Tabs = {w1, w2}
  Slots = {s1, s2}
  Uses <- TwoAndOne
  MaxIssued = 1
  Events = {"wrong", "logout", "fail", "reload"}
SPECIFICATION LiveSpec
INVARIANTS FlagTellsRefresh
PROPERTIES AppCallsSettle SessionLasts
CHECK_DEADLOCK FALSE
