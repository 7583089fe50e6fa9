\* Weeks of three days of three hours, every calendar and every start.
SPECIFICATION Spec
CONSTANTS
  Week = 3
  Day = 3
  Safeguard = 12
  LastDay = 2
  MaxHours = 4
INVARIANTS HoursAccounted EndsAtWork RoundsBounded
CHECK_DEADLOCK FALSE
