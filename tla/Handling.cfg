\* Two calls, the sweep, the trash and queries that fail beside each other.
SPECIFICATION LiveSpec
CONSTANTS
  Rs = {r1}
  Procs = {p1,p2}
  Users = {u1,u2}
  Superadmins = {u2}
  Managers = {}
  Tasks = {}
  None = None
  Workload = {"create","take","untake","cancel","escalate","sweep","fail","trash"}
INVARIANTS TakerFollowsStatus TimelineAgrees
PROPERTIES FinishedIsFinal HoldsUntilReleased EscalatesOnlyActive OverdueEscalates
CHECK_DEADLOCK FALSE
