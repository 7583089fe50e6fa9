SPECIFICATION Spec
CONSTANTS
  Tickets = {t1}
  Procs = {p1,p2}
  Techs = {u1,u2}
  None = None
  States <- WfStates
  Initial <- WfInitial
  Final <- WfFinal
  Pause <- WfPause
  Approval <- WfApproval
  Edges <- WfEdges
  MaxReopen = 3
  ReprocessCheck = 1
  TopPriority = 1
  MaxApprovals = 1
  Workload = {"create", "transition", "reject", "force", "assign", "restart", "expiry"}
SYMMETRY Symmetry
INVARIANTS OneOwner ClockFollowsState
CHECK_DEADLOCK FALSE
