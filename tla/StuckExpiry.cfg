SPECIFICATION LiveSpec
CONSTANTS
  Tickets = {t1}
  Procs = {p1}
  Techs = {}
  None = None
  States <- WfStates
  Initial <- WfInitial
  Final <- WfFinal
  Pause <- WfPause
  Approval <- WfApproval
  Edges <- WfEdges
  MaxReopen = 3
  ReprocessCheck = 1
  TopPriority = 1
  MaxApprovals = 2
  Workload = {"create", "transition", "expiry"}
PROPERTIES LapsedIsReopened
CHECK_DEADLOCK FALSE
