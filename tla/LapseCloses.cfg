SPECIFICATION Spec
CONSTANTS
  Tickets = {t1}
  Procs = {p1}
  Techs = {}
  None = None
  States <- WfStates
  Initial <- WfInitial
  Final <- WfFinal
  Pause <- WfPause
  Approval <- WfApproval
  Edges <- WfEdges
  MaxReopen = 2
  ReprocessCheck = 2
  TopPriority = 1
  MaxApprovals = 1
  Workload = {"create", "transition", "expiry"}
PROPERTIES LapseCloses
CHECK_DEADLOCK FALSE
