SPECIFICATION LiveSpec
CONSTANTS
  Tickets = {t1}
  Procs = {p1}
  Techs = {}
  None = None
  States <- WfStates
  Initial <- WfInitial
  Final <- WfFinal
  Pause <- WfPause
  Approval <- WfApproval
  Edges <- WfEdges
  MaxReopen = 3
  ReprocessCheck = 4
  TopPriority = 2
  MaxApprovals = 2
  Workload = {"create", "transition", "approve", "reject", "force", "trash", "expiry", "waiting"}
INVARIANT ValidationIsOpen
PROPERTIES NothingForgotten TrashIsInert ValidationEnds OverdueIsFound
CHECK_DEADLOCK FALSE
