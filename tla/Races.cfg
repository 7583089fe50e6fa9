SPECIFICATION Spec
CONSTANTS
  Tickets = {t1}
  Procs = {p1,p2}
  Techs = {}
  None = None
  States <- WfStates
  Initial <- WfInitial
  Final <- WfFinal
  Pause <- WfPause
  Approval <- WfApproval
  Edges <- WfEdges
  MaxReopen = 2
  ReprocessCheck = 3
  TopPriority = 1
  MaxApprovals = 1
  Workload = {"create", "transition", "bulk", "approve", "reject", "force", "fail", "expiry", "auto_close", "waiting"}
SYMMETRY Symmetry
INVARIANTS ClockFollowsState ReopenBounded
PROPERTIES FollowsWorkflow OverrunStands ImplementsContract
CHECK_DEADLOCK FALSE
