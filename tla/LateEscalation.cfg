\* Counterexample: a request is decided between the sweep's SELECT and UPDATE.
SPECIFICATION Spec
CONSTANTS
  Rs = {r1}
  Procs = {p1}
  Users = {u1,u2}
  Superadmins = {}
  Managers = {}
  Tasks = {}
  None = None
  Workload = {"create","cancel","sweep"}
PROPERTIES SweepFindsActive
CHECK_DEADLOCK FALSE
