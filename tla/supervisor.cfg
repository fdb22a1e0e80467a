SPECIFICATION Spec
CONSTANTS
  w1 = w1
  w2 = w2
  cmd1 = cmd1
  status1 = status1
  None = None
  Kids = {w1, w2}
  Commanders = {cmd1}
  Enquirers = {}
  MaxCount = 3
  MqMax = 1
  SupervisorMode = TRUE
  ClientMayLeave = FALSE
  MayInterrupt = TRUE
SYMMETRY Symmetry
INVARIANTS
  HeadroomRestored
  DrainReachesAll
PROPERTY FollowsReports
CHECK_DEADLOCK FALSE
