SPECIFICATION FairSpec
CONSTANTS
  w1 = w1
  w2 = w2
  cmd1 = cmd1
  status1 = status1
  None = None
  Kids = {w1}
  Commanders = {cmd1}
  Enquirers = {status1}
  MaxCount = 3
  MqMax = 1
  SupervisorMode = TRUE
  ClientMayLeave = TRUE
  MayInterrupt = FALSE
INVARIANT TypeOK
PROPERTIES
  ShutdownCompletes
  StatusAnswered
CHECK_DEADLOCK FALSE
