SPECIFICATION Spec
CONSTANTS
  j1 = j1
  j2 = j2
  j3 = j3
  etl = etl
  cdc = cdc
  Jvm = Jvm
  Stop = Stop
  None = None
  LauncherGroup = LauncherGroup
  Jobs = {j1, j2}
  Cmds = {etl, cdc}
  CmdOf <- MCCmdOf
  MaxCount = 2
  MqMax = 2
  ForkMayFail = TRUE
  ChildMayStop = FALSE
  MayQuit = TRUE
  SupervisorMayCrash = TRUE
INVARIANTS
  TypeOK
  SlotsAccounted
  ProcessLimit
PROPERTIES
  CleanupWaitsForAll
  ImplementsPool
CHECK_DEADLOCK FALSE
