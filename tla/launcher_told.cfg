SPECIFICATION Spec
CONSTANTS
  j1 = j1
  j2 = j2
  j3 = j3
  etl = etl
  cdc = cdc
  Jvm = Jvm
  Stop = Stop
  None = None
  LauncherGroup = LauncherGroup
  Jobs = {j1}
  Cmds = {etl, cdc}
  CmdOf <- MCCmdOf
  MaxCount = 2
  MqMax = 1
  ForkMayFail = FALSE
  ChildMayStop = TRUE
  MayQuit = FALSE
  SupervisorMayCrash = FALSE
INVARIANT ToldOnceTerminated
CHECK_DEADLOCK FALSE
