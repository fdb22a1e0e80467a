SPECIFICATION Spec
CONSTANTS
  etl = etl
  gen = gen
  c1 = c1
  c2 = c2
  None = None
  Shutdown = Shutdown
  Base = "SpartanBase"
  TestClasses <- MCTestClasses
  N = 2
  Clients = {c1, c2}
  WordOf <- MCWordOf
  Methods <- MCMethods
  Cases <- MCCases
  MayCrash = {"launcher", "supervisor"}
INVARIANTS
  UsersFirst
  InWorkers
  FreshCommands
  OwnTables
  Reachable
  Restartable
  ObjectOfMain
  NothingLeft
CHECK_DEADLOCK FALSE
