SPECIFICATION FairSpec
CONSTANTS
  React = TRUE
  PipeCap <- MCPipeCap
  MayTerminate = TRUE
  OutputMayFail = TRUE
  InputShared = TRUE
INVARIANTS
  TypeOK
  SuccessMeansEnd
PROPERTIES
  EchoEnds
  ResponseFlows
CHECK_DEADLOCK FALSE
