SPECIFICATION Spec
CONSTANTS
  React = TRUE
  PipeCap <- MCPipeCap
  MayTerminate = FALSE
  OutputMayFail = FALSE
  InputShared = FALSE
INVARIANT OutputReachesInvoker
CHECK_DEADLOCK FALSE
