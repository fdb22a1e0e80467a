SPECIFICATION FairSpec
CONSTANTS
  r1 = r1
  r2 = r2
  None = None
  Requests = {r1, r2}
  Rnd = {1, 2}
  Mixes <- MCMixes
INVARIANTS
  OwnAnswer
  EndMeansOver
  AbortHasCause
  NothingLeaks
  StreamsInv
PROPERTIES
  Answered
  StreamEnds
CHECK_DEADLOCK FALSE
