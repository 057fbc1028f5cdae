SPECIFICATION FairServerSpec
CONSTANTS
  Iterations <- MCIterations
  None = None
  MaxCalls = 3
  MaxStopRequests = 1
INVARIANTS
  CountedStepsHaveEntities
PROPERTIES
  StopReturns
  StopEndsRun
  DestructorReturns
CHECK_DEADLOCK FALSE
