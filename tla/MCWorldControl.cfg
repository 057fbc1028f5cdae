SPECIFICATION FairSpec
CONSTANTS
  Epoch = 1
  StepSize = 2
  StepCounts <- MCStepCounts
  RunToTimes <- MCRunToTimes
  SeekTimes <- MCSeekTimes
  Iterations <- MCIterations
  None = None
  Horizon = 7
  MaxMessages = 2
  MaxCalls = 1
  MaxRuns = 1
INVARIANTS
  TimeIsContinuous
  RunToNeverOvershoots
  StepsAreExact
  EachRewindResetsOnce
  StateComesWithRequest
PROPERTIES
  RequestsEnd
CHECK_DEADLOCK FALSE
