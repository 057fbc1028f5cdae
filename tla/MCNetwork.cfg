SPECIFICATION FairSpec
CONSTANTS
  Primary = 0
  Secondary = {1, 2}
  numSecondariesExpected = 2
  Performer = {1, 2}
  PerformerLevels <- MCPerformerLevels
  MaxSteps = 2
  MaxFaults = 1
INVARIANTS Lockstep PerformersAreSimulated
PROPERTIES OthersStop
CHECK_DEADLOCK FALSE
