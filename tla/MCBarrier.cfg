SPECIFICATION BusySpec
CONSTANTS
  Threads <- ThreeThreads
  GenModulus = 2
  MaxRounds = 3
  MaxCancels = 2
INVARIANTS
  NoEarlyPass
  OneLastPerGeneration
  BarrierInv
PROPERTIES
  CancelReleases
  RoundsComplete
