SPECIFICATION FairSpec
CONSTANTS
  Workers = {1, 2}
  Ids = {"physics", "sensors"}
  Kind <- PluginAndReset
  GenModulus = 2
  MaxSteps = 2
  MaxResets = 1
INVARIANTS
  EverySystemHasAWorker
PROPERTIES
  ImplementsPhases
  RunnerGetsOn
