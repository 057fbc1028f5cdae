SPECIFICATION FairSensorsSpec
CONSTANTS
  Sensor = {1}
  Period <- MCPeriod
  MaxTime = 4
  MaxSteps = 4
  MaxResets = 1
  MaxEvents = 1
INVARIANTS SceneIsAwaited NewSensorsAreMade
PROPERTIES NobodyIsLate CallsReturn
CHECK_DEADLOCK FALSE
