SPECIFICATION SceneSpec
CONSTANTS
  Entity = {1, 2, 3, 4}
  World = 0
  Parent <- MCParent
  Model = {1, 4}
  Name <- MCName
  MaxIterations = 3
  MaxSceneSteps = 5
INVARIANTS SceneMirrorsEcm
CHECK_DEADLOCK FALSE
