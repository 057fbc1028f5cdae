SPECIFICATION Spec
CONSTANTS
  World = {"car", "bridge", "hinge", "hall"}
  Robot = {"car", "drone"}
  Joint = {"hinge"}
  Spawnable = {"car", "drone", "hall"}
  SdfPerformer = {}
  Level = {"west", "east"}
  Refs <- MCRefs
  Cell = {1, 2, 3}
  Region <- MCRegion
  Outer <- MCOuter
  None = None
INVARIANTS
  LoadedIffActive
  RequestsAreKept
