SPECIFICATION Spec
CONSTANTS
  MaxEntities = 2
  Entities <- TwoEntities
  Types <- TwoTypes
  Views <- TwoViews
  Joint = "joint"
  Components <- ThreePairs
  JointLinks <- NoLinks
  Parents = {}
  Pinnable = {}
  Roots = {}
INVARIANTS
  EachIsExact
  EachNewIsNew
  EachRemovedIsExact
