SPECIFICATION Spec
CONSTANTS
  MaxEntities = 3
  Entities <- ThreeEntities
  Types <- OneType
  Views <- OneView
  Joint = "joint"
  Components <- OneJoint
  JointLinks <- JointToLink
  Parents <- ModelAndLink
  Pinnable = {1, 3}
  Roots = {1}
INVARIANTS
  TypeOK
  PinsAreRespected
  DescendantsAreFresh
