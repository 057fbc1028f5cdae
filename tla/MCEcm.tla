-------------------------------- MODULE MCEcm --------------------------------
(* EcmSystems on small instances.                                          *)
EXTENDS EcmSystems

(* Two entities and two types, a view of one type and a view of both.  One *)
(* entity gets components of both types, the other of one.  No joint       *)
(* connects anything, no entity has a parent.                              *)
TwoEntities == 1..2
TwoTypes == {"joint", "pose"}
ThreePairs == {<<1, "joint">>, <<1, "pose">>, <<2, "joint">>}
TwoViews == {{"joint"}, {"joint", "pose"}}
NoLinks == [e \in Entities |-> {}]

(* A model, its link, and an entity with a joint to that link: trees, pins *)
(* and joints; one type.                                                   *)
ThreeEntities == 1..3
OneType == {"joint"}
OneView == {{"joint"}}
JointToLink == [e \in Entities |-> IF e = 3 THEN {2} ELSE {}]
OneJoint == {<<3, "joint">>}
ModelAndLink == {<<2, 1>>, <<3, 2>>}

===============================================================================
