------------------------------ MODULE MCLevels ------------------------------
(* Two levels side by side that share a model, one with a joint of its own;*)
(* a car that is in the world, and a drone that is created later.          *)
EXTENDS LevelManager, Integers

MCRefs == [l \in Level |-> IF l = "west" THEN {"bridge", "hinge"} ELSE {"bridge", "hall"}]
MCRegion == [l \in Level |-> IF l = "west" THEN {1} ELSE {3}]
MCOuter == [l \in Level |-> IF l = "west" THEN {1, 2} ELSE {2, 3}]

===============================================================================
