------------------------------ MODULE MCNetwork ------------------------------
(* Two secondaries; a performer in a level of its own, one without levels. *)
EXTENDS NetworkManager

MCPerformerLevels == [p \in Performer |-> IF p = 1 THEN {7} ELSE {}]

===============================================================================
