-------------------------------- MODULE MCEach --------------------------------
(* Two views, three entities; one of them is in both views.                *)
EXTENDS ParallelEach, TLC

AnyThread == Permutations(Thread)
MCComponents == [k \in Key |-> IF k = "models" THEN {1, 2} ELSE {2, 3}]

===============================================================================
