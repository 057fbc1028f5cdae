------------------------------- MODULE MCScene -------------------------------
(* A model with a link, a light, and a model with the name of the first.   *)
EXTENDS RenderScene

MCParent == [e \in Entity |-> IF e = 2 THEN 1 ELSE World]
MCName == [e \in Entity |-> CASE e \in {1, 4} -> "box" [] e = 2 -> "link"
                              [] e = 3 -> "sun"]

===============================================================================
