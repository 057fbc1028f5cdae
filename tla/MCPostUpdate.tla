----------------------------- MODULE MCPostUpdate -----------------------------
(* PostUpdate with two systems, of which one implements Reset.             *)
EXTENDS PostUpdate

PluginAndReset ==
  [id \in Ids |-> IF id = "physics" THEN "reset" ELSE "plugin"]

===============================================================================
