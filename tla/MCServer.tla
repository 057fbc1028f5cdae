------------------------------- MODULE MCServer -------------------------------
(* An instance of ServerLifecycle for TLC: Runs without a limit and of one *)
(* iteration.                                                              *)
EXTENDS ServerLifecycle

MCIterations == {0, 1}

===============================================================================
