--------------------------- MODULE MCWorldControl ---------------------------
(* Instances of WorldControl for TLC: simulated time starts at 1 and goes  *)
(* in steps of 2; seeks and run-to times fall between two steps.           *)
EXTENDS WorldControl

MCStepCounts == {0, 2}
MCRunToTimes == {4}
MCSeekTimes == {6}
MCIterations == {0, 1}

===============================================================================
