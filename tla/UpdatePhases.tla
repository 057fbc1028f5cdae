---------------------------- MODULE UpdatePhases ----------------------------
(***************************************************************************)
(* What the PostUpdate threads of a SimulationRunner promise, without the  *)
(* threads' barriers: time alternates between an exclusive phase, in which *)
(* only the runner touches the entities, and a shared phase, in which      *)
(* every PostUpdate thread runs its system exactly once.                   *)
(***************************************************************************)
EXTENDS Integers

CONSTANT Workers

VARIABLES
  opened,   \* how many shared phases have begun
  ended,    \* how many have ended
  team,     \* the threads there are
  done      \* how many of the phases a thread has run its system in

phaseVars == <<opened, ended, team, done>>

Exclusive == opened = ended

Init ==
  /\ opened = 0
  /\ ended = 0
  /\ team = {}
  /\ done = [w \in Workers |-> 0]

Open ==
  /\ Exclusive
  /\ opened' = opened + 1
  /\ UNCHANGED <<ended, team, done>>

Run(w) ==
  /\ ~Exclusive
  /\ w \in team
  /\ done[w] < opened
  /\ done' = [done EXCEPT ![w] = opened]
  /\ UNCHANGED <<opened, ended, team>>

End ==
  /\ ~Exclusive
  /\ \A w \in team : done[w] = opened
  /\ ended' = opened
  /\ UNCHANGED <<opened, team, done>>

(* The threads are replaced, in the exclusive phase.                       *)
Rebuild ==
  /\ Exclusive
  /\ team' \in SUBSET Workers
  /\ done' \in [Workers -> 0..opened]
  /\ \A w \in team' : done'[w] = opened
  /\ UNCHANGED <<opened, ended>>

Next == Open \/ End \/ Rebuild \/ \E w \in Workers : Run(w)

Spec == Init /\ [][Next]_phaseVars

===============================================================================
