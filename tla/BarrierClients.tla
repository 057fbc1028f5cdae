---------------------------- MODULE BarrierClients ----------------------------
(***************************************************************************)
(* The threads that use one Barrier the way its documentation asks for:    *)
(* exactly as many as the constructor was told of, each calling Wait again *)
(* and again, while somebody may Cancel.  `arrived`, `passed` and `lasts`  *)
(* are history variables: they record what the barrier did and no action   *)
(* depends on them, but for the bound MaxRounds.                           *)
(***************************************************************************)
EXTENDS Barrier

CONSTANTS
  MaxRounds,      \* bound: how often a thread calls Wait
  MaxCancels      \* bound: how often Cancel is called

ASSUME ClientsAssumption == Threads # {}

ASSUME BoundsAssumption == MaxRounds \in Nat /\ MaxCancels \in Nat

VARIABLES
  arrived,        \* how often a thread has counted itself in
  passed,         \* how often its Wait returned DONE or DONE_LAST
  lasts,          \* how often any Wait returned DONE_LAST
  cancels         \* how often Cancel was called

historyVars == <<arrived, passed, lasts, cancels>>

vars == <<barrierVars, historyVars>>

Init ==
  /\ BarrierInit(Cardinality(Threads))
  /\ arrived = [t \in Threads |-> 0]
  /\ passed = [t \in Threads |-> 0]
  /\ lasts = 0
  /\ cancels = 0

Bump(f, t) == [f EXCEPT ![t] = @ + 1]

CallWait(t) ==
  /\ arrived[t] < MaxRounds
  /\ WaitCancelled(t) \/ WaitBegin(t)
  /\ UNCHANGED historyVars

Last(t) ==
  /\ ArriveLast(t)
  /\ arrived' = Bump(arrived, t)
  /\ passed' = Bump(passed, t)
  /\ lasts' = lasts + 1
  /\ UNCHANGED cancels

Arrive(t) ==
  /\ ArriveAndSleep(t) \/ ArriveCancelled(t)
  /\ arrived' = Bump(arrived, t)
  /\ UNCHANGED <<passed, lasts, cancels>>

Return(t) ==
  /\ Leave(t)
  /\ passed' = IF cancelled THEN passed ELSE Bump(passed, t)
  /\ UNCHANGED <<arrived, lasts, cancels>>

Doze(t) ==
  /\ SleepAgain(t) \/ SpuriousWakeup(t)
  /\ UNCHANGED historyVars

CallCancel ==
  /\ cancels < MaxCancels
  /\ Cancel
  /\ cancels' = cancels + 1
  /\ UNCHANGED <<arrived, passed, lasts>>

(* All threads have done their rounds: the clients have come to their end. *)
Finished ==
  /\ \A t \in Threads : at[t] = "out" /\ (arrived[t] = MaxRounds \/ cancelled)
  /\ UNCHANGED vars

Next ==
  \/ \E t \in Threads :
       CallWait(t) \/ Last(t) \/ Arrive(t) \/ Return(t) \/ Doze(t)
  \/ CallCancel
  \/ Finished

Spec == Init /\ [][Next]_vars

(* A thread that is in Wait() and can run does run.  Nobody has to call    *)
(* Wait or Cancel, and no wake-up has to be spurious.                      *)
InWait(t) == Last(t) \/ Arrive(t) \/ Return(t) \/ (Doze(t) /\ at[t] = "awake")

FairSpec == Spec /\ \A t \in Threads : WF_vars(InWait(t))

(* Every thread of the client also calls Wait whenever it may.             *)
BusySpec == FairSpec /\ \A t \in Threads : WF_vars(CallWait(t))

-------------------------------------------------------------------------------

TypeOK ==
  /\ BarrierTypeOK
  /\ threadCount = Cardinality(Threads)
  /\ arrived \in [Threads -> Nat]
  /\ passed \in [Threads -> Nat]
  /\ lasts \in Nat
  /\ cancels \in Nat

(* The threads that have counted themselves into the generation under way. *)
InGeneration == {t \in Threads : arrived[t] = lasts + 1}

Waiting(t) == at[t] \in {"asleep", "awake"}

(* Wait() "blocks until _threadCount have reached the wait() function"     *)
(* (Barrier.hh:70): no thread gets past its n-th Wait before every thread  *)
(* has entered its n-th Wait -- Cancel or no Cancel.                       *)
NoEarlyPass == \A t, u \in Threads : passed[t] <= arrived[u]

(* "Exactly one thread in each generation of Wait will return DONE_LAST"   *)
(* (Barrier.hh:77): a generation is over when its last thread has entered, *)
(* so the number of DONE_LAST is what the slowest thread has entered.      *)
OneLastPerGeneration ==
  /\ \A t \in Threads : lasts <= arrived[t]
  /\ \E t \in Threads : arrived[t] = lasts

(* The countdown says who is missing from this generation, also when Wait  *)
(* was cancelled on the way (Cancel does not reset it).                    *)
CountIsMissing == count = threadCount - Cardinality(InGeneration)

(* A waiter of a finished generation can tell that it is finished, however *)
(* often the generation number has wrapped around.                         *)
ReleasedCanLeave ==
  \A t \in Threads :
    Waiting(t) /\ t \notin InGeneration => gen[t] # generation \/ cancelled

(* A thread asleep is one whose wake-up call is still to come: no          *)
(* notification is lost.                                                   *)
NoLostWakeup ==
  \A t \in Threads : at[t] = "asleep" => gen[t] = generation /\ ~cancelled

(* The inductive invariant: the five above and what they rest on.  Who has *)
(* counted itself into the generation under way is still waiting for it,   *)
(* or was told that the barrier is cancelled.                              *)
RoundsInStep ==
  \A t \in Threads :
    /\ arrived[t] \in {lasts, lasts + 1}
    /\ passed[t] <= lasts
    /\ Waiting(t) => passed[t] < arrived[t]

InGenerationStays ==
  \A t \in InGeneration :
    \/ Waiting(t) /\ (gen[t] = generation \/ cancelled)
    \/ at[t] = "out" /\ cancelled

BarrierInv ==
  /\ TypeOK
  /\ RoundsInStep
  /\ CountIsMissing
  /\ InGenerationStays
  /\ ReleasedCanLeave
  /\ NoLostWakeup

(* Cancel() lets every thread that is in Wait() leave it.                  *)
CancelReleases ==
  \A t \in Threads : cancelled ~> at[t] = "out"

(* Threads that keep calling Wait get through all their rounds, unless the *)
(* barrier is cancelled.                                                   *)
RoundsComplete ==
  <>(cancelled \/ \A t \in Threads : passed[t] = MaxRounds)

===============================================================================
