------------------------------- MODULE Barrier -------------------------------
(***************************************************************************)
(* gz::sim::Barrier (src/Barrier.cc): a reusable, cancellable barrier made *)
(* of a mutex, a condition variable, an atomic `cancelled` flag, a         *)
(* countdown and a generation number.                                      *)
(*                                                                         *)
(* A critical section of the mutex is one action; the read of `cancelled`  *)
(* in front of it is another, because it is made without the mutex.        *)
(* cv.wait is split at its two ends: a thread falls asleep with its test   *)
(* (one critical section) and takes the mutex again, to test, only once it *)
(* is awake.  A wake-up comes from notify_all, or is spurious.             *)
(***************************************************************************)
EXTENDS Integers, FiniteSets

CONSTANTS
  Threads,        \* the threads that may call Wait
  GenModulus      \* `generation` is an unsigned int: it counts modulo this

ASSUME BarrierAssumption ==
  /\ IsFiniteSet(Threads)
  /\ GenModulus \in Nat
  /\ GenModulus >= 2

VARIABLES
  threadCount,    \* BarrierPrivate::threadCount, set by the constructor
  cancelled,      \* BarrierPrivate::cancelled
  count,          \* BarrierPrivate::count, arrivals still missing
  generation,     \* BarrierPrivate::generation
  at,             \* where a thread is in Wait()
  gen,            \* the local `gen` of a thread's Wait()
  status          \* the ExitStatus of a thread's last Wait()

barrierVars == <<threadCount, cancelled, count, generation, at, gen, status>>

Location == {"out", "entering", "asleep", "awake"}

ExitStatus == {"DONE", "DONE_LAST", "CANCELLED"}

BarrierInit(n) ==
  /\ threadCount = n
  /\ cancelled = FALSE
  /\ count = n
  /\ generation = 0
  /\ at = [t \in Threads |-> "out"]
  /\ gen = [t \in Threads |-> 0]
  /\ status = [t \in Threads |-> "NONE"]

(* A new Barrier takes the place of an old one that nobody is in.          *)
Construct(n) ==
  /\ threadCount' = n
  /\ cancelled' = FALSE
  /\ count' = n
  /\ generation' = 0
  /\ at' = [t \in Threads |-> "out"]
  /\ gen' = [t \in Threads |-> 0]
  /\ status' = [t \in Threads |-> "NONE"]

(* Four parts of the code, each after a slip of the pen in it that the     *)
(* checks of this module have to notice.                                   *)
SameGeneration == generation
NextGeneration == (generation + 1) % GenModulus

ShortCount == IF threadCount > 1 THEN threadCount - 1 ELSE 1
FullCount == threadCount

(* Where the threads are once notify_all has been called.                  *)
NotifyNobody(locations) == locations
NotifyAll(locations) ==
  [u \in Threads |-> IF locations[u] = "asleep" THEN "awake" ELSE locations[u]]

Open == ~cancelled

AlwaysReleased(t) == TRUE
Released(t) == gen[t] # generation \/ cancelled

(* Wait() begins with a test of `cancelled` outside the mutex.             *)
WaitCancelled(t) ==
  /\ at[t] = "out"
  /\ ~Open
  /\ status' = [status EXCEPT ![t] = "CANCELLED"]
  /\ UNCHANGED <<threadCount, cancelled, count, generation, at, gen>>

WaitBegin(t) ==
  /\ at[t] = "out"
  /\ Open
  /\ at' = [at EXCEPT ![t] = "entering"]
  /\ status' = [status EXCEPT ![t] = "NONE"]
  /\ UNCHANGED <<threadCount, cancelled, count, generation, gen>>

(* With the mutex held: the last arrival opens the barrier ...             *)
ArriveLast(t) ==
  /\ at[t] = "entering"
  /\ count - 1 = 0
  /\ gen' = [gen EXCEPT ![t] = generation]
  /\ generation' = NextGeneration
  /\ count' = FullCount
  /\ at' = NotifyAll([at EXCEPT ![t] = "out"])
  /\ status' = [status EXCEPT ![t] = "DONE_LAST"]
  /\ UNCHANGED <<threadCount, cancelled>>

(* ... an earlier one goes to sleep, unless a Cancel has overtaken it.     *)
ArriveAndSleep(t) ==
  /\ at[t] = "entering"
  /\ count - 1 # 0
  /\ ~cancelled
  /\ gen' = [gen EXCEPT ![t] = generation]
  /\ count' = count - 1
  /\ at' = [at EXCEPT ![t] = "asleep"]
  /\ UNCHANGED <<threadCount, cancelled, generation, status>>

ArriveCancelled(t) ==
  /\ at[t] = "entering"
  /\ count - 1 # 0
  /\ cancelled
  /\ gen' = [gen EXCEPT ![t] = generation]
  /\ count' = count - 1
  /\ at' = [at EXCEPT ![t] = "out"]
  /\ status' = [status EXCEPT ![t] = "CANCELLED"]
  /\ UNCHANGED <<threadCount, cancelled, generation>>

(* A thread that woke up holds the mutex again and repeats the test of the *)
(* while loop.                                                             *)
SleepAgain(t) ==
  /\ at[t] = "awake"
  /\ ~Released(t)
  /\ at' = [at EXCEPT ![t] = "asleep"]
  /\ UNCHANGED <<threadCount, cancelled, count, generation, gen, status>>

Leave(t) ==
  /\ at[t] = "awake"
  /\ Released(t)
  /\ at' = [at EXCEPT ![t] = "out"]
  /\ status' = [status EXCEPT ![t] = IF cancelled THEN "CANCELLED" ELSE "DONE"]
  /\ UNCHANGED <<threadCount, cancelled, count, generation, gen>>

SpuriousWakeup(t) ==
  /\ at[t] = "asleep"
  /\ at' = [at EXCEPT ![t] = "awake"]
  /\ UNCHANGED <<threadCount, cancelled, count, generation, gen, status>>

(* What thread t does inside Wait() by itself, once it has entered it.     *)
WaitContinue(t) ==
  \/ ArriveLast(t)
  \/ ArriveAndSleep(t)
  \/ ArriveCancelled(t)
  \/ SleepAgain(t)
  \/ Leave(t)

(* One step of thread t in Wait(), from the call to the return: the call   *)
(* has returned when at'[t] = "out".                                       *)
WaitStep(t) ==
  \/ WaitCancelled(t)
  \/ WaitBegin(t)
  \/ WaitContinue(t)

(* Cancel(), called by any thread that is not in Wait().                   *)
Cancel ==
  /\ generation' = NextGeneration
  /\ cancelled' = TRUE
  /\ at' = NotifyAll(at)
  /\ UNCHANGED <<threadCount, count, gen, status>>

BarrierTypeOK ==
  /\ threadCount \in Nat \ {0}
  /\ cancelled \in BOOLEAN
  /\ count \in 1..threadCount
  /\ generation \in 0..(GenModulus - 1)
  /\ at \in [Threads -> Location]
  /\ gen \in [Threads -> 0..(GenModulus - 1)]
  /\ status \in [Threads -> ExitStatus \cup {"NONE"}]

===============================================================================
