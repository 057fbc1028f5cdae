----------------------------- MODULE PostUpdate -----------------------------
(***************************************************************************)
(* The SimulationRunner's thread and its PostUpdate worker threads         *)
(* (src/SimulationRunner.cc), with the life of the systems they run        *)
(* (src/SystemManager.cc).  A step of the runner processes the queue of    *)
(* systems, takes the systems requested by service calls, updates (or      *)
(* resets) the systems and drops those of removed entities; the workers    *)
(* are let in and out of the update by two Barriers.                       *)
(*                                                                         *)
(* Only systems with a PostUpdate are modelled; what a step does to the    *)
(* entities is in module Ecm.                                              *)
(***************************************************************************)
EXTENDS Integers, FiniteSets, SequencesExt

CONSTANTS
  Workers,      \* the worker threads there may be: 1..n
  Ids,          \* the systems there may be
  Kind,         \* "reset" if it implements ISystemReset, else where it is
                \* from: a "plugin", or created in "memory"
  GenModulus,   \* see Barrier
  MaxSteps,     \* bound: how often the PostUpdates are let in
  MaxResets     \* bound: how many resets there are

Runner == 0
Threads == {Runner} \cup Workers

ASSUME PostUpdateAssumption ==
  /\ Workers = 1..Cardinality(Ids)
  /\ IsFiniteSet(Ids)
  /\ Kind \in [Ids -> {"reset", "plugin", "memory"}]
  /\ GenModulus \in Nat /\ GenModulus >= 2
  /\ MaxSteps \in Nat
  /\ MaxResets \in Nat

VARIABLES
  rpc,          \* where the runner is
  wpc,          \* where each worker is
  running,      \* postUpdateThreadsRunning
  built,        \* postUpdateStartBarrier and postUpdateStopBarrier exist
  needCleanUp,  \* threadsNeedCleanUp
  requested,    \* SystemManager::systemsToAdd
  pending,      \* SystemManager::pendingSystems
  post,         \* SystemManager::systemsPostupdate
  memory,       \* the buffer of that vector, stale elements included
  unused,       \* the systems nobody has asked for yet
  resets,       \* how many resets there were
  \* history: how often the PostUpdate phase was opened, was ended, and how
  \* often each worker has run in it
  opened, ended, done,
  dropped       \* history: a reset has dropped systems of the workers there are

VARIABLES   \* postUpdateStartBarrier
  startThreadCount, startCancelled, startCount, startGeneration,
  startAt, startGen, startStatus

VARIABLES   \* postUpdateStopBarrier
  stopThreadCount, stopCancelled, stopCount, stopGeneration,
  stopAt, stopGen, stopStatus

Start == INSTANCE Barrier WITH
  threadCount <- startThreadCount, cancelled <- startCancelled,
  count <- startCount, generation <- startGeneration,
  at <- startAt, gen <- startGen, status <- startStatus

Stop == INSTANCE Barrier WITH
  threadCount <- stopThreadCount, cancelled <- stopCancelled,
  count <- stopCount, generation <- stopGeneration,
  at <- stopAt, gen <- stopGen, status <- stopStatus

startVars == <<startThreadCount, startCancelled, startCount, startGeneration,
               startAt, startGen, startStatus>>
stopVars == <<stopThreadCount, stopCancelled, stopCount, stopGeneration,
              stopAt, stopGen, stopStatus>>
queueVars == <<needCleanUp, requested, pending, post, memory, unused, dropped>>
threadVars == <<wpc, running, built>>
phaseVars == <<opened, ended, done>>
vars == <<rpc, threadVars, queueVars, resets, phaseVars, startVars, stopVars>>

(* A system: which one, whether LoadPlugin has made it, which then knows   *)
(* its library (this matters to no other kind than plugins), and which     *)
(* instance of it, as a plugin can be reloaded.                            *)
System(id, loaded) ==
  [id |-> id, loaded |-> loaded /\ Kind[id] = "plugin", instance |-> 0]
Reloaded(s) == [s EXCEPT !.instance = @ + 1]

Init ==
  /\ rpc = "queue"
  /\ wpc = [w \in Workers |-> "none"]
  /\ running = FALSE
  /\ built = FALSE
  /\ needCleanUp = FALSE
  /\ requested = <<>>
  /\ pending = <<>>
  /\ post = <<>>
  /\ memory = <<>>
  /\ unused = Ids
  /\ resets = 0
  /\ opened = 0
  /\ ended = 0
  /\ done = [w \in Workers |-> 0]
  /\ dropped = FALSE
  /\ Start!BarrierInit(1)
  /\ Stop!BarrierInit(1)

-------------------------------------------------------------------------------
(* The runner, one step of the simulation: ProcessSystemQueue.             *)

Goto(from, to) == rpc = from /\ rpc' = to

QueueIsEmpty ==
  /\ Goto("queue", "requests")
  /\ opened < MaxSteps
  /\ pending = <<>> /\ ~needCleanUp
  /\ UNCHANGED <<threadVars, queueVars, resets, phaseVars, startVars, stopVars>>

(* StopWorkerThreads, for a change of the systems or in the destructor:    *)
(* the flag, the two Cancels, the joins.                                   *)
StopWorkers ==
  /\ \/ /\ Goto("queue", IF built THEN "cancelStart" ELSE "join")
        /\ opened < MaxSteps
        /\ pending # <<>> \/ needCleanUp
     \/ Goto("queue", IF built THEN "lastCancelStart" ELSE "lastJoin")
  /\ running' = FALSE
  /\ UNCHANGED <<wpc, built, queueVars, resets, phaseVars, startVars, stopVars>>

CancelStart ==
  /\ \/ Goto("cancelStart", "cancelStop")
     \/ Goto("lastCancelStart", "lastCancelStop")
  /\ Start!Cancel
  /\ UNCHANGED <<threadVars, queueVars, resets, phaseVars, stopVars>>

(* The second Cancel, after a version that forgets it.                     *)
OneIsEnough == UNCHANGED stopVars
BothAreCancelled == Stop!Cancel

CancelStop ==
  /\ \/ Goto("cancelStop", "join")
     \/ Goto("lastCancelStop", "lastJoin")
  /\ BothAreCancelled
  /\ UNCHANGED <<threadVars, queueVars, resets, phaseVars, startVars>>

Join ==
  /\ Goto("join", "activate") \/ Goto("lastJoin", "destroyed")
  /\ \A w \in Workers : wpc[w] \in {"none", "exited"}
  /\ wpc' = [w \in Workers |-> "none"]
  /\ UNCHANGED <<running, built, queueVars, resets, phaseVars, startVars, stopVars>>

(* ActivatePendingSystems, new barriers, and a thread for every system.    *)
(* The runner is one more thread at the barriers: BarrierSize.             *)
WorkersOnly(n) == n
BarrierSize(n) == n + 1

Activate ==
  LET active == post \o pending IN
  /\ Goto("activate", "requests")
  /\ needCleanUp' = FALSE
  /\ pending' = <<>>
  /\ post' = active
  /\ memory' = active
  /\ Start!Construct(BarrierSize(Len(active)))
  /\ Stop!Construct(BarrierSize(Len(active)))
  /\ built' = TRUE
  /\ running' = TRUE
  /\ wpc' = [w \in Workers |-> IF w <= Len(active) THEN "loop" ELSE "none"]
  /\ done' = [w \in Workers |-> opened]
  /\ dropped' = FALSE
  /\ UNCHANGED <<requested, unused, resets, opened, ended>>

-------------------------------------------------------------------------------
(* The runner: ProcessPendingEntitySystems and UpdateSystems.              *)

(* Some of those that were asked for may not be there to be loaded.  (Picked*)
(* is a SelectSeq that TLAPS can reason about: it is not recursive.)       *)
Picked(seq, positions) ==
  LET Before(i) == {j \in positions : j < i} IN
  [n \in 1..Cardinality(positions) |->
     seq[CHOOSE i \in positions : Cardinality(Before(i)) = n - 1]]

ProcessPendingEntitySystems ==
  \E found \in SUBSET DOMAIN requested :
    /\ Goto("requests", "update")
    /\ pending' = pending \o Picked(requested, found)
    /\ requested' = <<>>
    /\ UNCHANGED <<threadVars, needCleanUp, post, memory, unused, dropped, resets,
                   phaseVars, startVars, stopVars>>

(* SystemManager::Reset, which ends the update.  A system that implements  *)
(* Reset stays.  A plugin is loaded again, if LoadPlugin has made it and   *)
(* finds it once more; one that was given to Server::AddSystem has no file *)
(* name and is dropped, as is one from memory.  The threads and the        *)
(* barriers stay, and the vector is filled again in the same buffer.       *)
Rest(seq, n) == SubSeq(seq, n + 1, Len(seq))

ResetSystems ==
  LET Positions(kind) == {i \in DOMAIN post : Kind[post[i].id] = kind}
      kept == Picked(post, Positions("reset"))
  IN
  \E found \in SUBSET {i \in Positions("plugin") : post[i].loaded} :
    LET old == Picked(post, found)
        loaded == [i \in DOMAIN old |-> Reloaded(old[i])]
    IN  /\ Goto("update", "removals")
        /\ resets < MaxResets
        /\ resets' = resets + 1
        /\ pending' = <<>>
        /\ post' = kept \o loaded
        /\ memory' = post' \o Rest(memory, Len(post'))
        /\ dropped' = (dropped \/ Len(post') < Len(post))
        /\ UNCHANGED <<threadVars, needCleanUp, requested, unused, phaseVars,
                       startVars, stopVars>>

(* PreUpdate and Update of every system, then the PostUpdates are let in.  *)
UpdateSystems ==
  /\ Goto("update", IF built THEN "waitStart" ELSE "removals")
  /\ UNCHANGED <<threadVars, queueVars, resets, phaseVars, startVars, stopVars>>

(* A thread in Wait() of the start barrier.  The last to arrive opens the  *)
(* phase.                                                                  *)
InStart(t) ==
  /\ Start!WaitStep(t)
  /\ opened' = IF startStatus'[t] = "DONE_LAST" THEN opened + 1 ELSE opened

RunnerInStart ==
  /\ rpc = "waitStart"
  /\ InStart(Runner)
  /\ rpc' = IF startAt'[Runner] = "out" THEN "waitStop" ELSE "waitStart"
  /\ UNCHANGED <<threadVars, queueVars, resets, ended, done, stopVars>>

RunnerInStop ==
  /\ rpc = "waitStop"
  /\ Stop!WaitStep(Runner)
  /\ rpc' = IF stopAt'[Runner] = "out" THEN "removals" ELSE "waitStop"
  /\ ended' = IF rpc' = "removals" THEN opened ELSE ended
  /\ UNCHANGED <<threadVars, queueVars, resets, opened, done, startVars>>

(* ProcessRemovedEntities: the systems of removed entities go; if one had  *)
(* a PostUpdate, the threads have to be cleaned up.                        *)
NoCleanUp(gone) == needCleanUp
CleanUp(gone) == needCleanUp \/ \E i \in DOMAIN post : post[i].id \in gone

ProcessRemovedEntities ==
  \E gone \in SUBSET Ids :
    LET Without(seq) ==
          Picked(seq, {i \in DOMAIN seq : seq[i].id \notin gone})
    IN
    /\ Goto("removals", "queue")
    /\ gone \subseteq {s.id : s \in Range(post) \cup Range(pending)}
    /\ post' = Without(post)
    /\ memory' = post' \o Rest(memory, Len(post'))
    /\ pending' = Without(pending)
    /\ needCleanUp' = CleanUp(gone)
    /\ UNCHANGED <<threadVars, requested, unused, dropped, resets, phaseVars,
                   startVars, stopVars>>

-------------------------------------------------------------------------------
(* A worker thread.                                                        *)

WGoto(w, from, to) == wpc[w] = from /\ wpc' = [wpc EXCEPT ![w] = to]

(* while (postUpdateThreadsRunning)                                        *)
WorkerLoop(w) ==
  /\ WGoto(w, "loop", IF running THEN "start" ELSE "exited")
  /\ UNCHANGED <<rpc, running, built, queueVars, resets, phaseVars, startVars,
                 stopVars>>

WorkerInStart(w) ==
  /\ InStart(w)
  /\ WGoto(w, "start", IF startAt'[w] = "out" THEN "test" ELSE "start")
  /\ UNCHANGED <<rpc, running, built, queueVars, resets, ended, done, stopVars>>

(* The test between the barriers.                                          *)
MayRun == running

WorkerTest(w) ==
  /\ WGoto(w, "test", IF MayRun THEN "post" ELSE "stop")
  /\ UNCHANGED <<rpc, running, built, queueVars, resets, phaseVars, startVars,
                 stopVars>>

(* The PostUpdate of memory[w] returns; then the stop barrier.  After a     *)
(* reset has dropped systems, that element may point to a system that is   *)
(* destroyed: of what the call can then do, the crash is left out, which   *)
(* ends the process.                                                       *)
AfterPost == "stop"

WorkerPostUpdate(w) ==
  /\ WGoto(w, "post", AfterPost)
  /\ done' = [done EXCEPT ![w] = @ + 1]
  /\ UNCHANGED <<rpc, running, built, queueVars, resets, opened, ended,
                 startVars, stopVars>>

WorkerInStop(w) ==
  /\ Stop!WaitStep(w)
  /\ WGoto(w, "stop", IF stopAt'[w] = "out" THEN "loop" ELSE "stop")
  /\ UNCHANGED <<rpc, running, built, queueVars, resets, phaseVars, startVars>>

-------------------------------------------------------------------------------
(* EntitySystemAddService: somebody asks for a plugin, at any time, which  *)
(* LoadPlugin is going to make.                                            *)
EntitySystemAdd(id) ==
  /\ id \in unused
  /\ Kind[id] # "memory"
  /\ unused' = unused \ {id}
  /\ requested' = Append(requested, System(id, TRUE))
  /\ UNCHANGED <<rpc, threadVars, needCleanUp, pending, post, memory, dropped,
                 resets, phaseVars, startVars, stopVars>>

(* Server::AddSystem, which a running server refuses: the runner is between *)
(* two runs, before its next step.  It is given the system itself, from    *)
(* memory or from a plugin, and nothing else is known of it.               *)
AddSystem(id) ==
  /\ id \in unused
  /\ rpc = "queue"
  /\ unused' = unused \ {id}
  /\ pending' = Append(pending, System(id, FALSE))
  /\ UNCHANGED <<rpc, threadVars, needCleanUp, requested, post, memory, dropped,
                 resets, phaseVars, startVars, stopVars>>

(* A thread asleep in a Wait() wakes up for no reason.                     *)
WakeUp(t) ==
  /\ \/ Start!SpuriousWakeup(t) /\ UNCHANGED stopVars
     \/ Stop!SpuriousWakeup(t) /\ UNCHANGED startVars
  /\ UNCHANGED <<rpc, threadVars, queueVars, resets, phaseVars>>

Destroyed == rpc = "destroyed" /\ UNCHANGED vars

RunnerStep ==
  \/ QueueIsEmpty \/ StopWorkers \/ CancelStart \/ CancelStop \/ Join
  \/ Activate \/ ProcessPendingEntitySystems \/ ResetSystems \/ UpdateSystems
  \/ RunnerInStart \/ RunnerInStop \/ ProcessRemovedEntities

WorkerStep(w) ==
  \/ WorkerLoop(w) \/ WorkerInStart(w) \/ WorkerTest(w) \/ WorkerPostUpdate(w)
  \/ WorkerInStop(w)

Next ==
  \/ RunnerStep
  \/ \E w \in Workers : WorkerStep(w)
  \/ \E t \in Threads : WakeUp(t)
  \/ \E id \in Ids : EntitySystemAdd(id) \/ AddSystem(id)
  \/ Destroyed

Spec == Init /\ [][Next]_vars

(* The scheduler runs a thread that can run, and every PostUpdate returns. *)
(* Nobody has to ask for a system, and no wake-up has to be spurious.      *)
FairSpec ==
  Spec /\ WF_vars(RunnerStep) /\ \A w \in Workers : WF_vars(WorkerStep(w))

-------------------------------------------------------------------------------
RunnerLocation ==
  {"queue", "cancelStart", "cancelStop", "join", "activate", "requests",
   "update", "waitStart", "waitStop", "removals",
   "lastCancelStart", "lastCancelStop", "lastJoin", "destroyed"}

SystemInstance == [id : Ids, loaded : BOOLEAN, instance : 0..MaxResets]

Team == {w \in Workers : wpc[w] # "none"}

(* Types, and that the workers are as many as the barriers are built for.  *)
TypeOK ==
  /\ rpc \in RunnerLocation
  /\ wpc \in [Workers -> {"none", "loop", "start", "test", "post", "stop", "exited"}]
  /\ {running, built, needCleanUp, dropped} \subseteq BOOLEAN
  /\ \A seq \in {requested, pending, post, memory} : seq \in Seq(SystemInstance)
  /\ unused \subseteq Ids
  /\ Start!BarrierTypeOK /\ Stop!BarrierTypeOK
  /\ Team = {} \/ Team = 1..(startThreadCount - 1)

(* While the runner waits for them, the workers run the active systems, all*)
(* of them, also after a reset has refilled the vector the workers look    *)
(* into, and after a removal; and each worker another one, and nothing     *)
(* else, unless a reset has dropped some of them: it leaves their workers  *)
(* to run what comes to stand, or is left, in their place.                 *)
EverySystemHasAWorker ==
  rpc \in {"waitStart", "waitStop"} =>
    /\ Range(post) \subseteq {memory[w] : w \in Team}
    /\ \/ dropped
       \/ /\ Cardinality(Team) = Len(post)
          /\ {memory[w] : w \in Team} = Range(post)

(* The runner is never stuck with its threads: a step that waits for the   *)
(* PostUpdates gets past them, and threads that are told to stop, wherever *)
(* between the barriers that meets them, can all be joined.                *)
RunnerGetsOn ==
  []<>(rpc \in {"queue", "activate", "requests", "update", "removals", "destroyed"})

(* The threads and their barriers implement the phases of UpdatePhases: the*)
(* entities are the runner's alone, except while it waits between the two  *)
(* barriers, and no PostUpdate runs beside a PreUpdate, an Update, the end *)
(* of a step, or the replacement of the threads.                           *)
Phases == INSTANCE UpdatePhases WITH team <- Team

ImplementsPhases == Phases!Spec

===============================================================================
