--------------------------- MODULE ServerLifecycle ---------------------------
(***************************************************************************)
(* The life of a Server with one world (src/Server.cc, src/ServerPrivate.cc*)
(* and the frame of SimulationRunner::Run): its constructor, which downloads*)
(* the assets in a thread of their own, blocking and non-blocking Runs,    *)
(* Stop, the signal handler, the stop service and the destructor.          *)
(*                                                                         *)
(* Five threads take part: the one that owns the Server, the run thread of *)
(* a non-blocking Run, the thread of the signal handler, the one that the  *)
(* stop service starts and the one that downloads.  An action ends where a *)
(* thread locks runMutex, waits, joins or reads a flag that others write.  *)
(*                                                                         *)
(* What an iteration does is in WorldControl and PostUpdate; here it only  *)
(* counts and creates the entities.  A paused Run is one without a limit.  *)
(* The simulation is not distributed.                                      *)
(***************************************************************************)
EXTENDS Naturals, FiniteSets

CONSTANTS
  Iterations,     \* the arguments of Server::Run, 0 for no limit
  None,           \* nobody holds the mutex
  MaxCalls,       \* bound: calls of Run and Stop by the owner
  MaxStopRequests \* bound: requests to the server_control service

ASSUME ServerAssumption ==
  /\ Iterations \subseteq Nat
  /\ MaxCalls \in Nat /\ MaxStopRequests \in Nat

VARIABLES
  pc,               \* where each thread is
  iterations,       \* _iterations of the Run that a thread executes
  processed,        \* its processedIterations, not counted without a limit
  runMutex,         \* who holds it
  serverRunning,    \* ServerPrivate::running
  runnerRunning,    \* SimulationRunner::running
  signalReceived,
  exitedWithErrors, \* of the server and of the runner
  waitForAssets,    \* ServerConfig::WaitForAssets
  assetNotified,    \* downloadAssetCv was notified
  createEntities,   \* of the runner
  entitiesCreated,
  call,             \* the owner's last call of Run
  calls, stopRequests,  \* how many there were, for the bounds
  overlapped,       \* history: two threads were in SimulationRunner::Run
  toldToStop        \* history: threads whose running Run met a Stop

flagVars == <<serverRunning, runnerRunning, signalReceived, exitedWithErrors>>
assetVars == <<waitForAssets, assetNotified, createEntities, entitiesCreated>>
boundVars == <<calls, stopRequests>>
historyVars == <<overlapped, toldToStop>>
runVars == <<iterations, processed>>
serverVars == <<call, pc, runVars, runMutex, flagVars, assetVars, boundVars, historyVars>>

owner == "owner"
runThread == "runThread"
handler == "handler"
stopThread == "stopThread"
downloadThread == "downloadThread"

Thread == {owner, runThread, handler, stopThread, downloadThread}
Runs == {owner, runThread}      \* the threads that may execute a Run

ASSUME NoneAssumption == None \notin Thread

InRunner == {"assets", "loop"}  \* SimulationRunner::Run, its flag set

Location ==
  {"none", "construct", "waitAssets", "ready", "checkRunning", "startThread",
   "waitStarted", "test", "begin", "enter", "flag", "end", "stop", "stopJoin",
   "destroy", "destroyJoin", "joinRun", "joinStop", "joinDownload", "gone", "done", "fetch",
   "fail", "create", "notify"} \cup InRunner

ServerInit ==
  /\ pc = [t \in Thread |-> IF t = owner THEN "construct" ELSE "none"]
  /\ call = [blocking |-> TRUE, iterations |-> 0]
  /\ iterations = [t \in Runs |-> 0] /\ processed = [t \in Runs |-> 0]
  /\ runMutex = None
  /\ serverRunning = FALSE /\ runnerRunning = FALSE
  /\ signalReceived = FALSE /\ exitedWithErrors = FALSE
  /\ waitForAssets \in BOOLEAN /\ assetNotified = FALSE
  /\ createEntities = FALSE /\ entitiesCreated = FALSE
  /\ calls = 0 /\ stopRequests = 0
  /\ overlapped = FALSE /\ toldToStop = {}

Go(t, from, to) == pc[t] = from /\ pc' = [pc EXCEPT ![t] = to]

(* The definitions that follow a "Slip" are the code's; the slip is a      *)
(* mistake in it that the checks of this module have to notice.            *)
Free == runMutex = None

(* Where a thread is when its Run has returned.                            *)
Returned(t) == IF t = owner THEN "ready" ELSE "done"

-------------------------------------------------------------------------------
(* The constructor and the download of assets.                             *)

(* The constructor quits if there was a signal; otherwise it starts the    *)
(* download and, if configured, waits for it.                              *)
Construct ==
  /\ pc[owner] = "construct"
  /\ pc' = IF signalReceived
             THEN [pc EXCEPT ![owner] = "ready"]
             ELSE [pc EXCEPT ![owner] = IF waitForAssets THEN "waitAssets" ELSE "ready",
                             ![downloadThread] = "fetch"]
  /\ UNCHANGED <<call, runVars, runMutex, flagVars, assetVars, boundVars, historyVars>>

(* SimulationRunner::CreateEntities.                                       *)
CreateEntities ==
  /\ entitiesCreated' = (entitiesCreated \/ createEntities)
  /\ createEntities' = FALSE

(* downloadAssetCv.wait has no predicate.                                  *)
WakeConstructor ==
  /\ Go(owner, "waitAssets", "ready")
  /\ CreateEntities
  /\ UNCHANGED <<call, runVars, runMutex, flagVars, waitForAssets, assetNotified,
                 boundVars, historyVars>>

AssetsArrived == assetNotified /\ WakeConstructor

SpuriousWakeup == ~assetNotified /\ WakeConstructor

SlipLockedFetch == Free

(* FetchQueuedAssets reads `running`, an atomic.                           *)
MayFetch == TRUE

(* The world is loaded once more, with errors that end it or without.      *)
Fetch ==
  /\ MayFetch
  /\ \E after \in {"fail", "create"} : Go(downloadThread, "fetch", after)
  /\ UNCHANGED <<call, runVars, runMutex, flagVars, assetVars, boundVars, historyVars>>

RunnersAt == {t \in Runs : pc[t] \in InRunner}

NewlyTold == IF runnerRunning THEN toldToStop \cup RunnersAt ELSE toldToStop

SlipStopServerOnly == toldToStop' = NewlyTold /\ UNCHANGED runnerRunning

(* SimulationRunner::Stop and OnStop.                                      *)
StopRunner == toldToStop' = NewlyTold /\ runnerRunning' = FALSE

(* The errors are fatal: future Runs are to be ignored, this one is to end.*)

Fail ==
  /\ Go(downloadThread, "fail", "create")
  /\ exitedWithErrors' = TRUE
  /\ StopRunner
  /\ assetNotified' = (assetNotified \/ pc[owner] = "waitAssets")
  /\ UNCHANGED <<call, runVars, runMutex, serverRunning, signalReceived, waitForAssets,
                 createEntities, entitiesCreated, boundVars, overlapped>>

(* SetCreateEntities, and then the notification.                           *)
SetCreateEntities ==
  /\ Go(downloadThread, "create", "notify")
  /\ createEntities' = TRUE
  /\ UNCHANGED <<call, runVars, runMutex, flagVars, waitForAssets, assetNotified,
                 entitiesCreated, boundVars, historyVars>>

NotifyConstructor ==
  /\ Go(downloadThread, "notify", "done")
  /\ assetNotified' = (assetNotified \/ pc[owner] = "waitAssets")
  /\ UNCHANGED <<call, runVars, runMutex, flagVars, waitForAssets, createEntities,
                 entitiesCreated, boundVars, historyVars>>

-------------------------------------------------------------------------------
(* Run.                                                                    *)

(* Server::Run, unless the server has exited: the test of `running` ...    *)
CallRun ==
  /\ calls < MaxCalls /\ calls' = calls + 1
  /\ ~exitedWithErrors
  /\ Go(owner, "ready", "checkRunning")
  /\ \E blocking \in BOOLEAN, n \in Iterations :
        call' = [blocking |-> blocking, iterations |-> n]
  /\ UNCHANGED <<runVars, runMutex, flagVars, assetVars, stopRequests, historyVars>>

StartRun(t) ==
  /\ iterations' = [iterations EXCEPT ![t] = call.iterations]
  /\ processed' = [processed EXCEPT ![t] = 0]

CheckRunning ==
  /\ Free
  /\ IF serverRunning
       THEN Go(owner, "checkRunning", "ready") /\ UNCHANGED runVars
       ELSE IF call.blocking
         THEN Go(owner, "checkRunning", "test") /\ StartRun(owner)
         ELSE Go(owner, "checkRunning", "startThread") /\ UNCHANGED runVars
  /\ UNCHANGED <<call, runMutex, flagVars, assetVars, boundVars, historyVars>>

(* ... and, in another critical section, the start of the run thread, of   *)
(* which there is never a second one.                                      *)
StartThread ==
  /\ pc[owner] = "startThread" /\ Free
  /\ IF pc[runThread] = "none"
       THEN /\ pc' = [pc EXCEPT ![owner] = "waitStarted", ![runThread] = "test"]
            /\ StartRun(runThread)
       ELSE Go(owner, "startThread", "ready") /\ UNCHANGED runVars
  /\ UNCHANGED <<call, runMutex, flagVars, assetVars, boundVars, historyVars>>

(* cond.wait looks at `running` when the owner has the mutex again.        *)
WaitStarted ==
  /\ Go(owner, "waitStarted", "ready")
  /\ Free /\ serverRunning
  /\ UNCHANGED <<call, runVars, runMutex, flagVars, assetVars, boundVars, historyVars>>

(* ServerPrivate::Run: "Return early if we've received a signal".          *)
TestSignal(t) ==
  /\ Go(t, "test", IF signalReceived THEN Returned(t) ELSE "begin")
  /\ UNCHANGED <<call, runVars, runMutex, flagVars, assetVars, boundVars, historyVars>>

BeginRun(t) ==
  /\ Go(t, "begin", "enter")
  /\ Free
  /\ serverRunning' = TRUE
  /\ UNCHANGED <<call, runVars, runMutex, runnerRunning, signalReceived,
                 exitedWithErrors, assetVars, boundVars, historyVars>>

(* SimulationRunner::Run.                                                  *)
EnterRunner(t) ==
  /\ Go(t, "enter", IF exitedWithErrors THEN "end" ELSE "flag")
  /\ UNCHANGED <<call, runVars, runMutex, flagVars, assetVars, boundVars, historyVars>>

SetRunnerRunning(t) ==
  /\ Go(t, "flag", IF iterations[t] > 0 THEN "assets" ELSE "loop")
  /\ runnerRunning' = TRUE
  /\ overlapped' = (overlapped \/ RunnersAt # {})
  /\ toldToStop' = toldToStop \ {t}
  /\ UNCHANGED <<call, runVars, runMutex, serverRunning, signalReceived,
                 exitedWithErrors, assetVars, boundVars>>

SlipDoNotWait == TRUE

AssetsAreThere == entitiesCreated

(* A Run with a number of iterations waits for the entities.               *)
AwaitAssets(t) ==
  /\ pc[t] = "assets"
  /\ IF AssetsAreThere \/ ~runnerRunning
       THEN Go(t, "assets", "loop") /\ UNCHANGED <<createEntities, entitiesCreated>>
       ELSE createEntities /\ CreateEntities /\ UNCHANGED pc
  /\ UNCHANGED <<call, runVars, runMutex, flagVars, waitForAssets, assetNotified,
                 boundVars, historyVars>>

GoesOn(t) == runnerRunning /\ (iterations[t] = 0 \/ processed[t] < iterations[t])

Iterate(t) ==
  /\ pc[t] = "loop" /\ GoesOn(t)
  /\ IF createEntities THEN CreateEntities ELSE UNCHANGED <<createEntities, entitiesCreated>>
  /\ processed' = IF iterations[t] = 0 THEN processed
                                       ELSE [processed EXCEPT ![t] = @ + 1]
  /\ UNCHANGED <<call, pc, iterations, runMutex, flagVars, waitForAssets,
                 assetNotified, boundVars, historyVars>>

LeaveRunner(t) ==
  /\ Go(t, "loop", "end") /\ ~GoesOn(t)
  /\ runnerRunning' = FALSE
  /\ toldToStop' = toldToStop \ {t}
  /\ UNCHANGED <<call, runVars, runMutex, serverRunning, signalReceived,
                 exitedWithErrors, assetVars, boundVars, overlapped>>

(* The lock makes Run wait for a handler that is still in Stop.            *)
EndRun(t) ==
  /\ Go(t, "end", Returned(t))
  /\ Free
  /\ serverRunning' = FALSE
  /\ UNCHANGED <<call, runVars, runMutex, runnerRunning, signalReceived,
                 exitedWithErrors, assetVars, boundVars, historyVars>>

-------------------------------------------------------------------------------
(* Stop.                                                                   *)

(* ServerPrivate::Stop: everything is told to stop ...                     *)
LockAndStop(t, from, joining) ==
  /\ Go(t, from, joining)
  /\ Free
  /\ runMutex' = t
  /\ serverRunning' = FALSE
  /\ StopRunner
  /\ UNCHANGED <<call, runVars, signalReceived, exitedWithErrors, assetVars,
                 boundVars, overlapped>>

SlipHeldToTheEnd(joining) == IF joining = "destroyJoin" THEN owner ELSE None

(* Stop has let go of the mutex before the destructor joins other threads. *)
Unlocked(joining) == None

(* ... and the download is awaited, with the mutex locked.                 *)
JoinDownload(t, joining, to) ==
  /\ Go(t, joining, to)
  /\ pc[downloadThread] \in {"none", "done"}
  /\ runMutex' = Unlocked(joining)
  /\ UNCHANGED <<call, runVars, flagVars, assetVars, boundVars, historyVars>>

CallStop ==
  /\ calls < MaxCalls /\ calls' = calls + 1
  /\ Go(owner, "ready", "stop")
  /\ UNCHANGED <<call, runVars, runMutex, flagVars, assetVars, stopRequests, historyVars>>

(* The first signal is the one that stops.                                 *)
OnSignal ==
  /\ pc[owner] # "gone"
  /\ ~signalReceived
  /\ signalReceived' = TRUE
  /\ Go(handler, "none", "stop")
  /\ UNCHANGED <<call, runVars, runMutex, serverRunning, runnerRunning,
                 exitedWithErrors, assetVars, boundVars, historyVars>>

(* ServerControlService with a request to stop: one thread is ever made.   *)
ServerControlService ==
  /\ pc[owner] \notin {"construct", "gone"}
  /\ stopRequests < MaxStopRequests /\ stopRequests' = stopRequests + 1
  /\ pc' = IF pc[stopThread] = "none" THEN [pc EXCEPT ![stopThread] = "stop"] ELSE pc
  /\ UNCHANGED <<call, runVars, runMutex, flagVars, assetVars, calls, historyVars>>

StopsServer(t) ==
  \/ LockAndStop(t, "stop", "stopJoin")
  \/ JoinDownload(t, "stopJoin", IF t = owner THEN "ready" ELSE "done")

(* The destructor.                                                         *)
Destroy ==
  /\ Go(owner, "ready", "destroy")
  /\ UNCHANGED <<call, runVars, runMutex, flagVars, assetVars, boundVars, historyVars>>

Joined(t) == pc[t] \in {"none", "done"}

JoinRun ==
  /\ Go(owner, "joinRun", "joinStop")
  /\ Joined(runThread)
  /\ UNCHANGED <<call, runVars, runMutex, flagVars, assetVars, boundVars, historyVars>>

JoinStop ==
  /\ Go(owner, "joinStop", "joinDownload")
  /\ Joined(stopThread)
  /\ UNCHANGED <<call, runVars, runMutex, flagVars, assetVars, boundVars, historyVars>>

JoinDownloadLast ==
  /\ Go(owner, "joinDownload", "gone")
  /\ Joined(downloadThread)
  /\ UNCHANGED <<call, runVars, runMutex, flagVars, assetVars, boundVars, historyVars>>

Destroying ==
  \/ LockAndStop(owner, "destroy", "destroyJoin")
  \/ JoinDownload(owner, "destroyJoin", "joinRun")
  \/ JoinRun \/ JoinStop \/ JoinDownloadLast

-------------------------------------------------------------------------------

Running(t) ==
  \/ TestSignal(t) \/ BeginRun(t) \/ EnterRunner(t) \/ SetRunnerRunning(t)
  \/ AwaitAssets(t) \/ Iterate(t) \/ LeaveRunner(t) \/ EndRun(t)

Owner ==
  \/ Construct \/ AssetsArrived
  \/ CheckRunning \/ StartThread \/ WaitStarted
  \/ Running(owner) \/ StopsServer(owner) \/ Destroying

Download == Fetch \/ Fail \/ SetCreateEntities \/ NotifyConstructor

ServerNext ==
  \/ Owner
  \/ CallRun \/ CallStop \/ Destroy
  \/ SpuriousWakeup
  \/ Running(runThread)
  \/ OnSignal \/ StopsServer(handler)
  \/ ServerControlService \/ StopsServer(stopThread)
  \/ Download

ServerSpec == ServerInit /\ [][ServerNext]_serverVars

(* Threads that can go on do so, and downloads end.  Nobody has to call,   *)
(* signal or request anything, and a condition variable need not wake      *)
(* anybody spuriously.                                                     *)
Fairness ==
  /\ WF_serverVars(Owner)
  /\ WF_serverVars(Running(runThread))
  /\ WF_serverVars(StopsServer(handler))
  /\ WF_serverVars(StopsServer(stopThread))
  /\ WF_serverVars(Download)

FairServerSpec == ServerSpec /\ Fairness

-------------------------------------------------------------------------------

ServerTypeOK ==
  /\ pc \in [Thread -> Location]
  /\ pc[downloadThread] \in {"none", "fetch", "fail", "create", "notify", "done"}
  /\ call \in [blocking : BOOLEAN, iterations : Nat]
  /\ iterations \in [Runs -> Nat] /\ processed \in [Runs -> Nat]
  /\ runMutex \in Thread \cup {None}
  /\ serverRunning \in BOOLEAN /\ runnerRunning \in BOOLEAN
  /\ signalReceived \in BOOLEAN /\ exitedWithErrors \in BOOLEAN
  /\ waitForAssets \in BOOLEAN /\ assetNotified \in BOOLEAN
  /\ createEntities \in BOOLEAN /\ entitiesCreated \in BOOLEAN
  /\ calls \in Nat /\ stopRequests \in Nat
  /\ overlapped \in BOOLEAN /\ toldToStop \in SUBSET Runs
  /\ \A t \in Thread : runMutex = t <=> pc[t] \in {"stopJoin", "destroyJoin"}

(* "We want to wait if the iterations are greater than zero because the    *)
(* user has indicated a specific number of steps to take with all assets"  *)
(* (SimulationRunner.cc:825): whatever the download does, such a Run has   *)
(* made no step without the entities.                                      *)
CountedStepsHaveEntities ==
  \A t \in Runs : processed[t] > 0 /\ ~overlapped => entitiesCreated

(* Stop awaits the download with the mutex locked, and comes to an end.    *)
StopReturns == ~Free ~> Free

(* A Stop, a signal, a stop request or a fatal error that meets a running  *)
(* Run ends it, unless another Run of the same runner comes in between.    *)
StopEndsRun == \A t \in Runs : (t \in toldToStop) ~> (t \notin toldToStop \/ overlapped)

(* The destructor waits for the download, the run thread and the stop      *)
(* thread, each of which may need runMutex to get to its end, and is waited*)
(* for by nobody: it returns, unless its Stop came while the run thread was*)
(* still on its way into the loop, where the runner's flag is set after it.*)
StopHasReached(t) == pc[t] \in {"none", "end", "done"} \/ t \in toldToStop

DestructorReturns ==
  pc[owner] = "destroyJoin" /\ StopHasReached(runThread) ~> pc[owner] = "gone"

===============================================================================
