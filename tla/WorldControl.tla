---------------------------- MODULE WorldControl ----------------------------
(***************************************************************************)
(* World control and simulated time in SimulationRunner                    *)
(* (src/SimulationRunner.cc, src/WorldControl.hh): play, pause, multi-step,*)
(* rewind, seek and run-to-time.                                           *)
(*                                                                         *)
(* Requests come from transport threads, which put them into a buffer      *)
(* under msgBufferMutex.  The runner's thread takes them at the end of a   *)
(* step and acts on them in the next one.  Server::SetPaused and           *)
(* Server::Stop come from any thread and take no mutex, so the actions of  *)
(* the runner end where `paused` or `running` is read again.               *)
(*                                                                         *)
(* Real time, the iteration number and the `stepping` flag are left out:   *)
(* the runner publishes them and does not read them.  The runner is not    *)
(* distributed (networkMgr is null).                                       *)
(***************************************************************************)
EXTENDS Integers, Sequences

CONSTANTS
  Epoch,          \* simTimeEpoch, ServerConfig::InitialSimTime: may be negative
  StepSize,       \* stepSize
  StepCounts,     \* the multi_step values of requests, 0 for none
  RunToTimes,     \* the run_to_sim_time values of requests
  SeekTimes,      \* the seek values of requests
  Iterations,     \* the arguments of Server::Run, 0 for no limit
  None,           \* std::nullopt
  Horizon,        \* bound: simulated time stops here
  MaxMessages,    \* bound: requests
  MaxCalls,       \* bound: calls of SetPaused and Pause events
  MaxRuns         \* bound: calls of Run on a server that does not run

ASSUME WorldControlAssumption ==
  /\ Epoch \in Int
  /\ StepSize \in Nat /\ StepSize > 0
  /\ 0 \in StepCounts /\ StepCounts \subseteq Nat
  /\ RunToTimes \subseteq Nat
  /\ SeekTimes \subseteq Nat
  /\ Iterations \subseteq Nat
  /\ None \notin Int
  /\ Horizon \in Int
  /\ MaxMessages \in Nat
  /\ MaxCalls \in Nat
  /\ MaxRuns \in Nat

VARIABLES
  pc,                     \* where the thread of Run is
  running,                \* SimulationRunner::running
  limit,                  \* _iterations of Run
  processed,              \* processedIterations of Run, not counted without a limit
  simTime, dt, paused,    \* currentInfo
  requestedRewind,
  requestedSeek,
  requestedRunToSimTime,
  pendingSimIterations,
  resetInitiated,
  blockingPausedStepPending,
  worldControls,          \* the buffer of requests
  newWorldControlState,   \* the buffered ECM state: number of its request, or 0
  messages, calls, runs,  \* how many there were, for the bounds
  applied,                \* history: the last ECM state given to the ECM
  inForce,                \* history: the last state of a request acted on
  seenTime,               \* history: the time of the systems' last update
  owedReset,              \* history: the last batch of requests ended in a rewind
  stopAt,                 \* history: when stepping has to end, None if unknown
  disturbed               \* history: somebody else paused or played since run-to

clockVars == <<simTime, dt>>
requestVars == <<requestedRewind, requestedSeek, requestedRunToSimTime,
                 pendingSimIterations>>
loopVars == <<running, limit, processed, blockingPausedStepPending>>
bufferVars == <<worldControls, newWorldControlState>>
boundVars == <<messages, calls, runs>>
historyVars == <<applied, inForce, seenTime, owedReset, stopAt, disturbed>>
vars == <<pc, clockVars, paused, requestVars, resetInitiated, loopVars,
          bufferVars, boundVars, historyVars>>

NotUsed == -1     \* a time in a WorldControl that was not set

RequestContent ==
  [pause : BOOLEAN, multiStep : StepCounts, rewind : BOOLEAN,
   runToSimTime : RunToTimes \cup {NotUsed}, seek : {NotUsed}]

PlaybackContent ==
  [pause : BOOLEAN, multiStep : StepCounts, rewind : BOOLEAN,
   runToSimTime : {NotUsed}, seek : SeekTimes \cup {NotUsed}]

Location == {"idle", "top", "count", "state", "systems", "runTo", "steps",
             "messages", "request"}

Init ==
  /\ pc = "idle"
  /\ running = FALSE /\ limit = 0 /\ processed = 0
  /\ simTime = Epoch /\ dt = 0 /\ paused = TRUE
  /\ requestedRewind = FALSE /\ requestedSeek = None
  /\ requestedRunToSimTime = None /\ pendingSimIterations = 0
  /\ resetInitiated = FALSE /\ blockingPausedStepPending = FALSE
  /\ worldControls = <<>> /\ newWorldControlState = 0
  /\ messages = 0 /\ calls = 0 /\ runs = 0
  /\ applied = 0 /\ inForce = 0 /\ seenTime = Epoch /\ owedReset = FALSE
  /\ stopAt = None /\ disturbed = FALSE

-------------------------------------------------------------------------------
(* Requests from other threads.                                            *)

BufferIsLocked == pc \in {"messages", "request"}

(* The definitions that follow a "Slip" are the code's; the slip is a      *)
(* mistake in it that the checks of this module have to notice.            *)
SlipKeepFirst(n) == IF newWorldControlState = 0 THEN n ELSE newWorldControlState

KeepState(n) == n

(* OnWorldControlState, with or without the state of the GUI's ECM, and    *)
(* OnPlaybackControl.                                                      *)
Enqueue(content, hasState) ==
  LET number == IF hasState THEN messages + 1 ELSE 0
  IN  /\ messages < MaxMessages
      /\ ~BufferIsLocked
      /\ worldControls' = Append(worldControls, [content |-> content, state |-> number])
      /\ newWorldControlState' =
           IF hasState THEN KeepState(number) ELSE newWorldControlState
      /\ messages' = messages + 1
      /\ UNCHANGED <<pc, clockVars, paused, requestVars, resetInitiated,
                     loopVars, calls, runs, historyVars>>

OnWorldControlState ==
  \E content \in RequestContent, hasState \in BOOLEAN : Enqueue(content, hasState)

OnPlaybackControl == \E content \in PlaybackContent : Enqueue(content, FALSE)

(* SimulationRunner::Reset, from Server::Reset and ResetAll: the request's *)
(* other fields keep their defaults.                                       *)
Reset ==
  Enqueue([pause |-> FALSE, multiStep |-> 0, rewind |-> TRUE,
           runToSimTime |-> NotUsed, seek |-> NotUsed], FALSE)

(* Somebody other than the runner pauses or plays the simulation.          *)
PauseByOthers(p) ==
  /\ paused' = p
  /\ stopAt' = None
  /\ disturbed' = TRUE

CountCall ==
  /\ calls < MaxCalls
  /\ calls' = calls + 1

(* Server::SetPaused, and Server::Run on a server that already runs.       *)
SetPaused ==
  /\ CountCall
  /\ \E p \in BOOLEAN : PauseByOthers(p)
  /\ UNCHANGED <<pc, clockVars, requestVars, resetInitiated, loopVars,
                 bufferVars, messages, runs, applied, inForce, seenTime, owedReset>>

Stop ==
  /\ running
  /\ running' = FALSE
  /\ UNCHANGED <<pc, clockVars, paused, requestVars, resetInitiated, limit,
                 processed, blockingPausedStepPending, bufferVars, boundVars,
                 historyVars>>

(* Server::Run and, with `once`, Server::RunOnce.                          *)
Run(n, p, once) ==
  /\ pc = "idle"
  /\ once => n = 1
  /\ runs < MaxRuns
  /\ runs' = runs + 1
  /\ PauseByOthers(p)
  /\ blockingPausedStepPending' = (blockingPausedStepPending \/ (once /\ p))
  /\ running' = TRUE
  /\ limit' = n
  /\ processed' = 0
  /\ pc' = "top"
  /\ UNCHANGED <<clockVars, requestVars, resetInitiated, bufferVars, messages,
                 calls, applied, inForce, seenTime, owedReset>>

-------------------------------------------------------------------------------
(* The loop of SimulationRunner::Run.                                      *)

GoesOn == running /\ (limit = 0 \/ processed < limit)

ReturnFromRun ==
  /\ pc = "top" /\ ~GoesOn
  /\ pc' = "idle"
  /\ running' = FALSE
  /\ UNCHANGED <<clockVars, paused, requestVars, resetInitiated, limit,
                 processed, blockingPausedStepPending, bufferVars, boundVars,
                 historyVars>>

BeginIteration ==
  /\ pc = "top" /\ GoesOn
  /\ pc' = "count"
  /\ UNCHANGED <<paused, requestedRunToSimTime, pendingSimIterations, loopVars,
                 bufferVars, boundVars, historyVars>>

(* The three branches of UpdateCurrentInfo: rewind, seek, regular flow.    *)
Rewind ==
  /\ BeginIteration
  /\ requestedRewind
  /\ dt' = Epoch - simTime
  /\ simTime' = Epoch
  /\ resetInitiated' = TRUE
  /\ requestedRewind' = FALSE
  /\ UNCHANGED requestedSeek

SeekIsRequested == requestedSeek # None /\ requestedSeek >= Epoch

Seek ==
  /\ BeginIteration
  /\ ~requestedRewind
  /\ SeekIsRequested
  /\ dt' = requestedSeek - simTime
  /\ simTime' = requestedSeek
  /\ requestedSeek' = None
  /\ UNCHANGED <<resetInitiated, requestedRewind>>

(* A step in a played simulation; the clock stands still at the Horizon.   *)
Advances == ~paused /\ simTime + StepSize <= Horizon

SlipStaleDt == IF Advances THEN StepSize ELSE dt

FlowDt == IF Advances THEN StepSize ELSE 0

Flow ==
  /\ BeginIteration
  /\ ~requestedRewind
  /\ ~SeekIsRequested
  /\ dt' = FlowDt
  /\ simTime' = IF Advances THEN simTime + StepSize ELSE simTime
  /\ UNCHANGED <<resetInitiated, requestedRewind, requestedSeek>>

CountIteration ==
  /\ pc = "count"
  /\ pc' = "state"
  /\ processed' = IF paused \/ limit = 0 THEN processed ELSE processed + 1
  /\ UNCHANGED <<clockVars, paused, requestVars, resetInitiated, running, limit,
                 blockingPausedStepPending, bufferVars, boundVars, historyVars>>

(* The GUI's changes go to the ECM before the systems are updated.         *)
ProcessNewWorldControlState ==
  /\ pc = "state"
  /\ pc' = "systems"
  /\ newWorldControlState' = 0
  /\ applied' = IF newWorldControlState = 0 THEN applied ELSE newWorldControlState
  /\ UNCHANGED <<clockVars, paused, requestVars, resetInitiated, loopVars,
                 worldControls, boundVars, inForce, seenTime, owedReset, stopAt,
                 disturbed>>

(* The systems are updated, or reset; one of them may emit a Pause event.  *)
UpdateSystems ==
  /\ pc = "systems"
  /\ pc' = "runTo"
  /\ seenTime' = simTime
  /\ owedReset' = FALSE
  /\ \/ UNCHANGED <<paused, calls, stopAt, disturbed>>
     \/ CountCall /\ \E p \in BOOLEAN : PauseByOthers(p)
  /\ UNCHANGED <<clockVars, requestVars, resetInitiated, loopVars, bufferVars,
                 messages, runs, applied, inForce>>

SlipRunToIsHit == simTime = requestedRunToSimTime

RunToIsReached ==
  /\ requestedRunToSimTime # None
  /\ requestedRunToSimTime > Epoch
  /\ simTime >= requestedRunToSimTime

(* "... to run to and then pause".                                         *)
PauseAtRunTo ==
  /\ pc = "runTo"
  /\ pc' = "steps"
  /\ IF ~paused /\ RunToIsReached
       THEN paused' = TRUE /\ requestedRunToSimTime' = None /\ stopAt' = None
       ELSE UNCHANGED <<paused, requestedRunToSimTime, stopAt>>
  /\ UNCHANGED <<clockVars, requestedRewind, requestedSeek, pendingSimIterations,
                 resetInitiated, loopVars, bufferVars, boundVars, applied,
                 inForce, seenTime, owedReset, disturbed>>

StepsArePending == ~paused /\ pendingSimIterations > 0

WasLastStep(left) == left <= 0

(* Count the steps of a multi-step and pause after the last; then lock the *)
(* buffer (a request that comes in between comes as well before).          *)
PauseAfterSteps ==
  /\ pc = "steps"
  /\ pc' = "messages"
  /\ IF StepsArePending
       THEN /\ pendingSimIterations' = pendingSimIterations - 1
            /\ IF WasLastStep(pendingSimIterations - 1)
                 THEN paused' = TRUE
                 ELSE UNCHANGED paused
       ELSE UNCHANGED <<paused, pendingSimIterations>>
  /\ UNCHANGED <<clockVars, requestedRewind, requestedSeek,
                 requestedRunToSimTime, resetInitiated, loopVars, bufferVars,
                 boundVars, historyVars>>

(* ProcessWorldControl, one request at a time: first play or pause ...     *)
PlayOrPause ==
  /\ pc = "messages" /\ worldControls # <<>>
  /\ pc' = "request"
  /\ paused' = Head(worldControls).content.pause
  /\ stopAt' = None
  /\ UNCHANGED <<clockVars, requestVars, resetInitiated, loopVars, bufferVars,
                 boundVars, applied, inForce, seenTime, owedReset, disturbed>>

(* ... then steps, if it is paused, and the requests for the next          *)
(* iteration.                                                              *)
NextSeek(control) ==
  IF control.seek >= Epoch THEN control.seek ELSE requestedSeek

SlipAnyRunTo(t) == IF t >= Epoch THEN t ELSE None

(* SetRunToSimTime                                                         *)
NextRunTo(t) == IF t >= Epoch /\ t > simTime THEN t ELSE None

SlipOnlyTheseSteps(n) == n

MoreSteps(n) == pendingSimIterations + n

ProcessRequest ==
  LET control == Head(worldControls).content
      steps == paused /\ control.multiStep > 0
  IN  /\ pc = "request"
      /\ pc' = "messages"
      /\ IF steps
           THEN /\ pendingSimIterations' = MoreSteps(control.multiStep)
                /\ paused' = FALSE
           ELSE UNCHANGED <<pendingSimIterations, paused>>
      /\ requestedRewind' = control.rewind
      /\ requestedSeek' = NextSeek(control)
      /\ requestedRunToSimTime' = NextRunTo(control.runToSimTime)
      /\ worldControls' = Tail(worldControls)
      /\ inForce' = IF Head(worldControls).state = 0 THEN inForce
                                                     ELSE Head(worldControls).state
      /\ owedReset' = control.rewind
      /\ LET end == simTime + StepSize * (pendingSimIterations + control.multiStep)
         IN  stopAt' = IF /\ steps /\ end <= Horizon
                          /\ ~control.rewind /\ requestedSeek' = None
                         THEN end ELSE None
      /\ disturbed' = FALSE
      /\ UNCHANGED <<clockVars, resetInitiated, loopVars, newWorldControlState,
                     boundVars, applied, seenTime>>

SlipStillReset == resetInitiated

ResetIsOver == FALSE

(* The end of an iteration: RunOnce(paused) has had its step.              *)
EndIteration ==
  /\ pc = "messages" /\ worldControls = <<>>
  /\ pc' = "top"
  /\ IF paused /\ blockingPausedStepPending
       THEN /\ processed' = IF limit = 0 THEN processed ELSE processed + 1
            /\ blockingPausedStepPending' = FALSE
       ELSE UNCHANGED <<processed, blockingPausedStepPending>>
  /\ resetInitiated' = ResetIsOver
  /\ UNCHANGED <<clockVars, paused, requestVars, running, limit, bufferVars,
                 boundVars, historyVars>>

Runner ==
  \/ ReturnFromRun
  \/ Rewind \/ Seek \/ Flow
  \/ CountIteration
  \/ ProcessNewWorldControlState
  \/ UpdateSystems
  \/ PauseAtRunTo
  \/ PauseAfterSteps
  \/ PlayOrPause \/ ProcessRequest
  \/ EndIteration

Next ==
  \/ Runner
  \/ \E n \in Iterations, p, once \in BOOLEAN : Run(n, p, once)
  \/ OnWorldControlState \/ OnPlaybackControl \/ Reset
  \/ SetPaused
  \/ Stop

Spec == Init /\ [][Next]_vars

(* The thread of Run runs.  Nobody has to request, pause, play or stop.    *)
FairSpec == Spec /\ WF_vars(Runner)

-------------------------------------------------------------------------------

Time == Int
TimeOrNone == Int \cup {None}
Control == [content : RequestContent \cup PlaybackContent, state : Nat]

TypeOK ==
  /\ pc \in Location
  /\ running \in BOOLEAN /\ limit \in Nat /\ processed \in Nat
  /\ simTime \in Time /\ dt \in Int /\ paused \in BOOLEAN
  /\ requestedRewind \in BOOLEAN
  /\ requestedSeek \in TimeOrNone
  /\ requestedRunToSimTime \in TimeOrNone
  /\ pendingSimIterations \in Nat
  /\ resetInitiated \in BOOLEAN
  /\ blockingPausedStepPending \in BOOLEAN
  /\ worldControls \in Seq(Control)
  /\ newWorldControlState \in Nat
  /\ messages \in Nat /\ calls \in Nat /\ runs \in Nat
  /\ applied \in Nat /\ inForce \in Nat
  /\ seenTime \in Time /\ owedReset \in BOOLEAN
  /\ stopAt \in TimeOrNone /\ disturbed \in BOOLEAN

(* dt is the "Simulation time handled during a single update" (Types.hh:48)*)
(* whatever is requested and whoever pauses, stops or runs in between: from*)
(* one update of the systems to the next the clock moves by what the later *)
(* one is told.  No jump or step of the clock is told twice, none goes     *)
(* untold in an iteration that does not get to the systems, and none stays *)
(* in dt for a paused update after it.                                     *)
TimeIsContinuous == pc = "systems" => simTime = seenTime + dt

(* "... a simulation time in the future to run to and then pause"          *)
(* (SimulationRunner.hh:226): whoever steps, seeks, rewinds or pauses by   *)
(* request, no iteration begins past the requested time unless somebody    *)
(* else has paused or played since the request.                            *)
RunToNeverOvershoots ==
  pc = "top" /\ ~paused /\ requestedRunToSimTime # None /\ ~disturbed =>
    simTime < requestedRunToSimTime

(* A multi-step "will run a given number of iterations" and no more, those *)
(* left over from earlier requests included: the simulation pauses when    *)
(* the time has moved by that many steps, unless a rewind, a seek, the     *)
(* run-to time, a later request or somebody else comes in between.         *)
StepsAreExact ==
  pc \in {"top", "idle"} /\ stopAt # None =>
    /\ simTime + StepSize * pendingSimIterations = stopAt
    /\ paused <=> pendingSimIterations = 0

(* The systems are reset once for every batch of requests that ends in a   *)
(* rewind, in the iteration after it, and at no other time.                *)
EachRewindResetsOnce == pc = "systems" => (resetInitiated <=> owedReset)

(* The ECM changes that the GUI sends along with a request are in the ECM  *)
(* when the systems act on the request, or later changes are.              *)
StateComesWithRequest == pc = "systems" => applied >= inForce

(* No request keeps the simulation running for ever: again and again it is *)
(* paused or stopped, or neither steps nor a run-to time are pending, as   *)
(* the last of them has paused it or was withdrawn.                        *)
RequestsEnd ==
  []<>(paused \/ ~running
         \/ (pendingSimIterations = 0 /\ requestedRunToSimTime = None))

===============================================================================
