------------------------- MODULE WorldControlProofs -------------------------
(***************************************************************************)
(* Proofs about world control for every epoch (negative ones included),    *)
(* step size, set of requests and number of requests, pauses and Runs.     *)
(***************************************************************************)
EXTENDS WorldControl, TLAPS

(* A request that Enqueue puts into the buffer is a Control.               *)
LEMMA EnqueuedIsControl ==
  ASSUME NEW content \in RequestContent \cup PlaybackContent, NEW hasState \in BOOLEAN,
         TypeOK, Enqueue(content, hasState)
  PROVE  /\ worldControls' \in Seq(Control)
         /\ newWorldControlState' \in Nat
<1>1. (IF hasState THEN messages + 1 ELSE 0) \in Nat
  BY DEF TypeOK
<1>2. [content |-> content, state |-> IF hasState THEN messages + 1 ELSE 0] \in Control
  BY <1>1 DEF Control
<1>3. QED
  BY <1>1, <1>2 DEF TypeOK, Enqueue, KeepState

(* SimulationRunner::Reset sends a WorldControl with default fields.       *)
LEMMA ResetIsRequest ==
  [pause |-> FALSE, multiStep |-> 0, rewind |-> TRUE,
   runToSimTime |-> NotUsed, seek |-> NotUsed] \in RequestContent
BY WorldControlAssumption DEF RequestContent

(* Requests of all three services are Enqueue steps.                       *)
LEMMA RequestsEnqueue ==
  ASSUME OnWorldControlState \/ OnPlaybackControl \/ Reset
  PROVE  \E content \in RequestContent \cup PlaybackContent, hasState \in BOOLEAN :
           Enqueue(content, hasState)
BY ResetIsRequest DEF OnWorldControlState, OnPlaybackControl, Reset

(* What a request may hold.                                                *)
LEMMA ContentFields ==
  ASSUME NEW c \in RequestContent \cup PlaybackContent
  PROVE  /\ c.pause \in BOOLEAN
         /\ c.rewind \in BOOLEAN
         /\ c.multiStep \in Nat
         /\ c.runToSimTime \in Int
         /\ c.seek \in Int
<1>1. NotUsed \in Int /\ StepCounts \subseteq Int /\ StepCounts \subseteq Nat
      /\ RunToTimes \subseteq Int /\ SeekTimes \subseteq Int
  BY WorldControlAssumption DEF NotUsed
<1>2. c.pause \in BOOLEAN /\ c.rewind \in BOOLEAN
  BY Zenon DEF RequestContent, PlaybackContent
<1>3. c.multiStep \in StepCounts
  BY DEF RequestContent, PlaybackContent
<1>4. /\ c.runToSimTime \in RunToTimes \cup {NotUsed}
      /\ c.seek \in SeekTimes \cup {NotUsed}
  BY DEF RequestContent, PlaybackContent
<1>5. QED
  BY <1>1, <1>2, <1>3, <1>4

(* The request at the head of the buffer.                                  *)
LEMMA HeadIsControl ==
  ASSUME TypeOK, worldControls # <<>>
  PROVE  /\ Tail(worldControls) \in Seq(Control)
         /\ Head(worldControls).state \in Nat
         /\ Head(worldControls).content \in RequestContent \cup PlaybackContent
<1>1. Head(worldControls) \in Control /\ Tail(worldControls) \in Seq(Control)
  BY DEF TypeOK
<1>2. QED
  BY <1>1 DEF Control

-------------------------------------------------------------------------------
(* Type correctness.  ProcessRequest looks at the head of the buffer, so   *)
(* there has to be one.                                                    *)
Typed ==
  /\ TypeOK
  /\ pc = "request" => worldControls # <<>>

LEMMA PauseByOthersTyped ==
  ASSUME TypeOK, NEW p \in BOOLEAN, PauseByOthers(p)
  PROVE  /\ paused' \in BOOLEAN /\ disturbed' \in BOOLEAN
         /\ stopAt' \in TimeOrNone
<1>1. paused' \in BOOLEAN /\ disturbed' \in BOOLEAN
  BY Zenon DEF PauseByOthers
<1>2. stopAt' \in TimeOrNone
  BY DEF PauseByOthers, TypeOK, TimeOrNone
<1>3. QED
  BY <1>1, <1>2

LEMMA OthersTyped ==
  ASSUME Typed,
         \/ OnWorldControlState \/ OnPlaybackControl \/ Reset
         \/ SetPaused \/ Stop
         \/ \E n \in Iterations, p, once \in BOOLEAN : Run(n, p, once)
  PROVE  Typed'
<1> USE DEF Typed, TypeOK, clockVars, requestVars, loopVars, bufferVars,
            boundVars, historyVars
<1>1. CASE OnWorldControlState \/ OnPlaybackControl \/ Reset
  <2> PICK content \in RequestContent \cup PlaybackContent, hasState \in BOOLEAN :
         Enqueue(content, hasState)
    BY <1>1, RequestsEnqueue
  <2>1. worldControls' \in Seq(Control) /\ newWorldControlState' \in Nat
    BY EnqueuedIsControl
  <2>2. pc' # "request"
    BY DEF Enqueue, BufferIsLocked
  <2>3. QED
    BY <2>1, <2>2 DEF Enqueue
<1>2. CASE SetPaused
  <2> PICK p \in BOOLEAN : PauseByOthers(p)
    BY <1>2 DEF SetPaused
  <2>1. QED
    BY <1>2, PauseByOthersTyped DEF SetPaused, CountCall
<1>3. CASE Stop
  BY <1>3 DEF Stop
<1>4. CASE \E n \in Iterations, p, once \in BOOLEAN : Run(n, p, once)
  <2> PICK n \in Iterations, p \in BOOLEAN, once \in BOOLEAN : Run(n, p, once)
    BY <1>4
  <2>1. blockingPausedStepPending' \in BOOLEAN /\ running' \in BOOLEAN
    BY Zenon DEF Run
  <2>2. PauseByOthers(p)
    BY DEF Run
  <2>3. n \in Nat
    BY WorldControlAssumption
  <2>4. QED
    BY <2>1, <2>2, <2>3, PauseByOthersTyped DEF Run, Location
<1>5. QED
  BY <1>1, <1>2, <1>3, <1>4

LEMMA ClockTyped ==
  ASSUME TypeOK
  PROVE  Rewind \/ Seek \/ Flow => simTime' \in Int /\ dt' \in Int
<1>1. simTime \in Int /\ Epoch \in Int /\ StepSize \in Int
  BY WorldControlAssumption DEF TypeOK, Time
<1>2. SeekIsRequested => requestedSeek \in Int
  BY DEF SeekIsRequested, TypeOK, TimeOrNone
<1>3. QED
  BY <1>1, <1>2 DEF Rewind, Seek, Flow, FlowDt

LEMMA RunnerTyped ==
  ASSUME Typed, Runner
  PROVE  Typed'
<1> USE DEF Typed, TypeOK, clockVars, requestVars, loopVars, bufferVars,
            boundVars, historyVars
<1>1. CASE ReturnFromRun
  BY <1>1 DEF ReturnFromRun, Location
<1>2. CASE Rewind
  <2>1. simTime' \in Int /\ dt' \in Int
    BY <1>2, ClockTyped
  <2>2. QED
    BY <1>2, <2>1 DEF Rewind, BeginIteration, Location, Time, TimeOrNone
<1>3. CASE Seek
  <2>1. simTime' \in Int /\ dt' \in Int
    BY <1>3, ClockTyped
  <2>2. QED
    BY <1>3, <2>1 DEF Seek, BeginIteration, Location, Time, TimeOrNone
<1>4. CASE Flow
  <2>1. simTime' \in Int /\ dt' \in Int
    BY <1>4, ClockTyped
  <2>2. QED
    BY <1>4, <2>1 DEF Flow, BeginIteration, Location, Time
<1>5. CASE CountIteration
  BY <1>5 DEF CountIteration, Location
<1>6. CASE ProcessNewWorldControlState
  BY <1>6 DEF ProcessNewWorldControlState, Location
<1>7. CASE UpdateSystems
  <2>1. /\ paused' \in BOOLEAN /\ disturbed' \in BOOLEAN
        /\ calls' \in Nat /\ stopAt' \in TimeOrNone
    BY <1>7, PauseByOthersTyped DEF UpdateSystems, CountCall
  <2>2. QED
    BY <1>7, <2>1 DEF UpdateSystems, Location
<1>8. CASE PauseAtRunTo
  BY <1>8 DEF PauseAtRunTo, Location, TimeOrNone
<1>9. CASE PauseAfterSteps
  <2>1. /\ pendingSimIterations' \in Nat /\ pc' = "messages"
    BY <1>9 DEF PauseAfterSteps, StepsArePending
  <2>2. paused' \in BOOLEAN
    <3>1. CASE StepsArePending
      <4>1. paused' = TRUE \/ paused' = paused
        BY <1>9, <3>1 DEF PauseAfterSteps
      <4>2. QED
        BY <4>1, Zenon
    <3>2. CASE ~StepsArePending
      BY <1>9, <3>2 DEF PauseAfterSteps
    <3>3. QED
      BY <3>1, <3>2
  <2>3. QED
    BY <1>9, <2>1, <2>2 DEF PauseAfterSteps, Location
<1>10. CASE PlayOrPause
  <2>1. paused' \in BOOLEAN
    BY <1>10, HeadIsControl, ContentFields DEF PlayOrPause
  <2>2. QED
    BY <1>10, <2>1 DEF PlayOrPause, Location, TimeOrNone
<1>11. CASE ProcessRequest
  <2> DEFINE control == Head(worldControls).content
  <2>1. /\ Tail(worldControls) \in Seq(Control)
        /\ Head(worldControls).state \in Nat
        /\ control \in RequestContent \cup PlaybackContent
    BY <1>11, HeadIsControl DEF ProcessRequest
  <2>2. /\ control.rewind \in BOOLEAN
        /\ control.multiStep \in Nat
        /\ control.runToSimTime \in Int
        /\ control.seek \in Int
    BY <2>1, ContentFields
  <2>3. pendingSimIterations' \in Nat /\ paused' \in BOOLEAN
    <3>1. CASE paused /\ control.multiStep > 0
      <4>1. pendingSimIterations' = pendingSimIterations + control.multiStep
        BY <1>11, <3>1 DEF ProcessRequest, MoreSteps
      <4>2. paused' = FALSE
        BY <1>11, <3>1 DEF ProcessRequest
      <4>3. paused' \in BOOLEAN
        BY <4>2, Zenon
      <4>4. QED
        BY <2>2, <4>1, <4>3
    <3>2. CASE ~(paused /\ control.multiStep > 0)
      BY <1>11, <3>2 DEF ProcessRequest
    <3>3. QED
      BY <3>1, <3>2
  <2>4. requestedSeek' \in TimeOrNone /\ requestedRunToSimTime' \in TimeOrNone
    BY <1>11, <2>2 DEF ProcessRequest, NextSeek, NextRunTo, TimeOrNone
  <2>5. simTime + StepSize * (pendingSimIterations + control.multiStep) \in Int
    BY <2>2, WorldControlAssumption DEF Time
  <2>6. stopAt' \in TimeOrNone
    BY <1>11, <2>5 DEF ProcessRequest, TimeOrNone
  <2>7. inForce' \in Nat
    BY <1>11, <2>1 DEF ProcessRequest
  <2>8. requestedRewind' \in BOOLEAN /\ owedReset' \in BOOLEAN /\ disturbed' \in BOOLEAN
    BY <1>11, <2>2 DEF ProcessRequest
  <2>9. QED
    BY <1>11, <2>1, <2>3, <2>4, <2>6, <2>7, <2>8 DEF ProcessRequest, Location
<1>12. CASE EndIteration
  <2>1. resetInitiated' \in BOOLEAN
    BY <1>12, Zenon DEF EndIteration, ResetIsOver
  <2>2. blockingPausedStepPending' \in BOOLEAN /\ processed' \in Nat
    <3>1. CASE paused /\ blockingPausedStepPending
      <4>1. blockingPausedStepPending' = FALSE
        BY <1>12, <3>1 DEF EndIteration
      <4>2. processed' \in Nat
        BY <1>12, <3>1 DEF EndIteration
      <4>3. QED
        BY <4>1, <4>2
    <3>2. CASE ~(paused /\ blockingPausedStepPending)
      BY <1>12, <3>2 DEF EndIteration
    <3>3. QED
      BY <3>1, <3>2
  <2>3. QED
    BY <1>12, <2>1, <2>2 DEF EndIteration, Location
<1>13. QED
  BY <1>1, <1>2, <1>3, <1>4, <1>5, <1>6, <1>7, <1>8, <1>9, <1>10, <1>11, <1>12
     DEF Runner

LEMMA AlwaysTyped == Spec => []Typed
<1>1. Init => Typed
  <2> SUFFICES ASSUME Init PROVE Typed
    OBVIOUS
  <2> USE DEF Init
  <2>1. /\ running \in BOOLEAN /\ paused \in BOOLEAN /\ requestedRewind \in BOOLEAN
        /\ resetInitiated \in BOOLEAN /\ blockingPausedStepPending \in BOOLEAN
        /\ owedReset \in BOOLEAN /\ disturbed \in BOOLEAN
    BY Zenon
  <2>2. worldControls \in Seq(Control)
    OBVIOUS
  <2>3. QED
    BY <2>1, <2>2, WorldControlAssumption
       DEF Typed, TypeOK, Location, Time, TimeOrNone
<1>2. Typed /\ [Next]_vars => Typed'
  <2>1. Typed /\ UNCHANGED vars => Typed'
    BY DEF Typed, TypeOK, vars, clockVars, requestVars, loopVars, bufferVars,
           boundVars, historyVars
  <2>2. QED
    BY <2>1, RunnerTyped, OthersTyped DEF Next
<1>3. QED
  BY <1>1, <1>2, PTL DEF Spec

(* The state of world control is well typed.                               *)
THEOREM WorldControlTypeCorrect == Spec => []TypeOK
<1>1. Typed => TypeOK
  BY DEF Typed
<1>2. QED
  BY <1>1, AlwaysTyped, PTL

-------------------------------------------------------------------------------
(* The systems' time.  From one update of the systems to the next, only    *)
(* UpdateCurrentInfo moves the clock, by the dt it leaves behind.          *)
TimeInv ==
  IF pc \in {"count", "state", "systems"}
    THEN simTime = seenTime + dt
    ELSE simTime = seenTime

LEMMA TimeStep ==
  ASSUME Typed, TimeInv, [Next]_vars
  PROVE  TimeInv'
<1> USE DEF TimeInv, clockVars, requestVars, loopVars, bufferVars, boundVars,
            historyVars
<1>1. /\ simTime \in Int /\ seenTime \in Int /\ dt \in Int
      /\ pc \in Location
  BY DEF Typed, TypeOK, Time
<1>2. CASE UNCHANGED vars
  BY <1>2 DEF vars
<1>3. CASE OnWorldControlState \/ OnPlaybackControl \/ Reset
  BY <1>3, RequestsEnqueue DEF Enqueue
<1>4. CASE SetPaused \/ Stop
  BY <1>4 DEF SetPaused, PauseByOthers, Stop
<1>5. CASE \E n \in Iterations, p, once \in BOOLEAN : Run(n, p, once)
  BY <1>5 DEF Run, PauseByOthers
<1>6. CASE Rewind \/ Seek \/ Flow
  <2>1. pc = "top" /\ pc' = "count" /\ UNCHANGED seenTime /\ simTime = seenTime
    BY <1>6 DEF Rewind, Seek, Flow, BeginIteration
  <2>2. CASE Rewind
    <3>1. dt' = Epoch - simTime /\ simTime' = Epoch /\ Epoch \in Int
      BY <2>2, WorldControlAssumption DEF Rewind
    <3>2. QED
      BY <1>1, <2>1, <3>1
  <2>3. CASE Seek
    <3>1. requestedSeek \in Int
      BY <2>3 DEF Seek, SeekIsRequested, Typed, TypeOK, TimeOrNone
    <3>2. dt' = requestedSeek - simTime /\ simTime' = requestedSeek
      BY <2>3 DEF Seek
    <3>3. QED
      BY <1>1, <2>1, <3>1, <3>2
  <2>4. CASE Flow
    <3>1. \/ dt' = StepSize /\ simTime' = simTime + StepSize
          \/ dt' = 0 /\ simTime' = simTime
      BY <2>4 DEF Flow, FlowDt
    <3>2. StepSize \in Nat
      BY WorldControlAssumption
    <3>3. QED
      BY <1>1, <2>1, <3>1, <3>2
  <2>5. QED
    BY <1>6, <2>2, <2>3, <2>4
<1>7. CASE CountIteration \/ ProcessNewWorldControlState
  BY <1>7 DEF CountIteration, ProcessNewWorldControlState
<1>8. CASE UpdateSystems
  BY <1>8 DEF UpdateSystems
<1>9. CASE ReturnFromRun \/ PauseAtRunTo \/ PauseAfterSteps
  BY <1>9 DEF ReturnFromRun, PauseAtRunTo, PauseAfterSteps
<1>10. CASE PlayOrPause \/ ProcessRequest \/ EndIteration
  BY <1>10 DEF PlayOrPause, ProcessRequest, EndIteration
<1>11. QED
  BY <1>2, <1>3, <1>4, <1>5, <1>6, <1>7, <1>8, <1>9, <1>10 DEF Next, Runner

(* From one update of the systems to the next the clock has moved by the dt*)
(* of the later one.  UpdateCurrentInfo sets the two apart, differently for*)
(* a rewind, a seek and the flow of time, and other steps, pauses, stops   *)
(* and runs come between it and the update.                                *)
THEOREM SystemsSeeAllTime == Spec => []TimeIsContinuous
<1>1. Init => TimeInv
  BY DEF Init, TimeInv
<1>2. Typed /\ TimeInv /\ [Next]_vars => TimeInv'
  BY TimeStep
<1>3. TimeInv => TimeIsContinuous
  BY DEF TimeInv, TimeIsContinuous
<1>4. QED
  BY <1>1, <1>2, <1>3, AlwaysTyped, PTL DEF Spec

-------------------------------------------------------------------------------
(* Run-to.  A run-to time is after the epoch, so that a rewind cannot get  *)
(* past it and the test of Step applies to it; after that test an          *)
(* unpaused clock is before it.                                            *)
Ahead ==
  ~paused /\ requestedRunToSimTime # None /\ ~disturbed =>
    simTime < requestedRunToSimTime

RunToInv ==
  /\ simTime >= Epoch
  /\ requestedRunToSimTime # None => requestedRunToSimTime > Epoch
  /\ pc \in {"idle", "top", "steps", "messages"} => Ahead

LEMMA RunToStep ==
  ASSUME Typed, RunToInv, [Next]_vars
  PROVE  RunToInv'
<1> USE DEF RunToInv, Ahead, clockVars, requestVars, loopVars, bufferVars,
            boundVars, historyVars
<1>1. /\ simTime \in Int /\ Epoch \in Int /\ None \notin Int
      /\ requestedRunToSimTime \in Int \cup {None}
      /\ requestedSeek \in Int \cup {None}
      /\ pc \in Location
  BY WorldControlAssumption DEF Typed, TypeOK, Time, TimeOrNone
<1>2. CASE UNCHANGED vars
  BY <1>2 DEF vars
<1>3. CASE OnWorldControlState \/ OnPlaybackControl \/ Reset
  BY <1>3, RequestsEnqueue DEF Enqueue
<1>4. CASE SetPaused \/ Stop
  BY <1>4 DEF SetPaused, PauseByOthers, Stop
<1>5. CASE \E n \in Iterations, p, once \in BOOLEAN : Run(n, p, once)
  BY <1>5 DEF Run, PauseByOthers
<1>6. CASE Rewind \/ Seek \/ Flow
  <2>1. simTime' >= Epoch
    <3>1. CASE Rewind
      BY <1>1, <3>1 DEF Rewind
    <3>2. CASE Seek
      BY <1>1, <3>2 DEF Seek, SeekIsRequested
    <3>3. CASE Flow
      <4>1. simTime' \in {simTime, simTime + StepSize} /\ StepSize \in Nat
        BY <3>3, WorldControlAssumption DEF Flow
      <4>2. QED
        BY <1>1, <4>1
    <3>4. QED
      BY <1>6, <3>1, <3>2, <3>3
  <2>2. pc' = "count" /\ UNCHANGED requestedRunToSimTime
    BY <1>6 DEF Rewind, Seek, Flow, BeginIteration
  <2>3. QED
    BY <2>1, <2>2
<1>7. CASE CountIteration \/ ProcessNewWorldControlState \/ UpdateSystems
  BY <1>7 DEF CountIteration, ProcessNewWorldControlState, UpdateSystems
<1>8. CASE ReturnFromRun \/ EndIteration
  BY <1>8 DEF ReturnFromRun, EndIteration
<1>9. CASE PauseAtRunTo
  BY <1>1, <1>9 DEF PauseAtRunTo, RunToIsReached
<1>10. CASE PauseAfterSteps
  BY <1>10 DEF PauseAfterSteps
<1>11. CASE PlayOrPause
  BY <1>11 DEF PlayOrPause
<1>12. CASE ProcessRequest
  <2>1. Head(worldControls).content.runToSimTime \in Int
    BY <1>12, HeadIsControl, ContentFields DEF ProcessRequest, Typed
  <2>2. requestedRunToSimTime' # None =>
          requestedRunToSimTime' > Epoch /\ requestedRunToSimTime' > simTime
    BY <1>1, <1>12, <2>1 DEF ProcessRequest, NextRunTo
  <2>3. requestedRunToSimTime' \in Int \cup {None} /\ UNCHANGED simTime
    BY <1>12, <2>1 DEF ProcessRequest, NextRunTo
  <2>4. QED
    BY <1>1, <2>2, <2>3
<1>13. QED
  BY <1>2, <1>3, <1>4, <1>5, <1>6, <1>7, <1>8, <1>9, <1>10, <1>11, <1>12
     DEF Next, Runner

(* No iteration begins past the run-to time, whatever was rewound, sought, *)
(* stepped or paused by request in between.                                *)
THEOREM RunToIsKept == Spec => []RunToNeverOvershoots
<1>1. Init => RunToInv
  BY WorldControlAssumption DEF Init, RunToInv, Ahead
<1>2. Typed /\ RunToInv /\ [Next]_vars => RunToInv'
  BY RunToStep
<1>3. RunToInv => RunToNeverOvershoots
  BY DEF RunToInv, Ahead, RunToNeverOvershoots
<1>4. QED
  BY <1>1, <1>2, <1>3, AlwaysTyped, PTL DEF Spec

-------------------------------------------------------------------------------
(* Resets.  A rewind that the last request of a batch asks for is owed     *)
(* until UpdateCurrentInfo turns it into a reset of the systems.           *)
ResetInv ==
  IF pc \in {"count", "state", "systems"}
    THEN ~requestedRewind /\ (resetInitiated <=> owedReset)
    ELSE /\ requestedRewind <=> owedReset
         /\ pc \in {"idle", "top"} => ~resetInitiated

LEMMA ResetStep ==
  ASSUME Typed, ResetInv, [Next]_vars
  PROVE  ResetInv'
<1> USE DEF ResetInv, clockVars, requestVars, loopVars, bufferVars, boundVars,
            historyVars
<1>1. pc \in Location
  BY DEF Typed, TypeOK
<1>2. CASE UNCHANGED vars
  BY <1>2 DEF vars
<1>3. CASE OnWorldControlState \/ OnPlaybackControl \/ Reset
  <2> PICK content \in RequestContent \cup PlaybackContent, hasState \in BOOLEAN :
         Enqueue(content, hasState)
    BY <1>3, RequestsEnqueue
  <2>1. UNCHANGED <<pc, requestedRewind, resetInitiated, owedReset>>
    BY DEF Enqueue
  <2>2. QED
    BY <2>1
<1>4. CASE SetPaused \/ Stop
  BY <1>4 DEF SetPaused, Stop
<1>5. CASE \E n \in Iterations, p, once \in BOOLEAN : Run(n, p, once)
  BY <1>5 DEF Run
<1>6. CASE Rewind
  BY <1>6 DEF Rewind, BeginIteration
<1>7. CASE Seek \/ Flow
  BY <1>7 DEF Seek, Flow, BeginIteration
<1>8. CASE CountIteration \/ ProcessNewWorldControlState
  BY <1>8 DEF CountIteration, ProcessNewWorldControlState
<1>9. CASE UpdateSystems \/ PauseAtRunTo \/ PauseAfterSteps
  BY <1>9 DEF UpdateSystems, PauseAtRunTo, PauseAfterSteps
<1>10. CASE PlayOrPause \/ ProcessRequest
  BY <1>10 DEF PlayOrPause, ProcessRequest
<1>11. CASE ReturnFromRun \/ EndIteration
  BY <1>11 DEF ReturnFromRun, EndIteration, ResetIsOver
<1>12. QED
  BY <1>2, <1>3, <1>4, <1>5, <1>6, <1>7, <1>8, <1>9, <1>10, <1>11 DEF Next, Runner

(* The systems are reset in the iteration after a batch that ends in a     *)
(* rewind, once, and never otherwise.                                      *)
THEOREM ResetsAreOwed == Spec => []EachRewindResetsOnce
<1>1. Init => ResetInv
  BY DEF Init, ResetInv
<1>2. Typed /\ ResetInv /\ [Next]_vars => ResetInv'
  BY ResetStep
<1>3. ResetInv => EachRewindResetsOnce
  BY DEF ResetInv, EachRewindResetsOnce
<1>4. QED
  BY <1>1, <1>2, <1>3, AlwaysTyped, PTL DEF Spec

-------------------------------------------------------------------------------
(* The GUI's state.  The state of every request that was buffered or acted *)
(* on is the latest one, or was replaced by it; the latest is in the       *)
(* single slot, or in the ECM if the slot is empty.                        *)
Latest == IF newWorldControlState = 0 THEN applied ELSE newWorldControlState

StateInv ==
  /\ Latest <= messages
  /\ inForce <= Latest
  /\ \A i \in DOMAIN worldControls : worldControls[i].state <= Latest
  /\ StateComesWithRequest

LEMMA StateStep ==
  ASSUME Typed, StateInv, [Next]_vars
  PROVE  StateInv'
<1> USE DEF StateInv, Latest, StateComesWithRequest, clockVars, requestVars,
            loopVars, bufferVars, boundVars, historyVars
<1>1. /\ applied \in Nat /\ inForce \in Nat /\ messages \in Nat
      /\ newWorldControlState \in Nat /\ pc \in Location
      /\ worldControls \in Seq(Control)
  BY DEF Typed, TypeOK
<1>2. \A i \in DOMAIN worldControls : worldControls[i].state \in Nat
  <2>1. \A i \in DOMAIN worldControls : worldControls[i] \in Control
    BY <1>1
  <2>2. \A control \in Control : control.state \in Nat
    BY DEF Control
  <2>3. QED
    BY <2>1, <2>2
<1>3. CASE UNCHANGED vars
  BY <1>3 DEF vars
<1>4. CASE OnWorldControlState \/ OnPlaybackControl \/ Reset
  <2> PICK content \in RequestContent \cup PlaybackContent, hasState \in BOOLEAN :
         Enqueue(content, hasState)
    BY <1>4, RequestsEnqueue
  <2> DEFINE number == IF hasState THEN messages + 1 ELSE 0
             request == [content |-> content, state |-> number]
  <2>1. /\ worldControls' = Append(worldControls, request)
        /\ newWorldControlState' = IF hasState THEN number ELSE newWorldControlState
        /\ messages' = messages + 1
        /\ UNCHANGED <<pc, applied, inForce>>
    BY DEF Enqueue, KeepState
  <2>2. /\ Latest' <= messages'
        /\ Latest <= Latest' /\ number <= Latest'
        /\ Latest' \in Nat /\ number \in Nat
    BY <1>1, <2>1
  <2>3. request.state = number
    OBVIOUS
  <2> HIDE DEF number, request
  <2>4. /\ DOMAIN worldControls' = 1 .. Len(worldControls) + 1
        /\ \A i \in 1 .. Len(worldControls) : worldControls'[i] = worldControls[i]
        /\ worldControls'[Len(worldControls) + 1] = request
        /\ DOMAIN worldControls = 1 .. Len(worldControls)
        /\ Len(worldControls) \in Nat
    BY <1>1, <2>1
  <2>5. \A i \in DOMAIN worldControls' : worldControls'[i].state <= Latest'
    <3> SUFFICES ASSUME NEW i \in 1 .. Len(worldControls) + 1
                 PROVE  worldControls'[i].state <= Latest'
      BY <2>4
    <3>1. CASE i = Len(worldControls) + 1
      BY <2>2, <2>3, <2>4, <3>1
    <3>2. CASE i \in 1 .. Len(worldControls)
      <4>1. worldControls[i].state <= Latest /\ worldControls[i].state \in Nat
        BY <1>2, <2>4, <3>2
      <4>2. QED
        BY <1>1, <2>2, <2>4, <3>2, <4>1
    <3>3. QED
      BY <2>4, <3>1, <3>2
  <2>6. QED
    BY <1>1, <2>1, <2>2, <2>5
<1>5. CASE SetPaused \/ Stop
  BY <1>5 DEF SetPaused, PauseByOthers, Stop
<1>6. CASE \E n \in Iterations, p, once \in BOOLEAN : Run(n, p, once)
  BY <1>6 DEF Run, PauseByOthers
<1>7. CASE Rewind \/ Seek \/ Flow
  BY <1>7 DEF Rewind, Seek, Flow, BeginIteration
<1>8. CASE CountIteration \/ UpdateSystems \/ PauseAtRunTo \/ PauseAfterSteps
  BY <1>8 DEF CountIteration, UpdateSystems, PauseByOthers, PauseAtRunTo, PauseAfterSteps
<1>9. CASE ProcessNewWorldControlState
  BY <1>1, <1>9 DEF ProcessNewWorldControlState
<1>10. CASE PlayOrPause \/ ReturnFromRun \/ EndIteration
  BY <1>10 DEF PlayOrPause, ReturnFromRun, EndIteration
<1>11. CASE ProcessRequest
  <2>1. /\ UNCHANGED <<newWorldControlState, messages, applied>>
        /\ pc' = "messages"
        /\ worldControls' = Tail(worldControls)
        /\ inForce' \in {inForce, Head(worldControls).state}
    BY <1>11 DEF ProcessRequest
  <2>2. worldControls # <<>>
    BY <1>11 DEF ProcessRequest, Typed
  <2>3. Head(worldControls) = worldControls[1] /\ 1 \in DOMAIN worldControls
    BY <1>1, <2>2
  <2>4. \A i \in DOMAIN Tail(worldControls) :
          i + 1 \in DOMAIN worldControls /\ Tail(worldControls)[i] = worldControls[i + 1]
    BY <1>1, <2>2
  <2>5. inForce' <= Latest'
    BY <1>1, <1>2, <2>1, <2>3
  <2>6. \A i \in DOMAIN worldControls' : worldControls'[i].state <= Latest'
    BY <2>1, <2>4
  <2>7. QED
    BY <2>1, <2>5, <2>6
<1>12. QED
  BY <1>3, <1>4, <1>5, <1>6, <1>7, <1>8, <1>9, <1>10, <1>11 DEF Next, Runner

(* The ECM changes sent along with a request are in the ECM, or replaced   *)
(* by later ones, when the systems act on the request.                     *)
THEOREM StateIsInTime == Spec => []StateComesWithRequest
<1>1. Init => StateInv
  BY DEF Init, StateInv, Latest, StateComesWithRequest
<1>2. Typed /\ StateInv /\ [Next]_vars => StateInv'
  BY StateStep
<1>3. StateInv => StateComesWithRequest
  BY DEF StateInv
<1>4. QED
  BY <1>1, <1>2, <1>3, AlwaysTyped, PTL DEF Spec

-------------------------------------------------------------------------------
(* Multi-step.  While the stop time is known, the steps still to make end  *)
(* at it; during an iteration the step under way has been made and not yet *)
(* been counted.  No jump is under way that would move the clock.          *)
Due(n) == simTime + StepSize * n

StepsInv ==
  /\ stopAt # None => stopAt <= Horizon /\ ~requestedRewind /\ requestedSeek = None
  /\ pc \in {"idle", "top", "messages"} /\ stopAt # None =>
       /\ Due(pendingSimIterations) = stopAt
       /\ paused => pendingSimIterations = 0
       /\ ~paused => pendingSimIterations > 0
  /\ pc \in {"count", "state", "systems", "runTo", "steps"} /\ stopAt # None =>
       /\ paused => pendingSimIterations = 0 /\ simTime = stopAt
       /\ ~paused => pendingSimIterations > 0 /\ Due(pendingSimIterations - 1) = stopAt
  /\ pc = "request" => stopAt = None

(* Of n steps, take one.                                                   *)
LEMMA OneStepLess ==
  ASSUME NEW n \in Nat, n > 0
  PROVE  /\ StepSize * n = StepSize * (n - 1) + StepSize
         /\ StepSize * (n - 1) \in Nat
<1>1. StepSize \in Nat /\ n - 1 \in Nat
  BY WorldControlAssumption
<1>2. QED
  BY <1>1

LEMMA NoStepsLeft == StepSize * 0 = 0
BY WorldControlAssumption

LEMMA StepsStep ==
  ASSUME Typed, StepsInv, [Next]_vars
  PROVE  StepsInv'
<1> USE DEF StepsInv, Due, clockVars, requestVars, loopVars, bufferVars,
            boundVars, historyVars
<1>1. /\ simTime \in Int /\ StepSize \in Nat /\ Horizon \in Int
      /\ None \notin Int
      /\ pendingSimIterations \in Nat
      /\ pc \in Location
  BY WorldControlAssumption DEF Typed, TypeOK, Time
<1>2. CASE UNCHANGED vars
  BY <1>2 DEF vars
<1>3. CASE OnWorldControlState \/ OnPlaybackControl \/ Reset
  <2> PICK content \in RequestContent \cup PlaybackContent, hasState \in BOOLEAN :
         Enqueue(content, hasState)
    BY <1>3, RequestsEnqueue
  <2>1. UNCHANGED <<pc, simTime, paused, stopAt, requestedRewind, requestedSeek,
                    pendingSimIterations>>
    BY DEF Enqueue
  <2>2. QED
    BY <2>1
<1>4. CASE SetPaused
  BY <1>4 DEF SetPaused, PauseByOthers
<1>5. CASE Stop
  BY <1>5 DEF Stop
<1>6. CASE \E n \in Iterations, p, once \in BOOLEAN : Run(n, p, once)
  BY <1>6 DEF Run, PauseByOthers
<1>7. CASE Rewind \/ Seek
  <2>1. stopAt = None /\ stopAt' = stopAt /\ pc' = "count"
    BY <1>7 DEF Rewind, Seek, BeginIteration, SeekIsRequested
  <2>2. QED
    BY <2>1
<1>8. CASE Flow
  <2>1. /\ pc = "top" /\ pc' = "count"
        /\ UNCHANGED <<paused, pendingSimIterations, stopAt, requestedRewind, requestedSeek>>
        /\ simTime' = IF Advances THEN simTime + StepSize ELSE simTime
    BY <1>8 DEF Flow, BeginIteration
  <2>2. CASE stopAt = None
    BY <2>1, <2>2
  <2>3. CASE stopAt # None /\ paused
    BY <1>1, <2>1, <2>3, NoStepsLeft DEF Advances
  <2>4. CASE stopAt # None /\ ~paused
    <3>1. /\ pendingSimIterations > 0
          /\ simTime + StepSize * pendingSimIterations = stopAt
          /\ stopAt <= Horizon
      BY <2>1, <2>4
    <3>2. /\ StepSize * pendingSimIterations
                = StepSize * (pendingSimIterations - 1) + StepSize
          /\ StepSize * (pendingSimIterations - 1) \in Nat
      BY <1>1, <3>1, OneStepLess
    <3>3. simTime' = simTime + StepSize
      BY <1>1, <2>1, <2>4, <3>1, <3>2 DEF Advances
    <3>4. simTime' + StepSize * (pendingSimIterations - 1) = stopAt
      BY <1>1, <3>1, <3>2, <3>3
    <3>5. QED
      BY <2>1, <2>4, <3>1, <3>4
  <2>5. QED
    BY <2>2, <2>3, <2>4
<1>9. CASE CountIteration
  BY <1>9 DEF CountIteration
<1>10. CASE ProcessNewWorldControlState
  BY <1>10 DEF ProcessNewWorldControlState
<1>11. CASE UpdateSystems
  BY <1>11 DEF UpdateSystems, PauseByOthers
<1>12. CASE PauseAtRunTo
  BY <1>12 DEF PauseAtRunTo
<1>13. CASE PauseAfterSteps
  <2>1. /\ pc = "steps" /\ pc' = "messages"
        /\ UNCHANGED <<simTime, stopAt, requestedRewind, requestedSeek>>
    BY <1>13 DEF PauseAfterSteps
  <2>2. CASE stopAt = None
    BY <2>1, <2>2
  <2>3. CASE stopAt # None /\ paused
    <3>1. UNCHANGED <<paused, pendingSimIterations>>
      BY <1>13, <2>3 DEF PauseAfterSteps, StepsArePending
    <3>2. QED
      BY <1>1, <2>1, <2>3, <3>1, NoStepsLeft
  <2>4. CASE stopAt # None /\ ~paused
    <3>1. /\ pendingSimIterations > 0
          /\ simTime + StepSize * (pendingSimIterations - 1) = stopAt
      BY <2>1, <2>4
    <3>2. /\ pendingSimIterations' = pendingSimIterations - 1
          /\ IF pendingSimIterations - 1 <= 0 THEN paused' = TRUE ELSE paused' = paused
      BY <1>13, <2>4, <3>1 DEF PauseAfterSteps, StepsArePending, WasLastStep
    <3>3. /\ paused' => pendingSimIterations' = 0
          /\ ~paused' => pendingSimIterations' > 0
      BY <1>1, <2>4, <3>1, <3>2
    <3>4. simTime' + StepSize * pendingSimIterations' = stopAt'
      BY <2>1, <3>1, <3>2
    <3>5. QED
      BY <2>1, <2>4, <3>3, <3>4
  <2>5. QED
    BY <2>2, <2>3, <2>4
<1>14. CASE PlayOrPause
  BY <1>14 DEF PlayOrPause
<1>15. CASE ProcessRequest
  <2> DEFINE n == Head(worldControls).content.multiStep
             end == simTime + StepSize * (pendingSimIterations + n)
  <2>1. n \in Nat /\ pc' = "messages" /\ UNCHANGED simTime
    BY <1>15, HeadIsControl, ContentFields DEF ProcessRequest, Typed
  <2>2. CASE stopAt' = None
    BY <2>1, <2>2
  <2>3. CASE stopAt' # None
    <3>1. /\ paused /\ n > 0 /\ end <= Horizon
          /\ ~Head(worldControls).content.rewind
          /\ requestedSeek' = None /\ stopAt' = end
      BY <1>15, <2>3 DEF ProcessRequest
    <3>2. /\ ~requestedRewind'
          /\ pendingSimIterations' = pendingSimIterations + n
          /\ ~paused'
      BY <1>15, <3>1 DEF ProcessRequest, MoreSteps
    <3>3. pendingSimIterations' > 0
      BY <1>1, <2>1, <3>1, <3>2
    <3>4. simTime' + StepSize * pendingSimIterations' = stopAt'
      BY <2>1, <3>1, <3>2
    <3>5. QED
      BY <2>1, <3>1, <3>2, <3>3, <3>4
  <2>4. QED
    BY <2>2, <2>3
<1>16. CASE ReturnFromRun \/ EndIteration
  BY <1>16 DEF ReturnFromRun, EndIteration
<1>17. QED
  BY <1>2, <1>3, <1>4, <1>5, <1>6, <1>7, <1>8, <1>9, <1>10, <1>11, <1>12,
     <1>13, <1>14, <1>15, <1>16 DEF Next, Runner

(* A multi-step moves the time by exactly its steps, and those that were   *)
(* left over, and then pauses.                                             *)
THEOREM StepsAreCounted == Spec => []StepsAreExact
<1>1. Init => StepsInv
  BY DEF Init, StepsInv
<1>2. Typed /\ StepsInv /\ [Next]_vars => StepsInv'
  BY StepsStep
<1>3. StepsInv => StepsAreExact
  BY DEF StepsInv, Due, StepsAreExact
<1>4. QED
  BY <1>1, <1>2, <1>3, AlwaysTyped, PTL DEF Spec

===============================================================================
