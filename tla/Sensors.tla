------------------------------- MODULE Sensors -------------------------------
(***************************************************************************)
(* The Sensors system (src/systems/sensors/Sensors.cc): camera-like sensors*)
(* are rendered in a thread of their own.  The simulation thread calls     *)
(* PostUpdate and Reset and hands the renderer the changes of the entities *)
(* (RenderUtil's queues) and the sensors that are due; Stop comes from     *)
(* whatever thread stops the server, ForceRender from other systems,       *)
(* subscribers come and go.                                                *)
(*                                                                         *)
(* An action ends where a thread locks a mutex, waits, or reads what       *)
(* another thread writes and the outcome may depend on it.  A thread in    *)
(* `asleep` waits on renderCv, or, the simulation thread at "awaitScene",  *)
(* on updateTimeCv.  The renderer's wait for a frame tests its condition   *)
(* every millisecond: it needs nobody to wake it.                          *)
(*                                                                         *)
(* A render engine that cannot be started, triggered cameras and batteries *)
(* are left out.  Time is counted in steps of the simulation.              *)
(***************************************************************************)
EXTENDS Integers, FiniteSetsExt

CONSTANTS
  Sensor,           \* sensor ids, ordered as in std::set
  Period,           \* 1 / UpdateRate of each
  MaxTime, MaxSteps, MaxResets,  \* bounds
  MaxEvents         \* bound: renderings forced and subscriptions changed

ASSUME SensorsAssumption ==
  /\ Sensor \subseteq Nat /\ IsFiniteSet(Sensor)
  /\ Period \in [Sensor -> Nat \ {0}]
  /\ \A b \in {MaxTime, MaxSteps, MaxResets, MaxEvents} : b \in Nat

VARIABLES
  simPc, renderPc, stopPc,  \* where each thread is
  asleep,            \* threads that wait on a condition variable
  ecm,               \* the entities: step, simTime, resets and sensors of the world
  collected,         \* the state of the entities that renderUtil holds
  newSensors, removedSensors,  \* queues of renderUtil
  making,            \* what the renderer took from these queues
  sceneStep,         \* the step whose entities the scene shows
  sensorIds,
  connected,         \* sensors with subscribers
  renderListener,    \* somebody listens to PreRender, Render or PostRender
  dataTime,          \* NextDataUpdateTime of each sensor
  running, initialized, doInit, updateAvailable, forceUpdate,
  updateTime, updateTimeApplied, updateTimeToApply,
  nextUpdateTime, activeSensors, sensorsToUpdate,
  events,            \* how many there were, for the bound
  asked,             \* history: the step that asked for the last frame
  blind,             \* history: the times cannot tell whether it is applied
  scheduled          \* history: sensors of the last NextUpdateTime

ecmVars == <<ecm, renderListener>>
queueVars == <<newSensors, removedSensors>>
timeVars == <<updateTime, updateTimeApplied, updateTimeToApply>>
flagVars == <<running, initialized, doInit>>
planVars == <<nextUpdateTime, sensorsToUpdate, scheduled>>
renderVars == <<making, sceneStep, sensorIds>>
historyVars == <<asked, blind>>
pcVars == <<simPc, renderPc, stopPc>>
dataVars == <<ecmVars, collected, queueVars, renderVars, connected, dataTime>>
syncVars == <<flagVars, updateAvailable, forceUpdate>>
workVars == <<timeVars, planVars, activeSensors>>
bookVars == <<events, historyVars>>
sensorsVars == <<pcVars, asleep, dataVars, syncVars, workVars, bookVars>>

Never == MaxTime + Max({Period[s] : s \in Sensor}) + 1  \* duration::max()

SensorsInit ==
  /\ simPc = "idle" /\ renderPc = "awaitInit" /\ stopPc = "none" /\ asleep = {}
  /\ ecm = [step |-> 0, time |-> 0, resets |-> 0, sensors |-> {}, gone |-> {}]
  /\ renderListener \in BOOLEAN
  /\ collected = [step |-> 0, sensors |-> {}]
  /\ sceneStep = 0
  /\ newSensors = {} /\ removedSensors = {} /\ sensorIds = {}
  /\ making = [new |-> {}, removed |-> {}]
  /\ connected \in SUBSET Sensor
  /\ dataTime = [s \in Sensor |-> 0]
  /\ running = TRUE /\ initialized = FALSE /\ doInit = FALSE
  /\ updateAvailable = FALSE /\ forceUpdate = FALSE
  /\ updateTime = 0 /\ updateTimeApplied = 0 /\ updateTimeToApply = 0
  /\ nextUpdateTime = 0 /\ activeSensors = {} /\ sensorsToUpdate = {}
  /\ events = 0
  /\ asked = 0 /\ blind = FALSE /\ scheduled = {}

(* The definitions that follow a "Slip" are the code's; the slip is a      *)
(* mistake in it that the checks of this module have to notice.            *)

SimGoes(from, to) == simPc = from /\ simPc' = to /\ UNCHANGED <<renderPc, stopPc>>
RenderGoes(from, to) == renderPc = from /\ renderPc' = to /\ UNCHANGED <<simPc, stopPc>>

(* The renderer keeps renderUtilMutex while it applies; the mutexes are    *)
(* otherwise given back in the action that takes them.                     *)
RenderUtilMutexFree == renderPc # "applying"

OnUpdateTimeCv == asleep \cap (IF simPc = "awaitScene" THEN {"sim"} ELSE {})
OnRenderCv == asleep \ OnUpdateTimeCv

SlipNoNotify == UNCHANGED asleep

(* renderCv.notify_one.                                                    *)
NotifyRenderCv ==
  IF OnRenderCv = {} THEN UNCHANGED asleep
                     ELSE \E t \in OnRenderCv : asleep' = asleep \ {t}

-------------------------------------------------------------------------------
(* The simulation thread.                                                  *)

NextDataTime(s, now) ==
  IF dataTime[s] <= now THEN dataTime[s] + Period[s] ELSE dataTime[s]

Schedulable == sensorIds \cap connected

SlipFromNow(now) ==
  /\ nextUpdateTime' = IF Schedulable = {} THEN Never
                         ELSE now + Min({Period[s] : s \in Schedulable})
  /\ sensorsToUpdate' = Schedulable
  /\ scheduled' = Schedulable

(* The sensors to update are those from the last one that has the smallest *)
(* time on: an earlier one with the same time is dropped, a later one with *)
(* a larger time is not.  Only whether there are any matters.              *)
NextUpdateTime(now) ==
  LET min == Min({NextDataTime(s, now) : s \in Schedulable})
      last == Max({s \in Schedulable : NextDataTime(s, now) = min})
  IN  /\ nextUpdateTime' = IF Schedulable = {} THEN Never ELSE min
      /\ sensorsToUpdate' =
           IF Schedulable = {} THEN {} ELSE {s \in Schedulable : s >= last}
      /\ scheduled' = Schedulable

(* A step of the simulation: systems add and remove sensors, and the       *)
(* PostUpdate of this one is called.                                       *)
BeginStep ==
  /\ SimGoes("idle", "requestInit")
  /\ stopPc = "none"
  /\ ecm.step < MaxSteps
  /\ \E paused \in BOOLEAN, sensors \in SUBSET (Sensor \ ecm.gone) :
       /\ ecm' = [ecm EXCEPT !.step = @ + 1, !.time = IF paused THEN @ ELSE @ + 1,
                             !.sensors = sensors, !.gone = @ \cup (ecm.sensors \ sensors)]
       /\ ecm'.time <= MaxTime
  /\ UNCHANGED <<asleep, renderListener, collected, queueVars, renderVars, connected,
                 dataTime, syncVars, workVars, bookVars>>

(* The sensors are reset first, then, with renderUtilMutex, the times.     *)
ResetSensors ==
  /\ simPc = "idle" /\ stopPc = "none" /\ ecm.resets < MaxResets
  /\ running /\ initialized
  /\ simPc' = "resetTimes" /\ UNCHANGED <<renderPc, stopPc>>
  /\ ecm' = [ecm EXCEPT !.time = 0, !.resets = @ + 1]
  /\ activeSensors' = {} /\ sensorsToUpdate' = {}
  /\ dataTime' = [s \in Sensor |-> IF s \in sensorIds THEN 0 ELSE dataTime[s]]
  /\ nextUpdateTime' = 0
  /\ UNCHANGED <<asleep, renderListener, collected, queueVars, renderVars,
                 connected, syncVars, timeVars, scheduled, bookVars>>

ResetTimes ==
  /\ SimGoes("resetTimes", "idle")
  /\ RenderUtilMutexFree
  /\ updateTime' = 0 /\ updateTimeToApply' = 0 /\ updateTimeApplied' = 0
  /\ blind' = TRUE
  /\ UNCHANGED <<asleep, dataVars, syncVars, planVars, activeSensors, events, asked>>

(* PostUpdate asks for the initialization of rendering; HasComponentType   *)
(* is true for a type that was ever used.                                  *)
RequestInit ==
  /\ SimGoes("requestInit", "test")
  /\ IF ~initialized /\ (forceUpdate \/ ecm.sensors \cup ecm.gone # {})
       THEN doInit' = TRUE /\ NotifyRenderCv
       ELSE UNCHANGED <<doInit, asleep>>
  /\ UNCHANGED <<dataVars, running, initialized, updateAvailable, forceUpdate,
                 workVars, bookVars>>

TestRunning ==
  /\ SimGoes("test", IF running /\ initialized THEN "awaitScene" ELSE "idle")
  /\ UNCHANGED <<asleep, dataVars, syncVars, workVars, bookVars>>

SlipApplied == TRUE

(* The changes of the last frame have been taken over by the scene.        *)
Applied == ~updateAvailable \/ updateTimeToApply = updateTimeApplied

SleepForScene ==
  /\ simPc = "awaitScene" /\ RenderUtilMutexFree /\ ~Applied /\ "sim" \notin asleep
  /\ asleep' = asleep \cup {"sim"}
  /\ UNCHANGED <<pcVars, dataVars, syncVars, workVars, bookVars>>

(* RenderUtil::UpdateFromECM.                                              *)
UpdateFromECM ==
  /\ SimGoes("awaitScene", "decide")
  /\ RenderUtilMutexFree /\ Applied /\ "sim" \notin asleep
  /\ collected' = [step |-> ecm.step, sensors |-> ecm.sensors]
  /\ newSensors' = newSensors \cup (ecm.sensors \ collected.sensors)
  /\ removedSensors' = removedSensors \cup (collected.sensors \ ecm.sensors)
  /\ updateTime' = ecm.time
  /\ UNCHANGED <<asleep, ecmVars, renderVars, connected, dataTime, syncVars,
                 updateTimeApplied, updateTimeToApply, planVars, activeSensors,
                 bookVars>>

(* If there were no sensors to plan for, there may be now.                 *)
PlanAgain ==
  IF nextUpdateTime = Never /\ Schedulable # {} THEN NextUpdateTime(ecm.time)
                                                ELSE UNCHANGED planVars

SlipOnlyDue(next) == next <= ecm.time

FrameWanted(next) ==
  renderListener \/ next <= ecm.time \/ newSensors # {} \/ forceUpdate

Decide ==
  /\ PlanAgain
  /\ SimGoes("decide", IF FrameWanted(nextUpdateTime') THEN "awaitRenderer" ELSE "idle")
  /\ UNCHANGED <<asleep, dataVars, syncVars, timeVars, activeSensors, bookVars>>

RendererIsDone == ~running \/ ~updateAvailable

SleepForRenderer ==
  /\ simPc = "awaitRenderer" /\ "sim" \notin asleep /\ ~RendererIsDone
  /\ asleep' = asleep \cup {"sim"}
  /\ UNCHANGED <<pcVars, dataVars, syncVars, workVars, bookVars>>

(* It returns if the system was stopped; otherwise it hands over the       *)
(* sensors, plans the next time, sets forceUpdate anew and asks for a      *)
(* frame.                                                                  *)
AskForFrame ==
  /\ running
  /\ RenderUtilMutexFree
  /\ activeSensors' = sensorsToUpdate
  /\ NextUpdateTime(ecm.time)
  /\ forceUpdate' = (newSensors # {} \/ renderListener)
  /\ updateTimeToApply' = updateTime
  /\ updateAvailable' = TRUE
  /\ blind' = (updateTime = updateTimeApplied)
  /\ asked' = collected.step

EndPostUpdate ==
  /\ SimGoes("awaitRenderer", "idle")
  /\ "sim" \notin asleep /\ RendererIsDone
  /\ \/ AskForFrame
     \/ /\ ~running
        /\ UNCHANGED <<activeSensors, planVars, forceUpdate, updateTimeToApply,
                       updateAvailable, blind, asked>>
  /\ UNCHANGED <<asleep, dataVars, flagVars, updateTime, updateTimeApplied,
                 events>>

-------------------------------------------------------------------------------
(* The render thread.                                                      *)

(* WaitForInit.                                                            *)
SleepForInit ==
  /\ renderPc = "awaitInit" /\ "render" \notin asleep /\ ~doInit /\ running
  /\ asleep' = asleep \cup {"render"}
  /\ UNCHANGED <<pcVars, dataVars, syncVars, workVars, bookVars>>

Initialize ==
  /\ RenderGoes("awaitInit", "awaitFrame")
  /\ "render" \notin asleep /\ (doInit \/ ~running)
  /\ initialized' = doInit
  /\ updateAvailable' = FALSE
  /\ NotifyRenderCv
  /\ UNCHANGED <<dataVars, running, doInit, forceUpdate, workVars, bookVars>>

(* RenderThread's loop and the wait in RunOnce.                            *)
StartFrame ==
  /\ RenderGoes("awaitFrame", "apply")
  /\ updateAvailable /\ running
  /\ UNCHANGED <<asleep, dataVars, syncVars, workVars, bookVars>>

LeaveLoop ==
  /\ RenderGoes("awaitFrame", "done")
  /\ ~running
  /\ UNCHANGED <<asleep, dataVars, syncVars, workVars, bookVars>>

(* RenderUtil::Update takes the queues ...                                 *)
TakeChanges ==
  /\ RenderGoes("apply", "applying")
  /\ making' = [new |-> newSensors, removed |-> removedSensors]
  /\ newSensors' = {} /\ removedSensors' = {}
  /\ UNCHANGED <<asleep, ecmVars, collected, sceneStep, sensorIds, connected, dataTime,
                 syncVars, workVars, bookVars>>

RemoveFromPlans ==
  /\ activeSensors' = activeSensors \ making.removed
  /\ sensorsToUpdate' = sensorsToUpdate \ making.removed

(* A new sensor is due at once.                                            *)
CreateSensors ==
  /\ sensorIds' = (sensorIds \ making.removed) \cup making.new
  /\ dataTime' = [s \in Sensor |-> IF s \in making.new THEN 0 ELSE dataTime[s]]

(* ... and removes and creates sensors.                                    *)
ApplyChanges ==
  /\ RenderGoes("applying", "frame")
  /\ sceneStep' = collected.step
  /\ CreateSensors
  /\ RemoveFromPlans
  /\ making' = [new |-> {}, removed |-> {}]
  /\ updateTimeApplied' = updateTime
  /\ asleep' = asleep \ OnUpdateTimeCv
  /\ UNCHANGED <<ecmVars, collected, queueVars, connected, syncVars, updateTime,
                 updateTimeToApply, nextUpdateTime, scheduled, bookVars>>

(* Nothing is rendered unless there are active sensors or it is forced.    *)
BeginFrame ==
  /\ RenderGoes("frame",
       IF activeSensors # {} \/ forceUpdate THEN "publish" ELSE "endFrame")
  /\ UNCHANGED <<asleep, dataVars, syncVars, workVars, bookVars>>

(* sensorManager.RunOnce updates the sensors that have subscribers and are *)
(* due, whether or not they are active.                                    *)
Due(now) == {s \in sensorIds \cap connected : dataTime[s] <= now}

Publish ==
  /\ RenderGoes("publish", "endFrame")
  /\ dataTime' = [s \in Sensor |->
       IF updateTimeApplied <= updateTime /\ s \in Due(updateTimeApplied)
         THEN dataTime[s] + Period[s] ELSE dataTime[s]]
  /\ UNCHANGED <<asleep, ecmVars, collected, queueVars, renderVars, connected, syncVars,
                 workVars, bookVars>>

EndFrame ==
  /\ RenderGoes("endFrame", "awaitFrame")
  /\ activeSensors' = {} /\ forceUpdate' = FALSE
  /\ updateAvailable' = FALSE
  /\ NotifyRenderCv
  /\ UNCHANGED <<dataVars, flagVars, timeVars, planVars, bookVars>>

-------------------------------------------------------------------------------
(* Other threads.                                                          *)

ForceRender ==
  /\ events < MaxEvents
  /\ events' = events + 1
  /\ forceUpdate' = TRUE
  /\ UNCHANGED <<pcVars, asleep, dataVars, flagVars, updateAvailable, workVars,
                 historyVars>>

(* A subscriber comes or the last one goes.                                *)
Subscription(s) ==
  /\ events < MaxEvents
  /\ events' = events + 1
  /\ connected' = IF s \in connected THEN connected \ {s} ELSE connected \cup {s}
  /\ UNCHANGED <<pcVars, asleep, ecmVars, collected, queueVars, renderVars, dataTime,
                 syncVars, workVars, historyVars>>

(* Stop tells the threads, wakes those on renderCv and joins the renderer. *)
Stop ==
  /\ stopPc = "none" /\ stopPc' = "join" /\ UNCHANGED <<simPc, renderPc>>
  /\ running' = FALSE
  /\ asleep' = asleep \ OnRenderCv
  /\ UNCHANGED <<dataVars, initialized, doInit, updateAvailable, forceUpdate, workVars,
                 bookVars>>

JoinRenderer ==
  /\ stopPc = "join" /\ renderPc = "done"
  /\ stopPc' = "stopped" /\ UNCHANGED <<simPc, renderPc>>
  /\ UNCHANGED <<asleep, dataVars, syncVars, workVars, bookVars>>

SpuriousWakeup(t) ==
  /\ t \in asleep /\ asleep' = asleep \ {t}
  /\ UNCHANGED <<pcVars, dataVars, syncVars, workVars, bookVars>>

Sim ==
  \/ BeginStep \/ ResetSensors \/ ResetTimes
  \/ RequestInit \/ TestRunning \/ SleepForScene \/ UpdateFromECM \/ Decide
  \/ SleepForRenderer \/ EndPostUpdate

Render ==
  \/ SleepForInit \/ Initialize \/ StartFrame \/ LeaveLoop
  \/ TakeChanges \/ ApplyChanges \/ BeginFrame \/ Publish \/ EndFrame

SensorsNext ==
  \/ Sim \/ Render \/ Stop \/ JoinRenderer \/ ForceRender
  \/ \E s \in Sensor : Subscription(s)
  \/ \E t \in {"sim", "render"} : SpuriousWakeup(t)

SensorsSpec == SensorsInit /\ [][SensorsNext]_sensorsVars

(* Threads that can go on do; nobody has to step, reset, stop or force.    *)
FairSensorsSpec ==
  /\ SensorsSpec
  /\ WF_sensorsVars(simPc # "idle" /\ Sim)
  /\ WF_sensorsVars(Render) /\ WF_sensorsVars(JoinRenderer)

-------------------------------------------------------------------------------
(* Properties.                                                             *)

InFrame == renderPc \in {"frame", "publish", "endFrame"}

(* PostUpdate waits for the scene: it does not override what the scene has *)
(* yet to take over, so that a frame shows the entities as they were in the*)
(* step that asked for it, and it does not walk the set of sensors, which  *)
(* no mutex guards, while the renderer creates and removes sensors.  The   *)
(* wait compares times, so it is blind to a frame asked for at a time      *)
(* already applied - two paused steps - and after a reset.                 *)
SceneIsAwaited ==
  ~blind => /\ InFrame => sceneStep = asked
            /\ renderPc = "applying" => simPc # "decide"

(* A sensor of the world waits for its creation only while a frame that    *)
(* creates it has been asked for.                                          *)
NewSensorsAreMade ==
  simPc = "idle" /\ initialized /\ running => newSensors = {} \/ updateAvailable

(* PostUpdate ends without a frame only if no sensor it has planned for is *)
(* a whole period late.                                                    *)
NobodyIsLate ==
  [][simPc = "decide" /\ simPc' = "idle" =>
       \A s \in scheduled' \cap sensorIds \cap connected :
         dataTime[s] + Period[s] > ecm.time]_sensorsVars

(* Stop joins the render thread, and PostUpdate returns, unless the system *)
(* is stopped meanwhile or its wait is blind.                              *)
CallsReturn ==
  simPc # "idle" \/ stopPc = "join"
    ~> (simPc = "idle" \/ ~running \/ blind) /\ stopPc # "join"

===============================================================================
