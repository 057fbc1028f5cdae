# A TLA+ model of gz-sim

gz-sim is a robot simulator.  A *server* runs one *simulation runner* per
world; a runner steps simulated time, and in every step it updates a set of
*systems* (plugins for physics, sensors, user commands, ...), which share one
database of entities and components, the *entity component manager* (ECM).
This directory holds TLA+ modules for the parts of that machinery that are
hardest to test, the TLC configurations that check them on small instances, and
TLAPS proofs, for every size, of all safety properties that hold in these
instances.

- [Reading guide](#reading-guide)
- [1. The system](#1-the-system)
- [2. What is modelled, module by module](#2-what-is-modelled-module-by-module)
- [3. The runs](#3-the-runs)
- [4. The proofs](#4-the-proofs)
- [5. Where code and documentation differ](#5-where-code-and-documentation-differ)
- [6. What is not modelled](#6-what-is-not-modelled)
- [7. The plan](#7-the-plan)

## Reading guide

| to see | read |
| --- | --- |
| the barrier between the runner and its threads | `Barrier`, `BarrierClients`, `ThreadProofs` |
| the cache behind `Each`, `EachNew`, `EachRemoved` | `View`, `Ecm`, `EcmSystems`, `EcmProofs` |
| the same cache, used by several threads at once | `ParallelEach`, `ThreadProofs` |
| the runner, its PostUpdate threads and the life of systems | `UpdatePhases`, `PostUpdate`, `RunnerProofs` |
| play, pause, step, rewind, seek, run-to | `WorldControl`, `WorldControlProofs` |
| the threads of a server, from constructor to destructor | `ServerLifecycle`, `RunnerProofs` |
| the render thread of the Sensors system | `Sensors`, `RenderingProofs` |
| how the rendered scene follows the entities | `RenderScene`, `RenderingProofs` |
| a primary and its secondaries | `NetworkManager`, `NetworkManagerProofs` |
| levels that are loaded near performers | `LevelManager`, `LevelManagerProofs` |
| messages between simulated robots | `Comms`, `CommsProofs` |

The `MC*` modules only give values to constants.  `PROJECT.json` lists which
source lines every definition stands for ("map"), what can go wrong where
("hazards"), what every run checks ("runs") and which change of the code each
property would notice ("mutants").  Paths in this file are relative to the
root of the repository.

A definition whose name begins with `Slip`, or that the comment in front of it
calls a version that forgets something, is not the code: it is a plausible
mistake in the definition behind it, and substituting the one for the other
makes a named property fail.  They are kept so that one can see what each
property is good for.

## 1. The system

### 1.1 Components, their state and their operations

| component | state | operations | where |
| --- | --- | --- | --- |
| Server | whether it runs, its runners, the run thread, signal flags | `Run`, `RunOnce`, `Stop`, `SetPaused`, `Reset`, `AddSystem` | `src/Server.cc`, `src/ServerPrivate.cc` |
| SimulationRunner | simulated time, pause flag, pending requests, worker threads, two barriers | `Run`, `Step`, `UpdateCurrentInfo`, `UpdateSystems`, `ProcessSystemQueue`, `ProcessMessages` and the service callbacks | `src/SimulationRunner.cc` |
| Barrier | countdown, generation, cancelled flag | `Wait`, `Cancel` | `src/Barrier.cc` |
| SystemManager | requested, pending and active systems, by interface | `LoadPlugin`, `AddSystem`, `ActivatePendingSystems`, `ProcessPendingEntitySystems`, `Reset`, `ProcessRemovedEntities` | `src/SystemManager.cc` |
| EntityComponentManager | entity graph, storage of components, removal requests, pins, caches | create, remove, set parent, pin, `Each*`, `Descendants`, state messages | `src/EntityComponentManager.cc` |
| Views | for a set of component types: the entities that have them, those that are new, to be removed, to be added, or have lost a component | the `Mark*`, `Notify*` and `Reset*` methods | `src/View.cc`, `src/BaseView.cc` |
| EventManager | a signal per event type | `Connect`, `Emit` | `include/gz/sim/EventManager.hh` |
| LevelManager | levels with their buffers, active levels and the names loaded for them, performers, performers asked for | `UpdateLevelsState` in every step, the set_performer service | `src/LevelManager.cc` |
| Network managers | peers, the step in flight, states of the secondaries | handshake, step, acknowledge | `src/network/` |
| Comms | registry of addresses with their queues; endpoints | bind, unbind, send, `StepImpl`, `DeliverMsgs` | `src/comms/`, `src/systems/comms_endpoint/` |
| UserCommands, SceneBroadcaster, log record and playback | queues filled by service threads, emptied in a step | services, `PreUpdate`, `PostUpdate` | `src/systems/` |
| TriggeredPublisher, Elevator, DetachableJoint, PerformerDetector | state machines of their own | subscriptions, `PreUpdate` | `src/systems/` |
| Sensors | the render thread, what it is to render and what simulated time that is of | `PostUpdate`, `Reset`, the render loop, `Stop` | `src/systems/sensors/` |
| RenderUtil, SceneManager | queues of what is new and removed; the scene | `UpdateFromECM`, `Update` | `src/rendering/` |
| Physics, vehicles | engines outside this repository | `Update`, `PostUpdate` | `src/systems/` |
| Loaders, SDF creation, wrappers, GUI, command line | files, documents, scenes | I/O and conversion | rest of `src/`, `include/` |

### 1.2 How they interact

*Calls in one thread.*  `Server::Run` runs `SimulationRunner::Run` in the
caller's thread or in one of its own.  One iteration of its loop: update the
clock (`UpdateCurrentInfo`), publish, take new systems in
(`ProcessSystemQueue`), apply the ECM state the GUI sent, call every
system's PreUpdate and Update, let the PostUpdates run, handle run-to and
multi-step, process messages, clear what is new, process removals.  All systems
call the ECM directly.

*Threads and shared state.*  PostUpdate of every system runs in a worker
thread of its own, all at once, between two barriers; the runner waits
meanwhile.  The ECM has no lock: it relies on that phasing, and, within the
phase, on systems only reading, though a read may fill a view, for which each
view has a mutex.

*Callbacks.*  World-control, playback-control, entity-system and user-command
services run in transport threads and leave their requests in buffers under a
mutex; the runner's thread empties them.  `Server::Stop` and
`Server::SetPaused` come from any thread, and signals from the signal handler;
they write single flags, without the mutex.

*Hand-overs.*  The Sensors system renders in a thread of its own, while the
simulation goes on: its PostUpdate leaves the changes of the entities in queues
of RenderUtil and a request for a frame behind, and waits only if the last
changes have not been taken over, or a frame is to begin before the last one
has ended.

*Messages.*  A distributed simulation has a primary that sends every step to
its secondaries and waits for their acknowledgements, and heartbeats by which
each process learns of the others, and of their end.

### 1.3 What is hard, and what correct means

- **Barrier.**  A thread of the next round can arrive before those of this
  round have woken; `Cancel` overtakes arrivals; the generation number wraps.
  Correct: nobody passes before all arrive, exactly one thread per round is
  last, no wake-up is lost, `Cancel` gets everybody out.
- **Views.**  An entity can be in any of five sets of a view and components
  come, go and come back in any order.  Correct: `Each` hands out every entity
  that has the components and none that has not; `EachNew` and `EachRemoved`
  exactly the new ones and the ones about to be removed.
- **ECM.**  Removal is requested in one place and carried out in another, with
  pins, trees and joints in between.  Correct: a pinned entity stays, caches
  agree with the graph, nothing refers to an entity that is gone.
- **PostUpdate threads.**  Systems are added by services, removed with their
  entity and dropped or reloaded by a reset, in any order.  Correct: threads,
  barrier sizes and the list of systems agree whenever the phase opens; no
  PostUpdate overlaps the rest of a step; stopping the threads terminates
  wherever it meets them.
- **World control.**  Requests, pauses and stops come at any point of an
  iteration, several to a batch.  Correct: the clock moves by exactly the `dt`
  the systems are told, steps and run-to are exact, a rewind resets the systems
  once, the GUI's state is in the ECM when the request takes effect.
- **Server life cycle.**  `Stop`, signals, the stop service and `Run` race for
  two flags, and the download of assets for the moment at which the entities
  are created.  Correct: a Run that is told to stop ends, `Stop` returns,
  counted steps have their entities, the destructor returns.
- **Sensors.**  Three mutexes, two condition variables, a dozen flags and
  times.  Correct: a frame shows the step that asked for it, no sensor is late,
  PostUpdate and `Stop` return.
- **Scene.**  Several steps fall between two updates of the scene.  Correct:
  it shows the entities there are.
- **Distributed simulation.**  Crashes, lost messages and time-outs at any
  point.  Correct: all step together on complete states, and if one leaves the
  rest ends.
- **Levels.**  Levels share entities and are entered and left by several
  performers in one step; resets and users create and remove what the level
  manager thinks it has loaded.  Correct: loaded is what active levels contain,
  once, and performers that were asked for are made.
- **Comms.**  The comms model works on a copy of the registry, and messages and
  binding requests arrive meanwhile.  Correct: no message is lost or delivered
  twice by the broker, and a free address can be had.
- **State machine systems.**  Queues shared with transport threads.

Each hazard, with its line and the property that covers it, is in
`PROJECT.json`.

## 2. What is modelled, module by module

### 2.1 The barrier: `Barrier`, `BarrierClients`

`Barrier` is `gz::sim::Barrier`.  Its variables are the members of
`BarrierPrivate`, with, for every thread, where it is in `Wait` (`at`), its
local `gen` and the status its last `Wait` returned.

A critical section of the mutex is one action.  `Wait` first reads `cancelled`
without the mutex (`WaitCancelled`, `WaitBegin`), and counts itself in later
(`ArriveLast`, `ArriveAndSleep`, `ArriveCancelled`), so a `Cancel` can come in
between.  `cv.wait` is split where it gives up the mutex: a thread falls asleep
with the test it has just made, and is `awake` from a `notify_all`, or a
spurious wake-up, until it gets the mutex and tests again (`SleepAgain`,
`Leave`).  `generation` wraps at `GenModulus`, as the `unsigned int` does at
2^32.

`BarrierClients` adds what `Barrier.hh` asks of its users, as many threads as
the constructor was told of, each calling `Wait` again and again, and somebody
who may `Cancel`; and the history variables that the properties speak of.

### 2.2 Entities, components and views: `View`, `Ecm`, `EcmSystems`

`View` treats a view as a value: the record of its five sets and of
`missingCompTracker`, and an operator for each method of `View` and
`BaseView`.  The code keeps every entity's component pointers twice, const and
not, next to `entities`; the methods change the three together, so the model
keeps which entities are keys and not the data.

`Ecm` is the entity component manager: one action per operation, because
PreUpdate and Update of all systems run in one thread.  `views` maps the type
sets `Each` is called with to a view, or to none before the first call.
`Subtree` is what both the recursive removal and `Descendants` enumerate; the
recursive request also calls `Each<DetachableJoint>` and therefore may build or
drain the joint's view, which the action does too.

`EcmSystems` calls the operations in any order (the order of calls is up to
systems, so any order is one the program can meet) and records the history
that exceptions are stated with: which entities were given a component back while a
view knew nothing of them, which got a component or a pin after their removal
was requested, whether an entity was reparented since the cache of
`Descendants` was cleared.

`ParallelEach` looks at the same cache at a finer grain: PostUpdates run at
once and all may call `Each`.  The lookup (`Call`, under `viewsMutex`), the
construction of a view that is missing (`BuildView`, with `AddView`, which keeps
the view that another caller was first to build), the mutex of the view
(`LockView`), the loop over `toAddEntities` (`AddEntity`, one entity at a time)
and its end (`ClearToAddEntities`) are actions of their own.  Outside the
PostUpdates the flag `LockAddingEntitiesToViews` is not set and the runner goes
without the mutex.

### 2.3 The PostUpdate threads: `UpdatePhases`, `PostUpdate`

`UpdatePhases` is the promise: time alternates between an exclusive phase, in
which only the runner touches entities and threads may be replaced, and a
shared phase, in which every thread runs its system exactly once.

`PostUpdate` is the implementation: the runner, its workers, the flag
`postUpdateThreadsRunning`, and two instances of `Barrier`.  A step is
`ProcessSystemQueue` (nothing to do, or: clear the flag, cancel both barriers,
join, activate, new barriers, new threads), the systems requested by service
calls, then the update (up to the start barrier, and through the stop barrier)
or the reset of systems, and the removals.  The destructor stops the threads
too.

Systems come in two ways, and take a reset in four.  `EntitySystemAdd` is a
request of the service, for a plugin that `LoadPlugin` makes, which keeps the
file name (`loaded`); `AddSystem` is `Server::AddSystem`, which is given the
system itself and keeps nothing else of it.  In a reset, a system that implements
`Reset` stays; a plugin that was loaded is loaded again, or dropped if it is not
found any more; a plugin that was given is loaded again from an empty file name,
which adds nothing, so that it is dropped; and so is a system from memory.
Threads and barriers stay in any case, also when systems were dropped (`dropped`,
a history variable, until the threads are rebuilt).

The lambda of a worker holds a reference to an element of SystemManager's
vector, and the vector is refilled while the threads live on.  So the model
keeps the vector (`post`) and its buffer (`memory`) with the stale elements
behind the vector's end, and worker `w` looks at `memory[w]`.  Reading behind
the end is undefined behaviour; the model shows what the buffer holds, and lets
the PostUpdate that is called through it return.  That it may crash, as the
system it points to is destroyed, is left out: nothing comes after it.

`Phases` in that module is the refinement mapping, `ImplementsPhases` the
claim that every behaviour of the threads is one of `UpdatePhases`: `opened`
and `ended` are history variables and `team` is the set of workers that exist.

### 2.4 World control: `WorldControl`

One runner, the requests of transport threads, and anyone who calls
`Server::Run`, `RunOnce`, `Stop`, `SetPaused`, or emits a Pause event.  `pc`
says where the runner's loop is; the actions between two values of `pc` are

| action | code |
| --- | --- |
| `Rewind`, `Seek`, `Flow` | the branches of `UpdateCurrentInfo` |
| `CountIteration` | `processedIterations++` |
| `ProcessNewWorldControlState` | the head of `Step` |
| `UpdateSystems` | the systems, one of which may emit a Pause event |
| `PauseAtRunTo`, `PauseAfterSteps` | the tail of `Step` |
| `PlayOrPause`, `ProcessRequest` | `ProcessWorldControl`, request by request |
| `EndIteration` | the rest of the loop of `Run` |

`dt` and the clock are two variables, which each branch of `UpdateCurrentInfo`
assigns on its own, as in the code: a rewind takes `dt` from the epoch and the old
time before it sets the clock, a seek likewise with the time sought, and in the
regular flow `dt` is zeroed, and set to the step size if the clock is moved.  That
the two agree is not built in; it is the property `TimeIsContinuous`.

`currentInfo.paused` and `running` are written by other threads without a
mutex, so an action of the runner reads each of them at most in one test, and
others may come between any two actions.  Requests cannot come while the
runner holds the buffer's mutex (`BufferIsLocked`).

Left out: real time, the iteration number and `stepping`, which the runner
publishes but does not act on; changes of the step size by physics parameters;
the wait for assets at the head of `Run`; the sleep between iterations; a
distributed runner.

### 2.5 The server: `ServerLifecycle`

A server with one world.  Five threads: the owner (constructor, `Run`, `Stop`,
destructor), the run thread of a non-blocking `Run`, the signal handler, the
thread of the stop service, and the one that downloads assets and has the
entities created.  `pc` says where each of them is; an action ends where a
thread locks `runMutex`, waits, joins, or reads a flag that others write.  An
iteration of the runner only counts here: what it does is in `WorldControl`.

### 2.6 The Sensors system: `Sensors`

The simulation's thread (`simPc`: `Reset`, then the parts of `PostUpdate`), the
render thread (`renderPc`: `WaitForInit`, the parts of `RunOnce`), and whoever
calls `Stop`.  `asleep` are the threads that wait on a condition variable, with
spurious wake-ups; time is that of the simulation.  RenderUtil's queues of new
and removed sensors are part of the module, its scene is reduced to the step
whose entities it shows.

### 2.7 The scene: `RenderScene`

`Step` is a step of the simulation with its call of `UpdateFromECM`: entities
are created and removed, and both is queued with the iteration it happened in.
`Take` and `Update` are RenderUtil's `Update`: under `updateMutex` it takes the
queues, then removes everything in the one and creates what is in the other,
except for models whose removal is younger than their creation.  `SceneManager`
refuses what is there already, has no parent or, if a model, has a name that is
taken.

### 2.8 Distributed simulation: `NetworkManager`

All processes at once: each has its `PeerTracker` (`OnPeerAdded`,
`OnPeerLost`), the primary its handshake, `Step` (`BeginStep`, `Publish`,
`Await`, `Apply`) and `OnStepAck`, the secondaries `OnStep`.  Callbacks can come
between any two of these.  Processes crash or are stopped, messages are lost,
services do not answer: `faults` counts it.  The contents of a state is the set
of performers it reports.

### 2.9 Levels: `LevelManager`

`UpdateLevelsState` is the whole of that method: performers are made for the
waiting requests (`Served`, `CreatePerformerEntity`), each performer's levels
are found (`LevelsAt`: the box, and the buffer of levels that are active),
levels that were left and that nobody is in are unloaded, but for what is in a
level to be loaded too (`NamesToUnload`), and what is missing is created
(`Missing`, `LoadActiveEntities`).  It runs at the head of a step (`Step`), and
once before the first (`CreateEntities`), where its result becomes the state to
reset to.  `ResetStep` is a step that begins with `ResetTo`.  The systems come
in between: they move robots, and users create and remove models.  Removals take
effect in `EndStep`.  A model that is in the SDF with a performer tag is like
one whose request came before `CreateEntities`.

Left out: nested entities, ranges other than boxes, worlds without levels, and
users who remove what belongs to a level, which `LevelManager.hh` forbids.

### 2.10 Messages between robots: `Comms`

The broker's services and its topic (`OnBind`, `OnUnbind`, `OnMsg`) come from
transport threads and need the mutex, which `StepImpl` holds until `Set`
(`SetRegistry`), and `DeliverMsgs` takes a second time.  `Step` is that of
`PerfectComms`; the radio model may also lose a message, and the acoustic one
lose it or keep it for a while (`Medium`): when, is geometry and left open.  A
step of the model within a step of the simulation is a step in which nothing
else happens.  Of a message it only matters which addresses it is from and to.

`PreUpdate`, `BindCallback` and `Destroy` are `CommsEndpoint`.  Requests are
served in the order they were sent, and answers may take their time; those to an
endpoint that is gone are dropped (`lateBind`).  That is gz-transport, of which
only this is used; where the broker is in the same process, it answers at once.

## 3. The runs

All of them must hold.

**barrier** (`MCBarrier.cfg`).  Three threads, three rounds, two cancels, a
generation number that wraps at two, spurious wake-ups.  `NoEarlyPass`: nobody
passes its n-th `Wait` before all have entered theirs, cancelled or not.
`OneLastPerGeneration`: one `DONE_LAST` per round.  `BarrierInv`: the inductive
invariant of the proofs, which includes that a waiter of a finished generation
can tell so, despite the wrapping (`ReleasedCanLeave`), and that a sleeper has
its notification still to come (`NoLostWakeup`).  `CancelReleases`, `RoundsComplete`:
liveness.  *Bounds.*  Three threads give a last, an early one and one that is
neither; two rounds let a thread of the next round meet those of the last one,
the third lets the number wrap back to a value a sleeper may hold; two cancels
give a `Cancel` after a `Cancel`, which moves the generation a second time.
The proofs lift the bounds for all but liveness.

**ecm_views** (`MCEcmViews.cfg`).  Two entities, two types, the views
{joint} and {joint, pose}; one entity gets components of both types, the other
only joints.  `EachIsExact`: a view only hands out entities that
exist and have every component, and all of these, `EachNewIsNew`: those of them
that are new, `EachRemovedIsExact`: those of them that are about to be removed;
each up to the exceptions that the property names and section 5 explains.
*Bounds.*  The
operations treat entities one by one, so that one is enough to leave and
re-enter the sets and two tell a set from an element; with two types a view
can miss one component or two, and one view's types can be part of another's.

**ecm_trees** (`MCEcmTrees.cfg`).  Three entities: a model, its link, and one
with a detachable joint to the link, with pins and reparenting; one type.
`TypeOK` includes that an entity's parent exists.  `PinsAreRespected`: a pinned
entity is not about to be removed unless it was pinned too late.
`DescendantsAreFresh`: the cache of descendants is right unless an entity was
reparented.  *Bounds.*  Three is the least for a tree with a joint into it, and
for a chain of two edges.

**post_update** (`MCPostUpdate.cfg`).  Two systems, one that implements `Reset`
and one plugin, each loaded by the service or given to `Server::AddSystem`, two
openings of the phase, one reset, in which a loaded plugin is found again or not,
the destructor at any time between two steps.  `EverySystemHasAWorker`: whenever the
runner waits for PostUpdates, each active system is what some worker looks at; and
workers and active systems are matched one to one, with nobody at a stale
element, unless a reset has dropped a system since the threads were made.
`ImplementsPhases`: the refinement, which says that a PostUpdate runs only while
the runner waits between its two barriers.  `RunnerGetsOn`: a step gets past the
PostUpdates it waits for, and stopped threads can be joined, also when a reset has
left more threads than systems.
*Bounds.*  Two systems give no, one and two workers, and threads rebuilt in both
directions; a reset can drop the one before or behind the one that stays.  Two
phases let the old threads meet new barriers if they could.  The generation wraps at
two.  A system from memory is not in the instance: a reset does with it what it does
with a plugin that was given, and the theorems are for all kinds.

**world_control** (`MCWorldControl.cfg`). One call of `Run` or `RunOnce`, any two
requests, one `SetPaused` or Pause event, and Stops, at every point of the loop.
Time starts at 1 and goes in steps of 2 up to 7; run-to 4 falls between two steps,
seek 6 between two others and past the run-to time. `TimeIsContinuous`: from one
update of the systems to the next the clock moves by the `dt` they are told,
whichever branches the iterations between took. `RunToNeverOvershoots`: no
iteration begins at or past the run-to time. `StepsAreExact`: steps, those left
over from before included, end where they should, and pause there.
`EachRewindResetsOnce`: one reset per batch that ends in a rewind and none else.
`StateComesWithRequest`: the ECM changes sent along are applied in time.
`RequestsEnd`: no multi-step or run-to request keeps the simulation running for
ever. *Bounds.* Two requests let one overtake, withdraw or add to another, and the
call of `SetPaused` interferes with either; a multi-step of two can be interrupted
between its steps and added to. At the horizon the clock stands still, so `stopAt`
is not set for ends beyond it. The safety properties are proved without the
bounds. Deadlock is not checked: once nobody calls `Run` again, the system is at
rest.

**each** (`MCEach.cfg`).  Three PostUpdate threads, the runner, two views and
three entities.  `NothingMovesBelow`: a view that is iterated is the one the map
holds, nobody adds to it meanwhile, and of those that add only one is at it.
`EachSeesAll`: whoever iterates sees every matching entity and no other.
*Bounds.*  Two threads race for a mutex or for building a view, the third finds
what they leave; the views share an entity and each has one of its own.  Calls
and phases are not bounded.  The threads are symmetric.

**server** (`MCServer.cfg`).  Three calls of `Run` (of one iteration or without
a limit, blocking or not) and `Stop` by the owner, one stop request, a signal at
any time, download errors, and waiting for assets or not.
`CountedStepsHaveEntities`: a Run with a number of iterations makes none without
entities.  `StopReturns`: the mutex that `Stop` holds while it joins the download
becomes free again.  `StopEndsRun`: a Stop that meets a running Run ends it.
`DestructorReturns`: the destructor, which joins the run thread, the download and
the thread of the stop service, comes to its end if its Stop met the Run; section 5
says when it does not.
*Bounds.*  Three calls are a Run, the Stop that ends it and a Run that meets the
first one still at work.  The first property is proved without the bounds.

**sensors** (`MCSensors.cfg`).  One sensor that is due every second step, four
steps, paused or not, one reset, one event (a subscription or `ForceRender`), a
`Stop`.  `SceneIsAwaited`: a frame shows the step that asked for it, and
PostUpdate does not walk the sensors while the renderer changes their set.
`NewSensorsAreMade`: a sensor waits to be created only while a frame that does
it has been asked for.  `NobodyIsLate`: PostUpdate does not end without a frame
while a planned sensor is a whole period late.  `CallsReturn`: PostUpdate and
`Stop` return.  The first and the last except when the times are `blind`: they
cannot tell a frame asked for in a paused step from one that is done.  *Bounds.*
Four steps are two periods; one sensor is enough for every branch but the choice
of the earliest, which the proofs have: they are for any number of sensors and
steps, of all but `CallsReturn`.

**scene** (`MCScene.cfg`).  A model with a link, a light and a second model of
the first one's name; five steps, three of them not paused.  `SceneMirrorsEcm`:
after an update the scene shows the entities of the moment at which the queues
were taken, but for what came and went in between and is not kept out by its
timestamps.  *Bounds.*  Five steps allow two updates of the scene with two steps
in each and something before; deeper trees and more steps are in the proof.  The
simulation may stop, so that deadlock is not
checked.

**network** (`MCNetwork.cfg`).  A primary, two secondaries, two steps, one
performer with a level and one without, one fault.  `Lockstep`: nobody is more
than a step behind, and the primary goes on with one state of each secondary,
all of this step.  `PerformersAreSimulated`: each performer is in the state of
exactly the secondary it has affinity to.  `OthersStop`: if a process leaves,
all the others end, unless it was during the handshake.  The first two are
about runners that are fixed, as the documentation asks: no secondary plays
steps without being registered.  *Bounds.*  Two secondaries let the answer of
one stand in for another's; the second step meets what the first left behind;
more
faults and steps are left to the proofs.

**levels** (`MCLevels.cfg`).  Two levels side by side that share a model and the
buffer between them; one has a joint, the other a model of its own; a car that
is in the world, a drone that users create, both performers if asked for; users
who create models of any of these names, and resets, at any time.
`LoadedIffActive`: between steps, an entity is there exactly if one of the active
levels contains it, and once.  `RequestsAreKept`: a performer that was asked for
is there, or is still to be made.  *Bounds.*  None but the instance: the run ends
with all states found.  Two levels and two performers give every pair of one that
enters and one that leaves, shared entities included; the two models of a name
that a reset can leave in one step are there.

**comms** (`MCComms.cfg`).  A drone with a topic at one address, a rover that
wants that address and has another for itself, created and removed at any time,
three requests under way, one message.  `MailIsExact`: a message that the broker
accepted is in one queue, the right one, or was handed over once, or was lost by
the model.  `EndpointsGetBound`: an endpoint does not wait for ever for an address
at which no other robot has a topic.  *Bounds.*  Every message is treated alone,
so that one, arriving at any point, is enough; three requests let the two
unbindings of a removed robot and a repeated binding be under way together.
An address with two topics of one robot is not in the instance.

### Fairness

*Barrier.*  Weak fairness for each thread inside `Wait`: a runnable thread
runs, and a mutex that is never held for ever is got.  `RoundsComplete` also
lets threads call `Wait` (`BusySpec`), which the loops that use the barrier
do.  *PostUpdate.*  Weak fairness for the runner and for each worker: threads
run, and every PostUpdate returns, which is what a plugin has to guarantee.
*WorldControl.*  Weak fairness for the runner's thread only.  No fairness at
all for cancels, service calls, pauses, `Run`, `Stop` and spurious wake-ups:
nothing holds because somebody was kind enough to call.  *ServerLifecycle.*
Weak fairness for every thread, while it is in a call, and downloads end.
*Sensors.*  Weak fairness for the simulation's thread once it is in PostUpdate,
for the render thread and for the join in `Stop`; none for steps, resets,
`ForceRender`, `Stop` and spurious wake-ups.  *NetworkManager.*  Weak fairness
for the main thread of every process that is up, which includes its time-outs,
and for noticing a peer whose heartbeats stay out; none for messages, which may
be lost, nor for faults.  *Comms.*  Weak fairness for the comms model once it has
begun; strong fairness for the PreUpdate of each endpoint, which the runner calls
in every step, and for the broker's services, which need a mutex that is free
again and again.  None for answers, creation and removal.  *ECM, ParallelEach,
RenderScene, LevelManager.*  No liveness.

## 4. The proofs

TLAPS checks eight modules of proofs, for every value of the constants that meets
the named assumptions.  Three of them hold the proofs of two components each, whose
definitions have no name in common and use nothing of each other; so
`ParallelEach` has `EachSpec` where others have `Spec`, `ServerLifecycle`
`ServerSpec`, `Sensors` `SensorsSpec` and `RenderScene` `SceneSpec`.

None of the bounds of section 3 is in the theorems: `MaxSteps`,
`MaxFaults`, the number of requests and the like may be any number.  Of each
property, the invariant that is inductive is joined first from named parts, with
one step of the proof per action.

| theorem | property of a run | module |
| --- | --- | --- |
| `BarrierIsSound` | `BarrierInv` | `ThreadProofs` |
| `NoThreadPassesEarly` | `NoEarlyPass` | |
| `OneLast` | `OneLastPerGeneration` | |
| `NobodyIsStranded` | `ReleasedCanLeave`, `NoLostWakeup` (in `BarrierInv`) | |
| `IteratorsStayGood` | `NothingMovesBelow` | |
| `EachVisitsAll` | `EachSeesAll` | |
| `ThreadsImplementPhases` | `ImplementsPhases` | `RunnerProofs` |
| `EachSystemIsRun` | `EverySystemHasAWorker` | |
| `StepsAwaitAssets` | `CountedStepsHaveEntities` | |
| `PinnedEntitiesStay` | `PinsAreRespected` | `EcmProofs` |
| `CachedTreesAreFresh` | `DescendantsAreFresh` | |
| `EachVisitsTheMatching`, `EachNewVisitsTheNew`, `EachRemovedVisitsTheRemoved` | `EachIsExact`, `EachNewIsNew`, `EachRemovedIsExact` | |
| `SystemsSeeAllTime`, `RunToIsKept`, `StepsAreCounted`, `ResetsAreOwed`, `StateIsInTime` | see below | `WorldControlProofs` |
| `RunnersStepTogether` | `Lockstep` | `NetworkManagerProofs` |
| `PerformersHaveOneHome` | `PerformersAreSimulated` | |
| `RequestsWait` | `RequestsAreKept` | `LevelManagerProofs` |
| `ContentsAreLoaded` | `LoadedIffActive` | |
| `MailIsNeverLostOrDoubled` | `MailIsExact` | `CommsProofs` |
| `SceneShowsTheEntities` | `SceneMirrorsEcm` | `RenderingProofs` |
| `FramesShowTheirStep` | `SceneIsAwaited` | |
| `NewSensorsGetAFrame` | `NewSensorsAreMade` | |
| `PlansAreKept` | `NobodyIsLate` | |

**The barrier** (`ThreadProofs`) assumes a finite non-empty set of threads and a
generation that takes two values or more.  None of the safety properties is
inductive alone; `BarrierInv` joins what they need.  `RoundsInStep`: a thread
is at most one round ahead of the finished ones.  `CountIsMissing`: `count`
is the number of threads that have not counted themselves into this
generation, so that `--count == 0` happens to the last and only to it; this is
where finite sets come in (`LastIsLast`, `ArrivalCounts`), and it survives
`Cancel`, which moves the generation and does not touch the count.
`InGenerationStays`: who has counted itself in still waits with the current
number, or the barrier is cancelled.  `ReleasedCanLeave` holds although the
number wraps because, by `InGenerationStays`, no thread of this generation can
be released without `Cancel`, so that a waiter of a finished generation is
never more than one behind (`GenerationMoves`).

**The PostUpdate threads** (`RunnerProofs`) assume finitely many systems, a worker
for each at most, and a generation that takes two values or more; steps and resets
are not bounded. `ThreadsImplementPhases` is the refinement of `UpdatePhases`: a
step of the threads opens the phase, ends it, runs one PostUpdate in it, replaces
the threads outside of it, or changes nothing that the promise speaks of.
`PhaseInv`, which it rests on, takes the runner for one thread more (`Place`,
`Active`) and says where everybody is while the threads run (`PhaseIsShared`): all
are in the phase or all are out of it (`Inside`, which begins and ends with the
end of a wait, so that a thread that was notified and has not woken up yet counts
as gone on), and a barrier's countdown is at least the number of threads that are
not counted at it. So the last to arrive finds all the others waiting, and can
move them all on at once (`StartWhileRunning`, `StopWhileRunning`). While the
threads are being stopped the countdowns tell something else (`NobodyIsLast`):
they exceed the number of workers still to come, for the runner does not come, so
that no worker that slips through the barriers, cancelled or not, can open a
phase. `StopWorkersInv` leads from the one to the other, wherever each worker is
at that moment.

`EachSystemIsRun` is for systems of every kind, with resets that drop any of those
that do not implement `Reset`.  `TeamInv`: a system is in one queue only, so that
there are threads enough; the vector is the beginning of its buffer; and unless they
are to be cleaned up, there is a thread for each place of the vector, and none
besides unless a reset has dropped systems.  A reset does not lengthen the vector
(`ResetKeepsRecords`): those it keeps and those it loads again stood at different
places of it.  That there is an n-th of them to be picked needs the ranks of a finite
set of numbers (`EachRankIsTaken`).

**The server** (`RunnerProofs`) is proved for any number of calls, iterations and
requests; its threads are five in the code.  `ServerTypeOK` includes that
`runMutex` is held by exactly the thread that awaits the download.  What is
inductive in `ServerInv` besides: a Run with a number of iterations gets past
`AwaitAssets` only with the entities, or because it has been told to stop, and
then does not iterate (`AssetsAwaited`); entities are not taken back.  This breaks
when a second Run sets `running` for the first one, which is the exception
`overlapped`.

**`EcmProofs`** assumes what `EcmAssumption` says of the constants: views are of
non-empty sets of types, and an entity is a number.  A first part is lemmas about
`View`: what each method does to the five sets and to `missingCompTracker`
(`IsMarked`, `IsReset`, `IsWithout`, `IsDrained`, `IsRemoval`, ...).  With them
`EcmInv` is inductive.  For every view that was asked for once: its places are
apart and hold entities that exist (`PlacesAreApart`); an entity with data has
all components in the storage, those that were removed are the ones it misses,
and it is invalid if there are any (`DataIsAccurate`); every matching entity is a
member, but for those whose component came back unnoticed (`NothingIsMissed`);
the new ones are the members that are new (`NewIsNewly`); those to be removed were
requested to be (`RemovedIsRequested`).  Removal needs that a removed component
stays in the storage until its entity goes (`StorageIsSound`), which is why a
view can be told of a component that it takes for missing.  Pins and the cache of
`Descendants` have invariants of their own; `Subtree`, the least set that is
closed under children, is used by its definition and needs no induction.

**Views in several threads** (`ThreadProofs`): nothing is assumed but that the runner
is no thread and that None is no caller.  `EachInv`: runner and threads take turns
(`OthersAreIdle`); who holds a view's mutex is the one that adds to it
(`MutexIsAdders`); the pointer that a caller found is still the one in the map
(`FoundIsThere`); no entity is lost on its way out of `toAddEntities` (`ViewIsFull`,
`LoopIsExact`); and nothing waits to be added to a view that somebody iterates, or
was about to build when another thread had built it (`NothingToAdd`).  The last is
the heart: a reader iterates without the mutex, and may do so because it has held it
once.

**`WorldControlProofs`** assumes only that times are integers, the step size
is positive and None is not a time: the epoch may be negative and the sets of
requests infinite.  Type correctness needs that the buffer is not empty while a
request is being processed (`Typed`).  Each property then has an invariant of
its own, which says at every point of the loop what the property says at one:

| theorem | property | invariant | what it adds |
| --- | --- | --- | --- |
| `SystemsSeeAllTime` | `TimeIsContinuous` | `TimeInv` | each branch of `UpdateCurrentInfo` leaves `dt` and the clock in step, and `dt` is owed until the systems are updated |
| `RunToIsKept` | `RunToNeverOvershoots` | `RunToInv` | a pending run-to lies ahead after `Step`'s test, and after the epoch |
| `StepsAreCounted` | `StepsAreExact` | `StepsInv` | while a step is under way it has been made but not counted |
| `ResetsAreOwed` | `EachRewindResetsOnce` | `ResetInv` | the rewind is pending, then the reset is under way, never both |
| `StateIsInTime` | `StateComesWithRequest` | `StateInv` | the slot never holds an older state than the requests in the buffer |

**`NetworkManagerProofs`** assumes finitely many secondaries and performers, with
numbers for prefixes, and finitely many levels per performer; crashes, stops, lost
messages and peers that are cut off may come without end.  `CalmInv` says that
nothing is published before the handshake is over, so that the set of
secondaries, with everything computed from it, is fixed from then on.  `StepInv`
is what lockstep rests on: of the step in flight each secondary has one message
or one acknowledgement, under way or received, or it was lost (`OneAnswer`), the
states received are of different secondaries (`StatesAreDistinct`), and when the
primary is about to publish everybody is done (`Quiet`).  As acknowledgements are
only counted, that they are complete when their number is that of the secondaries
is the pigeon-hole principle (`AllAnswered`).  All this is for as long as nobody
steps without being registered (`Strangers`); `StrangersStay` shows that once
there is one, there always is.  `PerformerInv` follows the affinities: the first
message has the assignment and the others have none, and what a secondary keeps
and removes is what the assignment says (`HasItsPerformers`).  That a performer
of one level at most has affinity to exactly one secondary (`SingleAffinity`)
needs the ranks in a finite set of numbers to be the numbers below its size
(`RankIsBelow`, `RankIsOnto`).

**`LevelManagerProofs`**.  `RequestsWait` has no hypothesis: a request is in the
list or a performer of that name is there that no reset is about to drop.
`LevelsAreRight` and `ContentsAreLoaded` are for a default level that is not
empty: with an empty one the server at first creates the models of all levels
(section 5), so that the property is false then, which is how the hypothesis was
found.  `LevelInv`: the names that are listed as loaded are those of the active
levels (`NamesFollowLevels`); for each of them an entity stays after this step, and
for no other, with what resets (`lost`) and users (`foreign`) have undone excepted
(`IsLoadedOrGone`), and joints excepted it is one entity (`IsSingle`); and what a
reset goes back to has nothing but what was loaded for the performers as they
were then (`ResetIsLoaded`), which keeps a reset from bringing back an entity of
a level that is not active.

**`CommsProofs`** assumes finitely many endpoints.  `MailInv`: of the two copies of
the registry one counts at any time (`Current`: the model's own between `Step` and
`Set`); a message is only in queues of its own addresses (`MailIsInPlace`), and in
one of four places, the sender's queue, the receiver's, handed over, or lost by
the model (`IsInOnePlace`).

**The scene** (`RenderingProofs`) is proved for any set of entities in which a parent
has a smaller id than its child, as the ECM hands them out, with any names, and for
any number of steps between two updates.  `SceneInv` joins what the three places
have to do with each other.  The queues being filled tell how the entities differ
from those of the last `Take` (`QueuesTell`); the queues taken tell how the scene
differs from the entities that it is to show, but for what came and went, which is
in `brief` or below a model that is kept out (`TakenTell`); what is in a queue of new
entities is not in the scene yet, nor is anything below it (`NewIsUnseen`); entities
are closed under parents and have names of their own, at any time and in the
copy taken (`EntitiesAreTrees`).  `UpdateShows` is the heart, by two least
counterexamples.  A ghost is in `brief`: were it below a model that is kept out,
there would be a smallest such entity that is made, but its parent is neither in
the scene nor made (`NothingBelowIsMade`).  What is missing is below a namesake of a
ghost: the smallest entity that is not has its parent in the scene and a free
name, and is made.

`Created` and `Ancestors` are recursive functions, whose values are those of their
equations only if these have a solution.  `RecursionWorks` shows that they have,
for any function on numbers whose value at a number depends on its values at
smaller ones.  The recursion theorems of the library cannot be used, as they take
operators; here the right-hand side is a function `D` of the argument and of the
solution, so that the lemma is of first order.  The solution is put together from
those of `SolvedBelowEach`, which `SolutionsAgree` fits into each other; both are
by the least number for which they fail (`LeastOne`).

**Sensors** (`RenderingProofs`) assumes finitely many sensors with positive periods.
`SensorsInv`: a frame is made only when asked for, and the request stays until it has
ended (`FrameIsAskedFor`); while a request has not been applied, the times differ
and the queues are those of the step that asked (`RequestIsPending`), so that a
frame shows that step (`FrameShowsAsked`); all unless the times are `blind`.
Nothing of this happens before `WaitForInit` has ended (`InitIsFirst`) or after
the loop has been left (`LoopIsLeftStopped`).  New sensors wait only inside of the
part of PostUpdate that asks for a frame, or with a frame to come (`NewSensorsWait`).
The plan is for no later than a period after the last frame of each sensor
(`PlanIsInTime`), which is about the sensors that were there when it was made: those
that come meanwhile have ids of their own (`IdsAreFresh`), as the ECM does not give
an id twice.

**Only model-checked** is liveness (`CancelReleases`, `RoundsComplete`,
`RunnerGetsOn`, `RequestsEnd`, `StopReturns`, `StopEndsRun`, `DestructorReturns`,
`CallsReturn`, `OthersStop`, `EndpointsGetBound`), which is out of the prover's
reach.  Every invariant, every action property and the refinement that a passing run
checks is also a theorem, one of them under a hypothesis that the paragraphs above
explain (a default level that is not empty).

## 5. Where code and documentation differ

In each of the following cases the code does not do what the statement on the left
of the colon says. The models behave like the code, and the passing properties
name as exceptions what would contradict them. Step sizes, retry periods and dropped packets of the comms models are outside the model and were
found while reading for it.

*Entities and views.*
- `EachNoCache` is "a version of Each() that doesn't use a cache"
  (`include/gz/sim/EntityComponentManager.hh:399`): a component that is created
  again while a view has no data of the entity never brings the entity into the
  view (`unknown` in `EcmSystems`).  So it is when it was removed while the
  entity waited in `toAddEntities`, before the view was first asked for, or
  before the entity had all components.
- `EachRemoved` visits entities "which contain given component types" (ibid.,
  line 493): one that loses a component after its removal was requested stays in
  `toRemoveEntities`, even after it is gone, and `validData.at` throws.
- `Descendants` returns "all child entities recursively" (ibid., line 516):
  `SetParentEntity` does not clear its cache.

*The runner.*
- "Systems that don't implement the API will still be reset via destruction and
  reconstruction" (`tutorials/reset_simulation.md:16`): a system from memory is
  destroyed only, and so is a plugin that was given to `Server::AddSystem`, of which
  `SystemManager` has no file name to load it from.
- The threads are stopped if systems "have been removed"
  (`src/SimulationRunner.cc:569`): a reset that drops systems leaves the threads
  alone, one of which then looks behind the end of the vector (`dropped` in
  `EverySystemHasAWorker`).
- A reset's answer "true means everything was fine"
  (`tutorials/reset_simulation.md:24`): a play or pause in the same batch of
  requests takes it back.
- "A negative value means don't seek" (`src/WorldControl.hh:51`): with an epoch
  below zero the default of -1 ns is a seek.
- Simulation time is not running while `paused` (`include/gz/sim/Types.hh:55`):
  a pause from another thread in the middle of an iteration is seen by the later
  systems of a step whose time has moved.
- `blockingPausedStepPending` outlives a `RunOnce(true)` whose step was played by
  a request; a later `Run` then counts its first pause as an iteration.

*The server.*
- "Do not allow running more than once" (`src/Server.cc:176`): a `Stop` does not
  wait for the Run that it ends, so a Run that follows at once puts a second
  thread into `SimulationRunner::Run`, and sets the runner's flag for both.
- "We return if `signalReceived` is true" (`src/ServerPrivate.cc:160`), lest a Run
  ignore the signal: a Stop or signal that comes between this test and the runner
  setting its flag is lost, and a destructor then waits for
  an unlimited Run for ever (`StopHasReached` in `DestructorReturns`).
- "`ServerPrivate::Run` cannot return before the signal handler is finished"
  (`src/ServerPrivate.cc:141`): the handler sets `signalReceived` before it locks
  `runMutex`, and a Run that ends by itself may lock it first.
- A non-blocking `Run` returns only if the owner sees `running`: not if the Run
  ends before it looks (`src/Server.cc:196`).
- The stop service makes one thread in the life of a server: a second request is
  answered with true and ignored, and one that comes while the destructor is at
  work leaves a thread that nobody joins.

*Rendering.*
- "The caller of PostUpdate will be blocked if there is a rendering operation
  currently ongoing, until that completes"
  (`src/systems/sensors/Sensors.cc:278`): a frame that is asked for at a time
  already applied, in a paused step, lets the next PostUpdate pass and write a new
  `updateTime`; if it asks for no frame, the PostUpdate after it sleeps on
  `updateTimeCv` for ever (`blind` in `CallsReturn`).
- Sensors must "avoid publishing outdated data if reset occurred"
  (`src/systems/sensors/Sensors.cc:489`): the test compares times that the reset
  has set alike.  `Reset` also walks the set of sensors without waiting for the
  renderer, a `ForceRender` at the end of a frame is lost, `Stop` leaves a
  PostUpdate asleep on `updateTimeCv`, and the sensors due first after a reset
  are skipped.
- "Make sure we do not create a new entity when there is also a remove request
  with a more recent timestamp" (`src/rendering/RenderUtil.cc:1220`): only models
  are compared.  Lights, and all that lies below a parent that stays, are created
  after their removal and stay.  So do models removed in the step they came in,
  or in a paused one after, whose timestamps are equal; such a ghost keeps every
  later model of its name out of the scene.

*Distributed runs.*
- "If at any time the primary or any secondaries leave the network [...] the rest
  of the simulation graph will get a signal and shut down safely"
  (`tutorials/distributed_simulation.md:81`): a Stop that comes during the
  handshake is overwritten when `SimulationRunner::Run` sets `running`, and the
  primary then tries to step for ever (`stopLost` in `OthersStop`).
- A secondary that joins late is not registered, and its acknowledgements are
  counted all the same: states of others are left out, or the promise is kept
  twice, which throws.
- A primary whose publisher has no connection when it first steps never sends
  its affinities; a performer that is in two levels is removed by every
  secondary (`tutorials/distributed_simulation.md:31`); later changes of level do
  not change affinities.

*Levels.*
- "A level is loaded when the performer enters its buffer zone"
  (`tutorials/levels.md:74`): only the box loads a level; the buffer delays
  unloading.
- A reset restores the world: the level manager is not told, so that what is in an
  active level, but not in the world's first state, is removed and not loaded
  again while the level stays active (`lost`); joints, which are not looked up,
  can be there twice.
- "Entities spawned during simulation are part of the default level"
  (`src/LevelManager.hh:75`): a model with the name of a level's entity is taken
  for it and removed with the level (`foreign`).
- "All levels start inactive and unloaded" (`src/LevelManager.cc:328`): if the default
  level is empty, the models of all levels are created at first.  A level stays
  active when the last performer that was in it is removed.
- set_performer is answered with true whatever becomes of it; a request that meets
  a performer about to be removed by a reset is dropped.

*Comms.*
- "We also clear the queues" (`src/comms/MsgManager.cc:104`): they are not; a
  message that was moved before an address changed hands, between `Unlock` and
  `DeliverMsgs`, goes to the new robot.
- "This way the address can be bound to a separate model" (ibid.): its `entity`
  stays that of the first one, whose place the radio and acoustic models go on
  using.
- A step size lets "the comms model to run at a higher frequency than the physics
  engine" (`include/gz/sim/comms/ICommsModel.hh:50`): its steps are all given the
  same time, since `_info` is passed in place of `info`.
- "Time between bind retries (secs)"
  (`src/systems/comms_endpoint/CommsEndpoint.cc:72`): it is a nanosecond; an
  endpoint asks in every step.
- The system will "unbind it when the model is destroyed"
  (`src/systems/comms_endpoint/CommsEndpoint.hh:37`): not if it has not got the
  answer to its request yet; the address is then never free again.
- `<collision_time_packet_drop>` is documented
  (`src/systems/acoustic_comms/AcousticComms.hh:61`) and never read.

## 6. What is not modelled

- *Of the ECM*: `Clone`, `CopyFrom` and `ResetTo`, state messages and the sets
  of changed components.
- *Of the runner*: creation of entities and assets, publication, physics
  parameters.
- *Of the systems' manager*: Configure, priorities, the lists of interfaces
  other than PostUpdate (they are walked by the runner's own thread).
- *Of the server*: several worlds, distributed runs, the resource services.
- *Of Sensors*: triggered cameras, batteries, a render engine that fails.
- *Of RenderUtil*: what is drawn: poses, materials, view modes, markers,
  visuals of lights; of its accesses without the mutex none.
- *Of distributed runs*: what is in a state, pauses, configuration.
- *Of levels and comms*: what 2.9 and 2.10 leave out.
- *State machine systems* (TriggeredPublisher, Elevator, ...), *UserCommands,
  SceneBroadcaster, logging*: planned, see below.
- *Event manager*: a table of signals used from one thread, without a protocol.
- *Physics, vehicles, GUI*: numerical code and external engines; no
  state machine of this repository.
- *Loaders, SDF, wrappers, components, command line*: I/O, parsing and
  conversion.

Most of the repository's lines are of the last two kinds, together with its
generated and tabular code, so that the mapped lines are a small share of it.

## 7. The plan

Done: `Barrier`, `View`, `Ecm`, `EcmSystems`, `ParallelEach`, `WorldControl`,
`UpdatePhases` and `PostUpdate` (which composes two `Barrier`s), `NetworkManager`,
`LevelManager`, `Comms`, `ServerLifecycle`, `Sensors` and `RenderScene`, each with its
proofs.

Models to come:

1. **`EcmState`**: the changed-component sets, `State`/`SetState`,
   `CopyFrom`/`ResetTo`, against the abstract map from entities to components.
2. **`TriggeredPublisher`**: the worker's condition variable, `serviceCount`
   and the publishers; whether every accepted trigger is eventually served.
3. **`UserCommands`**: the queue of commands against the step, and what the
   services answer.
