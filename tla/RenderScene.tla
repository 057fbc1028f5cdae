----------------------------- MODULE RenderScene -----------------------------
(***************************************************************************)
(* How the scene follows the entities (src/rendering/RenderUtil.cc and     *)
(* SceneManager.cc).  In every step UpdateFromECM adds what is new and     *)
(* what is about to be removed to queues, under updateMutex.  From time to *)
(* time the render thread takes the queues, removes everything in the one  *)
(* and then creates what is in the other.  Several steps, played or        *)
(* paused, fall between two updates of the scene.                          *)
(*                                                                         *)
(* Entities are models, which the code treats in a way of its own, and     *)
(* others: links, visuals, lights, sensors, ... .  Poses, materials and    *)
(* view modes are left out.                                                *)
(***************************************************************************)
EXTENDS Integers, FiniteSets

CONSTANTS
  Entity,           \* a child comes after its parent
  World,
  Parent,           \* the parent of each entity
  Model,            \* the entities that are models
  Name,             \* the name of each entity
  MaxIterations, MaxSceneSteps  \* bounds

ASSUME SceneAssumption ==
  /\ Entity \subseteq Nat \ {0} /\ World = 0
  /\ Parent \in [Entity -> Entity \cup {World}]
  /\ \A e \in Entity : Parent[e] < e
  /\ Model \subseteq Entity
  /\ DOMAIN Name = Entity
  /\ MaxIterations \in Nat /\ MaxSceneSteps \in Nat

VARIABLES
  iterations,       \* UpdateInfo: played, not paused, steps
  entities,         \* those of the ECM between two steps
  used,             \* entities that there have ever been
  sceneInitialized, \* UpdateFromECM has been called before
  newEntities,      \* newModels, newLinks, ...: since which iteration
  removeEntities,   \* as of which iteration
  taken,            \* the queues that Update works on, and the entities then
  scene,            \* SceneManager: entities that are in the scene
  steps,            \* their number, for the bound
  brief             \* history: came and went unnoticed by Update's test

entityVars == <<iterations, entities, used, steps>>
changeVars == <<sceneInitialized, newEntities, removeEntities>>
sceneVars == <<entityVars, changeVars, taken, scene, brief>>

None == [new |-> {}, removed |-> {}, entities |-> {}, busy |-> FALSE]

SceneInit ==
  /\ iterations = 0 /\ entities = {} /\ used = {} /\ steps = 0
  /\ sceneInitialized = FALSE /\ newEntities = {} /\ removeEntities = {}
  /\ taken = None /\ scene = {}
  /\ brief = {}

Entities(queue) == {x.entity : x \in queue}

Ancestors[e \in Entity] ==
  IF Parent[e] = World THEN {} ELSE {Parent[e]} \cup Ancestors[Parent[e]]

(* Some entities and all that is below them.                               *)
Tree(es) == {e \in Entity : e \in es \/ Ancestors[e] \cap es # {}}

-------------------------------------------------------------------------------
(* The simulation.                                                         *)

(* Entities that can be created: new ones whose parents are there and      *)
(* whose names are not taken.                                              *)
Creatable(es) ==
  /\ es \cap used = {}
  /\ \A e \in es : /\ Parent[e] \in {World} \cup entities \cup es
                   /\ \A f \in (entities \cup es) \ {e} : Name[f] # Name[e]

(* The first time, all entities are new (CreateEntitiesFirstUpdate), then  *)
(* those that EachNew visits (CreateEntitiesRuntime).                      *)
NewOnes(created) == IF sceneInitialized THEN created ELSE entities \cup created

(* A step with a PostUpdate that calls UpdateFromECM, unless nobody does   *)
(* so yet.  Entities are removed with their tree at its end.  A paused     *)
(* step does not count as an iteration.                                    *)
Step(created, roots, paused, sees) ==
  LET removed == Tree(roots) \cap (entities \cup created)
      now == IF paused THEN iterations ELSE iterations + 1
  IN  /\ steps < MaxSceneSteps /\ now <= MaxIterations
      /\ Creatable(created)
      /\ sceneInitialized => sees
      /\ steps' = steps + 1 /\ iterations' = now
      /\ used' = used \cup created
      /\ entities' = (entities \cup created) \ removed
      /\ sceneInitialized' = sees
      /\ IF sees
           THEN /\ newEntities' = newEntities \cup
                     {[entity |-> e, iteration |-> now] : e \in NewOnes(created)}
                /\ removeEntities' = removeEntities \cup
                     {[entity |-> e, iteration |-> now] : e \in removed}
           ELSE UNCHANGED <<newEntities, removeEntities>>
      /\ UNCHANGED <<taken, scene, brief>>

-------------------------------------------------------------------------------
(* The render thread.                                                      *)

(* Those that Update's test for models does not keep out: others, and      *)
(* models removed in the iteration they came in; and what is below a model *)
(* that is kept out is not brief either.                                   *)
KeptOut(e) ==
  /\ e \in Model
  /\ \E n \in newEntities, r \in removeEntities :
       n.entity = e /\ r.entity = e /\ n.iteration < r.iteration

(* Update takes the queues, under updateMutex ...                          *)
Take ==
  /\ sceneInitialized /\ ~taken.busy
  /\ taken' = [new |-> newEntities, removed |-> removeEntities, entities |-> entities,
               busy |-> TRUE]
  /\ newEntities' = {} /\ removeEntities' = {}
  /\ brief' = brief \cup
       {e \in Entities(newEntities) \cap Entities(removeEntities) :
          ~\E a \in Model : e \in Tree({a}) /\ KeptOut(a)}
  /\ UNCHANGED <<entityVars, sceneInitialized, scene>>

SlipCreateAll(n) == FALSE

(* The timestamps of a model say that it was removed after it came.        *)
RemovedLater(n) ==
  /\ n.entity \in Model
  /\ \E r \in taken.removed : r.entity = n.entity /\ n.iteration < r.iteration

(* SceneManager::RemoveEntity for each.                                    *)
RemovedFirst == Entities(taken.removed)

Wanted == Entities({n \in taken.new : ~RemovedLater(n)})

(* SceneManager::CreateModel, CreateLink, ...: nothing is created twice, or*)
(* without its parent, and no model whose name is taken.  Parents and      *)
(* models of smaller ids come first.                                       *)
IsMade(e, made, left) ==
  /\ e \in Wanted \ left
  /\ Parent[e] = World \/ Parent[e] \in left \/ made[Parent[e]]
  /\ e \in Model => \A f \in Entity :
       f # e /\ Name[f] = Name[e] => f \notin left /\ (f < e => ~made[f])

Created(left) ==
  LET made[e \in Entity] == IsMade(e, made, left) IN {e \in Entity : made[e]}

(* ... removes, and then creates.                                          *)
Update ==
  /\ taken.busy
  /\ LET left == scene \ RemovedFirst IN scene' = left \cup Created(left)
  /\ taken' = [taken EXCEPT !.busy = FALSE]
  /\ UNCHANGED <<entityVars, changeVars, brief>>

SceneNext ==
  \/ \E created \in SUBSET (Entity \ used), paused, sees \in BOOLEAN :
       \E roots \in SUBSET (entities \cup created) : Step(created, roots, paused, sees)
  \/ Take \/ Update

SceneSpec == SceneInit /\ [][SceneNext]_sceneVars

-------------------------------------------------------------------------------
(* Properties.                                                             *)

SceneTypeOK ==
  LET queue == SUBSET [entity : used, iteration : 0 .. iterations]
      OnceEach(q) == \A x, y \in q : x.entity = y.entity => x = y
  IN  /\ iterations \in Nat /\ steps \in Nat
      /\ entities \subseteq used /\ used \subseteq Entity
      /\ scene \subseteq used /\ brief \subseteq used
      /\ newEntities \in queue /\ OnceEach(newEntities)
      /\ removeEntities \in queue
      /\ taken \in [new : queue, removed : queue, entities : SUBSET used, busy : BOOLEAN]
      /\ OnceEach(taken.new)
      /\ sceneInitialized \in BOOLEAN

Shown == ~taken.busy /\ sceneInitialized
Ghosts == scene \ taken.entities

(* Entities whose name one of the others has.                              *)
Clashing(others) == {e \in Entity : \E g \in others : g # e /\ Name[g] = Name[e]}

(* After an update of the scene it shows the entities that there were when *)
(* the queues were taken, no matter how many steps they are of.  What came *)
(* and went in between and is not kept out by its timestamps stays, and    *)
(* keeps those of the same name, and what is below them, out of the scene. *)
SceneMirrorsEcm ==
  Shown =>
    /\ Ghosts \subseteq brief
    /\ taken.entities \ scene \subseteq Tree(Clashing(Ghosts))

===============================================================================
