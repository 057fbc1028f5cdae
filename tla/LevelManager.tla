---------------------------- MODULE LevelManager ----------------------------
(***************************************************************************)
(* Levels (src/LevelManager.cc): models, lights and joints that exist only *)
(* while a performer is near.  In every step, before the systems run,      *)
(* UpdateLevelsState makes the waiting performers, compares the place of   *)
(* each with the levels, removes the entities of levels that were left and *)
(* creates those of levels that were entered.  The removals are processed  *)
(* at the end of the step.  The runner resets the ECM at the start of a    *)
(* step; the level manager is not told.                                    *)
(*                                                                         *)
(* An entity is a name and whether it is one of the initial ECM: a reset   *)
(* brings back those and requests the removal of the others.  A performer  *)
(* is a child entity; it goes with its model, which it is named after.     *)
(* Levels are used (useLevels), and entities are not nested otherwise.     *)
(***************************************************************************)
EXTENDS FiniteSets

CONSTANTS
  World,             \* the names of the entities in the SDF world
  Robot,             \* names of models that may become performers
  Joint,             \* the names in World that are joints' names
  Spawnable,         \* names of models that users create
  SdfPerformer,      \* robots with a <performer> tag
  Level,             \* the levels
  Refs,              \* the names in each level's <ref> tags
  Cell,              \* places
  Region, Outer,     \* the places in each level's box, and in its buffer too
  None

DefaultLevel == "default"

ASSUME LevelAssumption ==
  /\ Joint \subseteq World /\ SdfPerformer \subseteq Robot \cap World
  /\ DefaultLevel \notin Level
  /\ Refs \in [Level -> SUBSET World]
  /\ Region \in [Level -> SUBSET Cell] /\ Outer \in [Level -> SUBSET Cell]
  /\ \A l \in Level : Region[l] \subseteq Outer[l]
  /\ None \notin Cell

VARIABLES
  pc,                \* the runner: "create" entities, "top" of the loop, "systems"
  entities,          \* of the ECM: <<name, is it one of the initial ECM>>
  performers,        \* those of them with a performer as a child
  doomed,            \* entities whose removal was requested
  doomedPerformers,  \* those whose performer is to be removed
  pose,              \* where the robots are, None if they do not exist
  initialECM,        \* initialEntityCompMgr: entities, performers, places
  activeLevels, activeEntityNames, performersToAdd,
  perfLevels,        \* the PerformerLevels of each performer
  lost,              \* history: names a reset removed from active levels
  foreign,           \* history: names of levels that users gave their models
  promised           \* history: accepted requests, if nothing undid them since

ecmVars == <<entities, performers, doomed, doomedPerformers, pose, initialECM>>
levelVars == <<activeLevels, activeEntityNames, performersToAdd, perfLevels>>
history == <<lost, foreign, promised>>
vars == <<pc, ecmVars, levelVars, history>>

Named(n, es) == {e \in es : e[1] = n}
Names(es) == {e[1] : e \in es}
InLevels == UNION {Refs[l] : l \in Level}

(* ConfigureDefaultLevel: what is in no other level; performers are handled*)
(* separately.                                                             *)
DefaultNames == World \ (InLevels \cup SdfPerformer)

LevelEntityNames(l) == IF l = DefaultLevel THEN DefaultNames ELSE Refs[l]

Contents(ls) == UNION {LevelEntityNames(l) : l \in ls}

Bodies == Robot \X BOOLEAN

Init ==
  /\ pc = "create"
  /\ entities = {} /\ performers = {} /\ doomed = {} /\ doomedPerformers = {}
  /\ \E place \in [Robot \cap World -> Cell] :
       pose = [e \in Bodies |-> IF e[1] \in World /\ e[2] THEN place[e[1]] ELSE None]
  /\ initialECM = None
  /\ activeLevels = {} /\ activeEntityNames = {} /\ performersToAdd = {}
  /\ perfLevels = [e \in Bodies |-> {}]
  /\ lost = {} /\ foreign = {} /\ promised = {}

-------------------------------------------------------------------------------
(* The set_performer service, on a transport thread.                       *)
OnSetPerformer(r) ==
  /\ performersToAdd' = performersToAdd \cup {r}
  /\ promised' = promised \cup {r}
  /\ UNCHANGED <<pc, ecmVars, activeLevels, activeEntityNames, perfLevels,
                 lost, foreign>>

(* The levels that a performer at p is in: those whose box it touches and, *)
(* of those that are active, those whose buffer it touches.                *)
LevelsAt(p) ==
  {l \in Level : p \in Region[l] \/ (l \in activeLevels /\ p \in Outer[l])}

(* What goes with the levels that were left, but for what is wanted (the   *)
(* definition that follows a "Slip" is the code's; the slip is a mistake   *)
(* that it could have).                                                    *)
SlipUnloadAll(left, marked) == Contents(left)

NamesToUnload(left, marked) == Contents(left) \ marked

(* CreatePerformerEntity finds the model; for the others, another attempt  *)
(* is made in the next step.  If the model has a performer already, nothing*)
(* comes of the request, even if that performer is about to be removed.    *)
WithModel(es) == {n \in performersToAdd : Named(n, es) # {}}

SlipAllAreServed(es) == performersToAdd

Served(es) == WithModel(es)

(* LoadActiveEntities: joints are not looked up.                           *)
Missing(names, es) == {n \in names : n \in Joint \/ Named(n, es) = {}}

(* UpdateLevelsState in an ECM with entities es, of which those in ds are  *)
(* about to be removed, performers ps, of which dps are, at places at.     *)
(* `chosen` is the model that EntityByComponents finds for each request.   *)
UpdateLevelsState(es, ds, ps, dps, at, chosen, first) ==
  LET performing == ps \cup {chosen[n] : n \in DOMAIN chosen}
      occupied == UNION {LevelsAt(at[e]) : e \in performing}
      toLoad == occupied \cup ({DefaultLevel} \ activeLevels)
      left == {l \in activeLevels \cap Level :
                 \E e \in performing : l \notin LevelsAt(at[e])} \ toLoad
      marked == Contents(toLoad)
      toUnload == NamesToUnload(left, marked)
      names == marked \ activeEntityNames
  IN  /\ performersToAdd' = performersToAdd \ Served(es)
      /\ perfLevels' = [e \in Bodies |-> IF e \in performing THEN LevelsAt(at[e])
                                                             ELSE {}]
      /\ activeLevels' = (activeLevels \ left) \cup toLoad
      /\ activeEntityNames' = (activeEntityNames \ toUnload) \cup names
      /\ entities' = es \cup {<<n, first>> : n \in Missing(names, es)}
      /\ doomed' = ds \cup {e \in es : e[1] \in toUnload}
      /\ performers' = performing
      /\ doomedPerformers' = dps

(* The models that EntityByComponents may find for the requests.           *)
Choices(es) ==
  {c \in [WithModel(es) -> es] : \A n \in DOMAIN c : c[n][1] = n}

(* CreateEntities: the default level and the performers' models, or all    *)
(* models if the default level is empty; then the levels for the first     *)
(* time; what comes of it is the state to reset to.                        *)
CreateEntities ==
  LET models == (IF DefaultNames = {} THEN World ELSE DefaultNames \cup SdfPerformer)
                  \ Joint
      es == {<<n, TRUE>> : n \in models}
      ps == {<<n, TRUE>> : n \in SdfPerformer}
  IN  /\ pc = "create"
      /\ pc' = "top"
      /\ \E chosen \in Choices(es) :
           UpdateLevelsState(es, {}, ps, {}, pose, chosen, TRUE)
      /\ initialECM' = [entities |-> entities', performers |-> performers',
                         pose |-> pose]
      /\ UNCHANGED <<pose, history>>

(* An iteration up to the systems.                                         *)
Step ==
  /\ pc = "top"
  /\ pc' = "systems"
  /\ \E chosen \in Choices(entities) :
       UpdateLevelsState(entities, {}, performers, {}, pose, chosen, FALSE)
  /\ lost' = lost \cap activeEntityNames'
  /\ UNCHANGED <<pose, initialECM, foreign, promised>>

(* ... after a reset.  ResetTo brings back what is missing, and what is    *)
(* not in the initial ECM is still there, about to be removed.             *)
ResetStep ==
  LET es == entities \cup initialECM.entities
      ps == performers \cup initialECM.performers
      dps == performers \ initialECM.performers
      at == [e \in Bodies |-> IF e[2] THEN initialECM.pose[e] ELSE pose[e]]
  IN  /\ pc = "top"
      /\ pc' = "systems"
      /\ \E chosen \in Choices(es) :
           /\ UpdateLevelsState(es, entities \ initialECM.entities, ps, dps, at,
                                chosen, FALSE)
           /\ promised' = performersToAdd \ {n \in DOMAIN chosen : chosen[n] \in dps}
      /\ pose' = at
      /\ lost' = (activeEntityNames' \cap (lost \cup Names(entities)))
                   \ Names(initialECM.entities)
      /\ UNCHANGED <<initialECM, foreign>>

-------------------------------------------------------------------------------
(* The systems.                                                            *)

Move(e, c) ==
  /\ pc = "systems" /\ e \in entities \cap Bodies
  /\ pose' = [pose EXCEPT ![e] = c]
  /\ UNCHANGED <<pc, entities, performers, doomed, doomedPerformers, initialECM,
                 levelVars, history>>

(* CreateCommand: a model at the place of its choice, unless the name is   *)
(* taken.                                                                  *)
Spawn(n, c) ==
  /\ pc = "systems" /\ n \in Spawnable /\ Named(n, entities) = {}
  /\ entities' = entities \cup {<<n, FALSE>>}
  /\ pose' = IF n \in Robot THEN [pose EXCEPT ![<<n, FALSE>>] = c] ELSE pose
  /\ foreign' = foreign \cup ({n} \cap InLevels)
  /\ UNCHANGED <<pc, performers, doomed, doomedPerformers, initialECM, levelVars,
                 lost, promised>>

(* RemoveCommand.  What is in a level is not to be removed                 *)
(* (LevelManager.hh:72).                                                   *)
Remove(e) ==
  /\ pc = "systems" /\ e \in (entities \cap Bodies) \ doomed
  /\ doomed' = doomed \cup {e}
  /\ UNCHANGED <<pc, entities, performers, doomedPerformers, pose, initialECM,
                 levelVars, history>>

(* ProcessRemoveEntityRequests.                                            *)
EndStep ==
  /\ pc = "systems"
  /\ pc' = "top"
  /\ entities' = entities \ doomed
  /\ performers' = performers \ (doomed \cup doomedPerformers)
  /\ doomed' = {} /\ doomedPerformers' = {}
  /\ pose' = [e \in Bodies |-> IF e \in entities' THEN pose[e] ELSE None]
  /\ perfLevels' = [e \in Bodies |-> IF e \in performers' THEN perfLevels[e] ELSE {}]
  /\ foreign' = foreign \cap Names(entities')
  /\ promised' = promised \ (Names(doomed) \ performersToAdd)
  /\ UNCHANGED <<initialECM, activeLevels, activeEntityNames, performersToAdd, lost>>

Next ==
  \/ \E r \in Robot : OnSetPerformer(r)
  \/ CreateEntities
  \/ Step
  \/ ResetStep
  \/ \E e \in Bodies, c \in Cell : Move(e, c)
  \/ \E n \in Spawnable, c \in Cell : Spawn(n, c)
  \/ \E e \in entities : Remove(e)
  \/ EndStep

Spec == Init /\ [][Next]_vars

-------------------------------------------------------------------------------
(* Between two steps, an entity of the levels is there exactly if one of   *)
(* its levels is active, however many share it, and only once, whatever    *)
(* was left, entered, reset and created in between.  But: what is not in   *)
(* the initial ECM goes with a reset, and is not loaded again while its    *)
(* level stays active; a model that a user gave such a name is taken for   *)
(* the level's and goes with the level; and joints, which are not looked   *)
(* up, may be there twice after a reset.                                   *)
LoadedIffActive ==
  pc = "top" => \A n \in (InLevels \cup DefaultNames) \ Robot :
    LET there == Named(n, entities) IN
    IF n \in Contents(activeLevels)
      THEN \/ n \in lost
           \/ there # {} /\ (n \in Joint \/ Cardinality(there) = 1)
      ELSE there = {} \/ n \in foreign

(* A performer that was asked for, which the service accepts in any case,  *)
(* is there or will be made as soon as there is a model of that name, until*)
(* the model is removed or a reset removes the performer.                  *)
RequestsAreKept ==
  \A r \in promised : r \in performersToAdd \/ Named(r, performers) # {}

===============================================================================
