-------------------------- MODULE LevelManagerProofs --------------------------
(***************************************************************************)
(* Proofs about LevelManager for any world, levels and places.             *)
(***************************************************************************)
EXTENDS LevelManager, FiniteSetTheorems, TLAPS

(* The names that the levels are about and that no performer has.          *)
Things == (InLevels \cup DefaultNames) \ Robot

Entity == (World \cup Spawnable) \X BOOLEAN

(* What is there after the removals that were requested.                   *)
Remaining(n) == Named(n, entities \ doomed)

NothingYet ==
  /\ entities = {} /\ doomed = {} /\ performers = {}
  /\ activeLevels = {} /\ activeEntityNames = {} /\ lost = {} /\ foreign = {}

(* activeEntityNames is what the active levels hold: what two levels share *)
(* is counted once, and is not dropped with one of them.                   *)
NamesFollowLevels ==
  /\ activeLevels \subseteq Level \cup {DefaultLevel}
  /\ activeEntityNames = Contents(activeLevels)

(* What a reset brings back is near a performer that it brings back too, at*)
(* the place it brings it back to.                                         *)
ResetIsLoaded ==
  /\ initialECM.entities \subseteq World \X BOOLEAN
  /\ \A e \in initialECM.entities : e[2]
  /\ \A e \in entities : e[2] => e \in initialECM.entities
  /\ \A e \in initialECM.performers : e \in Bodies /\ e[2]
  /\ \A n \in Names(initialECM.entities) \cap Things :
       \/ n \in DefaultNames
       \/ \E e \in initialECM.performers, l \in Level :
            n \in Refs[l] /\ initialECM.pose[e] \in Region[l]

IsLoadedOrGone(n) ==
  IF n \in activeEntityNames
    THEN n \in lost \/ Remaining(n) # {}
    ELSE Remaining(n) = {} \/ n \in foreign

(* No two of a name, but of a joint's.                                     *)
IsSingle(n) == n \in Joint \/ \A d, e \in Remaining(n) : d = e

ThingsAreRight == \A n \in Things : IsLoadedOrGone(n) /\ IsSingle(n)

LevelInv ==
  /\ pc \in {"create", "top", "systems"}
  /\ entities \subseteq Entity /\ doomed \subseteq entities
  /\ performersToAdd \subseteq Robot
  /\ pc = "create" => NothingYet
  /\ pc = "top" => doomed = {}
  /\ NamesFollowLevels
  /\ pc # "create" =>
       /\ DefaultLevel \in activeLevels
       /\ ResetIsLoaded
       /\ ThingsAreRight

(* A request that counts waits, or has its performer, and not one that is  *)
(* about to be removed.                                                    *)
PromisesAreKept ==
  \A r \in promised :
    r \in performersToAdd \/ \E e \in performers \ doomedPerformers : e[1] = r

RequestInv == PromisesAreKept /\ (pc = "create" => performers = {})

(* What an update is meant to come to, with the arguments of               *)
(* UpdateLevelsState.                                                      *)
LevelsAreUpdated(es, ds, ps, at, first) ==
  LET entered == activeEntityNames' \ activeEntityNames
      gone == activeEntityNames \ activeEntityNames'
  IN  /\ NamesFollowLevels' /\ DefaultLevel \in activeLevels'
      /\ \A e \in ps, l \in Level : at[e] \in Region[l] => l \in activeLevels'
      /\ activeLevels = {} =>
           \A l \in activeLevels' \cap Level :
             \E e \in performers' : at[e] \in Region[l]
      /\ es \subseteq entities'
      /\ \A n \in entered : <<n, first>> \in entities' \/ Named(n, es) # {}
      /\ \A e \in entities' \ es : \E n \in Missing(entered, es) : e = <<n, first>>
      /\ \A e : e \in doomed' <=> e \in ds \/ (e \in es /\ e[1] \in gone)

-------------------------------------------------------------------------------
(* A performer that was asked for, which the service accepts in any case,  *)
(* is there or will be made as soon as there is a model of that name, until*)
(* the model is removed or a reset removes the performer.                  *)
THEOREM RequestsWait == Spec => []RequestsAreKept
<1>1. Init => RequestInv
  BY DEF Init, RequestInv, PromisesAreKept
<1>2. RequestInv /\ [Next]_vars => RequestInv'
  <2> SUFFICES ASSUME RequestInv, [Next]_vars
               PROVE  RequestInv'
    OBVIOUS
  <2> USE DEF RequestInv, PromisesAreKept
  <2>1. ASSUME NEW r \in Robot, OnSetPerformer(r)
        PROVE  RequestInv'
    BY <2>1 DEF OnSetPerformer, ecmVars
  <2>2. CASE CreateEntities
    <3> DEFINE models == (IF DefaultNames = {} THEN World
                                               ELSE DefaultNames \cup SdfPerformer)
                           \ Joint
               es == {<<n, TRUE>> : n \in models}
               ps == {<<n, TRUE>> : n \in SdfPerformer}
    <3>1. PICK chosen \in Choices(es) :
            UpdateLevelsState(es, {}, ps, {}, pose, chosen, TRUE)
      BY <2>2 DEF CreateEntities
    <3>2. pc = "create" /\ pc' = "top" /\ promised' = promised /\ doomedPerformers' = {}
      BY <2>2, <3>1 DEF CreateEntities, UpdateLevelsState, history
    <3> HIDE DEF models, es, ps
    <3> QED  BY <3>1, <3>2 DEF Choices, UpdateLevelsState, Served, WithModel
  <2>3. CASE Step
    <3>1. PICK chosen \in Choices(entities) :
            UpdateLevelsState(entities, {}, performers, {}, pose, chosen, FALSE)
      BY <2>3 DEF Step
    <3>2. /\ pc' = "systems" /\ promised' = promised /\ doomedPerformers' = {}
          /\ performers \subseteq performers'
      BY <2>3, <3>1 DEF Step, UpdateLevelsState
    <3> QED  BY <3>1, <3>2 DEF Choices, UpdateLevelsState, Served, WithModel
  <2>4. CASE ResetStep
    <3> DEFINE es == entities \cup initialECM.entities
               ps == performers \cup initialECM.performers
               dps == performers \ initialECM.performers
               at == [e \in Bodies |-> IF e[2] THEN initialECM.pose[e] ELSE pose[e]]
    <3>1. PICK chosen \in Choices(es) :
            /\ UpdateLevelsState(es, entities \ initialECM.entities, ps, dps, at,
                                 chosen, FALSE)
            /\ promised' = performersToAdd \ {n \in DOMAIN chosen : chosen[n] \in dps}
      BY <2>4 DEF ResetStep
    <3>2. pc' = "systems" /\ doomedPerformers' = dps
      BY <2>4, <3>1 DEF ResetStep, UpdateLevelsState
    <3> HIDE DEF es, ps, dps, at
    <3>3. ASSUME NEW r \in promised', r \notin performersToAdd'
          PROVE  \E e \in performers' \ doomedPerformers' : e[1] = r
      <4>1. r \in performersToAdd /\ ~(r \in DOMAIN chosen /\ chosen[r] \in dps)
        BY <3>1, <3>3
      <4>2. r \in DOMAIN chosen /\ chosen[r] \in performers' /\ chosen[r][1] = r
        BY <3>1, <3>3, <4>1 DEF Choices, UpdateLevelsState, Served, WithModel
      <4> QED  BY <4>1, <4>2, <3>2
    <3> QED  BY <3>2, <3>3
  <2>5. ASSUME NEW e \in Bodies, NEW c \in Cell, Move(e, c)
        PROVE  RequestInv'
    BY <2>5 DEF Move, levelVars, history
  <2>6. ASSUME NEW n \in Spawnable, NEW c \in Cell, Spawn(n, c)
        PROVE  RequestInv'
    BY <2>6 DEF Spawn, levelVars
  <2>7. ASSUME NEW e \in entities, Remove(e)
        PROVE  RequestInv'
    BY <2>7 DEF Remove, levelVars, history
  <2>8. CASE EndStep
    BY <2>8 DEF EndStep, Names
  <2>9. CASE UNCHANGED vars
    BY <2>9 DEF vars, ecmVars, levelVars, history
  <2> QED  BY <2>1, <2>2, <2>3, <2>4, <2>5, <2>6, <2>7, <2>8, <2>9 DEF Next
<1>3. RequestInv => RequestsAreKept
  BY DEF RequestInv, PromisesAreKept, RequestsAreKept, Named
<1> QED  BY <1>1, <1>2, <1>3, PTL DEF Spec


-------------------------------------------------------------------------------
(* What two levels share outlives the one that is left: whoever keeps the  *)
(* other one active has it loaded, and what is to be loaded is not         *)
(* unloaded.                                                               *)
LEMMA UpdateIsExact ==
  ASSUME NEW es, NEW ds, NEW ps, NEW dps, NEW at, NEW chosen, NEW first,
         NamesFollowLevels,
         UpdateLevelsState(es, ds, ps, dps, at, chosen, first)
  PROVE  LevelsAreUpdated(es, ds, ps, at, first)
<1> DEFINE performing == ps \cup {chosen[n] : n \in DOMAIN chosen}
           occupied == UNION {LevelsAt(at[e]) : e \in performing}
           toLoad == occupied \cup ({DefaultLevel} \ activeLevels)
           left == {l \in activeLevels \cap Level :
                      \E e \in performing : l \notin LevelsAt(at[e])} \ toLoad
           marked == Contents(toLoad)
           toUnload == Contents(left) \ marked
           names == marked \ activeEntityNames
<1>1. /\ activeLevels' = (activeLevels \ left) \cup toLoad
      /\ activeEntityNames' = (activeEntityNames \ toUnload) \cup names
      /\ entities' = es \cup {<<n, first>> : n \in Missing(names, es)}
      /\ doomed' = ds \cup {e \in es : e[1] \in toUnload}
  BY DEF UpdateLevelsState, NamesToUnload
<1>2. /\ activeLevels \subseteq Level \cup {DefaultLevel}
      /\ activeEntityNames = Contents(activeLevels)
  BY DEF NamesFollowLevels
<1>3. toLoad \subseteq Level \cup {DefaultLevel}
  BY DEF LevelsAt
<1>4. left \subseteq activeLevels \cap Level
  OBVIOUS
<1>5. ASSUME NEW l \in activeLevels, l \in Level, l \notin left, left # {}
      PROVE  l \in toLoad
  <2>1. PICK e \in performing : TRUE
    BY <1>5
  <2>2. l \in toLoad \/ l \in LevelsAt(at[e])
    BY <1>5, <2>1
  <2>3. l \in LevelsAt(at[e]) => l \in occupied
    BY <2>1
  <2> QED  BY <2>2, <2>3
<1>6. \A e \in ps, l \in Level : at[e] \in Region[l] => l \in toLoad
  BY DEF LevelsAt
<1>7. DefaultLevel \in activeLevels'
  BY <1>1, <1>4, LevelAssumption
<1>a. activeLevels = {} =>
        \A l \in activeLevels' \cap Level : \E e \in performers' : at[e] \in Region[l]
  BY <1>1, LevelAssumption DEF LevelsAt, UpdateLevelsState
<1> HIDE DEF performing, occupied, toLoad, left
<1>8. \A n, ls : n \in Contents(ls) <=> \E l \in ls : n \in LevelEntityNames(l)
  BY DEF Contents
<1>9. ASSUME NEW n \in activeEntityNames'
      PROVE  n \in Contents(activeLevels')
  <2>1. CASE n \in marked
    BY <2>1, <1>1, <1>8
  <2>2. CASE n \in activeEntityNames /\ n \notin Contents(left)
    BY <2>2, <1>1, <1>2, <1>8
  <2> QED  BY <1>1, <1>9, <2>1, <2>2
<1>10. ASSUME NEW n \in Contents(activeLevels')
       PROVE  n \in activeEntityNames'
  <2>1. PICK l \in activeLevels' : n \in LevelEntityNames(l)
    BY <1>8, <1>10
  <2>2. CASE l \in toLoad
    BY <2>1, <2>2, <1>1, <1>8
  <2>3. CASE l \in activeLevels \ left /\ l \notin toLoad
    <3>1. n \in activeEntityNames
      BY <2>1, <2>3, <1>2, <1>8
    <3>2. n \notin Contents(left)
      <4> SUFFICES ASSUME NEW k \in left, n \in LevelEntityNames(k)
                   PROVE  FALSE
        BY <1>8
      <4>1. l = DefaultLevel
        BY <2>3, <1>2, <1>5
      <4>2. k \in Level /\ k # DefaultLevel
        BY <1>4, LevelAssumption
      <4> QED  BY <4>1, <4>2, <2>1 DEF LevelEntityNames, DefaultNames, InLevels
    <3> QED  BY <3>1, <3>2, <1>1
  <2> QED  BY <2>1, <2>2, <2>3, <1>1
<1>11. NamesFollowLevels'
  <2>1. activeLevels' \subseteq Level \cup {DefaultLevel}
    BY <1>1, <1>2, <1>3
  <2> QED  BY <2>1, <1>9, <1>10 DEF NamesFollowLevels, Contents, LevelEntityNames
<1>12. /\ activeEntityNames' \ activeEntityNames = names
       /\ activeEntityNames \ activeEntityNames' = toUnload
  BY <1>1, <1>2, <1>4, <1>8
<1>13. \A e \in ps, l \in Level : at[e] \in Region[l] => l \in activeLevels'
  BY <1>1, <1>6
<1> DEFINE entered == activeEntityNames' \ activeEntityNames
           gone == activeEntityNames \ activeEntityNames'
<1>14. entered = names /\ gone = toUnload
  BY <1>12
<1> HIDE DEF marked, toUnload, names, entered, gone
<1>15. /\ es \subseteq entities'
       /\ \A n \in entered : <<n, first>> \in entities' \/ Named(n, es) # {}
       /\ \A e \in entities' \ es : \E n \in Missing(entered, es) : e = <<n, first>>
  BY <1>1, <1>14 DEF Missing
<1>16. \A e : e \in doomed' <=> e \in ds \/ (e \in es /\ e[1] \in gone)
  BY <1>1, <1>14
<1> QED  BY <1>7, <1>a, <1>11, <1>13, <1>15, <1>16 DEF LevelsAreUpdated, entered, gone


-------------------------------------------------------------------------------
LEMMA ContentsInWorld ==
  ASSUME NEW ls \in SUBSET (Level \cup {DefaultLevel})
  PROVE  Contents(ls) \subseteq World
BY LevelAssumption DEF Contents, LevelEntityNames, DefaultNames


(* Whether there is one of a name.                                         *)
LEMMA NamedIsThere ==
  ASSUME NEW n, NEW es, NEW e \in es, e[1] = n
  PROVE  Named(n, es) # {}
BY DEF Named

LEMMA NamedIsAny ==
  ASSUME NEW n, NEW es, Named(n, es) # {}
  PROVE  \E e \in es : e[1] = n
BY DEF Named

(* The first update: what is created has its level active.                 *)
LEMMA CreationIsRight ==
  ASSUME DefaultNames # {}, LevelInv, CreateEntities
  PROVE  LevelInv'
<1> DEFINE es == {<<n, TRUE>> : n \in (DefaultNames \cup SdfPerformer) \ Joint}
           ps == {<<n, TRUE>> : n \in SdfPerformer}
<1>1. PICK chosen \in Choices(es) :
        UpdateLevelsState(es, {}, ps, {}, pose, chosen, TRUE)
  BY DEF CreateEntities
<1>2. /\ pc = "create" /\ pc' = "top"
      /\ performers' = ps \cup {chosen[n] : n \in DOMAIN chosen}
      /\ initialECM' = [entities |-> entities', performers |-> performers',
                        pose |-> pose]
      /\ performersToAdd' \subseteq performersToAdd
      /\ UNCHANGED <<lost, foreign>>
  BY <1>1 DEF CreateEntities, UpdateLevelsState, history
<1>3. NothingYet /\ NamesFollowLevels /\ performersToAdd \subseteq Robot
  BY <1>2 DEF LevelInv
<1>a. ASSUME NEW e \in es
      PROVE  e[1] \in (DefaultNames \cup SdfPerformer) /\ e[2] /\ e \in World \X BOOLEAN
  <2>1. PICK n \in DefaultNames \cup SdfPerformer : e = <<n, TRUE>>
    BY <1>a
  <2>2. n \in World
    BY LevelAssumption DEF DefaultNames
  <2> QED  BY <2>1, <2>2
<1>b. ASSUME NEW e \in ps
      PROVE  e \in Bodies /\ e[2]
  <2>1. PICK n \in SdfPerformer : e = <<n, TRUE>>
    BY <1>b
  <2>2. n \in Robot /\ <<n, TRUE>> \in Bodies
    BY LevelAssumption DEF Bodies
  <2> QED  BY <2>1, <2>2
<1>c. ASSUME NEW n \in DOMAIN chosen
      PROVE  chosen[n] \in Bodies /\ chosen[n][2]
  <2>1. n \in Robot /\ chosen[n] \in es /\ chosen[n][1] = n
    BY <1>1, <1>3 DEF Choices, WithModel
  <2>2. PICK m \in DefaultNames \cup SdfPerformer : chosen[n] = <<m, TRUE>>
    BY <2>1
  <2>3. m \in Robot
    BY <2>1, <2>2
  <2>4. <<m, TRUE>> \in Bodies
    BY <2>3 DEF Bodies
  <2> QED  BY <2>2, <2>4
<1> HIDE DEF es, ps
<1>4. LevelsAreUpdated(es, {}, ps, pose, TRUE)
  BY <1>1, <1>3, UpdateIsExact
<1>5. /\ NamesFollowLevels' /\ DefaultLevel \in activeLevels'
      /\ \A l \in activeLevels' \cap Level :
           \E e \in performers' : pose[e] \in Region[l]
      /\ es \subseteq entities'
      /\ \A n \in activeEntityNames' : <<n, TRUE>> \in entities' \/ Named(n, es) # {}
      /\ \A e \in entities' \ es : \E n \in activeEntityNames' : e = <<n, TRUE>>
      /\ doomed' = {}
  BY <1>3, <1>4 DEF LevelsAreUpdated, NothingYet, Missing
<1>6. \A e \in performers' : e \in Bodies /\ e[2]
  BY <1>2, <1>b, <1>c
<1>7. DefaultNames \subseteq activeEntityNames' /\ activeEntityNames' \subseteq World
  BY <1>5, ContentsInWorld DEF NamesFollowLevels, Contents, LevelEntityNames
<1>8. ASSUME NEW e \in entities'
      PROVE  /\ e \in World \X BOOLEAN /\ e[2]
             /\ e[1] \in Things => e[1] \in activeEntityNames'
  <2>1. CASE e \in es
    BY <1>7, <1>a, <2>1, LevelAssumption DEF Things
  <2>2. CASE e \notin es
    <3>1. PICK n \in activeEntityNames' : e = <<n, TRUE>>
      BY <1>5, <1>8, <2>2
    <3> QED  BY <1>7, <3>1
  <2> QED  BY <2>1, <2>2
<1>9. \A n \in activeEntityNames' : Named(n, entities') # {}
  <2> SUFFICES ASSUME NEW n \in activeEntityNames'
               PROVE  \E e \in entities' : e[1] = n
    BY DEF Named
  <2> QED  BY <1>5 DEF Named
<1>11. ThingsAreRight'
  <2> SUFFICES ASSUME NEW n \in Things
               PROVE  IsLoadedOrGone(n)' /\ IsSingle(n)'
    BY DEF ThingsAreRight, Things
  <2>1. IsLoadedOrGone(n)'
    BY <1>5, <1>8, <1>9 DEF IsLoadedOrGone, Remaining, Named
  <2>2. IsSingle(n)'
    BY <1>8 DEF IsSingle, Remaining, Named
  <2> QED  BY <2>1, <2>2
<1>12. ResetIsLoaded'
  <2>1. ASSUME NEW n \in Things, NEW e \in entities', e[1] = n
        PROVE  \/ n \in DefaultNames
               \/ \E f \in performers', l \in Level :
                    n \in Refs[l] /\ pose[f] \in Region[l]
    <3>1. n \in Contents(activeLevels')
      BY <2>1, <1>5, <1>8 DEF NamesFollowLevels
    <3>2. PICK l \in activeLevels' : n \in LevelEntityNames(l)
      BY <3>1 DEF Contents
    <3>3. l = DefaultLevel \/ l \in Level
      BY <1>5 DEF NamesFollowLevels
    <3> QED  BY <1>5, <3>2, <3>3 DEF LevelEntityNames
  <2> QED  BY <1>2, <1>6, <1>8, <2>1 DEF ResetIsLoaded, Names, Things
<1>13. entities' \subseteq Entity
  BY <1>8, LevelAssumption DEF Entity
<1> QED  BY <1>2, <1>3, <1>5, <1>11, <1>12, <1>13 DEF LevelInv


(* A step: what was loaded stays loaded or goes with its levels.           *)
LEMMA StepIsRight ==
  ASSUME LevelInv, Step
  PROVE  LevelInv'
<1>1. PICK chosen \in Choices(entities) :
        UpdateLevelsState(entities, {}, performers, {}, pose, chosen, FALSE)
  BY DEF Step
<1>2. /\ pc = "top" /\ pc' = "systems" /\ performersToAdd' \subseteq performersToAdd
      /\ lost' = lost \cap activeEntityNames'
      /\ UNCHANGED <<initialECM, foreign>>
  BY <1>1 DEF Step, UpdateLevelsState
<1>3. /\ NamesFollowLevels /\ entities \subseteq Entity /\ doomed = {} /\ ResetIsLoaded
      /\ performersToAdd \subseteq Robot /\ ThingsAreRight
  BY <1>2 DEF LevelInv
<1>4. LevelsAreUpdated(entities, {}, performers, pose, FALSE)
  BY <1>1, <1>3, UpdateIsExact
<1> DEFINE entered == activeEntityNames' \ activeEntityNames
<1>5. /\ NamesFollowLevels' /\ DefaultLevel \in activeLevels'
      /\ entities \subseteq entities'
      /\ \A e : e \in doomed' <=> (e \in entities
                                   /\ e[1] \in activeEntityNames \ activeEntityNames')
  BY <1>4 DEF LevelsAreUpdated
<1>a. ASSUME NEW n \in entered
      PROVE  \E e \in entities' : e[1] = n
  <2>1. <<n, FALSE>> \in entities' \/ Named(n, entities) # {}
    BY <1>4 DEF LevelsAreUpdated
  <2> QED  BY <2>1, <1>5, NamedIsAny
<1>6. activeEntityNames' \subseteq World
  BY <1>5, ContentsInWorld DEF NamesFollowLevels
<1>7. ASSUME NEW e \in entities', e \notin entities
      PROVE  /\ e[1] \in entered /\ e \in World \X BOOLEAN /\ ~e[2]
             /\ e[1] \in Joint \/ Named(e[1], entities) = {}
  <2>1. PICK n \in Missing(entered, entities) : e = <<n, FALSE>>
    BY <1>4, <1>7 DEF LevelsAreUpdated
  <2> QED  BY <2>1, <1>6 DEF Missing
<1>8. entities' \subseteq Entity /\ doomed' \subseteq entities'
  BY <1>3, <1>5, <1>7 DEF Entity
<1>9. ResetIsLoaded'
  BY <1>2, <1>3, <1>7 DEF ResetIsLoaded
<1>10. ThingsAreRight'
  <2> SUFFICES ASSUME NEW n \in Things
               PROVE  IsLoadedOrGone(n)' /\ IsSingle(n)'
    BY DEF ThingsAreRight, Things
  <2> HIDE DEF entered
  <2>1. IsLoadedOrGone(n) /\ IsSingle(n)
    BY <1>3 DEF ThingsAreRight
  <2>a. /\ \A e : e \in Remaining(n) <=> e \in entities /\ e[1] = n
        /\ \A e : e \in Remaining(n)' <=> e \in entities' /\ e[1] = n /\ e \notin doomed'
    BY <1>3 DEF Remaining, Named
  <2>2. ASSUME n \in activeEntityNames, n \in activeEntityNames'
        PROVE  IsLoadedOrGone(n)'
    <3>1. n \in lost' \/ \E e \in entities' : e[1] = n /\ e \notin doomed'
      BY <1>2, <1>5, <2>1, <2>2, <2>a DEF IsLoadedOrGone
    <3>2. n \in lost' \/ Remaining(n)' # {}
      BY <3>1, <2>a
    <3> QED  BY <2>2, <3>2 DEF IsLoadedOrGone
  <2>3. ASSUME n \notin activeEntityNames, n \in activeEntityNames'
        PROVE  IsLoadedOrGone(n)'
    <3>1. \E e \in entities' : e[1] = n /\ e \notin doomed'
      BY <1>5, <1>a, <2>3 DEF entered
    <3> QED  BY <2>3, <3>1, <2>a DEF IsLoadedOrGone
  <2>4. ASSUME n \notin activeEntityNames'
        PROVE  IsLoadedOrGone(n)'
    <3>1. \A e \in Remaining(n)' : e \in Remaining(n) /\ n \notin activeEntityNames
      BY <1>5, <1>7, <2>4, <2>a DEF entered
    <3> QED  BY <1>2, <2>1, <2>4, <3>1 DEF IsLoadedOrGone
  <2>5. IsSingle(n)'
    BY <1>3, <1>5, <1>7, <2>1 DEF IsSingle, Remaining, Named, Entity
  <2> QED  BY <2>2, <2>3, <2>4, <2>5
<1> QED  BY <1>2, <1>3, <1>5, <1>8, <1>9, <1>10 DEF LevelInv


(* A step that follows a reset: what it brings back is near a performer    *)
(* that it brings back, so its level is active or becomes so; what it      *)
(* removes from an active level is lost.                                   *)
LEMMA ResetStepIsRight ==
  ASSUME LevelInv, ResetStep
  PROVE  LevelInv'
<1> DEFINE old == initialECM.entities
           es == entities \cup old
           ds == entities \ old
           ps == performers \cup initialECM.performers
           dps == performers \ initialECM.performers
           at == [e \in Bodies |-> IF e[2] THEN initialECM.pose[e] ELSE pose[e]]
<1>1. PICK chosen \in Choices(es) :
        UpdateLevelsState(es, ds, ps, dps, at, chosen, FALSE)
  BY DEF ResetStep
<1>2. /\ pc = "top" /\ pc' = "systems" /\ performersToAdd' \subseteq performersToAdd
      /\ lost' = (activeEntityNames' \cap (lost \cup Names(entities))) \ Names(old)
      /\ UNCHANGED <<initialECM, foreign>>
  BY <1>1 DEF ResetStep, UpdateLevelsState
<1>3. /\ NamesFollowLevels /\ entities \subseteq Entity /\ doomed = {} /\ ResetIsLoaded
      /\ performersToAdd \subseteq Robot /\ ThingsAreRight
  BY <1>2 DEF LevelInv
<1>b. \A e \in initialECM.performers, l \in Level :
        initialECM.pose[e] \in Region[l] => e \in ps /\ at[e] \in Region[l]
  BY <1>3 DEF ResetIsLoaded
<1>c. old \subseteq es /\ entities \subseteq es /\ es \ ds = old
  OBVIOUS
<1>d. /\ \A e \in ds : e \in entities /\ e \notin old
      /\ \A e \in es : (e \in entities /\ e \in ds) \/ e \in old
  OBVIOUS
<1> HIDE DEF es, ds, ps, dps, at
<1>4. LevelsAreUpdated(es, ds, ps, at, FALSE)
  BY <1>1, <1>3, UpdateIsExact
<1> DEFINE entered == activeEntityNames' \ activeEntityNames
<1>5. /\ NamesFollowLevels' /\ DefaultLevel \in activeLevels'
      /\ \A e \in ps, l \in Level : at[e] \in Region[l] => l \in activeLevels'
      /\ es \subseteq entities'
      /\ \A e : e \in doomed'
                  <=> e \in ds \/ (e \in es
                                   /\ e[1] \in activeEntityNames \ activeEntityNames')
  BY <1>4 DEF LevelsAreUpdated
<1>6. activeEntityNames' \subseteq World
  BY <1>5, ContentsInWorld DEF NamesFollowLevels
<1>7. ASSUME NEW e \in entities', e \notin es
      PROVE  /\ e[1] \in entered /\ e \in World \X BOOLEAN /\ ~e[2]
             /\ e[1] \in Joint \/ Named(e[1], es) = {}
  <2>1. PICK n \in Missing(entered, es) : e = <<n, FALSE>>
    BY <1>4, <1>7 DEF LevelsAreUpdated
  <2> QED  BY <2>1, <1>6 DEF Missing
<1>8. entities' \subseteq Entity /\ doomed' \subseteq entities'
  <2>1. es \subseteq Entity
    BY <1>3, <1>d DEF ResetIsLoaded, Entity
  <2>2. \A e \in entities' : e \in Entity
    BY <2>1, <1>7 DEF Entity
  <2> QED  BY <1>c, <1>d, <1>5, <2>2
<1>9. ResetIsLoaded'
  <2>1. \A e \in entities' : e[2] => e \in old
    BY <1>3, <1>7, <1>d DEF ResetIsLoaded
  <2> QED  BY <1>2, <1>3, <2>1 DEF ResetIsLoaded
<1>10. ASSUME NEW e \in old, e[1] \in Things
       PROVE  e[1] \in activeEntityNames'
  <2> DEFINE n == e[1]
  <2>1. n \in DefaultNames \/ \E l \in activeLevels' : l \in Level /\ n \in Refs[l]
    BY <1>3, <1>5, <1>10, <1>b DEF ResetIsLoaded, Names
  <2>2. \E l \in activeLevels' : n \in LevelEntityNames(l)
    BY <2>1, <1>5, LevelAssumption DEF LevelEntityNames
  <2> QED  BY <2>2, <1>5 DEF NamesFollowLevels, Contents
<1>11. ThingsAreRight'
  <2> SUFFICES ASSUME NEW n \in Things
               PROVE  IsLoadedOrGone(n)' /\ IsSingle(n)'
    BY DEF ThingsAreRight, Things
  <2>1. IsLoadedOrGone(n)
    BY <1>3 DEF ThingsAreRight
  <2>2. /\ \A e : e \in Remaining(n) <=> e \in entities /\ e[1] = n
        /\ \A e : e \in Remaining(n)' <=> e \in entities' /\ e[1] = n /\ e \notin doomed'
        /\ \A es2 : n \in Names(es2) <=> \E e \in es2 : e[1] = n
    BY <1>3 DEF Remaining, Named, Names
  <2>3. ASSUME n \in activeEntityNames'
        PROVE  n \in lost' \/ Remaining(n)' # {}
    <3>1. CASE n \in Names(old)
      <4>1. PICK e \in old : e[1] = n
        BY <3>1, <2>2
      <4> QED  BY <4>1, <1>c, <1>d, <1>5, <2>2, <2>3
    <3>2. CASE n \notin Names(old) /\ n \in lost \cup Names(entities)
      BY <3>2, <1>2, <2>3
    <3>3. CASE n \notin Names(old) /\ n \notin lost \cup Names(entities)
      <4>1. n \in entered /\ ~ \E e \in es : e[1] = n
        BY <3>3, <1>d, <2>1, <2>2, <2>3 DEF IsLoadedOrGone
      <4>2. <<n, FALSE>> \in entities'
        BY <4>1, <1>4, NamedIsAny DEF LevelsAreUpdated
      <4>3. <<n, FALSE>> \notin doomed'
        BY <4>1, <1>5, <1>c, <1>d
      <4> QED  BY <4>2, <4>3, <2>2
    <3> QED  BY <3>1, <3>2, <3>3
  <2>4. ASSUME n \notin activeEntityNames'
        PROVE  Remaining(n)' = {}
    BY <1>5, <1>7, <1>10, <1>d, <2>2, <2>4
  <2>5. IsLoadedOrGone(n)'
    BY <2>3, <2>4 DEF IsLoadedOrGone
  <2>6. ASSUME n \notin Joint, NEW d \in Remaining(n)', NEW e \in Remaining(n)'
        PROVE  d = e
    <3>1. CASE d \in es /\ e \in es
      <4>1. d \in old /\ e \in old /\ d[1] = e[1]
        BY <3>1, <2>2, <1>5, <1>d
      <4> QED  BY <4>1, <1>3 DEF ResetIsLoaded
    <3>2. CASE d \notin es \/ e \notin es
      <4>1. Named(n, es) = {}
        BY <3>2, <2>2, <2>6, <1>7
      <4>2. d \notin es /\ e \notin es
        BY <4>1, <2>2, NamedIsThere
      <4> QED  BY <4>2, <2>2, <1>7
    <3> QED  BY <3>1, <3>2
  <2>7. IsSingle(n)'
    BY <2>6 DEF IsSingle
  <2> QED  BY <2>5, <2>7
<1> QED  BY <1>2, <1>3, <1>5, <1>8, <1>9, <1>11 DEF LevelInv


(* The invariant, in a world that has something in no level.  (In one that *)
(* has not, CreateEntities takes the empty default level for no levels and *)
(* creates all models, whatever is active.)                                *)
THEOREM LevelsAreRight ==
  ASSUME DefaultNames # {}
  PROVE  Spec => []LevelInv
<1>1. Init => LevelInv
  BY LevelAssumption DEF Init, LevelInv, NothingYet, NamesFollowLevels, Contents
<1>2. LevelInv /\ [Next]_vars => LevelInv'
  <2> SUFFICES ASSUME LevelInv, [Next]_vars
               PROVE  LevelInv'
    OBVIOUS
  <2> USE DEF NothingYet, NamesFollowLevels, ResetIsLoaded, ThingsAreRight
  <2>1. ASSUME NEW r \in Robot, OnSetPerformer(r)
        PROVE  LevelInv'
    BY <2>1 DEF OnSetPerformer, ecmVars, LevelInv, IsLoadedOrGone, IsSingle, Remaining
  <2>2. CASE CreateEntities
    BY <2>2, CreationIsRight
  <2>3. CASE Step
    BY <2>3, StepIsRight
  <2>4. CASE ResetStep
    BY <2>4, ResetStepIsRight
  <2>5. ASSUME NEW e \in Bodies, NEW c \in Cell, Move(e, c)
        PROVE  LevelInv'
    BY <2>5 DEF Move, levelVars, history, LevelInv, IsLoadedOrGone, IsSingle, Remaining
  <2>6. ASSUME NEW n \in Spawnable, NEW c \in Cell, Spawn(n, c)
        PROVE  LevelInv'
    <3>1. /\ pc = "systems" /\ Named(n, entities) = {}
          /\ entities' = entities \cup {<<n, FALSE>>}
          /\ foreign' = foreign \cup ({n} \cap InLevels)
          /\ UNCHANGED <<pc, performers, doomed, initialECM, activeLevels,
                         activeEntityNames, performersToAdd, lost>>
      BY <2>6 DEF Spawn, levelVars
    <3> DEFINE new == <<n, FALSE>>
    <3>2. new \in Entity /\ new \notin doomed /\ new[1] = n /\ ~new[2]
      BY <3>1, NamedIsThere DEF LevelInv, Entity
    <3>a. /\ \A e \in entities : e \in entities' /\ e[1] # n
          /\ \A e \in entities' : e \in entities \/ e = new
          /\ new \in entities'
      BY <3>1, NamedIsThere
    <3> HIDE DEF new
    <3>3. ASSUME NEW m \in Things
          PROVE  IsLoadedOrGone(m)' /\ IsSingle(m)'
      <4>1. IsLoadedOrGone(m) /\ IsSingle(m)
        BY <3>1 DEF LevelInv
      <4>2. CASE m # n
        <5>1. Remaining(m)' = Remaining(m)
          BY <3>1, <3>2, <3>a, <4>2 DEF Remaining, Named
        <5> QED  BY <4>1, <5>1, <3>1 DEF IsLoadedOrGone, IsSingle
      <4>3. CASE m = n
        <5>1. Remaining(m)' = {new} /\ Remaining(m) = {}
          BY <3>1, <3>2, <3>a, <4>3 DEF Remaining, Named
        <5>2. m \in foreign' \/ m \in DefaultNames
          BY <3>1, <4>3 DEF Things
        <5>3. m \in DefaultNames => m \in activeEntityNames
          BY <3>1 DEF LevelInv, Contents, LevelEntityNames
        <5> QED  BY <4>1, <5>1, <5>2, <5>3, <3>1 DEF IsLoadedOrGone, IsSingle
      <4> QED  BY <4>2, <4>3
    <3>4. \A e \in entities' : e[2] => e \in initialECM.entities
      BY <3>1, <3>2, <3>a DEF LevelInv
    <3>5. entities' \subseteq Entity /\ doomed' \subseteq entities'
      BY <3>1, <3>2, <3>a DEF LevelInv
    <3> QED  BY <3>1, <3>3, <3>4, <3>5 DEF LevelInv
  <2>7. ASSUME NEW e \in entities, Remove(e)
        PROVE  LevelInv'
    <3>1. /\ pc = "systems" /\ e \in Bodies /\ doomed' = doomed \cup {e}
          /\ UNCHANGED <<pc, entities, initialECM, activeLevels, activeEntityNames,
                         performersToAdd, lost, foreign>>
      BY <2>7 DEF Remove, levelVars, history
    <3>2. ASSUME NEW m \in Things
          PROVE  Remaining(m)' = Remaining(m)
      BY <3>1 DEF Things, Bodies, Remaining, Named
    <3> QED  BY <3>1, <3>2 DEF LevelInv, IsLoadedOrGone, IsSingle
  <2>8. CASE EndStep
    <3>1. /\ pc = "systems" /\ pc' = "top" /\ doomed' = {}
          /\ entities' = entities \ doomed
          /\ foreign' = foreign \cap Names(entities')
          /\ UNCHANGED <<initialECM, activeLevels, activeEntityNames, performersToAdd,
                         lost>>
      BY <2>8 DEF EndStep
    <3>2. ASSUME NEW m \in Things
          PROVE  IsLoadedOrGone(m)' /\ IsSingle(m)'
      <4>1. IsLoadedOrGone(m) /\ IsSingle(m)
        BY <3>1 DEF LevelInv
      <4>2. Remaining(m)' = Remaining(m)
        BY <3>1 DEF Remaining, Named
      <4>3. Remaining(m) # {} => m \in Names(entities')
        BY <3>1 DEF Remaining, Named, Names
      <4> QED  BY <4>1, <4>2, <4>3, <3>1 DEF IsLoadedOrGone, IsSingle
    <3> QED  BY <3>1, <3>2 DEF LevelInv
  <2>9. CASE UNCHANGED vars
    BY <2>9 DEF vars, ecmVars, levelVars, history, LevelInv, IsLoadedOrGone, IsSingle,
                Remaining
  <2> QED  BY <2>1, <2>2, <2>3, <2>4, <2>5, <2>6, <2>7, <2>8, <2>9 DEF Next
<1> QED  BY <1>1, <1>2, PTL DEF Spec


(* Between two steps, an entity of the levels is there exactly if one of   *)
(* its levels is active, however many share it, and only once, but for what*)
(* a reset took from an active level, for models that users gave such a    *)
(* name, and for joints, which may be there twice.                         *)
THEOREM ContentsAreLoaded ==
  ASSUME DefaultNames # {}
  PROVE  Spec => []LoadedIffActive
<1>1. LevelInv => LoadedIffActive
  <2> SUFFICES ASSUME LevelInv, pc = "top", NEW n \in Things
               PROVE  IF n \in Contents(activeLevels)
                        THEN \/ n \in lost
                             \/ /\ Named(n, entities) # {}
                                /\ n \in Joint \/ Cardinality(Named(n, entities)) = 1
                        ELSE Named(n, entities) = {} \/ n \in foreign
    BY DEF LoadedIffActive, Things
  <2>1. /\ IsLoadedOrGone(n) /\ IsSingle(n) /\ doomed = {}
        /\ activeEntityNames = Contents(activeLevels)
    BY DEF LevelInv, ThingsAreRight, NamesFollowLevels
  <2>2. Remaining(n) = Named(n, entities)
    BY <2>1 DEF Remaining
  <2>3. ASSUME Named(n, entities) # {}, n \notin Joint
        PROVE  Cardinality(Named(n, entities)) = 1
    <3>1. PICK e \in Named(n, entities) : TRUE
      BY <2>3
    <3>2. Named(n, entities) = {e}
      BY <2>1, <2>2, <2>3 DEF IsSingle
    <3> QED  BY <3>2, FS_Singleton
  <2> QED  BY <2>1, <2>2, <2>3 DEF IsLoadedOrGone
<1> QED  BY <1>1, LevelsAreRight, PTL

===============================================================================
