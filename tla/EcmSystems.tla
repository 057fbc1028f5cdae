----------------------------- MODULE EcmSystems -----------------------------
(***************************************************************************)
(* The systems and the simulation runner, as the callers of the            *)
(* EntityComponentManager: any operation, in any order, with what the      *)
(* properties need to know of the past.                                    *)
(***************************************************************************)
EXTENDS Ecm

VARIABLES
  unknown,       \* entities given a component back while the view has no data of them
  late,          \* entities given a component after their removal was requested
  pinnedLate,    \* entities pinned after their removal was requested
  reparented     \* SetParentEntity was called since descendantCache was cleared

history == <<unknown, late, pinnedLate, reparented>>
vars == <<ecmVars, history>>

Init ==
  /\ EcmInit
  /\ unknown = [key \in Views |-> {}]
  /\ late = {}
  /\ pinnedLate = {}
  /\ reparented = FALSE

-------------------------------------------------------------------------------
Create ==
  /\ CreateEntity
  /\ reparented' = FALSE
  /\ UNCHANGED <<unknown, late, pinnedLate>>

SetParent(child, p) ==
  /\ <<child, p>> \in Parents
  /\ SetParentEntity(child, p)
  /\ reparented' = TRUE
  /\ UNCHANGED <<unknown, late, pinnedLate>>

CreateComponent(e, t) ==
  /\ <<e, t>> \in Components
  /\ CreateFirstComponent(e, t) \/ CreateComponentAgain(e, t)
  /\ late' = late \cup ({e} \cap MarkedForRemoval)
  /\ unknown' = [key \in Views |->
       IF t \in key \cap marked[e] /\ Exists(key) /\ ~HasCachedComponentData(views[key], e)
       THEN unknown[key] \cup {e} ELSE unknown[key]]
  /\ UNCHANGED <<pinnedLate, reparented>>

Remove(e, t) ==
  /\ RemoveComponent(e, t)
  /\ UNCHANGED history

RequestRemove ==
  /\ \/ \E e \in Entities : RequestRemoveEntity(e) \/ RequestRemoveTree(e)
     \/ RequestRemoveAll
     \/ RequestRemoveUnpinned
  /\ UNCHANGED history

Pin(es) ==
  /\ PinEntity(es)
  /\ pinnedLate' = pinnedLate \cup (es \cap MarkedForRemoval)
  /\ UNCHANGED <<unknown, late, reparented>>

Unpin(es) == UnpinEntity(es) /\ UNCHANGED history

ProcessRemovals ==
  /\ ProcessRemoveEntityRequests
  /\ reparented' = FALSE
  /\ late' = late \cap entities'
  /\ unknown' = [key \in Views |-> unknown[key] \cap entities']
  /\ UNCHANGED pinnedLate

EndStep == ClearNewlyCreatedEntities /\ UNCHANGED history

(* Each(), EachNew() and EachRemoved() begin alike.                         *)
Each(key) == FindView(key) /\ UNCHANGED history

AskDescendants(e) == Descendants(e) /\ UNCHANGED history

(* PinEntity and UnpinEntity take an entity or the tree below it;          *)
(* UnpinAllEntities is Unpin(pinned).                                      *)
Pins ==
  \E e \in Pinnable :
    /\ e \in entities
    /\ Pin({e}) \/ Pin(Subtree(e)) \/ Unpin({e}) \/ Unpin(Subtree(e))

Next ==
  \/ Create
  \/ \E child, p \in Entities : SetParent(child, p)
  \/ \E e \in Entities, t \in Types : CreateComponent(e, t) \/ Remove(e, t)
  \/ RequestRemove
  \/ Pins
  \/ pinned # {} /\ Unpin(pinned)
  \/ ProcessRemovals
  \/ EndStep
  \/ \E key \in Views : Each(key)
  \/ \E e \in Roots : AskDescendants(e)

Spec == Init /\ [][Next]_vars

-------------------------------------------------------------------------------
TypeOK ==
  /\ EcmTypeOK
  /\ unknown \in [Views -> SUBSET Entities]
  /\ late \subseteq Entities
  /\ pinnedLate \subseteq Entities
  /\ reparented \in BOOLEAN

Found == {key \in Views : Exists(key)}

(* A view never hands out a component that is not there: every entity it   *)
(* iterates, or will iterate once FindView has run, exists and has all the *)
(* components of the view.  And it misses none that has, however often     *)
(* components were removed and created again, unless a component came back *)
(* while the view knew nothing of the entity: because it was removed while *)
(* the entity waited in toAddEntities, before there was the view, or before*)
(* the entity had all its components.  EachNoCache, "a version of Each()   *)
(* that doesn't use a cache" (EntityComponentManager.hh:399), visits these.*)
EachIsExact ==
  \A key \in Found :
    /\ Members(views[key]) \subseteq Matching(key)
    /\ Matching(key) \subseteq Members(views[key]) \cup unknown[key]

(* EachNew() visits exactly the newly created among the entities that      *)
(* Each() visits, whenever an entity got into the view and however long    *)
(* it waited in toAddEntities.                                             *)
EachNewIsNew ==
  \A key \in Found : LET w == views[key] IN
    w.new \cup w.addNew = Members(w) \cap newly

(* EachRemoved() visits every entity about to be removed that Each()       *)
(* visits, except one that got a component after the request, and no       *)
(* other, except one that has lost a component of the view since.  That one*)
(* is visited, also when it does not exist any more, and its data is not in*)
(* validData, where EntityComponentData looks it up with at().             *)
EachRemovedIsExact ==
  \A key \in Found : LET w == views[key] IN
    /\ Members(w) \cap MarkedForRemoval \subseteq w.rem \cup late
    /\ w.rem \cap Matching(key) \subseteq MarkedForRemoval
    /\ w.rem \cap Matching(key) \subseteq Members(w) \cup unknown[key]

(* A pinned entity is about to be removed only if its removal was asked    *)
(* for before it was pinned: PinEntity does not take requests back.        *)
PinsAreRespected == MarkedForRemoval \cap pinned \subseteq pinnedLate

(* The cached descendants of an entity are its descendants, unless an      *)
(* entity got another parent since, which does not clear the cache.        *)
DescendantsAreFresh ==
  reparented \/ \A e \in Entities : descendants[e] \in {{}, Subtree(e)}

===============================================================================
