--------------------------------- MODULE Ecm ---------------------------------
(***************************************************************************)
(* gz::sim::EntityComponentManager (src/EntityComponentManager.cc): the    *)
(* entities and their graph, the components each one has, the requests to  *)
(* remove entities, the pins that prevent it, the cache of Descendants()   *)
(* and the cached views behind Each(), EachNew() and EachRemoved().        *)
(*                                                                         *)
(* Systems call these operations one after another (PreUpdate and Update   *)
(* run in one thread), so every operation is one action.  A component's    *)
(* data is left out, except the links a DetachableJoint connects.          *)
(***************************************************************************)
EXTENDS View

CONSTANTS
  MaxEntities,   \* bound: no more entities are created than this
  Views,         \* the sets of types that Each() is called with
  Joint,         \* the type id of DetachableJoint
  JointLinks,    \* the parent and the child link of an entity's joint
  Components,    \* the <<entity, type>> pairs components are created for
  Parents,       \* the <<child, parent>> pairs SetParentEntity is called with
  Pinnable,      \* the entities PinEntity is called with
  Roots          \* the entities Descendants is called with

NoView == [none |-> TRUE]

ASSUME EcmAssumption ==
  /\ MaxEntities \in Nat
  /\ Entities = 1..MaxEntities
  /\ IsFiniteSet(Types)
  /\ Views \subseteq SUBSET Types /\ {} \notin Views
  /\ {Joint} \in Views
  /\ JointLinks \in [Entities -> SUBSET Entities]
  /\ Components \subseteq Entities \X Types
  /\ Parents \subseteq Entities \X Entities
  /\ Pinnable \subseteq Entities
  /\ Roots \subseteq Entities

VARIABLES
  entityCount,   \* entityCount, the last id given out
  entities,      \* the vertices of the graph `entities`
  parent,        \* its edges: an entity's parent, 0 for none
  newly,         \* newlyCreatedEntities
  toRemove,      \* toRemoveEntities
  removeAll,     \* removeAllEntities
  pinned,        \* pinnedEntities
  stored,        \* componentTypeIndex: the types in an entity's storage
  marked,        \* componentsMarkedAsRemoved
  descendants,   \* descendantCache, {} where it has no entry
  views          \* views: the view of every type key FindView has built

graphVars == <<entityCount, entities, parent>>
requestVars == <<toRemove, removeAll>>
componentVars == <<stored, marked>>
ecmVars == <<graphVars, newly, requestVars, pinned, componentVars,
             descendants, views>>

EcmInit ==
  /\ entityCount = 0
  /\ entities = {}
  /\ parent = [e \in Entities |-> 0]
  /\ newly = {}
  /\ toRemove = {}
  /\ removeAll = FALSE
  /\ pinned = {}
  /\ stored = [e \in Entities |-> {}]
  /\ marked = [e \in Entities |-> {}]
  /\ descendants = [e \in Entities |-> {}]
  /\ views = [key \in Views |-> NoView]

-------------------------------------------------------------------------------
(* Queries.                                                                *)

EntityHasComponentType(e, t) == e \in entities /\ t \in stored[e] \ marked[e]

(* EntityMatches, given what is stored and what is marked as removed.      *)
EntityMatches(e, key, st, mk) == key \subseteq st[e] \ mk[e]

Matching(key) == {e \in entities : EntityMatches(e, key, stored, marked)}

MarkedForRemoval == IF removeAll THEN Entities ELSE toRemove

Exists(key) == views[key] # NoView

(* The descendants of an entity in the graph, the entity included: what    *)
(* InsertEntityRecursive and BreadthFirstSort both enumerate, the least set*)
(* with the entity and the children of every member.                       *)
Subtree(e) ==
  LET HasChildren(s) == \A c \in entities : parent[c] \in s => c \in s
  IN  {d \in Entities : \A s \in SUBSET Entities : e \in s /\ HasChildren(s) => d \in s}

(* `op` applied to every view that exists, as the loops over `views` do.   *)
EveryView(op(_, _)) ==
  [key \in Views |-> IF Exists(key) THEN op(key, views[key]) ELSE NoView]

(* The view FindView returns: a new one is filled from the entities there  *)
(* are, an existing one takes in what is waiting in its toAddEntities.     *)
NewView(key) ==
  [EmptyView EXCEPT !.valid = Matching(key),
                    !.new = Matching(key) \cap newly,
                    !.rem = Matching(key) \cap MarkedForRemoval]

FoundView(key) == IF Exists(key) THEN Drain(views[key]) ELSE NewView(key)

-------------------------------------------------------------------------------
(* Entities and components.                                                *)

CreateEntity ==
  /\ entityCount < MaxEntities
  /\ entityCount' = entityCount + 1
  /\ entities' = entities \cup {entityCount'}
  /\ newly' = newly \cup {entityCount'}
  /\ descendants' = [e \in Entities |-> {}]
  /\ UNCHANGED <<parent, requestVars, pinned, componentVars, views>>

SetParentEntity(child, p) ==
  /\ child \in entities
  /\ parent' = [parent EXCEPT ![child] = IF p \in entities THEN p ELSE 0]
  /\ UNCHANGED <<entityCount, entities, newly, requestVars, pinned,
                 componentVars, descendants, views>>

(* A component of a type the entity never had: the views it completes the  *)
(* entity for are told to add it ...                                       *)
CreateFirstComponent(e, t) ==
  /\ e \in entities
  /\ t \notin stored[e]
  /\ stored' = [stored EXCEPT ![e] = @ \cup {t}]
  /\ views' = EveryView(LAMBDA key, w :
       IF EntityMatches(e, key, stored', marked)
       THEN MarkEntityToAdd(w, e, e \in newly) ELSE w)
  /\ UNCHANGED <<graphVars, newly, requestVars, pinned, marked, descendants>>

(* ... and one that was removed comes back: every view is notified.  (On a *)
(* component the entity has, the call only writes the data.)               *)
CreateComponentAgain(e, t) ==
  /\ e \in entities
  /\ t \in stored[e] \cap marked[e]
  /\ marked' = [marked EXCEPT ![e] = @ \ {t}]
  /\ views' = EveryView(LAMBDA key, w :
       NotifyComponentAddition(w, key, e, e \in newly, t))
  /\ UNCHANGED <<graphVars, newly, requestVars, pinned, stored, descendants>>

RemoveComponent(e, t) ==
  /\ EntityHasComponentType(e, t)
  /\ marked' = [marked EXCEPT ![e] = @ \cup {t}]
  /\ views' = EveryView(LAMBDA key, w : NotifyComponentRemoval(w, key, e, t))
  /\ UNCHANGED <<graphVars, newly, requestVars, pinned, stored, descendants>>

-------------------------------------------------------------------------------
(* Removal of entities: requests, pins, and the end of the step.           *)

Request(es, found) ==
  /\ toRemove' = toRemove \cup es
  /\ views' = [key \in Views |-> IF found[key] = NoView THEN NoView
                                 ELSE MarkToRemove(found[key], es)]
  /\ UNCHANGED <<graphVars, newly, removeAll, pinned, componentVars,
                 descendants>>

RequestRemoveEntity(e) ==
  e \in entities /\ Request({e} \ pinned, views)

(* What a recursive request asks for: the pins are taken out last.         *)
RemovableEarly(tree, joints) == (tree \ pinned) \cup joints
Removable(tree, joints) == (tree \cup joints) \ pinned

(* The recursive request looks for joints with Each<DetachableJoint>.      *)
RequestRemoveTree(e) ==
  LET found == [views EXCEPT ![{Joint}] = FoundView({Joint})]
      joints == {j \in found[{Joint}].valid :
                   JointLinks[j] \cap Subtree(e) # {}}
  IN  /\ e \in entities
      /\ Request(Removable(Subtree(e), joints), found)

(* RequestRemoveEntities: with no pins, RebuildViews refills every view.   *)
RequestRemoveAll ==
  /\ pinned = {}
  /\ removeAll' = TRUE
  /\ views' = EveryView(LAMBDA key, w :
       [EmptyView EXCEPT !.add = Matching(key),
                         !.addNew = Matching(key) \cap newly,
                         !.rem = Matching(key)])
  /\ UNCHANGED <<graphVars, newly, toRemove, pinned, componentVars,
                 descendants>>

RequestRemoveUnpinned ==
  /\ pinned # {}
  /\ Request(entities \ pinned, views)

PinEntity(es) ==
  /\ pinned' = pinned \cup es
  /\ UNCHANGED <<graphVars, newly, requestVars, componentVars, descendants,
                 views>>

UnpinEntity(es) ==
  /\ pinned' = pinned \ es
  /\ UNCHANGED <<graphVars, newly, requestVars, componentVars, descendants,
                 views>>

(* What ProcessRemoveEntityRequests leaves of the cache and of the graph's *)
(* edges, each after an oversight in it that has to be noticed.            *)
KeepDescendants == descendants
ClearDescendants == [e \in Entities |-> {}]

OwnEdgesRemoved(gone) == [e \in Entities |-> IF e \in gone THEN 0 ELSE parent[e]]
EdgesRemoved(gone) ==
  [e \in Entities |-> IF e \in gone \/ parent[e] \in gone THEN 0 ELSE parent[e]]

ProcessRemoveEntityRequests ==
  LET gone == IF removeAll THEN entities ELSE toRemove \cap entities IN
  /\ removeAll' = FALSE
  /\ toRemove' = {}
  /\ entities' = entities \ gone
  /\ parent' = EdgesRemoved(gone)
  /\ stored' = [e \in Entities |-> IF e \in gone THEN {} ELSE stored[e]]
  /\ marked' = [e \in Entities |-> IF e \in gone THEN {} ELSE marked[e]]
  /\ views' = IF removeAll
              THEN [key \in Views |-> NoView]
              ELSE EveryView(LAMBDA key, w : RemoveEntities(w, gone))
  /\ descendants' = ClearDescendants
  /\ UNCHANGED <<entityCount, newly, pinned>>

ClearNewlyCreatedEntities ==
  /\ newly' = {}
  /\ views' = EveryView(LAMBDA key, w : ResetNewEntityState(w))
  /\ UNCHANGED <<graphVars, requestVars, pinned, componentVars, descendants>>

-------------------------------------------------------------------------------
(* Calls that only read, for their callers, but fill a cache.              *)

FindView(key) ==
  /\ views' = [views EXCEPT ![key] = FoundView(key)]
  /\ UNCHANGED <<graphVars, newly, requestVars, pinned, componentVars,
                 descendants>>

Descendants(e) ==
  /\ e \in entities
  /\ descendants[e] = {}
  /\ descendants' = [descendants EXCEPT ![e] = Subtree(e)]
  /\ UNCHANGED <<graphVars, newly, requestVars, pinned, componentVars, views>>

EcmTypeOK ==
  /\ entityCount \in 0..MaxEntities
  /\ entities \subseteq 1..entityCount
  /\ parent \in [Entities -> {0} \cup entities]
  /\ newly \subseteq Entities
  /\ toRemove \subseteq Entities
  /\ removeAll \in BOOLEAN
  /\ pinned \subseteq Entities
  /\ stored \in [Entities -> SUBSET Types]
  /\ marked \in [Entities -> SUBSET Types]
  /\ descendants \in [Entities -> SUBSET Entities]
  /\ views \in [Views -> View \cup {NoView}]

===============================================================================
