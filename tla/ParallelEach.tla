----------------------------- MODULE ParallelEach -----------------------------
(***************************************************************************)
(* Each, EachNew and EachRemoved from several PostUpdates at once          *)
(* (EntityComponentManager::FindView).  To read is to write here: a view   *)
(* that is asked for is built if there is none, and takes in what waits in *)
(* its toAddEntities.  LockAddingEntitiesToViews is set for the time of    *)
(* the PostUpdates; the runner, which is alone at all other times, and the *)
(* systems it calls, go without the mutex.                                 *)
(*                                                                         *)
(* How entities get into toAddEntities and out of views is in View; here   *)
(* they are only created.  A callback that ends the iteration is left out. *)
(***************************************************************************)
CONSTANTS
  Thread,        \* PostUpdate threads
  Runner,        \* the thread of SimulationRunner::Run
  Key,           \* views, by their component types
  Entity,
  Components,    \* which entities have the components of a view
  None

Caller == Thread \cup {Runner}

ASSUME EachAssumption ==
  /\ Runner \notin Thread /\ None \notin Caller
  /\ Components \in [Key -> SUBSET Entity]

VARIABLES
  shared,        \* PostUpdates are under way
  entities,
  views,         \* who built the view that the map holds, or None
  valid,         \* entities of that view
  toAdd,         \* its toAddEntities
  viewMutex,     \* who holds its mutex
  pc, key,       \* where each caller is, and in which view
  found,         \* which view it has a pointer to
  left           \* what its loop over toAddEntities has yet to add

viewVars == <<views, valid, toAdd>>
callerVars == <<pc, key, found, left>>
eachVars == <<shared, entities, viewVars, viewMutex, callerVars>>

EachInit ==
  /\ shared = FALSE /\ entities = {}
  /\ views = [k \in Key |-> None]
  /\ valid = [k \in Key |-> {}] /\ toAdd = [k \in Key |-> {}]
  /\ viewMutex = [k \in Key |-> None]
  /\ pc = [c \in Caller |-> "idle"]
  /\ key \in [Caller -> Key]
  /\ found = [c \in Caller |-> None]
  /\ left = [c \in Caller |-> {}]

Matching(k) == entities \cap Components[k]
Exists(k) == views[k] # None

SlipNeverLock == FALSE
LockAddingEntitiesToViews == shared

-------------------------------------------------------------------------------
(* The runner.                                                             *)

CreateEntity(e) ==
  /\ ~shared /\ pc[Runner] = "idle" /\ e \notin entities
  /\ entities' = entities \cup {e}
  /\ toAdd' = [k \in Key |-> IF Exists(k) /\ e \in Components[k]
                             THEN toAdd[k] \cup {e} ELSE toAdd[k]]
  /\ UNCHANGED <<shared, views, valid, viewMutex, callerVars>>

StartPostUpdates ==
  /\ ~shared /\ pc[Runner] = "idle"
  /\ shared' = TRUE
  /\ UNCHANGED <<entities, viewVars, viewMutex, callerVars>>

EndPostUpdates ==
  /\ shared /\ \A t \in Thread : pc[t] = "idle"
  /\ shared' = FALSE
  /\ UNCHANGED <<entities, viewVars, viewMutex, callerVars>>

-------------------------------------------------------------------------------
(* A caller: the lookup, under viewsMutex, ...                             *)
MayCall(c) == shared <=> c \in Thread

Call(c, k) ==
  /\ pc[c] = "idle" /\ MayCall(c)
  /\ key' = [key EXCEPT ![c] = k]
  /\ found' = [found EXCEPT ![c] = views[k]]
  /\ pc' = [pc EXCEPT ![c] = IF Exists(k) THEN "lock" ELSE "build"]
  /\ UNCHANGED <<shared, entities, viewVars, viewMutex, left>>

(* ... AddView keeps the view that is there by now, ...                    *)
NobodyWasFirst(k) == ~Exists(k)

BuildView(c) ==
  LET k == key[c] IN
  /\ pc[c] = "build"
  /\ IF NobodyWasFirst(k)
       THEN /\ views' = [views EXCEPT ![k] = c]
            /\ valid' = [valid EXCEPT ![k] = Matching(k)]
            /\ toAdd' = [toAdd EXCEPT ![k] = {}]
       ELSE UNCHANGED viewVars
  /\ found' = [found EXCEPT ![c] = views'[k]]
  /\ pc' = [pc EXCEPT ![c] = "iterate"]
  /\ UNCHANGED <<shared, entities, viewMutex, key, left>>

(* ... one that was found takes in toAddEntities, entity by entity, ...    *)
LockView(c) ==
  LET k == key[c] IN
  /\ pc[c] = "lock"
  /\ IF LockAddingEntitiesToViews
       THEN viewMutex[k] = None /\ viewMutex' = [viewMutex EXCEPT ![k] = c]
       ELSE UNCHANGED viewMutex
  /\ left' = [left EXCEPT ![c] = toAdd[k]]
  /\ pc' = [pc EXCEPT ![c] = "add"]
  /\ UNCHANGED <<shared, entities, viewVars, key, found>>

AddEntity(c, e) ==
  /\ pc[c] = "add" /\ e \in left[c]
  /\ valid' = [valid EXCEPT ![key[c]] = @ \cup {e}]
  /\ left' = [left EXCEPT ![c] = @ \ {e}]
  /\ UNCHANGED <<shared, entities, views, toAdd, viewMutex, pc, key, found>>

SlipSomeAdded(c) == TRUE
AllAdded(c) == left[c] = {}

ClearToAddEntities(c) ==
  LET k == key[c] IN
  /\ pc[c] = "add" /\ AllAdded(c)
  /\ toAdd' = [toAdd EXCEPT ![k] = {}]
  /\ viewMutex' = [viewMutex EXCEPT ![k] = IF @ = c THEN None ELSE @]
  /\ pc' = [pc EXCEPT ![c] = "iterate"]
  /\ UNCHANGED <<shared, entities, views, valid, key, found, left>>

(* ... and the iteration goes over it without the mutex.                   *)
EndEach(c) ==
  /\ pc[c] = "iterate"
  /\ pc' = [pc EXCEPT ![c] = "idle"]
  /\ UNCHANGED <<shared, entities, viewVars, viewMutex, key, found, left>>

FindView(c) ==
  \/ \E k \in Key : Call(c, k)
  \/ BuildView(c) \/ LockView(c) \/ ClearToAddEntities(c) \/ EndEach(c)
  \/ \E e \in Entity : AddEntity(c, e)

EachNext ==
  \/ \E e \in Entity : CreateEntity(e)
  \/ StartPostUpdates \/ EndPostUpdates
  \/ \E c \in Caller : FindView(c)

EachSpec == EachInit /\ [][EachNext]_eachVars

-------------------------------------------------------------------------------
(* Properties.                                                             *)

(* Whoever iterates a view does so over the view that the map holds, which *)
(* nobody adds to meanwhile, and of those that add only one is at it: the  *)
(* iterators that the code holds outside the mutex stay good.              *)
NothingMovesBelow ==
  \A c, d \in Caller : c # d /\ key[c] = key[d] =>
    /\ pc[c] \in {"iterate", "add", "lock"} => found[c] = views[key[c]]
    /\ pc[c] = "iterate" /\ pc[d] = "add" => left[d] = {}
    /\ pc[c] # "add" \/ pc[d] # "add"

(* Each visits every entity that has the components, and no other, in      *)
(* whichever order the PostUpdates got to the view.                        *)
EachSeesAll ==
  \A c \in Caller : pc[c] = "iterate" => valid[key[c]] = Matching(key[c])

===============================================================================
