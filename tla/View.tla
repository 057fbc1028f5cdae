-------------------------------- MODULE View --------------------------------
(***************************************************************************)
(* gz::sim::detail::View (src/View.cc, src/BaseView.cc, detail/View.hh):   *)
(* the cache behind EntityComponentManager::Each<Types...>.  A view is a   *)
(* value here: every method of the class is an operator from the view, and *)
(* the arguments, to the view the method leaves behind.                    *)
(*                                                                         *)
(* The code keeps pointers to the components of an entity, twice (const    *)
(* and not), and the set `entities` beside the keys of `validData`.  Every *)
(* method changes the copies together, so the model keeps only which       *)
(* entities are keys: `valid` for entities/validData/validConstData,       *)
(* `invalid` for invalidData/invalidConstData.                             *)
(***************************************************************************)
EXTENDS Integers, FiniteSets

CONSTANTS
  Entities,   \* entity ids
  Types       \* component type ids

EmptyView ==
  [valid   |-> {},                            \* entities, validData
   invalid |-> {},                            \* invalidData
   missing |-> [e \in Entities |-> {}],       \* missingCompTracker
   new     |-> {},                            \* newEntities
   rem     |-> {},                            \* toRemoveEntities
   add     |-> {},                            \* the keys of toAddEntities ...
   addNew  |-> {}]                            \* ... and those mapped to true

View ==
  [valid : SUBSET Entities, invalid : SUBSET Entities,
   missing : [Entities -> SUBSET Types],
   new : SUBSET Entities, rem : SUBSET Entities,
   add : SUBSET Entities, addNew : SUBSET Entities]

HasCachedComponentData(w, e) == e \in w.valid \cup w.invalid

(* What the next FindView will have in the view.                           *)
Members(w) == w.valid \cup w.add

MarkEntityToAdd(w, e, isNew) ==
  IF HasCachedComponentData(w, e)
  THEN w
  ELSE [w EXCEPT !.add = @ \cup {e},
                 !.addNew = IF isNew THEN @ \cup {e} ELSE @ \ {e}]

(* MarkEntityToRemove for each entity of a set, after a version that does  *)
(* not look at toAddEntities.                                              *)
MarkCachedToRemove(w, es) ==
  [w EXCEPT !.rem = @ \cup (es \cap (w.valid \cup w.invalid))]

MarkToRemove(w, es) ==
  [w EXCEPT !.rem = @ \cup (es \cap (w.valid \cup w.invalid \cup w.add))]

(* ResetNewEntityState, after a version that does not touch toAddEntities. *)
ResetOldEntities(w) == [w EXCEPT !.new = {}]
ResetNewEntityState(w) == [w EXCEPT !.new = {}, !.addNew = {}]

(* RemoveEntity for each entity of a set.  An entity in invalidData is     *)
(* dropped from there, and then the early return skips the rest.           *)
RemoveEntities(w, es) ==
  LET known == es \cap Members(w) IN
  [valid   |-> w.valid \ known,
   invalid |-> w.invalid \ es,
   missing |-> [e \in Entities |-> IF e \in es THEN {} ELSE w.missing[e]],
   new     |-> w.new \ known,
   rem     |-> w.rem \ known,
   add     |-> w.add \ known,
   addNew  |-> w.addNew \ known]

NotifyComponentAddition(w, key, e, isNew, t) ==
  LET left == w.missing[e] \ {t} IN
  IF t \notin key \/ ~HasCachedComponentData(w, e) \/ w.missing[e] = {}
  THEN w
  ELSE IF left # {}
  THEN [w EXCEPT !.missing[e] = left]
  ELSE [w EXCEPT !.missing[e] = {},
                 !.invalid = @ \ {e},
                 !.valid = @ \cup {e},
                 !.new = IF isNew THEN @ \cup {e} ELSE @]

(* NotifyComponentRemoval, after a version that forgets toAddEntities.     *)
NotifyCachedRemoval(w, key, e, t) ==
  IF t \notin key \/ ~HasCachedComponentData(w, e)
  THEN w
  ELSE [w EXCEPT !.valid = @ \ {e},
                 !.new = @ \ {e},
                 !.invalid = @ \cup {e},
                 !.missing[e] = @ \cup {t}]

NotifyComponentRemoval(w, key, e, t) ==
  NotifyCachedRemoval(
    IF t \in key THEN [w EXCEPT !.add = @ \ {e}, !.addNew = @ \ {e}] ELSE w,
    key, e, t)

(* The beginning of FindView on a view that exists: AddEntityWith*Comps on *)
(* every entity of toAddEntities, then ClearToAddEntities.                 *)
Drain(w) ==
  [w EXCEPT !.valid = @ \cup w.add,
            !.new = @ \cup w.addNew,
            !.add = {},
            !.addNew = {}]

===============================================================================
