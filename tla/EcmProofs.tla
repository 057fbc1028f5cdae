------------------------------ MODULE EcmProofs ------------------------------
(***************************************************************************)
(* Proofs about EcmSystems for any number of entities and types, any set of*)
(* views, any joints, and any calls of the systems.                        *)
(***************************************************************************)
EXTENDS EcmSystems, TLAPS

Cached(w) == w.valid \cup w.invalid

(* A removed component stays in the storage until its entity is gone.      *)
StorageIsSound ==
  /\ \A e \in Entities : marked[e] \subseteq stored[e]
  /\ \A e \in Entities \ entities : stored[e] = {}

(* The three places a view keeps an entity in are apart, and hold entities *)
(* that exist.                                                             *)
PlacesAreApart(w) ==
  /\ Cached(w) \cup w.add \subseteq entities
  /\ w.valid \cap w.invalid = {}
  /\ w.add \cap Cached(w) = {}

(* An entity with data in the view once had all its components, is known to*)
(* miss those that were removed, and is invalid if there is one.           *)
DataIsAccurate(key, w) ==
  /\ \A e \in Cached(w) : key \subseteq stored[e] /\ w.missing[e] = key \cap marked[e]
  /\ \A e \in Entities \ w.invalid : w.missing[e] = {}
  /\ \A e \in w.invalid : w.missing[e] # {}
  /\ \A e \in w.add : key \subseteq stored[e] \ marked[e]

NothingIsMissed(key, w) == Matching(key) \subseteq Members(w) \cup unknown[key]

NewIsNewly(w) == w.new = w.valid \cap newly /\ w.addNew = w.add \cap newly

RemovedIsRequested(w) ==
  /\ w.rem \subseteq 1..entityCount
  /\ w.rem \cap entities \subseteq MarkedForRemoval
  /\ Members(w) \cap MarkedForRemoval \subseteq w.rem \cup late

ViewInv(key, w) ==
  /\ PlacesAreApart(w) /\ DataIsAccurate(key, w) /\ NothingIsMissed(key, w)
  /\ NewIsNewly(w) /\ RemovedIsRequested(w)

EcmInv ==
  /\ TypeOK /\ StorageIsSound
  /\ \A key \in Found : ViewInv(key, views[key])

-------------------------------------------------------------------------------
(* What the methods of a view do to its fields.                            *)

LEMMA NoViewIsNoView == NoView \notin View
<1>1. \A w \in View : w # NoView
  <2> SUFFICES ASSUME NEW w \in View, w = NoView PROVE FALSE
    OBVIOUS
  <2>1. "valid" \in DOMAIN w
    BY DEF View
  <2>2. "valid" \notin DOMAIN NoView
    BY DEF NoView
  <2>3. QED
    BY <2>1, <2>2
<1>2. QED
  BY <1>1

IsMarked(w, v, es) ==
  /\ v \in View
  /\ v.valid = w.valid /\ v.invalid = w.invalid /\ v.missing = w.missing
  /\ v.new = w.new /\ v.add = w.add /\ v.addNew = w.addNew
  /\ v.rem = w.rem \cup (es \cap (Cached(w) \cup w.add))

LEMMA MarkToRemoveIs ==
  ASSUME NEW w \in View, NEW es \in SUBSET Entities
  PROVE  IsMarked(w, MarkToRemove(w, es), es)
BY DEF IsMarked, MarkToRemove, View, Cached

IsReset(w, v) ==
  /\ v \in View
  /\ v.valid = w.valid /\ v.invalid = w.invalid /\ v.missing = w.missing
  /\ v.rem = w.rem /\ v.add = w.add
  /\ v.new = {} /\ v.addNew = {}

LEMMA ResetIs ==
  ASSUME NEW w \in View
  PROVE  IsReset(w, ResetNewEntityState(w))
BY DEF IsReset, ResetNewEntityState, View

IsWithout(w, v, es) ==
  /\ v \in View
  /\ v.valid = w.valid \ es /\ v.invalid = w.invalid \ es
  /\ v.missing = [e \in Entities |-> IF e \in es THEN {} ELSE w.missing[e]]
  /\ v.new = w.new \ (es \cap Members(w))
  /\ v.rem = w.rem \ (es \cap Members(w))
  /\ v.add = w.add \ es
  /\ v.addNew = w.addNew \ (es \cap Members(w))

LEMMA RemoveEntitiesIs ==
  ASSUME NEW w \in View, NEW es \in SUBSET Entities
  PROVE  IsWithout(w, RemoveEntities(w, es), es)
<1> SUFFICES ASSUME NEW v, v = RemoveEntities(w, es) PROVE IsWithout(w, v, es)
  OBVIOUS
<1> USE DEF IsWithout
<1> DEFINE missing == [e \in Entities |-> IF e \in es THEN {} ELSE w.missing[e]]
<1>1. missing \in [Entities -> SUBSET Types]
  BY DEF View
<1>2. v.missing = missing
  BY DEF RemoveEntities
<1>3. v = [valid |-> v.valid, invalid |-> v.invalid, missing |-> missing, new |-> v.new,
           rem |-> v.rem, add |-> v.add, addNew |-> v.addNew]
  BY DEF RemoveEntities
<1> HIDE DEF missing
<1>4. /\ v.valid = w.valid \ es /\ v.invalid = w.invalid \ es
      /\ v.new = w.new \ (es \cap Members(w))
      /\ v.rem = w.rem \ (es \cap Members(w))
      /\ v.add = w.add \ es
      /\ v.addNew = w.addNew \ (es \cap Members(w))
  BY DEF RemoveEntities, Members
<1>5. v \in View
  BY <1>1, <1>3, <1>4 DEF View
<1>6. QED
  BY <1>2, <1>4, <1>5 DEF missing

IsDrained(w, v) ==
  /\ v \in View
  /\ v.valid = w.valid \cup w.add /\ v.invalid = w.invalid
  /\ v.missing = w.missing /\ v.rem = w.rem
  /\ v.new = w.new \cup w.addNew
  /\ v.add = {} /\ v.addNew = {}

LEMMA DrainIs ==
  ASSUME NEW w \in View
  PROVE  IsDrained(w, Drain(w))
BY DEF IsDrained, Drain, View

LEMMA EmptyViewIs ==
  /\ EmptyView \in View
  /\ EmptyView.valid = {} /\ EmptyView.invalid = {}
  /\ EmptyView.missing = [e \in Entities |-> {}]
  /\ EmptyView.new = {} /\ EmptyView.rem = {} /\ EmptyView.add = {}
  /\ EmptyView.addNew = {}
BY DEF EmptyView, View

(* `v` is the view `w` that was told of a removed component of the entity. *)
IsRemoval(w, v, e, t) ==
  /\ v \in View
  /\ v.rem = w.rem /\ v.add = w.add \ {e} /\ v.addNew = w.addNew \ {e}
  /\ ~HasCachedComponentData(w, e) =>
       /\ v.valid = w.valid /\ v.invalid = w.invalid
       /\ v.missing = w.missing /\ v.new = w.new
  /\ HasCachedComponentData(w, e) =>
       /\ v.valid = w.valid \ {e} /\ v.invalid = w.invalid \cup {e}
       /\ v.missing = [w.missing EXCEPT ![e] = w.missing[e] \cup {t}]
       /\ v.new = w.new \ {e}

LEMMA RemovalIs ==
  ASSUME NEW w \in View, NEW key \in SUBSET Types, NEW e \in Entities, NEW t \in key
  PROVE  IsRemoval(w, NotifyComponentRemoval(w, key, e, t), e, t)
<1> SUFFICES ASSUME NEW v, v = NotifyComponentRemoval(w, key, e, t)
             PROVE  IsRemoval(w, v, e, t)
  OBVIOUS
<1> USE DEF IsRemoval
<1> DEFINE u == [w EXCEPT !.add = @ \ {e}, !.addNew = @ \ {e}]
<1>1. /\ u \in View
      /\ u.valid = w.valid /\ u.invalid = w.invalid /\ u.missing = w.missing
      /\ u.new = w.new /\ u.rem = w.rem
      /\ u.add = w.add \ {e} /\ u.addNew = w.addNew \ {e}
  BY DEF View
<1>2. v = NotifyCachedRemoval(u, key, e, t)
  BY DEF NotifyComponentRemoval
<1> HIDE DEF u
<1>3. HasCachedComponentData(u, e) <=> HasCachedComponentData(w, e)
  BY <1>1 DEF HasCachedComponentData
<1>4. CASE ~HasCachedComponentData(w, e)
  <2>1. v = u
    BY <1>2, <1>3, <1>4 DEF NotifyCachedRemoval
  <2>2. QED
    BY <1>1, <1>4, <2>1
<1>5. CASE HasCachedComponentData(w, e)
  <2> DEFINE missing == [w.missing EXCEPT ![e] = w.missing[e] \cup {t}]
  <2>1. missing \in [Entities -> SUBSET Types]
    BY DEF View
  <2> DEFINE new == w.new \ {e}
             valid == w.valid \ {e}
             invalid == w.invalid \cup {e}
  <2>2. v = [u EXCEPT !.valid = valid, !.new = new, !.invalid = invalid,
                      !.missing = missing]
    BY <1>1, <1>2, <1>3, <1>5 DEF NotifyCachedRemoval, View
  <2>3. /\ new \in SUBSET Entities /\ valid \in SUBSET Entities
        /\ invalid \in SUBSET Entities
    BY DEF View
  <2> HIDE DEF missing, new, valid, invalid
  <2>4. v \in View /\ v.missing = missing /\ v.rem = u.rem /\ v.add = u.add
        /\ v.addNew = u.addNew /\ v.valid = valid /\ v.invalid = invalid /\ v.new = new
    BY <1>1, <2>1, <2>2, <2>3 DEF View
  <2>5. QED
    BY <1>1, <1>5, <2>4 DEF missing, new, valid, invalid
<1>6. QED
  BY <1>4, <1>5

-------------------------------------------------------------------------------
(* Types.                                                                  *)

(* A view without a component of the type does not notice its removal.     *)
LEMMA NoRemovalIs ==
  ASSUME NEW w \in View, NEW key, NEW e, NEW t, t \notin key
  PROVE  NotifyComponentRemoval(w, key, e, t) = w
BY DEF NotifyComponentRemoval, NotifyCachedRemoval

LEMMA MatchingType ==
  ASSUME EcmTypeOK, NEW key PROVE Matching(key) \subseteq entities
BY DEF Matching

LEMMA EntitiesType == ASSUME EcmTypeOK PROVE entities \subseteq Entities
BY EcmAssumption DEF EcmTypeOK

(* The descendants of an entity, and the entity, exist.                    *)
LEMMA SubtreeIsThere ==
  ASSUME EcmTypeOK, NEW e \in entities
  PROVE  Subtree(e) \subseteq entities
BY EntitiesType DEF Subtree

IsNewView(key, v) ==
  /\ v \in View
  /\ v.valid = Matching(key) /\ v.invalid = {}
  /\ v.missing = [e \in Entities |-> {}]
  /\ v.new = Matching(key) \cap newly
  /\ v.rem = Matching(key) \cap MarkedForRemoval
  /\ v.add = {} /\ v.addNew = {}

LEMMA NewViewIs ==
  ASSUME EcmTypeOK, NEW key
  PROVE  IsNewView(key, NewView(key))
<1> SUFFICES ASSUME NEW v, v = NewView(key) PROVE IsNewView(key, v)
  OBVIOUS
<1> USE DEF IsNewView
<1> DEFINE matching == Matching(key)
           new == Matching(key) \cap newly
           rem == Matching(key) \cap MarkedForRemoval
<1>1. /\ matching \in SUBSET Entities /\ new \in SUBSET Entities
      /\ rem \in SUBSET Entities
  BY MatchingType, EntitiesType
<1>2. v = [EmptyView EXCEPT !.valid = matching, !.new = new, !.rem = rem]
  BY DEF NewView
<1> HIDE DEF matching, new, rem
<1>3. /\ v \in View
      /\ v.valid = matching /\ v.invalid = {}
      /\ v.missing = [e \in Entities |-> {}]
      /\ v.new = new /\ v.rem = rem /\ v.add = {} /\ v.addNew = {}
  BY <1>1, <1>2, EmptyViewIs DEF View
<1>4. QED
  BY <1>3 DEF matching, new, rem

RebuiltView(key) ==
  [EmptyView EXCEPT !.add = Matching(key), !.addNew = Matching(key) \cap newly,
                    !.rem = Matching(key)]

IsRebuilt(key, v) ==
  /\ v \in View
  /\ v.valid = {} /\ v.invalid = {}
  /\ v.missing = [e \in Entities |-> {}]
  /\ v.new = {} /\ v.rem = Matching(key)
  /\ v.add = Matching(key) /\ v.addNew = Matching(key) \cap newly

LEMMA RebuiltViewIs ==
  ASSUME EcmTypeOK, NEW key
  PROVE  IsRebuilt(key, RebuiltView(key))
<1> SUFFICES ASSUME NEW v, v = RebuiltView(key) PROVE IsRebuilt(key, v)
  OBVIOUS
<1> USE DEF RebuiltView, IsRebuilt
<1> DEFINE matching == Matching(key)
           new == Matching(key) \cap newly
<1>1. /\ matching \in SUBSET Entities /\ new \in SUBSET Entities
  BY MatchingType, EntitiesType
<1>2. v = [EmptyView EXCEPT !.add = matching, !.addNew = new, !.rem = matching]
  OBVIOUS
<1> HIDE DEF matching, new
<1>3. /\ v \in View
      /\ v.valid = {} /\ v.invalid = {}
      /\ v.missing = [e \in Entities |-> {}]
      /\ v.new = {} /\ v.rem = matching /\ v.add = matching /\ v.addNew = new
  BY <1>1, <1>2, EmptyViewIs DEF View
<1>4. QED
  BY <1>3 DEF matching, new

LEMMA FoundViewType ==
  ASSUME EcmTypeOK, NEW key \in Views PROVE FoundView(key) \in View
<1>1. CASE Exists(key)
  <2>1. views[key] \in View
    BY <1>1 DEF EcmTypeOK, Exists
  <2>2. QED
    BY <1>1, <2>1, DrainIs DEF FoundView, IsDrained
<1>2. CASE ~Exists(key)
  BY <1>2, NewViewIs DEF FoundView, IsNewView
<1>3. QED
  BY <1>1, <1>2

LEMMA InitType == Init => TypeOK
<1> SUFFICES ASSUME Init PROVE TypeOK
  OBVIOUS
<1>1. views \in [Views -> View \cup {NoView}]
  BY DEF Init, EcmInit
<1>2. entityCount \in 0..MaxEntities /\ entities \subseteq 1..entityCount
  BY EcmAssumption DEF Init, EcmInit
<1>3. /\ parent \in [Entities -> {0} \cup entities]
      /\ stored \in [Entities -> SUBSET Types] /\ marked \in [Entities -> SUBSET Types]
      /\ descendants \in [Entities -> SUBSET Entities]
      /\ unknown \in [Views -> SUBSET Entities]
  BY DEF Init, EcmInit
<1>4. QED
  BY <1>1, <1>2, <1>3 DEF Init, EcmInit, TypeOK, EcmTypeOK

(* The functions that have one value each for every view.                  *)
LEMMA ViewsType ==
  ASSUME NEW f, f = [key \in Views |-> f[key]],
         \A key \in Views : f[key] \in View \cup {NoView}
  PROVE  f \in [Views -> View \cup {NoView}]
OBVIOUS

LEMMA CreateType ==
  ASSUME TypeOK, Create PROVE TypeOK'
<1>1. entityCount' \in 0..MaxEntities /\ entities' \subseteq 1..entityCount'
  BY EcmAssumption DEF TypeOK, EcmTypeOK, Create, CreateEntity
<1>2. parent' \in [Entities -> {0} \cup entities']
  BY DEF TypeOK, EcmTypeOK, Create, CreateEntity, graphVars
<1>3. newly' \subseteq Entities
  BY <1>1, EcmAssumption DEF TypeOK, EcmTypeOK, Create, CreateEntity
<1>4. descendants' \in [Entities -> SUBSET Entities]
  BY DEF Create, CreateEntity
<1>5. QED
  BY <1>1, <1>2, <1>3, <1>4
  DEF TypeOK, EcmTypeOK, Create, CreateEntity, requestVars, componentVars

LEMMA SetParentType ==
  ASSUME TypeOK, NEW child \in Entities, NEW p \in Entities, SetParent(child, p)
  PROVE  TypeOK'
BY DEF TypeOK, EcmTypeOK, SetParent, SetParentEntity, requestVars, componentVars

(* What an operation does to each view.                                    *)
LEMMA CreateFirstViews ==
  ASSUME NEW e, NEW t, CreateFirstComponent(e, t)
  PROVE  /\ views' = [key \in Views |-> views'[key]]
         /\ \A key \in Views : views'[key] =
              IF ~Exists(key) THEN NoView
              ELSE IF EntityMatches(e, key, stored', marked)
                   THEN MarkEntityToAdd(views[key], e, e \in newly) ELSE views[key]
BY Zenon DEF CreateFirstComponent, EveryView

LEMMA CreateAgainViews ==
  ASSUME NEW e, NEW t, CreateComponentAgain(e, t)
  PROVE  /\ views' = [key \in Views |-> views'[key]]
         /\ \A key \in Views : views'[key] =
              IF ~Exists(key) THEN NoView
              ELSE NotifyComponentAddition(views[key], key, e, e \in newly, t)
BY Zenon DEF CreateComponentAgain, EveryView

LEMMA RemoveViews ==
  ASSUME NEW e, NEW t, RemoveComponent(e, t)
  PROVE  /\ views' = [key \in Views |-> views'[key]]
         /\ \A key \in Views : views'[key] =
              IF ~Exists(key) THEN NoView
              ELSE NotifyComponentRemoval(views[key], key, e, t)
BY Zenon DEF RemoveComponent, EveryView

LEMMA RequestViews ==
  ASSUME NEW es, NEW found, Request(es, found)
  PROVE  /\ views' = [key \in Views |-> views'[key]]
         /\ \A key \in Views : views'[key] =
              IF found[key] = NoView THEN NoView ELSE MarkToRemove(found[key], es)
BY Zenon DEF Request

LEMMA RequestAllViews ==
  ASSUME RequestRemoveAll
  PROVE  /\ views' = [key \in Views |-> views'[key]]
         /\ \A key \in Views : views'[key] =
              IF ~Exists(key) THEN NoView
              ELSE RebuiltView(key)
BY Zenon DEF RequestRemoveAll, EveryView, RebuiltView

Gone == IF removeAll THEN entities ELSE toRemove \cap entities

LEMMA ProcessViews ==
  ASSUME ProcessRemoveEntityRequests
  PROVE  /\ views' = [key \in Views |-> views'[key]]
         /\ \A key \in Views : views'[key] =
              IF removeAll \/ ~Exists(key) THEN NoView
              ELSE RemoveEntities(views[key], Gone)
<1>1. CASE removeAll
  BY <1>1 DEF ProcessRemoveEntityRequests
<1>2. CASE ~removeAll
  BY Zenon, <1>2 DEF ProcessRemoveEntityRequests, EveryView, Gone
<1>3. QED
  BY <1>1, <1>2

LEMMA ClearViews ==
  ASSUME ClearNewlyCreatedEntities
  PROVE  /\ views' = [key \in Views |-> views'[key]]
         /\ \A key \in Views : views'[key] =
              IF ~Exists(key) THEN NoView ELSE ResetNewEntityState(views[key])
BY Zenon DEF ClearNewlyCreatedEntities, EveryView

(* A view a new component completes an entity for, which it has not yet.   *)
IsWaiting(w, v, e) ==
  /\ v \in View
  /\ v.valid = w.valid /\ v.invalid = w.invalid /\ v.missing = w.missing
  /\ v.new = w.new /\ v.rem = w.rem
  /\ v.add = w.add \cup {e}
  /\ v.addNew = IF e \in newly THEN w.addNew \cup {e} ELSE w.addNew \ {e}

LEMMA FirstView ==
  ASSUME NEW e \in Entities, NEW t, CreateFirstComponent(e, t),
         NEW key \in Views, views[key] \in View,
         EntityMatches(e, key, stored', marked) /\ ~HasCachedComponentData(views[key], e)
  PROVE  IsWaiting(views[key], views'[key], e)
<1> SUFFICES ASSUME NEW w \in View, w = views[key], NEW v, v = views'[key]
             PROVE  IsWaiting(w, v, e)
  OBVIOUS
<1> USE DEF IsWaiting
<1>1. Exists(key)
  BY NoViewIsNoView DEF Exists
<1> DEFINE add == w.add \cup {e}
           addNew == IF e \in newly THEN w.addNew \cup {e} ELSE w.addNew \ {e}
<1>2. v = [w EXCEPT !.add = add, !.addNew = addNew]
  BY <1>1, CreateFirstViews DEF MarkEntityToAdd
<1>3. add \in SUBSET Entities /\ addNew \in SUBSET Entities
  BY DEF View
<1> HIDE DEF add, addNew
<1>4. /\ v \in View
      /\ v.valid = w.valid /\ v.invalid = w.invalid /\ v.missing = w.missing
      /\ v.new = w.new /\ v.rem = w.rem /\ v.add = add /\ v.addNew = addNew
  BY <1>2, <1>3 DEF View
<1>5. QED
  BY <1>4 DEF add, addNew

LEMMA NoFirstView ==
  ASSUME NEW e \in Entities, NEW t, CreateFirstComponent(e, t),
         NEW key \in Views, views[key] \in View,
         ~EntityMatches(e, key, stored', marked) \/ HasCachedComponentData(views[key], e)
  PROVE  views'[key] = views[key]
<1>1. Exists(key)
  BY NoViewIsNoView DEF Exists
<1>2. QED
  BY <1>1, CreateFirstViews DEF MarkEntityToAdd

(* A view that knows the entity and gets to know that a component is back. *)
IsAddition(w, v, e, t) ==
  /\ v \in View
  /\ v.missing = [w.missing EXCEPT ![e] = w.missing[e] \ {t}]
  /\ v.rem = w.rem /\ v.add = w.add /\ v.addNew = w.addNew
  /\ w.missing[e] \ {t} # {} =>
       v.valid = w.valid /\ v.invalid = w.invalid /\ v.new = w.new
  /\ w.missing[e] \ {t} = {} =>
       /\ v.valid = w.valid \cup {e} /\ v.invalid = w.invalid \ {e}
       /\ v.new = IF e \in newly THEN w.new \cup {e} ELSE w.new

LEMMA AgainView ==
  ASSUME NEW e \in Entities, NEW t, CreateComponentAgain(e, t),
         NEW key \in Views, views[key] \in View,
         t \in key /\ HasCachedComponentData(views[key], e) /\ views[key].missing[e] # {}
  PROVE  IsAddition(views[key], views'[key], e, t)
<1> SUFFICES ASSUME NEW w \in View, w = views[key], NEW v, v = views'[key]
             PROVE  IsAddition(w, v, e, t)
  OBVIOUS
<1> USE DEF IsAddition
<1> DEFINE left == w.missing[e] \ {t}
           missing == [w.missing EXCEPT ![e] = left]
<1>1. Exists(key)
  BY NoViewIsNoView DEF Exists
<1>a. v = NotifyComponentAddition(w, key, e, e \in newly, t)
  BY <1>1, CreateAgainViews
<1>2. missing \in [Entities -> SUBSET Types]
  BY DEF View
<1>3. CASE left # {}
  <2>1. v = [w EXCEPT !.missing = missing]
    BY <1>a, <1>3 DEF NotifyComponentAddition
  <2> HIDE DEF missing
  <2>2. v \in View /\ v.missing = missing /\ v.rem = w.rem /\ v.add = w.add
        /\ v.addNew = w.addNew
        /\ v.valid = w.valid /\ v.invalid = w.invalid /\ v.new = w.new
    BY <1>2, <2>1 DEF View
  <2>3. QED
    BY <1>3, <2>2 DEF missing
<1>4. CASE left = {}
  <2> DEFINE new == IF e \in newly THEN w.new \cup {e} ELSE w.new
             valid == w.valid \cup {e}
             invalid == w.invalid \ {e}
  <2>1. v = [w EXCEPT !.missing = missing, !.invalid = invalid, !.valid = valid,
                      !.new = new]
    <3>1. v = [w EXCEPT !.missing[e] = {}, !.invalid = invalid, !.valid = valid,
                        !.new = new]
      BY <1>a, <1>4 DEF NotifyComponentAddition
    <3>2. missing = [w.missing EXCEPT ![e] = {}]
      BY <1>4
    <3>3. QED
      BY <3>1, <3>2 DEF View
  <2>2. /\ new \in SUBSET Entities /\ valid \in SUBSET Entities
        /\ invalid \in SUBSET Entities
    BY DEF View
  <2> HIDE DEF missing, new, valid, invalid
  <2>3. v \in View /\ v.missing = missing /\ v.rem = w.rem /\ v.add = w.add
        /\ v.addNew = w.addNew /\ v.valid = valid /\ v.invalid = invalid /\ v.new = new
    BY <1>2, <2>1, <2>2 DEF View
  <2>4. QED
    BY <1>4, <2>3 DEF missing, new, valid, invalid
<1>5. QED
  BY <1>3, <1>4

LEMMA NoAgainView ==
  ASSUME NEW e \in Entities, NEW t, CreateComponentAgain(e, t),
         NEW key \in Views, views[key] \in View,
         \/ t \notin key
         \/ ~HasCachedComponentData(views[key], e)
         \/ views[key].missing[e] = {}
  PROVE  views'[key] = views[key]
<1>1. Exists(key)
  BY NoViewIsNoView DEF Exists
<1>2. views'[key] = NotifyComponentAddition(views[key], key, e, e \in newly, t)
  BY <1>1, CreateAgainViews
<1>3. QED
  BY <1>2 DEF NotifyComponentAddition

LEMMA CreateFirstType ==
  ASSUME TypeOK, NEW e \in Entities, NEW t \in Types, CreateFirstComponent(e, t)
  PROVE  EcmTypeOK'
<1>1. ASSUME NEW key \in Views PROVE views'[key] \in View \cup {NoView}
  <2>1. views[key] \in View \cup {NoView}
    BY DEF TypeOK, EcmTypeOK
  <2>2. CASE Exists(key)
    BY <2>1, <2>2, FirstView, NoFirstView DEF Exists, IsWaiting
  <2>3. CASE ~Exists(key)
    BY <2>3, CreateFirstViews
  <2>4. QED
    BY <2>2, <2>3
<1>2. views' \in [Views -> View \cup {NoView}]
  BY <1>1, CreateFirstViews, ViewsType
<1>3. stored' \in [Entities -> SUBSET Types]
  BY DEF TypeOK, EcmTypeOK, CreateFirstComponent
<1>4. QED
  BY <1>2, <1>3 DEF TypeOK, EcmTypeOK, CreateFirstComponent, graphVars, requestVars

LEMMA CreateAgainType ==
  ASSUME TypeOK, NEW e \in Entities, NEW t \in Types, CreateComponentAgain(e, t)
  PROVE  EcmTypeOK'
<1>1. ASSUME NEW key \in Views PROVE views'[key] \in View \cup {NoView}
  <2>1. views[key] \in View \cup {NoView}
    BY DEF TypeOK, EcmTypeOK
  <2>2. CASE Exists(key)
    <3>1. views[key] \in View
      BY <2>1, <2>2 DEF Exists
    <3>2. CASE t \in key /\ HasCachedComponentData(views[key], e)
                 /\ views[key].missing[e] # {}
      BY <3>1, <3>2, AgainView DEF IsAddition
    <3>3. CASE ~(t \in key /\ HasCachedComponentData(views[key], e)
                   /\ views[key].missing[e] # {})
      BY <3>1, <3>3, NoAgainView
    <3>4. QED
      BY <3>2, <3>3
  <2>3. CASE ~Exists(key)
    BY <2>3, CreateAgainViews
  <2>4. QED
    BY <2>2, <2>3
<1>2. views' \in [Views -> View \cup {NoView}]
  BY <1>1, CreateAgainViews, ViewsType
<1>3. marked' \in [Entities -> SUBSET Types]
  BY DEF TypeOK, EcmTypeOK, CreateComponentAgain
<1>4. QED
  BY <1>2, <1>3 DEF TypeOK, EcmTypeOK, CreateComponentAgain, graphVars, requestVars

LEMMA CreateComponentType ==
  ASSUME TypeOK, NEW e \in Entities, NEW t \in Types, CreateComponent(e, t)
  PROVE  TypeOK'
<1>1. EcmTypeOK'
  BY CreateFirstType, CreateAgainType DEF CreateComponent
<1>2. unknown' \in [Views -> SUBSET Entities]
  BY DEF CreateComponent, TypeOK
<1>3. QED
  BY <1>1, <1>2 DEF CreateComponent, TypeOK

LEMMA RemoveType ==
  ASSUME TypeOK, NEW e \in Entities, NEW t \in Types, Remove(e, t)
  PROVE  TypeOK'
<1>1. ASSUME NEW key \in Views PROVE views'[key] \in View \cup {NoView}
  <2>1. views[key] \in View \cup {NoView} /\ key \in SUBSET Types
    BY EcmAssumption DEF TypeOK, EcmTypeOK
  <2>2. views'[key] = IF ~Exists(key) THEN NoView
                      ELSE NotifyComponentRemoval(views[key], key, e, t)
    BY RemoveViews DEF Remove
  <2>3. views[key] \in View => NotifyComponentRemoval(views[key], key, e, t) \in View
    <3> SUFFICES ASSUME views[key] \in View
                 PROVE  NotifyComponentRemoval(views[key], key, e, t) \in View
      OBVIOUS
    <3>1. CASE t \in key
      BY <2>1, <3>1, RemovalIs DEF IsRemoval
    <3>2. CASE t \notin key
      BY <3>2, NoRemovalIs
    <3>3. QED
      BY <3>1, <3>2
  <2>4. QED
    BY <2>1, <2>2, <2>3 DEF Exists
<1>2. views' \in [Views -> View \cup {NoView}]
  BY <1>1, RemoveViews, ViewsType DEF Remove
<1>3. marked' \in [Entities -> SUBSET Types]
  BY DEF TypeOK, EcmTypeOK, Remove, RemoveComponent
<1>4. QED
  BY <1>2, <1>3
  DEF TypeOK, EcmTypeOK, Remove, RemoveComponent, graphVars, requestVars, history

LEMMA RequestType ==
  ASSUME EcmTypeOK, NEW es \in SUBSET Entities,
         NEW found \in [Views -> View \cup {NoView}], Request(es, found)
  PROVE  EcmTypeOK'
<1>1. ASSUME NEW key \in Views PROVE views'[key] \in View \cup {NoView}
  BY RequestViews, MarkToRemoveIs DEF IsMarked
<1>2. views' \in [Views -> View \cup {NoView}]
  BY <1>1, RequestViews, ViewsType
<1>3. toRemove' \subseteq Entities
  BY DEF EcmTypeOK, Request
<1>4. QED
  BY <1>2, <1>3 DEF EcmTypeOK, Request, graphVars, componentVars

(* What RequestRemoveEntity and its recursive form ask for.                *)
FoundJoints == [views EXCEPT ![{Joint}] = FoundView({Joint})]
JointsOf(e) == {j \in FoundJoints[{Joint}].valid : JointLinks[j] \cap Subtree(e) # {}}

LEMMA FoundJointsType ==
  ASSUME EcmTypeOK PROVE FoundJoints \in [Views -> View \cup {NoView}]
<1>1. {Joint} \in Views
  BY EcmAssumption
<1>2. FoundView({Joint}) \in View
  BY <1>1, FoundViewType
<1>3. QED
  BY <1>1, <1>2 DEF FoundJoints, EcmTypeOK

LEMMA FoundJointsAre ==
  ASSUME EcmTypeOK PROVE FoundJoints[{Joint}] = FoundView({Joint})
BY EcmAssumption DEF FoundJoints, EcmTypeOK

LEMMA TreeIsRequested ==
  ASSUME NEW e, RequestRemoveTree(e)
  PROVE  e \in entities /\ Request(Removable(Subtree(e), JointsOf(e)), FoundJoints)
BY Zenon DEF RequestRemoveTree, FoundJoints, JointsOf

LEMMA RemovableType ==
  ASSUME EcmTypeOK, NEW e \in entities
  PROVE  Removable(Subtree(e), JointsOf(e)) \in SUBSET Entities
<1>1. Subtree(e) \subseteq Entities
  BY SubtreeIsThere, EntitiesType
<1>2. FoundJoints[{Joint}] \in View
  BY EcmAssumption, FoundViewType, FoundJointsAre
<1>3. JointsOf(e) \subseteq Entities
  BY <1>2 DEF JointsOf, View
<1>4. QED
  BY <1>1, <1>3 DEF Removable

LEMMA RequestAllType ==
  ASSUME EcmTypeOK, RequestRemoveAll PROVE EcmTypeOK'
<1>1. ASSUME NEW key \in Views PROVE views'[key] \in View \cup {NoView}
  <2>1. RebuiltView(key) \in View
    BY RebuiltViewIs DEF IsRebuilt
  <2>2. QED
    BY <2>1, RequestAllViews
<1>2. views' \in [Views -> View \cup {NoView}]
  BY <1>1, RequestAllViews, ViewsType
<1>3. QED
  BY <1>2 DEF EcmTypeOK, RequestRemoveAll, graphVars, componentVars

LEMMA RequestRemoveType ==
  ASSUME TypeOK, RequestRemove PROVE TypeOK'
<1> USE DEF TypeOK
<1>1. ASSUME NEW e \in Entities, RequestRemoveEntity(e) PROVE EcmTypeOK'
  <2>1. {e} \ pinned \in SUBSET Entities /\ views \in [Views -> View \cup {NoView}]
    BY DEF EcmTypeOK
  <2>2. QED
    BY <1>1, <2>1, RequestType DEF RequestRemoveEntity
<1>2. ASSUME NEW e \in Entities, RequestRemoveTree(e) PROVE EcmTypeOK'
  BY <1>2, TreeIsRequested, RemovableType, FoundJointsType, RequestType
<1>3. ASSUME RequestRemoveUnpinned PROVE EcmTypeOK'
  <2>1. entities \ pinned \in SUBSET Entities /\ views \in [Views -> View \cup {NoView}]
    BY EntitiesType DEF EcmTypeOK
  <2>2. QED
    BY <1>3, <2>1, RequestType DEF RequestRemoveUnpinned
<1>4. EcmTypeOK'
  BY <1>1, <1>2, <1>3, RequestAllType DEF RequestRemove
<1>5. QED
  BY <1>4 DEF RequestRemove, history

LEMMA PinsType ==
  ASSUME TypeOK, NEW es \in SUBSET Entities, Pin(es) \/ Unpin(es)
  PROVE  TypeOK'
BY DEF TypeOK, EcmTypeOK, Pin, PinEntity, Unpin, UnpinEntity, graphVars, requestVars,
       componentVars, history

LEMMA ProcessType ==
  ASSUME TypeOK, ProcessRemovals PROVE TypeOK'
<1> USE DEF TypeOK
<1>1. ASSUME NEW key \in Views PROVE views'[key] \in View \cup {NoView}
  <2>1. Gone \in SUBSET Entities
    BY EntitiesType DEF Gone
  <2>2. views[key] \in View \cup {NoView}
    BY DEF EcmTypeOK
  <2>3. views[key] \in View => RemoveEntities(views[key], Gone) \in View
    BY <2>1, RemoveEntitiesIs DEF IsWithout
  <2>4. QED
    BY <2>2, <2>3, ProcessViews DEF ProcessRemovals, Exists
<1>2. views' \in [Views -> View \cup {NoView}]
  BY <1>1, ProcessViews, ViewsType DEF ProcessRemovals
<1>3. /\ entities' = entities \ Gone
      /\ parent' = EdgesRemoved(Gone)
      /\ stored' = [e \in Entities |-> IF e \in Gone THEN {} ELSE stored[e]]
      /\ marked' = [e \in Entities |-> IF e \in Gone THEN {} ELSE marked[e]]
  BY Zenon DEF ProcessRemovals, ProcessRemoveEntityRequests, Gone
<1>4. parent' \in [Entities -> {0} \cup entities']
  BY <1>3 DEF EdgesRemoved, EcmTypeOK
<1>5. stored' \in [Entities -> SUBSET Types] /\ marked' \in [Entities -> SUBSET Types]
  BY <1>3 DEF EcmTypeOK
<1>6. /\ entityCount' = entityCount /\ newly' = newly /\ pinned' = pinned
      /\ removeAll' = FALSE /\ toRemove' = {}
      /\ descendants' = [e \in Entities |-> {}]
      /\ reparented' = FALSE /\ late' = late \cap entities'
      /\ unknown' = [key \in Views |-> unknown[key] \cap entities']
      /\ pinnedLate' = pinnedLate
  BY DEF ProcessRemovals, ProcessRemoveEntityRequests, ClearDescendants
<1>7. entities' \subseteq 1..entityCount' /\ entityCount' \in 0..MaxEntities
  BY <1>3, <1>6 DEF EcmTypeOK
<1>8. EcmTypeOK'
  BY <1>2, <1>4, <1>5, <1>6, <1>7 DEF EcmTypeOK
<1>9. QED
  BY <1>6, <1>8

LEMMA EndStepType ==
  ASSUME TypeOK, EndStep PROVE TypeOK'
<1> USE DEF TypeOK
<1>1. ASSUME NEW key \in Views PROVE views'[key] \in View \cup {NoView}
  <2>1. views[key] \in View \cup {NoView}
    BY DEF EcmTypeOK
  <2>2. QED
    BY <2>1, ClearViews, ResetIs DEF EndStep, IsReset, Exists
<1>2. views' \in [Views -> View \cup {NoView}]
  BY <1>1, ClearViews, ViewsType DEF EndStep
<1>3. QED
  BY <1>2 DEF EcmTypeOK, EndStep, ClearNewlyCreatedEntities, graphVars, requestVars,
              componentVars, history

LEMMA EachType ==
  ASSUME TypeOK, NEW key \in Views, Each(key) PROVE TypeOK'
<1>1. views' \in [Views -> View \cup {NoView}]
  BY FoundViewType DEF TypeOK, EcmTypeOK, Each, FindView
<1>2. QED
  BY <1>1 DEF TypeOK, EcmTypeOK, Each, FindView, graphVars, requestVars, componentVars,
              history

LEMMA DescendantsType ==
  ASSUME TypeOK, NEW e \in Entities, AskDescendants(e) PROVE TypeOK'
<1>1. Subtree(e) \in SUBSET Entities
  BY DEF Subtree
<1>2. descendants' \in [Entities -> SUBSET Entities]
  BY <1>1 DEF TypeOK, EcmTypeOK, AskDescendants, Descendants
<1>3. QED
  BY <1>2 DEF TypeOK, EcmTypeOK, AskDescendants, Descendants, graphVars, requestVars,
              componentVars, history

(* The sets that pins are put on and taken from.                           *)
LEMMA PinnedSets ==
  ASSUME TypeOK, Pins \/ (pinned # {} /\ Unpin(pinned))
  PROVE  \E es \in SUBSET Entities : Pin(es) \/ Unpin(es)
<1>1. CASE Pins
  <2>1. PICK e \in Pinnable : \/ Pin({e}) \/ Pin(Subtree(e))
                              \/ Unpin({e}) \/ Unpin(Subtree(e))
    BY <1>1 DEF Pins
  <2>2. {e} \in SUBSET Entities /\ Subtree(e) \in SUBSET Entities
    BY EcmAssumption DEF Subtree
  <2>3. QED
    BY <2>1, <2>2
<1>2. CASE Unpin(pinned)
  BY <1>2 DEF TypeOK, EcmTypeOK
<1>3. QED
  BY <1>1, <1>2

LEMMA StutterType ==
  ASSUME TypeOK, UNCHANGED vars PROVE TypeOK'
BY DEF TypeOK, EcmTypeOK, vars, ecmVars, graphVars, requestVars, componentVars, history

LEMMA TypeStep ==
  ASSUME TypeOK, [Next]_vars PROVE TypeOK'
<1>1. CASE Create
  BY <1>1, CreateType
<1>2. ASSUME NEW child \in Entities, NEW p \in Entities, SetParent(child, p)
      PROVE  TypeOK'
  BY <1>2, SetParentType
<1>3. ASSUME NEW e \in Entities, NEW t \in Types, CreateComponent(e, t) \/ Remove(e, t)
      PROVE  TypeOK'
  BY <1>3, CreateComponentType, RemoveType
<1>4. CASE RequestRemove
  BY <1>4, RequestRemoveType
<1>5. CASE Pins \/ (pinned # {} /\ Unpin(pinned))
  BY <1>5, PinnedSets, PinsType
<1>6. CASE ProcessRemovals
  BY <1>6, ProcessType
<1>7. CASE EndStep
  BY <1>7, EndStepType
<1>8. ASSUME NEW key \in Views, Each(key) PROVE TypeOK'
  BY <1>8, EachType
<1>9. ASSUME NEW e \in Roots, AskDescendants(e) PROVE TypeOK'
  BY <1>9, DescendantsType, EcmAssumption
<1>10. CASE UNCHANGED vars
  BY <1>10, StutterType
<1>11. CASE Next
  <2>1. CASE \E child, p \in Entities : SetParent(child, p)
    BY <1>2, <2>1
  <2>2. CASE \E e \in Entities, t \in Types : CreateComponent(e, t) \/ Remove(e, t)
    BY <1>3, <2>2
  <2>3. CASE \E key \in Views : Each(key)
    BY <1>8, <2>3
  <2>4. CASE \E e \in Roots : AskDescendants(e)
    BY <1>9, <2>4
  <2>5. QED
    BY <1>1, <1>4, <1>5, <1>6, <1>7, <1>11, <2>1, <2>2, <2>3, <2>4 DEF Next
<1>12. QED
  BY <1>10, <1>11

(* Every variable keeps its type, for every value of the constants.        *)
THEOREM EcmTypes == Spec => []TypeOK
<1>1. Init => TypeOK
  BY InitType
<1>2. TypeOK /\ [Next]_vars => TypeOK'
  BY TypeStep
<1>3. QED
  BY <1>1, <1>2, PTL DEF Spec

-------------------------------------------------------------------------------
(* Pins.                                                                   *)

LEMMA RequestKeepsPins ==
  ASSUME PinsAreRespected, NEW es, es \cap pinned = {}, NEW found, Request(es, found),
         UNCHANGED history
  PROVE  PinsAreRespected'
BY DEF PinsAreRespected, MarkedForRemoval, Request, history

LEMMA PinsStep ==
  ASSUME TypeOK, PinsAreRespected, [Next]_vars PROVE PinsAreRespected'
<1>1. ASSUME UNCHANGED <<requestVars, pinned, pinnedLate>> PROVE PinsAreRespected'
  BY <1>1 DEF PinsAreRespected, MarkedForRemoval, requestVars
<1>2. CASE RequestRemove
  <2>1. ASSUME NEW e \in Entities, RequestRemoveEntity(e) PROVE PinsAreRespected'
    <3>1. ({e} \ pinned) \cap pinned = {}
      OBVIOUS
    <3>2. QED
      BY <1>2, <2>1, <3>1, RequestKeepsPins DEF RequestRemove, RequestRemoveEntity
  <2>2. ASSUME NEW e \in Entities, RequestRemoveTree(e) PROVE PinsAreRespected'
    <3>1. Removable(Subtree(e), JointsOf(e)) \cap pinned = {}
      BY DEF Removable
    <3>2. Request(Removable(Subtree(e), JointsOf(e)), FoundJoints)
      BY <2>2, TreeIsRequested
    <3>3. QED
      BY <1>2, <3>1, <3>2, RequestKeepsPins DEF RequestRemove
  <2>3. CASE RequestRemoveAll
    BY <2>3 DEF RequestRemoveAll, PinsAreRespected
  <2>4. CASE RequestRemoveUnpinned
    <3>1. (entities \ pinned) \cap pinned = {}
      OBVIOUS
    <3>2. QED
      BY <1>2, <2>4, <3>1, RequestKeepsPins DEF RequestRemove, RequestRemoveUnpinned
  <2>5. QED
    BY <1>2, <2>1, <2>2, <2>3, <2>4 DEF RequestRemove
<1>3. ASSUME NEW es \in SUBSET Entities, Pin(es) \/ Unpin(es) PROVE PinsAreRespected'
  BY <1>3 DEF Pin, PinEntity, Unpin, UnpinEntity, PinsAreRespected, MarkedForRemoval,
              requestVars, history
<1>4. CASE ProcessRemovals
  BY <1>4 DEF ProcessRemovals, ProcessRemoveEntityRequests, PinsAreRespected,
              MarkedForRemoval
<1>5. CASE Create
  BY <1>1, <1>5 DEF Create, CreateEntity
<1>6. ASSUME NEW child \in Entities, NEW p \in Entities, SetParent(child, p)
      PROVE  PinsAreRespected'
  BY <1>1, <1>6 DEF SetParent, SetParentEntity
<1>7. ASSUME NEW e \in Entities, NEW t \in Types, CreateComponent(e, t) \/ Remove(e, t)
      PROVE  PinsAreRespected'
  <2>1. UNCHANGED <<requestVars, pinned, pinnedLate>>
    BY <1>7 DEF CreateComponent, CreateFirstComponent, CreateComponentAgain, Remove,
                RemoveComponent, history
  <2>2. QED
    BY <1>1, <2>1
<1>8. CASE EndStep
  BY <1>1, <1>8 DEF EndStep, ClearNewlyCreatedEntities, history
<1>9. ASSUME NEW key \in Views, Each(key) PROVE PinsAreRespected'
  BY <1>1, <1>9 DEF Each, FindView, history
<1>10. ASSUME NEW e \in Roots, AskDescendants(e) PROVE PinsAreRespected'
  BY <1>1, <1>10 DEF AskDescendants, Descendants, history
<1>11. CASE UNCHANGED vars
  BY <1>1, <1>11 DEF vars, ecmVars, history
<1>12. CASE Pins \/ (pinned # {} /\ Unpin(pinned))
  BY <1>3, <1>12, PinnedSets
<1>13. QED
  BY <1>2, <1>4, <1>5, <1>6, <1>7, <1>8, <1>9, <1>10, <1>11, <1>12 DEF Next

(* A pinned entity is about to be removed only if that was asked for before*)
(* it was pinned, however many entities, trees and joints there are.       *)
THEOREM PinnedEntitiesStay == Spec => []PinsAreRespected
<1>1. Init => PinsAreRespected
  BY DEF Init, EcmInit, PinsAreRespected
<1>2. TypeOK /\ PinsAreRespected /\ [Next]_vars => PinsAreRespected'
  BY PinsStep
<1>3. QED
  BY <1>1, <1>2, EcmTypes, PTL DEF Spec

-------------------------------------------------------------------------------
(* The cache of Descendants().                                             *)

LEMMA SameGraph ==
  ASSUME UNCHANGED <<entities, parent>>
  PROVE  \A e \in Entities : Subtree(e)' = Subtree(e)
BY DEF Subtree

LEMMA SameDescendants ==
  ASSUME DescendantsAreFresh, UNCHANGED <<graphVars, descendants, reparented>>
  PROVE  DescendantsAreFresh'
BY SameGraph DEF DescendantsAreFresh, graphVars

LEMMA DescendantsStep ==
  ASSUME TypeOK, DescendantsAreFresh, [Next]_vars PROVE DescendantsAreFresh'
<1>1. CASE Create
  BY <1>1 DEF Create, CreateEntity, DescendantsAreFresh
<1>2. ASSUME NEW child \in Entities, NEW p \in Entities, SetParent(child, p)
      PROVE  DescendantsAreFresh'
  BY <1>2 DEF SetParent, DescendantsAreFresh
<1>3. ASSUME NEW e \in Entities, NEW t \in Types, CreateComponent(e, t) \/ Remove(e, t)
      PROVE  DescendantsAreFresh'
  <2>1. UNCHANGED <<graphVars, descendants, reparented>>
    BY <1>3 DEF CreateComponent, CreateFirstComponent, CreateComponentAgain, Remove,
                RemoveComponent, history
  <2>2. QED
    BY <2>1, SameDescendants
<1>4. CASE RequestRemove
  <2>1. UNCHANGED <<graphVars, descendants>>
    BY <1>4, Zenon DEF RequestRemove, RequestRemoveEntity, RequestRemoveTree,
         RequestRemoveAll, RequestRemoveUnpinned, Request
  <2>2. QED
    BY <1>4, <2>1, SameDescendants DEF RequestRemove, history
<1>5. ASSUME NEW es \in SUBSET Entities, Pin(es) \/ Unpin(es) PROVE DescendantsAreFresh'
  <2>1. UNCHANGED <<graphVars, descendants, reparented>>
    BY <1>5 DEF Pin, PinEntity, Unpin, UnpinEntity, history
  <2>2. QED
    BY <2>1, SameDescendants
<1>6. CASE ProcessRemovals
  BY <1>6 DEF ProcessRemovals, ProcessRemoveEntityRequests, ClearDescendants,
              DescendantsAreFresh
<1>7. CASE EndStep
  BY <1>7, SameDescendants DEF EndStep, ClearNewlyCreatedEntities, history
<1>8. ASSUME NEW key \in Views, Each(key) PROVE DescendantsAreFresh'
  BY <1>8, SameDescendants DEF Each, FindView, history
<1>9. ASSUME NEW e \in Roots, AskDescendants(e) PROVE DescendantsAreFresh'
  <2>1. \A d \in Entities : Subtree(d)' = Subtree(d)
    BY <1>9, SameGraph DEF AskDescendants, Descendants, graphVars
  <2>2. reparented' = reparented /\ descendants' = [descendants EXCEPT ![e] = Subtree(e)]
    BY <1>9 DEF AskDescendants, Descendants, history
  <2>3. QED
    BY <2>1, <2>2 DEF DescendantsAreFresh, TypeOK, EcmTypeOK
<1>10. CASE UNCHANGED vars
  BY <1>10, SameDescendants DEF vars, ecmVars, history
<1>11. CASE Pins \/ (pinned # {} /\ Unpin(pinned))
  BY <1>5, <1>11, PinnedSets
<1>12. QED
  BY <1>1, <1>2, <1>3, <1>4, <1>6, <1>7, <1>8, <1>9, <1>10, <1>11 DEF Next

(* What Descendants() has cached for an entity is the tree below it in the *)
(* graph of now, for any graph, unless a parent was set since.             *)
THEOREM CachedTreesAreFresh == Spec => []DescendantsAreFresh
<1>1. Init => DescendantsAreFresh
  BY DEF Init, EcmInit, DescendantsAreFresh
<1>2. TypeOK /\ DescendantsAreFresh /\ [Next]_vars => DescendantsAreFresh'
  BY DescendantsStep
<1>3. QED
  BY <1>1, <1>2, EcmTypes, PTL DEF Spec

-------------------------------------------------------------------------------
(* Views: what each operation leaves of a view that was accurate.          *)

(* Whatever does not touch what a view is about leaves it accurate.        *)
LEMMA SameView ==
  ASSUME NEW key \in Views, NEW w, ViewInv(key, w),
         UNCHANGED <<entities, entityCount, stored, marked, newly, requestVars,
                     late, unknown>>
  PROVE  ViewInv(key, w)'
BY DEF ViewInv, PlacesAreApart, DataIsAccurate, NothingIsMissed, NewIsNewly,
       RemovedIsRequested, Matching, EntityMatches, MarkedForRemoval, requestVars, Cached

LEMMA CreateView ==
  ASSUME TypeOK, StorageIsSound, Create, NEW key \in Views, NEW w \in View,
         ViewInv(key, w)
  PROVE  ViewInv(key, w)'
<1> DEFINE n == entityCount + 1
<1>1. /\ entities' = entities \cup {n} /\ newly' = newly \cup {n}
      /\ entityCount' = n /\ UNCHANGED <<stored, marked, requestVars, late, unknown>>
      /\ entityCount \in Nat /\ n \in Entities
      /\ n \notin entities /\ n \notin 1..entityCount
      /\ 1..entityCount \subseteq 1..n
  BY EcmAssumption DEF TypeOK, EcmTypeOK, Create, CreateEntity, componentVars
<1> HIDE DEF n
<1>2. PlacesAreApart(w)'
  BY <1>1 DEF ViewInv, PlacesAreApart, Cached
<1>3. DataIsAccurate(key, w)'
  BY <1>1 DEF ViewInv, DataIsAccurate, Cached
<1>4. NothingIsMissed(key, w)'
  <2>1. stored[n] = {} /\ key # {}
    BY <1>1, EcmAssumption DEF StorageIsSound
  <2>2. Matching(key)' = Matching(key)
    BY <1>1, <2>1 DEF Matching, EntityMatches
  <2>3. QED
    BY <1>1, <2>2 DEF ViewInv, NothingIsMissed
<1>5. NewIsNewly(w)'
  BY <1>1 DEF ViewInv, NewIsNewly, PlacesAreApart, Cached
<1>6. RemovedIsRequested(w)'
  BY <1>1 DEF ViewInv, RemovedIsRequested, MarkedForRemoval, requestVars
<1>7. QED
  BY <1>2, <1>3, <1>4, <1>5, <1>6 DEF ViewInv

LEMMA CreateFirstView ==
  ASSUME TypeOK, StorageIsSound, NEW e \in Entities, NEW t \in Types,
         CreateComponent(e, t), CreateFirstComponent(e, t),
         NEW key \in Views, NEW w \in View, w = views[key], ViewInv(key, w),
         NEW v, v = views'[key]
  PROVE  ViewInv(key, v)'
<1> DEFINE added == EntityMatches(e, key, stored', marked)
                      /\ ~HasCachedComponentData(w, e)
<1>1. /\ e \in entities
      /\ stored' = [stored EXCEPT ![e] = @ \cup {t}]
      /\ UNCHANGED <<entities, entityCount, marked, newly, requestVars>>
      /\ stored \in [Entities -> SUBSET Types]
  BY DEF CreateFirstComponent, graphVars, TypeOK, EcmTypeOK
<1>2. /\ late' = late \cup ({e} \cap MarkedForRemoval)
      /\ unknown[key] \subseteq unknown'[key]
  BY DEF CreateComponent
<1>3. \A x \in Entities \ {e} : stored'[x] = stored[x]
  BY <1>1
<1>4. stored[e] \subseteq stored'[e]
  BY <1>1
<1>5. entities \subseteq Entities /\ MarkedForRemoval' = MarkedForRemoval
  BY <1>1, EntitiesType DEF TypeOK, MarkedForRemoval, requestVars
<1>6. CASE added
  <2>1. /\ v \in View
        /\ v.valid = w.valid /\ v.invalid = w.invalid /\ v.missing = w.missing
        /\ v.new = w.new /\ v.rem = w.rem
        /\ v.add = w.add \cup {e}
        /\ v.addNew = IF e \in newly THEN w.addNew \cup {e} ELSE w.addNew \ {e}
    <3>1. IsWaiting(w, v, e)
      BY <1>6, FirstView
    <3>2. QED
      BY <3>1 DEF IsWaiting
  <2>2. e \notin Cached(w) /\ key \subseteq stored'[e] \ marked[e]
    BY <1>6 DEF HasCachedComponentData, Cached, EntityMatches
  <2> HIDE DEF added
  <2>3. PlacesAreApart(v)'
    BY <1>1, <2>1, <2>2 DEF ViewInv, PlacesAreApart, Cached
  <2>4. DataIsAccurate(key, v)'
    BY <1>1, <1>3, <1>4, <1>5, <2>1, <2>2
    DEF ViewInv, DataIsAccurate, PlacesAreApart, Cached
  <2>5. NothingIsMissed(key, v)'
    BY <1>1, <1>2, <1>3, <1>5, <2>1
    DEF ViewInv, NothingIsMissed, Matching, EntityMatches, Members
  <2>6. NewIsNewly(v)'
    BY <1>1, <2>1 DEF ViewInv, NewIsNewly
  <2>7. RemovedIsRequested(v)'
    BY <1>1, <1>2, <1>5, <2>1 DEF ViewInv, RemovedIsRequested, Members
  <2>8. QED
    BY <2>3, <2>4, <2>5, <2>6, <2>7 DEF ViewInv
<1>7. CASE ~added
  <2>1. v = w
    BY <1>7, NoFirstView
  <2>2. PlacesAreApart(v)'
    BY <1>1, <2>1 DEF ViewInv, PlacesAreApart, Cached
  <2>3. DataIsAccurate(key, v)'
    BY <1>1, <1>3, <1>4, <1>5, <2>1 DEF ViewInv, DataIsAccurate, PlacesAreApart, Cached
  <2>4. NothingIsMissed(key, v)'
    <3>1. ASSUME e \in Matching(key)' PROVE e \in w.valid
      <4>1. HasCachedComponentData(w, e) /\ key \cap marked[e] = {}
        BY <1>1, <1>7, <3>1 DEF Matching, EntityMatches
      <4>2. QED
        BY <4>1 DEF ViewInv, DataIsAccurate, HasCachedComponentData, Cached
    <3>2. \A x \in Matching(key)' : x = e \/ x \in Matching(key)
      BY <1>1, <1>3, <1>5 DEF Matching, EntityMatches
    <3>3. QED
      BY <1>2, <2>1, <3>1, <3>2 DEF ViewInv, NothingIsMissed, Members
  <2>5. NewIsNewly(v)'
    BY <1>1, <2>1 DEF ViewInv, NewIsNewly
  <2>6. RemovedIsRequested(v)'
    BY <1>1, <1>2, <1>5, <2>1 DEF ViewInv, RemovedIsRequested, Members
  <2>7. QED
    BY <2>2, <2>3, <2>4, <2>5, <2>6 DEF ViewInv
<1>8. QED
  BY <1>6, <1>7

LEMMA CreateAgainView ==
  ASSUME TypeOK, StorageIsSound, NEW e \in Entities, NEW t \in Types,
         CreateComponent(e, t), CreateComponentAgain(e, t),
         NEW key \in Views, NEW w \in View, w = views[key], ViewInv(key, w),
         NEW v, v = views'[key]
  PROVE  ViewInv(key, v)'
<1> DEFINE told == t \in key /\ HasCachedComponentData(w, e) /\ w.missing[e] # {}
<1>1. /\ e \in entities /\ t \in stored[e] \cap marked[e]
      /\ marked' = [marked EXCEPT ![e] = @ \ {t}]
      /\ UNCHANGED <<entities, entityCount, stored, newly, requestVars>>
      /\ marked \in [Entities -> SUBSET Types]
  BY DEF CreateComponentAgain, graphVars, TypeOK, EcmTypeOK
<1>2. late' = late \cup ({e} \cap MarkedForRemoval)
  BY DEF CreateComponent
<1>3. Exists(key)
  BY NoViewIsNoView DEF Exists
<1>4. /\ unknown[key] \subseteq unknown'[key]
      /\ t \in key /\ ~HasCachedComponentData(w, e) => e \in unknown'[key]
  BY <1>1, <1>3 DEF CreateComponent
<1>5. \A x \in Entities \ {e} : marked'[x] = marked[x]
  BY <1>1
<1>6. marked'[e] = marked[e] \ {t}
  BY <1>1
<1>7. entities \subseteq Entities /\ MarkedForRemoval' = MarkedForRemoval
  BY <1>1, EntitiesType DEF TypeOK, MarkedForRemoval, requestVars
<1>8. \A x \in Matching(key)' : x = e \/ x \in Matching(key)
  BY <1>1, <1>5, <1>7 DEF Matching, EntityMatches
<1>9. CASE told
  <2> DEFINE left == w.missing[e] \ {t}
  <2>1. /\ v \in View
        /\ v.missing = [w.missing EXCEPT ![e] = left]
        /\ v.rem = w.rem /\ v.add = w.add /\ v.addNew = w.addNew
        /\ left # {} => v.valid = w.valid /\ v.invalid = w.invalid /\ v.new = w.new
        /\ left = {} =>
             /\ v.valid = w.valid \cup {e} /\ v.invalid = w.invalid \ {e}
             /\ v.new = IF e \in newly THEN w.new \cup {e} ELSE w.new
    <3>1. IsAddition(w, v, e, t)
      BY <1>9, AgainView
    <3>2. QED
      BY <3>1 DEF IsAddition
  <2>2. /\ e \in w.invalid /\ e \notin w.valid /\ e \notin w.add
        /\ key \subseteq stored[e]
        /\ left = key \cap marked'[e]
    BY <1>6, <1>9
    DEF ViewInv, PlacesAreApart, DataIsAccurate, Cached, HasCachedComponentData
  <2>3. v.missing[e] = left /\ \A x \in Entities \ {e} : v.missing[x] = w.missing[x]
    BY <2>1 DEF View
  <2> HIDE DEF told, left
  <2>4. /\ Cached(v) = Cached(w)
        /\ v.valid = IF left = {} THEN w.valid \cup {e} ELSE w.valid
        /\ v.invalid = IF left = {} THEN w.invalid \ {e} ELSE w.invalid
    BY <2>1, <2>2 DEF Cached
  <2>5. PlacesAreApart(v)'
    BY <1>1, <2>1, <2>2, <2>4 DEF ViewInv, PlacesAreApart, Cached
  <2>6. DataIsAccurate(key, v)'
    <3>1. \A x \in Cached(v) :
            key \subseteq stored[x] /\ v.missing[x] = key \cap marked'[x]
      BY <1>5, <1>7, <2>2, <2>3, <2>4 DEF ViewInv, DataIsAccurate, PlacesAreApart
    <3>2. \A x \in Entities \ v.invalid : v.missing[x] = {}
      BY <2>2, <2>3, <2>4 DEF ViewInv, DataIsAccurate
    <3>3. \A x \in v.invalid : v.missing[x] # {}
      BY <1>7, <2>2, <2>3, <2>4 DEF ViewInv, DataIsAccurate, PlacesAreApart, Cached
    <3>4. \A x \in v.add : key \subseteq stored[x] \ marked'[x]
      BY <1>5, <1>7, <2>1, <2>2 DEF ViewInv, DataIsAccurate, PlacesAreApart, Cached
    <3>5. QED
      BY <1>1, <3>1, <3>2, <3>3, <3>4 DEF DataIsAccurate, Cached
  <2>7. NothingIsMissed(key, v)'
    <3>1. e \in Matching(key)' => e \in v.valid
      BY <2>2, <2>4 DEF Matching, EntityMatches
    <3>2. QED
      BY <1>4, <1>8, <2>1, <2>4, <3>1 DEF ViewInv, NothingIsMissed, Members
  <2>8. NewIsNewly(v)'
    BY <1>1, <2>1, <2>2, <2>4 DEF ViewInv, NewIsNewly
  <2>9. RemovedIsRequested(v)'
    BY <1>1, <1>2, <1>7, <2>1, <2>4 DEF ViewInv, RemovedIsRequested, Members
  <2>10. QED
    BY <2>5, <2>6, <2>7, <2>8, <2>9 DEF ViewInv
<1>10. CASE ~told
  <2>1. v = w
    BY <1>10, NoAgainView
  <2>2. t \notin key \/ e \notin Cached(w)
    BY <1>1, <1>10 DEF ViewInv, DataIsAccurate, HasCachedComponentData, Cached
  <2>3. t \in key => e \notin w.add
    BY <1>1 DEF ViewInv, DataIsAccurate
  <2> HIDE DEF told
  <2>4. PlacesAreApart(v)'
    BY <1>1, <2>1 DEF ViewInv, PlacesAreApart, Cached
  <2>5. DataIsAccurate(key, v)'
    <3>1. \A x \in Cached(w) : key \cap marked'[x] = key \cap marked[x]
      BY <1>5, <1>6, <1>7, <2>2 DEF ViewInv, PlacesAreApart
    <3>2. \A x \in w.add : key \subseteq stored[x] \ marked'[x]
      BY <1>5, <1>6, <1>7, <2>3 DEF ViewInv, PlacesAreApart, DataIsAccurate
    <3>3. QED
      BY <1>1, <2>1, <3>1, <3>2 DEF ViewInv, DataIsAccurate, Cached
  <2>6. NothingIsMissed(key, v)'
    <3>1. ASSUME e \in Matching(key)', t \notin key PROVE e \in Matching(key)
      BY <1>1, <1>6, <3>1 DEF Matching, EntityMatches
    <3>2. ASSUME t \in key PROVE e \in unknown'[key]
      BY <1>4, <2>2, <3>2 DEF HasCachedComponentData, Cached
    <3>3. QED
      BY <1>4, <1>8, <2>1, <3>1, <3>2 DEF ViewInv, NothingIsMissed
  <2>7. NewIsNewly(v)'
    BY <1>1, <2>1 DEF ViewInv, NewIsNewly
  <2>8. RemovedIsRequested(v)'
    BY <1>1, <1>2, <1>7, <2>1 DEF ViewInv, RemovedIsRequested
  <2>9. QED
    BY <2>4, <2>5, <2>6, <2>7, <2>8 DEF ViewInv
<1>11. QED
  BY <1>9, <1>10

LEMMA RemoveView ==
  ASSUME TypeOK, NEW e \in Entities, NEW t \in Types, Remove(e, t),
         NEW key \in Views, NEW w \in View, w = views[key], ViewInv(key, w),
         NEW v, v = views'[key]
  PROVE  ViewInv(key, v)'
<1>1. /\ e \in entities /\ t \in stored[e] \ marked[e]
      /\ marked' = [marked EXCEPT ![e] = @ \cup {t}]
      /\ UNCHANGED <<entities, entityCount, stored, newly, requestVars, late, unknown>>
      /\ marked \in [Entities -> SUBSET Types]
  BY DEF Remove, RemoveComponent, EntityHasComponentType, graphVars, history, TypeOK,
         EcmTypeOK
<1>2. key \in SUBSET Types
  BY EcmAssumption
<1>3. \A x \in Entities \ {e} : marked'[x] = marked[x]
  BY <1>1
<1>4. marked'[e] = marked[e] \cup {t}
  BY <1>1
<1>5. entities \subseteq Entities /\ MarkedForRemoval' = MarkedForRemoval
  BY <1>1, EntitiesType DEF TypeOK, MarkedForRemoval, requestVars
<1>6. Exists(key)
  BY NoViewIsNoView DEF Exists
<1>7. v = NotifyComponentRemoval(w, key, e, t)
  BY <1>6, RemoveViews DEF Remove
<1>8. /\ Matching(key)' \subseteq Matching(key)
      /\ t \in key => e \notin Matching(key)'
  BY <1>1, <1>3, <1>4, <1>5 DEF Matching, EntityMatches
<1>9. CASE t \notin key
  <2>1. v = w
    BY <1>7, <1>9, NoRemovalIs
  <2>2. \A x \in Entities : key \cap marked'[x] = key \cap marked[x]
    BY <1>3, <1>4, <1>9
  <2>3. PlacesAreApart(v)'
    BY <1>1, <2>1 DEF ViewInv, PlacesAreApart, Cached
  <2>4. DataIsAccurate(key, v)'
    <3>1. \A x \in w.add : key \subseteq stored[x] \ marked'[x]
      BY <1>5, <2>2 DEF ViewInv, PlacesAreApart, DataIsAccurate
    <3>2. QED
      BY <1>1, <1>5, <2>1, <2>2, <3>1 DEF ViewInv, PlacesAreApart, DataIsAccurate, Cached
  <2>5. NothingIsMissed(key, v)'
    BY <1>1, <1>8, <2>1 DEF ViewInv, NothingIsMissed
  <2>6. NewIsNewly(v)' /\ RemovedIsRequested(v)'
    BY <1>1, <1>5, <2>1 DEF ViewInv, NewIsNewly, RemovedIsRequested
  <2>7. QED
    BY <2>3, <2>4, <2>5, <2>6 DEF ViewInv
<1>10. CASE t \in key
  <2> IsRemoval(w, v, e, t)
    BY <1>2, <1>7, <1>10, RemovalIs
  <2>1. /\ v \in View
        /\ v.rem = w.rem /\ v.add = w.add \ {e} /\ v.addNew = w.addNew \ {e}
        /\ ~HasCachedComponentData(w, e) =>
             /\ v.valid = w.valid /\ v.invalid = w.invalid
             /\ v.missing = w.missing /\ v.new = w.new
        /\ HasCachedComponentData(w, e) =>
             /\ v.valid = w.valid \ {e} /\ v.invalid = w.invalid \cup {e}
             /\ v.missing = [w.missing EXCEPT ![e] = w.missing[e] \cup {t}]
             /\ v.new = w.new \ {e}
    BY DEF IsRemoval
  <2>2. Cached(v) = Cached(w)
    BY <2>1 DEF Cached, HasCachedComponentData
  <2>3. PlacesAreApart(v)'
    BY <1>1, <2>1, <2>2 DEF ViewInv, PlacesAreApart, Cached
  <2>4. DataIsAccurate(key, v)'
    <3>1. /\ \A x \in Entities \ {e} : v.missing[x] = w.missing[x]
          /\ e \in Cached(w) => v.missing[e] = w.missing[e] \cup {t}
          /\ e \notin Cached(w) => v.missing[e] = w.missing[e]
      BY <2>1 DEF Cached, HasCachedComponentData, View
    <3>2. \A x \in Cached(v) :
            key \subseteq stored[x] /\ v.missing[x] = key \cap marked'[x]
      BY <1>3, <1>4, <1>5, <1>10, <2>2, <3>1 DEF ViewInv, DataIsAccurate, PlacesAreApart
    <3>3. \A x \in Entities \ v.invalid : v.missing[x] = {}
      BY <2>1, <3>1 DEF ViewInv, DataIsAccurate, Cached, HasCachedComponentData
    <3>4. \A x \in v.invalid : v.missing[x] # {}
      BY <1>5, <2>1, <3>1
      DEF ViewInv, DataIsAccurate, PlacesAreApart, Cached, HasCachedComponentData
    <3>5. \A x \in v.add : key \subseteq stored[x] \ marked'[x]
      BY <1>3, <1>5, <2>1 DEF ViewInv, DataIsAccurate, PlacesAreApart
    <3>6. QED
      BY <1>1, <3>2, <3>3, <3>4, <3>5 DEF DataIsAccurate, Cached
  <2>5. NothingIsMissed(key, v)'
    BY <1>1, <1>8, <1>10, <2>1
    DEF ViewInv, NothingIsMissed, Members, HasCachedComponentData
  <2>6. NewIsNewly(v)'
    BY <1>1, <2>1 DEF ViewInv, NewIsNewly, HasCachedComponentData
  <2>7. RemovedIsRequested(v)'
    BY <1>1, <1>5, <2>1 DEF ViewInv, RemovedIsRequested, Members, HasCachedComponentData
  <2>8. QED
    BY <2>3, <2>4, <2>5, <2>6, <2>7 DEF ViewInv
<1>11. QED
  BY <1>9, <1>10

(* FindView: taking in what waits, or filling a new view, keeps a view     *)
(* accurate.                                                               *)
LEMMA DrainedView ==
  ASSUME NEW key, NEW w \in View, ViewInv(key, w), entities \subseteq Entities
  PROVE  ViewInv(key, Drain(w))
<1> SUFFICES ASSUME NEW v, v = Drain(w) PROVE ViewInv(key, v)
  OBVIOUS
<1>1. IsDrained(w, v)
  BY DrainIs
<1>2. /\ v.valid = w.valid \cup w.add /\ v.invalid = w.invalid
      /\ v.missing = w.missing /\ v.rem = w.rem
      /\ v.new = w.new \cup w.addNew /\ v.add = {} /\ v.addNew = {}
  BY <1>1 DEF IsDrained
<1>3. Members(v) = Members(w) /\ Cached(v) = Cached(w) \cup w.add
  BY <1>2 DEF Members, Cached
<1>4. PlacesAreApart(v)
  BY <1>2, <1>3 DEF ViewInv, PlacesAreApart, Cached
<1>5. DataIsAccurate(key, v)
  <2>1. \A e \in w.add : e \in Entities \ w.invalid
    BY DEF ViewInv, PlacesAreApart, Cached
  <2>2. \A e \in w.add : w.missing[e] = {} /\ key \subseteq stored[e] \ marked[e]
    BY <2>1 DEF ViewInv, DataIsAccurate
  <2>3. QED
    BY <1>2, <1>3, <2>2 DEF ViewInv, DataIsAccurate
<1>6. NothingIsMissed(key, v)
  BY <1>3 DEF ViewInv, NothingIsMissed
<1>7. NewIsNewly(v)
  BY <1>2 DEF ViewInv, NewIsNewly
<1>8. RemovedIsRequested(v)
  BY <1>2, <1>3 DEF ViewInv, RemovedIsRequested
<1>9. QED
  BY <1>4, <1>5, <1>6, <1>7, <1>8 DEF ViewInv

LEMMA FilledView ==
  ASSUME EcmTypeOK, NEW key \in Views PROVE ViewInv(key, NewView(key))
<1> SUFFICES ASSUME NEW v, v = NewView(key) PROVE ViewInv(key, v)
  OBVIOUS
<1>1. IsNewView(key, v)
  BY NewViewIs
<1>2. /\ v.valid = Matching(key) /\ v.invalid = {}
      /\ v.missing = [e \in Entities |-> {}]
      /\ v.new = Matching(key) \cap newly
      /\ v.rem = Matching(key) \cap MarkedForRemoval
      /\ v.add = {} /\ v.addNew = {}
  BY <1>1 DEF IsNewView
<1>3. Matching(key) \subseteq entities /\ entities \subseteq Entities
  BY MatchingType, EntitiesType
<1>4. \A e \in Matching(key) : key \subseteq stored[e] \ marked[e]
  BY DEF Matching, EntityMatches
<1>5. PlacesAreApart(v)
  BY <1>2, <1>3 DEF PlacesAreApart, Cached
<1>6. DataIsAccurate(key, v)
  BY <1>2, <1>3, <1>4 DEF DataIsAccurate, Cached
<1>7. NothingIsMissed(key, v) /\ NewIsNewly(v)
  BY <1>2 DEF NothingIsMissed, NewIsNewly, Members
<1>8. RemovedIsRequested(v)
  BY <1>2, <1>3 DEF RemovedIsRequested, Members, EcmTypeOK
<1>9. QED
  BY <1>5, <1>6, <1>7, <1>8 DEF ViewInv

LEMMA FoundViewInv ==
  ASSUME EcmInv, NEW key \in Views
  PROVE  FoundView(key) \in View /\ ViewInv(key, FoundView(key))
<1>1. EcmTypeOK /\ entities \subseteq Entities
  BY EntitiesType DEF EcmInv, TypeOK
<1>2. CASE Exists(key)
  <2>1. views[key] \in View /\ ViewInv(key, views[key])
    BY <1>1, <1>2 DEF EcmInv, EcmTypeOK, Exists, Found
  <2>2. QED
    BY <1>1, <1>2, <2>1, DrainedView, FoundViewType DEF FoundView
<1>3. CASE ~Exists(key)
  BY <1>1, <1>3, FilledView, FoundViewType DEF FoundView
<1>4. QED
  BY <1>2, <1>3

(* A request: every view that knows an entity that will go is told.        *)
LEMMA RequestView ==
  ASSUME EcmTypeOK, NEW es \in SUBSET Entities, NEW found, Request(es, found),
         UNCHANGED history, NEW key \in Views, NEW w \in View, ViewInv(key, w)
  PROVE  ViewInv(key, MarkToRemove(w, es))'
<1> SUFFICES ASSUME NEW v, v = MarkToRemove(w, es) PROVE ViewInv(key, v)'
  BY DEF MarkToRemove
<1>1. IsMarked(w, v, es)
  BY MarkToRemoveIs
<1>2. /\ v.valid = w.valid /\ v.invalid = w.invalid /\ v.missing = w.missing
      /\ v.new = w.new /\ v.add = w.add /\ v.addNew = w.addNew
      /\ v.rem = w.rem \cup (es \cap (Cached(w) \cup w.add))
  BY <1>1 DEF IsMarked
<1>3. UNCHANGED <<entities, entityCount, stored, marked, newly, late, unknown>>
  BY DEF Request, graphVars, componentVars, history
<1>4. MarkedForRemoval' = MarkedForRemoval \cup es
  BY DEF Request, MarkedForRemoval
<1>5. PlacesAreApart(v)'
  BY <1>2, <1>3 DEF ViewInv, PlacesAreApart, Cached
<1>6. DataIsAccurate(key, v)'
  BY <1>2, <1>3 DEF ViewInv, DataIsAccurate, Cached
<1>7. NothingIsMissed(key, v)'
  BY <1>2, <1>3 DEF ViewInv, NothingIsMissed, Members, Matching, EntityMatches
<1>8. NewIsNewly(v)'
  BY <1>2, <1>3 DEF ViewInv, NewIsNewly
<1>9. RemovedIsRequested(v)'
  <2>1. Cached(w) \cup w.add \subseteq entities /\ entities \subseteq 1..entityCount
    BY DEF ViewInv, PlacesAreApart, EcmTypeOK
  <2>2. /\ v.rem \subseteq 1..entityCount'
        /\ v.rem \cap entities' \subseteq MarkedForRemoval'
    BY <1>2, <1>3, <1>4, <2>1 DEF ViewInv, RemovedIsRequested
  <2>3. Members(v) \cap MarkedForRemoval' \subseteq v.rem \cup late'
    BY <1>2, <1>3, <1>4 DEF ViewInv, RemovedIsRequested, Members, Cached
  <2>4. QED
    BY <2>2, <2>3 DEF RemovedIsRequested, Members
<1>10. QED
  BY <1>5, <1>6, <1>7, <1>8, <1>9 DEF ViewInv

LEMMA RequestAllView ==
  ASSUME EcmTypeOK, RequestRemoveAll, UNCHANGED history, NEW key \in Views,
         NEW v, v = RebuiltView(key)
  PROVE  ViewInv(key, v)'
<1>1. IsRebuilt(key, v)
  BY RebuiltViewIs
<1>2. /\ v.valid = {} /\ v.invalid = {}
      /\ v.missing = [e \in Entities |-> {}]
      /\ v.new = {} /\ v.rem = Matching(key)
      /\ v.add = Matching(key) /\ v.addNew = Matching(key) \cap newly
  BY <1>1 DEF IsRebuilt
<1>3. UNCHANGED <<entities, entityCount, stored, marked, newly, late, unknown>>
  BY DEF RequestRemoveAll, graphVars, componentVars, history
<1>4. Matching(key) \subseteq entities /\ entities \subseteq Entities
  BY MatchingType, EntitiesType
<1>5. MarkedForRemoval' = Entities
  BY DEF RequestRemoveAll, MarkedForRemoval
<1>6. Matching(key)' = Matching(key)
      /\ \A e \in Matching(key) : key \subseteq stored[e] \ marked[e]
  BY <1>3 DEF Matching, EntityMatches
<1>7. PlacesAreApart(v)'
  BY <1>2, <1>3, <1>4 DEF PlacesAreApart, Cached
<1>8. DataIsAccurate(key, v)'
  BY <1>2, <1>3, <1>6 DEF DataIsAccurate, Cached
<1>9. NothingIsMissed(key, v)' /\ NewIsNewly(v)'
  BY <1>2, <1>3, <1>6 DEF NothingIsMissed, NewIsNewly, Members
<1>10. RemovedIsRequested(v)'
  <2>1. entities \subseteq 1..entityCount
    BY DEF EcmTypeOK
  <2>2. QED
    BY <1>2, <1>3, <1>4, <1>5, <2>1 DEF RemovedIsRequested, Members
<1>11. QED
  BY <1>7, <1>8, <1>9, <1>10 DEF ViewInv

LEMMA ProcessView ==
  ASSUME TypeOK, ProcessRemovals, ~removeAll, NEW key \in Views, NEW w \in View,
         ViewInv(key, w), NEW v, v = RemoveEntities(w, Gone)
  PROVE  ViewInv(key, v)'
<1>1. /\ entities' = entities \ Gone
      /\ stored' = [e \in Entities |-> IF e \in Gone THEN {} ELSE stored[e]]
      /\ marked' = [e \in Entities |-> IF e \in Gone THEN {} ELSE marked[e]]
      /\ Gone = toRemove \cap entities
  BY Zenon DEF ProcessRemovals, ProcessRemoveEntityRequests, Gone
<1>2. /\ entityCount' = entityCount /\ newly' = newly /\ late' = late \cap entities'
      /\ removeAll' = FALSE /\ toRemove' = {}
      /\ unknown'[key] = unknown[key] \cap entities'
  BY DEF ProcessRemovals, ProcessRemoveEntityRequests
<1>3. entities \subseteq Entities /\ Gone \in SUBSET Entities
  BY <1>1, EntitiesType DEF TypeOK
<1>4. IsWithout(w, v, Gone)
  BY <1>3, RemoveEntitiesIs
<1>5. /\ v.valid = w.valid \ Gone /\ v.invalid = w.invalid \ Gone
      /\ v.missing = [e \in Entities |-> IF e \in Gone THEN {} ELSE w.missing[e]]
      /\ v.new = w.new \ (Gone \cap Members(w))
      /\ v.rem = w.rem \ (Gone \cap Members(w))
      /\ v.add = w.add \ Gone
      /\ v.addNew = w.addNew \ (Gone \cap Members(w))
  BY <1>4 DEF IsWithout
<1>6. \A e \in Entities \ Gone : /\ stored'[e] = stored[e] /\ marked'[e] = marked[e]
                                 /\ v.missing[e] = w.missing[e]
  BY <1>1, <1>5
<1>7. \A e \in Gone : v.missing[e] = {}
  BY <1>3, <1>5
<1>8. Cached(v) = Cached(w) \ Gone /\ Members(v) = Members(w) \ Gone
  BY <1>5 DEF Cached, Members
<1>9. PlacesAreApart(v)'
  BY <1>1, <1>5, <1>8 DEF ViewInv, PlacesAreApart, Cached
<1>10. DataIsAccurate(key, v)'
  <2>1. \A e \in Cached(v) :
          key \subseteq stored'[e] /\ v.missing[e] = key \cap marked'[e]
    BY <1>3, <1>6, <1>8 DEF ViewInv, DataIsAccurate, PlacesAreApart
  <2>2. \A e \in Entities \ v.invalid : v.missing[e] = {}
    BY <1>5, <1>6, <1>7 DEF ViewInv, DataIsAccurate
  <2>3. \A e \in v.invalid : v.missing[e] # {}
    BY <1>3, <1>5, <1>6 DEF ViewInv, DataIsAccurate, PlacesAreApart, Cached
  <2>4. \A e \in v.add : key \subseteq stored'[e] \ marked'[e]
    BY <1>3, <1>5, <1>6 DEF ViewInv, DataIsAccurate, PlacesAreApart
  <2>5. QED
    BY <2>1, <2>2, <2>3, <2>4 DEF DataIsAccurate, Cached
<1>11. NothingIsMissed(key, v)'
  <2>1. Matching(key)' \subseteq Matching(key) \cap entities'
    BY <1>1, <1>3, <1>6 DEF Matching, EntityMatches
  <2>2. \A e \in entities' : e \in Members(w) => e \in Members(v)
    BY <1>1, <1>8
  <2>3. QED
    BY <1>2, <2>1, <2>2 DEF ViewInv, NothingIsMissed, Members
<1>12. NewIsNewly(v)'
  BY <1>2, <1>5 DEF ViewInv, NewIsNewly, Members
<1>13. RemovedIsRequested(v)'
  <2>1. MarkedForRemoval' = {} /\ MarkedForRemoval = toRemove
    BY <1>2 DEF MarkedForRemoval
  <2>2. v.rem \cap entities' = {}
    BY <1>1, <1>5, <1>2, <2>1 DEF ViewInv, RemovedIsRequested
  <2>3. v.rem \subseteq 1..entityCount'
    BY <1>2, <1>5 DEF ViewInv, RemovedIsRequested
  <2>4. QED
    BY <2>1, <2>2, <2>3 DEF RemovedIsRequested
<1>14. QED
  BY <1>9, <1>10, <1>11, <1>12, <1>13 DEF ViewInv

LEMMA EndStepView ==
  ASSUME EndStep, NEW key \in Views, NEW w \in View, ViewInv(key, w),
         NEW v, v = ResetNewEntityState(w)
  PROVE  ViewInv(key, v)'
<1>1. IsReset(w, v)
  BY ResetIs
<1>2. /\ newly' = {}
      /\ UNCHANGED <<entities, entityCount, stored, marked, requestVars, late, unknown>>
  BY DEF EndStep, ClearNewlyCreatedEntities, graphVars, componentVars, history
<1>3. MarkedForRemoval' = MarkedForRemoval /\ Matching(key)' = Matching(key)
  BY <1>2 DEF MarkedForRemoval, Matching, EntityMatches, requestVars
<1>4. Members(v) = Members(w) /\ Cached(v) = Cached(w)
  BY <1>1 DEF IsReset, Members, Cached
<1>5. PlacesAreApart(v)' /\ DataIsAccurate(key, v)'
  BY <1>1, <1>2, <1>4 DEF IsReset, ViewInv, PlacesAreApart, DataIsAccurate, Cached
<1>6. NothingIsMissed(key, v)'
  BY <1>2, <1>3, <1>4 DEF ViewInv, NothingIsMissed, Members
<1>7. NewIsNewly(v)'
  BY <1>1, <1>2 DEF IsReset, NewIsNewly
<1>8. RemovedIsRequested(v)'
  BY <1>1, <1>2, <1>3, <1>4 DEF IsReset, ViewInv, RemovedIsRequested, Members
<1>9. QED
  BY <1>5, <1>6, <1>7, <1>8 DEF ViewInv

-------------------------------------------------------------------------------
(* The invariant of the views.                                             *)

LEMMA StorageStep ==
  ASSUME TypeOK, StorageIsSound, [Next]_vars PROVE StorageIsSound'
<1> USE DEF StorageIsSound
<1>1. ASSUME UNCHANGED <<entities, stored, marked>> PROVE StorageIsSound'
  BY <1>1
<1>2. CASE Create
  BY <1>2 DEF Create, CreateEntity, componentVars
<1>3. ASSUME NEW e \in Entities, NEW t \in Types, CreateComponent(e, t) \/ Remove(e, t)
      PROVE  StorageIsSound'
  <2>1. CASE CreateFirstComponent(e, t)
    BY <2>1 DEF CreateFirstComponent, graphVars, TypeOK, EcmTypeOK
  <2>2. CASE CreateComponentAgain(e, t)
    BY <2>2 DEF CreateComponentAgain, graphVars, TypeOK, EcmTypeOK
  <2>3. CASE RemoveComponent(e, t)
    BY <2>3 DEF RemoveComponent, EntityHasComponentType, graphVars, TypeOK, EcmTypeOK
  <2>4. QED
    BY <1>3, <2>1, <2>2, <2>3 DEF CreateComponent, Remove
<1>4. CASE ProcessRemovals
  <2>1. /\ entities' = entities \ Gone
        /\ stored' = [e \in Entities |-> IF e \in Gone THEN {} ELSE stored[e]]
        /\ marked' = [e \in Entities |-> IF e \in Gone THEN {} ELSE marked[e]]
    BY <1>4, Zenon DEF ProcessRemovals, ProcessRemoveEntityRequests, Gone
  <2>2. QED
    BY <2>1
<1>5. CASE RequestRemove
  <2>1. UNCHANGED <<graphVars, componentVars>>
    BY <1>5, Zenon DEF RequestRemove, RequestRemoveEntity, RequestRemoveTree,
         RequestRemoveAll, RequestRemoveUnpinned, Request
  <2>2. QED
    BY <1>1, <2>1 DEF graphVars, componentVars
<1>6. ASSUME NEW es \in SUBSET Entities, Pin(es) \/ Unpin(es) PROVE StorageIsSound'
  BY <1>1, <1>6 DEF Pin, PinEntity, Unpin, UnpinEntity, graphVars, componentVars
<1>7. ASSUME NEW child \in Entities, NEW p \in Entities, SetParent(child, p)
      PROVE  StorageIsSound'
  BY <1>1, <1>7 DEF SetParent, SetParentEntity, componentVars
<1>8. CASE EndStep
  BY <1>1, <1>8 DEF EndStep, ClearNewlyCreatedEntities, graphVars, componentVars
<1>9. ASSUME NEW key \in Views, Each(key) PROVE StorageIsSound'
  BY <1>1, <1>9 DEF Each, FindView, graphVars, componentVars
<1>10. ASSUME NEW e \in Roots, AskDescendants(e) PROVE StorageIsSound'
  BY <1>1, <1>10 DEF AskDescendants, Descendants, graphVars, componentVars
<1>11. CASE UNCHANGED vars
  BY <1>1, <1>11 DEF vars, ecmVars, graphVars, componentVars
<1>12. CASE Pins \/ (pinned # {} /\ Unpin(pinned))
  BY <1>6, <1>12, PinnedSets
<1>13. QED
  BY <1>2, <1>3, <1>4, <1>5, <1>7, <1>8, <1>9, <1>10, <1>11, <1>12 DEF Next

LEMMA FoundViews ==
  ASSUME EcmInv, NEW key \in Views, Exists(key)
  PROVE  views[key] \in View /\ ViewInv(key, views[key])
BY DEF EcmInv, TypeOK, EcmTypeOK, Found, Exists

(* Any request leaves the views it marked accurate.                        *)
LEMMA RequestViewsStep ==
  ASSUME EcmTypeOK, NEW es \in SUBSET Entities, NEW found, Request(es, found),
         UNCHANGED history, NEW key \in Views, Exists(key)',
         found[key] # NoView => found[key] \in View /\ ViewInv(key, found[key])
  PROVE  ViewInv(key, views[key])'
<1>1. PICK w : w = found[key]
  OBVIOUS
<1>2. w # NoView /\ views'[key] = MarkToRemove(w, es)
  BY <1>1, RequestViews DEF Exists
<1>3. w \in View /\ ViewInv(key, w)
  BY <1>1, <1>2
<1>4. ViewInv(key, MarkToRemove(w, es))'
  BY <1>3, RequestView
<1>5. QED
  BY <1>2, <1>4

LEMMA RequestStep ==
  ASSUME EcmInv, RequestRemove, NEW key \in Views, Exists(key)'
  PROVE  ViewInv(key, views[key])'
<1>1. EcmTypeOK /\ UNCHANGED history /\ entities \subseteq Entities
  BY EntitiesType DEF EcmInv, TypeOK, RequestRemove
<1>2. views[key] # NoView => views[key] \in View /\ ViewInv(key, views[key])
  BY FoundViews DEF Exists
<1>3. ASSUME NEW es \in SUBSET Entities, Request(es, views)
      PROVE  ViewInv(key, views[key])'
  BY <1>1, <1>2, <1>3, RequestViewsStep
<1>4. ASSUME NEW e \in Entities, RequestRemoveEntity(e)
      PROVE  ViewInv(key, views[key])'
  <2>1. {e} \ pinned \in SUBSET Entities
    OBVIOUS
  <2>2. QED
    BY <1>3, <1>4, <2>1 DEF RequestRemoveEntity
<1>5. ASSUME NEW e \in Entities, RequestRemoveTree(e)
      PROVE  ViewInv(key, views[key])'
  <2>1. PICK found : found = FoundJoints
    OBVIOUS
  <2>2. PICK es \in SUBSET Entities : Request(es, found)
    BY <1>1, <1>5, <2>1, TreeIsRequested, RemovableType
  <2>3. CASE key = {Joint}
    <3>1. found[key] = FoundView(key)
      BY <1>1, <2>1, <2>3, FoundJointsAre
    <3>2. QED
      BY <1>1, <2>2, <3>1, FoundViewInv, RequestViewsStep
  <2>4. CASE key # {Joint}
    <3>1. found[key] = views[key]
      BY <1>1, <2>1, <2>4 DEF FoundJoints, EcmTypeOK
    <3>2. QED
      BY <1>1, <1>2, <2>2, <3>1, RequestViewsStep
  <2>5. QED
    BY <2>3, <2>4
<1>6. CASE RequestRemoveAll
  <2>1. PICK v : v = RebuiltView(key)
    OBVIOUS
  <2>2. views'[key] = v
    BY <1>6, <2>1, RequestAllViews DEF Exists
  <2>3. ViewInv(key, v)'
    BY <1>1, <1>6, <2>1, RequestAllView
  <2>4. QED
    BY <2>2, <2>3
<1>7. CASE RequestRemoveUnpinned
  <2>1. entities \ pinned \in SUBSET Entities
    BY <1>1
  <2>2. QED
    BY <1>3, <1>7, <2>1 DEF RequestRemoveUnpinned
<1>8. QED
  BY <1>4, <1>5, <1>6, <1>7 DEF RequestRemove

LEMMA ProcessStep ==
  ASSUME EcmInv, ProcessRemovals, NEW key \in Views, Exists(key)'
  PROVE  ViewInv(key, views[key])'
<1>1. ~removeAll /\ Exists(key) /\ views'[key] = RemoveEntities(views[key], Gone)
  BY ProcessViews DEF ProcessRemovals, Exists
<1>2. PICK w \in View : w = views[key] /\ ViewInv(key, w)
  BY <1>1, FoundViews
<1>3. PICK v : v = RemoveEntities(w, Gone)
  OBVIOUS
<1>4. ViewInv(key, v)'
  BY <1>1, <1>2, <1>3, ProcessView DEF EcmInv
<1>5. QED
  BY <1>1, <1>2, <1>3, <1>4

LEMMA EndStepStep ==
  ASSUME EcmInv, EndStep, NEW key \in Views, Exists(key)'
  PROVE  ViewInv(key, views[key])'
<1>1. Exists(key) /\ views'[key] = ResetNewEntityState(views[key])
  BY ClearViews DEF EndStep, Exists
<1>2. PICK w \in View : w = views[key] /\ ViewInv(key, w)
  BY <1>1, FoundViews
<1>3. PICK v : v = ResetNewEntityState(w)
  OBVIOUS
<1>4. ViewInv(key, v)'
  BY <1>2, <1>3, EndStepView
<1>5. QED
  BY <1>1, <1>2, <1>3, <1>4

LEMMA ComponentStep ==
  ASSUME EcmInv, NEW e \in Entities, NEW t \in Types,
         CreateComponent(e, t) \/ Remove(e, t),
         NEW key \in Views, Exists(key)'
  PROVE  ViewInv(key, views[key])'
<1>1. Exists(key)
  BY CreateFirstViews, CreateAgainViews, RemoveViews DEF CreateComponent, Remove, Exists
<1>2. PICK w \in View : w = views[key] /\ ViewInv(key, w)
  BY <1>1, FoundViews
<1>3. PICK v : v = views'[key]
  OBVIOUS
<1>4. TypeOK /\ StorageIsSound
  BY DEF EcmInv
<1>5. CASE CreateComponent(e, t) /\ CreateFirstComponent(e, t)
  BY <1>2, <1>3, <1>4, <1>5, CreateFirstView
<1>6. CASE CreateComponent(e, t) /\ CreateComponentAgain(e, t)
  BY <1>2, <1>3, <1>4, <1>6, CreateAgainView
<1>7. CASE Remove(e, t)
  BY <1>2, <1>3, <1>4, <1>7, RemoveView
<1>8. QED
  BY <1>5, <1>6, <1>7 DEF CreateComponent

LEMMA EachStep ==
  ASSUME EcmInv, NEW found \in Views, Each(found), NEW key \in Views, Exists(key)'
  PROVE  ViewInv(key, views[key])'
<1>1. UNCHANGED <<entities, entityCount, stored, marked, newly, requestVars, late,
                  unknown>>
  BY DEF Each, FindView, graphVars, componentVars, history
<1>2. views'[key] = IF key = found THEN FoundView(key) ELSE views[key]
  BY DEF Each, FindView, EcmInv, TypeOK, EcmTypeOK
<1>3. PICK v : v = views'[key]
  OBVIOUS
<1>4. CASE key = found
  <2>1. ViewInv(key, v)
    BY <1>2, <1>3, <1>4, FoundViewInv
  <2>2. QED
    BY <1>1, <1>3, <2>1, SameView
<1>5. CASE key # found
  <2>1. ViewInv(key, v)
    BY <1>2, <1>3, <1>5, FoundViews DEF Exists
  <2>2. QED
    BY <1>1, <1>3, <2>1, SameView
<1>6. QED
  BY <1>4, <1>5

(* Calls that leave the views and what they are about alone.               *)
LEMMA OtherStep ==
  ASSUME EcmInv, UNCHANGED <<entities, entityCount, stored, marked, newly, requestVars,
                             late, unknown, views>>,
         NEW key \in Views, Exists(key)'
  PROVE  ViewInv(key, views[key])'
<1>1. Exists(key) /\ views'[key] = views[key]
  BY DEF Exists
<1>2. PICK w : w = views[key] /\ ViewInv(key, w)
  BY <1>1, FoundViews
<1>3. ViewInv(key, w)'
  BY <1>2, SameView
<1>4. QED
  BY <1>1, <1>2, <1>3

LEMMA CreateStep ==
  ASSUME EcmInv, Create, NEW key \in Views, Exists(key)'
  PROVE  ViewInv(key, views[key])'
<1>1. Exists(key) /\ views'[key] = views[key]
  BY DEF Create, CreateEntity, Exists
<1>2. PICK w \in View : w = views[key] /\ ViewInv(key, w)
  BY <1>1, FoundViews
<1>3. ViewInv(key, w)'
  BY <1>2, CreateView DEF EcmInv
<1>4. QED
  BY <1>1, <1>2, <1>3

LEMMA ViewsStep ==
  ASSUME EcmInv, [Next]_vars, NEW key \in Views, Exists(key)'
  PROVE  ViewInv(key, views[key])'
<1> DEFINE same == UNCHANGED <<entities, entityCount, stored, marked, newly, requestVars,
                               late, unknown, views>>
<1>1. ASSUME same PROVE ViewInv(key, views[key])'
  BY <1>1, OtherStep
<1>2. CASE Create
  BY <1>2, CreateStep
<1>3. ASSUME NEW e \in Entities, NEW t \in Types, CreateComponent(e, t) \/ Remove(e, t)
      PROVE  ViewInv(key, views[key])'
  BY <1>3, ComponentStep
<1>4. CASE RequestRemove
  BY <1>4, RequestStep
<1>5. CASE ProcessRemovals
  BY <1>5, ProcessStep
<1>6. CASE EndStep
  BY <1>6, EndStepStep
<1>7. ASSUME NEW found \in Views, Each(found) PROVE ViewInv(key, views[key])'
  BY <1>7, EachStep
<1>8. ASSUME NEW es \in SUBSET Entities, Pin(es) \/ Unpin(es) PROVE same
  BY <1>8 DEF Pin, PinEntity, Unpin, UnpinEntity, graphVars, componentVars, history
<1>9. ASSUME NEW child \in Entities, NEW p \in Entities, SetParent(child, p) PROVE same
  BY <1>9 DEF SetParent, SetParentEntity, componentVars
<1>10. ASSUME NEW e \in Roots, AskDescendants(e) PROVE same
  BY <1>10 DEF AskDescendants, Descendants, graphVars, componentVars, history
<1>11. CASE UNCHANGED vars
  <2>1. same
    BY <1>11 DEF vars, ecmVars, graphVars, componentVars, history
  <2>2. QED
    BY <1>1, <2>1
<1>12. CASE Pins \/ (pinned # {} /\ Unpin(pinned))
  <2>1. TypeOK
    BY DEF EcmInv
  <2>2. same
    BY <1>8, <1>12, <2>1, PinnedSets
  <2>3. QED
    BY <1>1, <2>2
<1> HIDE DEF same
<1>13. QED
  BY <1>1, <1>2, <1>3, <1>4, <1>5, <1>6, <1>7, <1>9, <1>10, <1>11, <1>12 DEF Next

LEMMA EcmInvStep ==
  ASSUME EcmInv, [Next]_vars PROVE EcmInv'
<1>1. TypeOK' /\ StorageIsSound'
  BY TypeStep, StorageStep DEF EcmInv
<1>2. \A key \in Found' : ViewInv(key, views[key])'
  BY ViewsStep DEF Found
<1>3. QED
  BY <1>1, <1>2 DEF EcmInv

(* Views, storage and requests agree, whatever the systems call.           *)
THEOREM ViewsAreSound == Spec => []EcmInv
<1>1. Init => EcmInv
  <2> SUFFICES ASSUME Init PROVE EcmInv
    OBVIOUS
  <2>1. StorageIsSound /\ Found = {}
    BY DEF Init, EcmInit, StorageIsSound, Found, Exists
  <2>2. QED
    BY <2>1, InitType DEF EcmInv
<1>2. EcmInv /\ [Next]_vars => EcmInv'
  BY EcmInvStep
<1>3. QED
  BY <1>1, <1>2, PTL DEF Spec

LEMMA MembersMatch ==
  ASSUME EcmInv, NEW key \in Found
  PROVE  Members(views[key]) \subseteq Matching(key)
<1>1. PICK w \in View : w = views[key] /\ ViewInv(key, w)
  BY FoundViews DEF Found
<1>2. \A e \in w.valid : e \in Entities \ w.invalid
  BY <1>1, EntitiesType DEF ViewInv, PlacesAreApart, Cached, EcmInv, TypeOK
<1>3. \A e \in w.valid :
        e \in entities /\ key \subseteq stored[e] /\ key \cap marked[e] = {}
  BY <1>1, <1>2 DEF ViewInv, PlacesAreApart, DataIsAccurate, Cached
<1>4. \A e \in w.add : e \in entities /\ key \subseteq stored[e] \ marked[e]
  BY <1>1 DEF ViewInv, PlacesAreApart, DataIsAccurate
<1>5. QED
  BY <1>1, <1>3, <1>4 DEF Members, Matching, EntityMatches

(* Each() visits entities that have all the components, and misses only    *)
(* those whose component came back while the view knew nothing of them.    *)
THEOREM EachVisitsTheMatching == Spec => []EachIsExact
<1>1. EcmInv => EachIsExact
  BY MembersMatch DEF EcmInv, EachIsExact, ViewInv, NothingIsMissed
<1>2. QED
  BY <1>1, ViewsAreSound, PTL

(* EachNew() visits the newly created of those Each() visits.              *)
THEOREM EachNewVisitsTheNew == Spec => []EachNewIsNew
<1>1. EcmInv => EachNewIsNew
  BY DEF EcmInv, EachNewIsNew, ViewInv, NewIsNewly, Members
<1>2. QED
  BY <1>1, ViewsAreSound, PTL

(* EachRemoved() visits those of them that are about to be removed.        *)
THEOREM EachRemovedVisitsTheRemoved == Spec => []EachRemovedIsExact
<1>1. EcmInv => EachRemovedIsExact
  <2> SUFFICES ASSUME EcmInv, NEW key \in Found, NEW w, w = views[key]
               PROVE  /\ Members(w) \cap MarkedForRemoval \subseteq w.rem \cup late
                      /\ w.rem \cap Matching(key) \subseteq MarkedForRemoval
                      /\ w.rem \cap Matching(key) \subseteq Members(w) \cup unknown[key]
    BY Zenon DEF EachRemovedIsExact
  <2>1. ViewInv(key, w) /\ Matching(key) \subseteq entities
    BY FoundViews DEF Found, Matching
  <2>2. QED
    BY <2>1 DEF ViewInv, RemovedIsRequested, NothingIsMissed
<1>2. QED
  BY <1>1, ViewsAreSound, PTL

===============================================================================
