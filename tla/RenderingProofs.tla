---------------------------- MODULE RenderingProofs ----------------------------
(***************************************************************************)
(* Proofs about rendering: RenderScene, for any tree of entities, names    *)
(* and number of steps between two updates of the scene; and Sensors, for  *)
(* any number of sensors, with any periods, steps, resets and events.  The *)
(* two share only what is said of natural numbers.                         *)
(***************************************************************************)
EXTENDS RenderScene, Sensors, WellFoundedInduction, TLAPS

(* The least of some natural numbers.                                      *)
LEMMA LeastOne ==
  ASSUME NEW S \in SUBSET Nat, S # {}
  PROVE  \E m \in S : \A i \in S : m <= i
<1>1. PICK m \in S : \A i \in S : ~(<<i, m>> \in OpToRel(<, Nat))
  BY WFMin, NatLessThanWellFounded
<1>2. \A i \in S : i < m => <<i, m>> \in OpToRel(<, Nat)
  BY DEF OpToRel
<1>3. \A i \in S : m \in Nat /\ i \in Nat /\ ~(i < m)
  BY <1>1, <1>2
<1>4. \A i \in S : m <= i
  BY <1>3
<1>5. QED
  BY <1>4

(* A function on natural numbers whose value at e is D of e and of itself, *)
(* of itself only at numbers below e: it exists.  D is a function, so that *)
(* the lemma is of first order.  A solution below n satisfies the equation *)
(* for all numbers below n.                                                *)
Uses(D, E, V) ==
  \A e \in E : \A f, g \in [E -> V] :
    (\A x \in E : x < e => f[x] = g[x]) => D[<<e, f>>] = D[<<e, g>>]

Recursion(D, E, V) ==
  E \in SUBSET Nat /\ V # {} /\ D \in [E \X [E -> V] -> V] /\ Uses(D, E, V)

SolvesBelow(h, n, D, E) == \A e \in E : e < n => h[e] = D[<<e, h>>]

LEMMA SolutionsAgree ==
  ASSUME NEW E \in SUBSET Nat, NEW V, NEW D, Uses(D, E, V),
         NEW n \in Nat, NEW m \in Nat, n <= m,
         NEW f \in [E -> V], NEW g \in [E -> V],
         SolvesBelow(f, n, D, E), SolvesBelow(g, m, D, E)
  PROVE  \A e \in E : e < n => f[e] = g[e]
<1> DEFINE differ == {e \in E : e < n /\ f[e] # g[e]}
<1> SUFFICES ASSUME differ # {} PROVE FALSE
  OBVIOUS
<1>1. PICK e \in differ : \A i \in differ : e <= i
  BY LeastOne
<1>2. e \in E /\ e \in Nat /\ e < n /\ e < m /\ f[e] # g[e]
  BY <1>1
<1>3. ASSUME NEW x \in E, x < e PROVE f[x] = g[x]
  <2>1. x \in Nat /\ x < n /\ ~(e <= x)
    BY <1>2, <1>3
  <2>2. QED
    BY <1>1, <2>1
<1>4. D[<<e, f>>] = D[<<e, g>>]
  BY <1>2, <1>3 DEF Uses
<1>5. f[e] = D[<<e, f>>] /\ g[e] = D[<<e, g>>]
  BY <1>2 DEF SolvesBelow
<1>6. QED
  BY <1>2, <1>4, <1>5

LEMMA LessOrLast == \A i, k \in Nat : i < k /\ i # k - 1 => i < k - 1
OBVIOUS

LEMMA SolvedBelowEach ==
  ASSUME NEW E \in SUBSET Nat, NEW V, V # {}, NEW D \in [E \X [E -> V] -> V],
         Uses(D, E, V), NEW n \in Nat
  PROVE  \E h \in [E -> V] : SolvesBelow(h, n, D, E)
<1> DEFINE bad == {k \in Nat : ~\E h \in [E -> V] : SolvesBelow(h, k, D, E)}
<1> SUFFICES ASSUME bad # {} PROVE FALSE
  OBVIOUS
<1>1. PICK k \in bad : \A i \in bad : k <= i
  BY LeastOne
<1>2. k # 0
  <2>1. PICK v \in V : TRUE
    OBVIOUS
  <2>2. SolvesBelow([e \in E |-> v], 0, D, E) /\ [e \in E |-> v] \in [E -> V]
    <3>1. \A e \in E : e \in Nat /\ ~(e < 0)
      OBVIOUS
    <3>2. QED
      BY <3>1 DEF SolvesBelow
  <2>3. QED
    BY <1>1, <2>2
<1>3. k - 1 \in Nat /\ ~(k <= k - 1) /\ k \in Nat
  BY <1>1, <1>2
<1>4. PICK h \in [E -> V] : SolvesBelow(h, k - 1, D, E)
  BY <1>1, <1>3
<1>5. CASE k - 1 \notin E
  <2>1. \A e \in E : e < k => e < k - 1
    BY <1>3, <1>5
  <2>2. SolvesBelow(h, k, D, E)
    BY <1>4, <2>1 DEF SolvesBelow
  <2>3. QED
    BY <1>1, <2>2
<1>6. CASE k - 1 \in E
  <2> DEFINE v == D[<<k - 1, h>>]
             g == [h EXCEPT ![k - 1] = v]
  <2>1. v \in V
    BY <1>6
  <2>2. g \in [E -> V] /\ g[k - 1] = v /\ \A x \in E : x # k - 1 => g[x] = h[x]
    BY <1>6, <2>1
  <2> HIDE DEF v, g
  <2>3. ASSUME NEW e \in E, e < k PROVE g[e] = D[<<e, g>>]
    <3>1. \A x \in E : x < e => g[x] = h[x]
      BY <1>3, <2>2, <2>3
    <3>2. D[<<e, g>>] = D[<<e, h>>]
      BY <2>2, <3>1 DEF Uses
    <3>3. CASE e = k - 1
      BY <2>2, <3>2, <3>3 DEF v
    <3>4. CASE e # k - 1
      <4>1. e < k - 1
        <5>1. e \in Nat
          OBVIOUS
        <5>2. QED
          BY <1>3, <2>3, <3>4, <5>1, LessOrLast
      <4>2. h[e] = D[<<e, h>>]
        BY <1>4, <4>1 DEF SolvesBelow
      <4>3. QED
        BY <2>2, <3>2, <3>4, <4>2
    <3>5. QED
      BY <3>3, <3>4
  <2>4. SolvesBelow(g, k, D, E)
    BY <2>3 DEF SolvesBelow
  <2>5. QED
    BY <1>1, <2>2, <2>4
<1>7. QED
  BY <1>5, <1>6

LEMMA RecursionWorks ==
  ASSUME NEW E, NEW V, NEW D, Recursion(D, E, V)
  PROVE  \E h \in [E -> V] : \A e \in E : h[e] = D[<<e, h>>]
<1> USE DEF Recursion
<1> DEFINE upTo(n) == CHOOSE h \in [E -> V] : SolvesBelow(h, n, D, E)
           g == [e \in E |-> upTo(e + 1)[e]]
<1>1. \A n \in Nat : upTo(n) \in [E -> V] /\ SolvesBelow(upTo(n), n, D, E)
  BY SolvedBelowEach
<1>2. \A e \in E : e + 1 \in Nat /\ e \in Nat
  OBVIOUS
<1> HIDE DEF upTo
<1>3. g \in [E -> V]
  BY <1>1, <1>2
<1>4. \A e \in E : g[e] = upTo(e + 1)[e]
  OBVIOUS
<1> HIDE DEF g
<1>5. ASSUME NEW e \in E PROVE g[e] = D[<<e, g>>]
  <2>1. ASSUME NEW x \in E, x < e PROVE g[x] = upTo(e + 1)[x]
    <3>1. x + 1 \in Nat /\ e + 1 \in Nat /\ x + 1 <= e + 1 /\ x < x + 1
      BY <1>2, <2>1
    <3>2. upTo(x + 1)[x] = upTo(e + 1)[x]
      BY <1>1, <3>1, SolutionsAgree
    <3>3. QED
      BY <1>4, <3>2
  <2>2. upTo(e + 1) \in [E -> V] /\ SolvesBelow(upTo(e + 1), e + 1, D, E)
    BY <1>1, <1>2
  <2>3. D[<<e, g>>] = D[<<e, upTo(e + 1)>>]
    BY <1>3, <2>1, <2>2 DEF Uses
  <2>4. upTo(e + 1)[e] = D[<<e, upTo(e + 1)>>]
    BY <1>2, <2>2 DEF SolvesBelow
  <2>5. QED
    BY <1>4, <2>3, <2>4
<1>6. QED
  BY <1>3, <1>5

-------------------------------------------------------------------------------
(* RenderScene.                                                            *)

New == Entities(newEntities)
Removed == Entities(removeEntities)
TakenNew == Entities(taken.new)
TakenRemoved == Entities(taken.removed)

(* Parents come before their children and stay as long as them.            *)
ParentsAreThere(es) == \A e \in es : Parent[e] \in es \cup {World}
NamesDiffer(es) == \A e, f \in es : Name[e] = Name[f] => e = f

EntitiesAreTrees ==
  /\ ParentsAreThere(used) /\ ParentsAreThere(entities)
  /\ ParentsAreThere(taken.entities)
  /\ NamesDiffer(entities) /\ NamesDiffer(taken.entities)

NothingBeforeTheFirst ==
  ~sceneInitialized =>
    newEntities = {} /\ removeEntities = {} /\ taken = None /\ scene = {} /\ brief = {}

(* The queues tell how the entities differ from those of the last Take.    *)
QueuesTell ==
  sceneInitialized =>
    /\ entities \ taken.entities \subseteq New
    /\ taken.entities \ entities \subseteq Removed
    /\ New \ entities \subseteq Removed
    /\ Removed \subseteq taken.entities \cup New
    /\ Removed \cap entities = {}

(* What is new has not been seen in the scene, nor anything below it.      *)
Above(e) == {e} \cup Ancestors[e]

NewIsUnseen ==
  /\ \A e \in scene : Above(e) \cap New = {}
  /\ taken.busy => /\ \A e \in scene : Above(e) \cap TakenNew = {}
                   /\ \A e \in TakenNew : Above(e) \cap New = {}

(* What Update keeps out: models removed in a later iteration.             *)
TakenOut(e) ==
  /\ e \in Model
  /\ \E n \in taken.new, r \in taken.removed :
       n.entity = e /\ r.entity = e /\ n.iteration < r.iteration

(* Between Take and Update the taken queues tell how the scene differs     *)
(* from the entities that it is to show.                                   *)
OldGhosts == scene \ (taken.entities \cup TakenRemoved)

TakenTell ==
  taken.busy =>
    /\ TakenRemoved \cap taken.entities = {}
    /\ TakenNew \ taken.entities \subseteq TakenRemoved
    /\ OldGhosts \subseteq brief
    /\ \A e \in TakenNew \cap TakenRemoved :
         e \in brief \/ \E a \in Entity : TakenOut(a) /\ e \in Tree({a})
    /\ taken.entities \subseteq scene \cup TakenNew \cup Tree(Clashing(OldGhosts))

SceneInv ==
  /\ SceneTypeOK /\ EntitiesAreTrees /\ NothingBeforeTheFirst
  /\ QueuesTell /\ NewIsUnseen /\ TakenTell /\ SceneMirrorsEcm

LEMMA ParentIsBelow ==
  ASSUME NEW e \in Entity
  PROVE  /\ Entity \subseteq Nat /\ World \notin Entity /\ e \in Nat
         /\ Parent[e] \in Entity \cup {World}
         /\ Parent[e] \in Entity => Parent[e] \in Nat /\ Parent[e] < e
BY SceneAssumption

LEMMA AncestorsAre ==
  /\ Ancestors \in [Entity -> SUBSET Entity]
  /\ \A e \in Entity :
       Ancestors[e] = IF Parent[e] = World THEN {}
                                           ELSE {Parent[e]} \cup Ancestors[Parent[e]]
<1> DEFINE V == SUBSET Entity
           body(e, f) == IF Parent[e] = World THEN {} ELSE {Parent[e]} \cup f[Parent[e]]
           D == [p \in Entity \X [Entity -> V] |-> body(p[1], p[2])]
<1>1. \A e \in Entity, f \in [Entity -> V] : D[<<e, f>>] = body(e, f) /\ body(e, f) \in V
  BY ParentIsBelow
<1>2. V # {} /\ Entity \in SUBSET Nat /\ D \in [Entity \X [Entity -> V] -> V]
  <2>1. D \in [Entity \X [Entity -> V] -> V]
    BY <1>1
  <2>2. QED
    BY <2>1, SceneAssumption
<1> HIDE DEF D
<1>3. Uses(D, Entity, V)
  <2>1. ASSUME NEW e \in Entity, NEW f \in [Entity -> V], NEW g \in [Entity -> V],
               \A x \in Entity : x < e => f[x] = g[x]
        PROVE  D[<<e, f>>] = D[<<e, g>>]
    <3>1. body(e, f) = body(e, g)
      BY <2>1, ParentIsBelow
    <3>2. QED
      BY <1>1, <3>1
  <2>2. QED
    BY <2>1 DEF Uses
<1>4. PICK h \in [Entity -> V] : \A e \in Entity : h[e] = D[<<e, h>>]
  <2>1. Recursion(D, Entity, V)
    BY <1>2, <1>3 DEF Recursion
  <2>2. QED
    BY <2>1, RecursionWorks
<1>5. h = [e \in Entity |-> body(e, h)]
  <2>1. \A e \in Entity : h[e] = body(e, h)
    BY <1>1, <1>4
  <2> HIDE DEF body, V
  <2>2. QED
    BY <2>1
<1>6. Ancestors = CHOOSE f : f = [e \in Entity |-> body(e, f)]
  BY DEF Ancestors
<1>7. Ancestors = [e \in Entity |-> body(e, Ancestors)]
  BY <1>5, <1>6
<1>8. \A e \in Entity : Ancestors[e] = body(e, Ancestors)
  BY <1>7
<1>9. \A e \in Entity : Ancestors[e] \in SUBSET Entity
  <2> DEFINE bad == {e \in Entity : Ancestors[e] \notin SUBSET Entity}
  <2> SUFFICES ASSUME bad # {} PROVE FALSE
    OBVIOUS
  <2>1. PICK e \in bad : \A i \in bad : e <= i
    BY LeastOne, SceneAssumption
  <2>2. Parent[e] # World => Parent[e] \in Entity /\ Ancestors[Parent[e]] \in SUBSET Entity
    <3>1. Parent[e] \in Entity => Parent[e] < e /\ e \in Nat /\ Parent[e] \in Nat
      BY ParentIsBelow
    <3>2. Parent[e] \in Entity => ~(e <= Parent[e])
      BY <3>1
    <3>3. QED
      BY <2>1, <3>2, ParentIsBelow
  <2>3. Ancestors[e] \in SUBSET Entity
    BY <1>8, <2>2
  <2>4. QED
    BY <2>1, <2>3
<1>10. QED
  BY <1>7, <1>8, <1>9

(* What SceneManager makes, told by what it makes of smaller ids.          *)
Makes(e, left) ==
  /\ e \in Wanted \ left
  /\ Parent[e] = World \/ Parent[e] \in left \cup Created(left)
  /\ e \in Model => \A f \in Entity :
       f # e /\ Name[f] = Name[e] => f \notin left /\ (f < e => f \notin Created(left))

LEMMA CreatedAre ==
  ASSUME NEW left
  PROVE  /\ Created(left) \subseteq Entity
         /\ \A e \in Entity : e \in Created(left) <=> Makes(e, left)
<1> DEFINE D == [p \in Entity \X [Entity -> BOOLEAN] |-> IsMade(p[1], p[2], left)]
           made == CHOOSE f : f = [e \in Entity |-> IsMade(e, f, left)]
<1>1. \A e \in Entity, f \in [Entity -> BOOLEAN] :
        D[<<e, f>>] = IsMade(e, f, left) /\ IsMade(e, f, left) \in BOOLEAN
  <2>1. \A e \in Entity, f \in [Entity -> BOOLEAN] : D[<<e, f>>] = IsMade(e, f, left)
    OBVIOUS
  <2>2. \A e, f : IsMade(e, f, left) \in BOOLEAN
    BY DEF IsMade
  <2> HIDE DEF D
  <2>3. QED
    BY <2>1, <2>2
<1>2. /\ BOOLEAN # {} /\ Entity \in SUBSET Nat
      /\ D \in [Entity \X [Entity -> BOOLEAN] -> BOOLEAN]
  <2>1. D \in [Entity \X [Entity -> BOOLEAN] -> BOOLEAN]
    BY <1>1
  <2>2. QED
    BY <2>1, SceneAssumption
<1> HIDE DEF D
<1>3. Uses(D, Entity, BOOLEAN)
  <2>1. ASSUME NEW e \in Entity,
               NEW f \in [Entity -> BOOLEAN], NEW g \in [Entity -> BOOLEAN],
               \A x \in Entity : x < e => f[x] = g[x]
        PROVE  D[<<e, f>>] = D[<<e, g>>]
    <3>1. Parent[e] # World => f[Parent[e]] = g[Parent[e]]
      BY <2>1, ParentIsBelow
    <3>2. IsMade(e, f, left) <=> IsMade(e, g, left)
      BY <2>1, <3>1 DEF IsMade
    <3>3. QED
      BY <1>1, <3>2
  <2>2. QED
    BY <2>1 DEF Uses
<1>4. PICK h \in [Entity -> BOOLEAN] : \A e \in Entity : h[e] = D[<<e, h>>]
  <2>1. Recursion(D, Entity, BOOLEAN)
    BY <1>2, <1>3 DEF Recursion
  <2>2. QED
    BY <2>1, RecursionWorks
<1>5. h = [e \in Entity |-> IsMade(e, h, left)]
  BY <1>1, <1>4
<1>6. made = [e \in Entity |-> IsMade(e, made, left)]
  BY <1>5
<1>7. Created(left) = {e \in Entity : made[e]}
  BY DEF Created
<1> HIDE DEF made
<1>8. \A e \in Entity : made[e] = IsMade(e, made, left)
  BY <1>6
<1>9. Created(left) \subseteq Entity /\ \A e \in Entity : e \in Created(left) <=> made[e]
  BY <1>7
<1>10. ASSUME NEW e \in Entity PROVE IsMade(e, made, left) <=> Makes(e, left)
  BY <1>9, ParentIsBelow DEF IsMade, Makes
<1>11. QED
  BY <1>8, <1>9, <1>10

(* What is closed under parents holds all ancestors.                       *)
LEMMA ClosedUnderAncestors ==
  ASSUME NEW S \in SUBSET Entity, ParentsAreThere(S)
  PROVE  \A e \in S : Ancestors[e] \subseteq S
<1> DEFINE bad == {e \in S : ~(Ancestors[e] \subseteq S)}
<1> SUFFICES ASSUME bad # {} PROVE FALSE
  OBVIOUS
<1>1. PICK e \in bad : \A i \in bad : e <= i
  BY LeastOne, SceneAssumption
<1>2. Parent[e] # World => /\ Parent[e] \in S /\ ~(e <= Parent[e])
  BY <1>1, ParentIsBelow DEF ParentsAreThere
<1>3. Parent[e] # World => Ancestors[Parent[e]] \subseteq S
  BY <1>1, <1>2
<1>4. Ancestors[e] \subseteq S
  BY <1>1, <1>2, <1>3, AncestorsAre
<1>5. QED
  BY <1>1, <1>4

(* The ancestors of the parent are those of the child.                     *)
LEMMA TreesGrow ==
  ASSUME NEW es, NEW e \in Entity
  PROVE  /\ e \in es => e \in Tree(es)
         /\ Parent[e] \in Tree(es) => e \in Tree(es)
         /\ e \in Tree(es) => e \in es \/ Parent[e] \in Tree(es)
<1>1. Parent[e] \in Entity =>
        /\ Ancestors[e] = {Parent[e]} \cup Ancestors[Parent[e]]
        /\ Ancestors[Parent[e]] \subseteq Entity
  BY AncestorsAre, ParentIsBelow
<1>2. Parent[e] \notin Entity => Ancestors[e] = {} /\ Parent[e] \notin Tree(es)
  BY AncestorsAre DEF Tree
<1>3. QED
  BY <1>1, <1>2 DEF Tree

LEMMA TreesAreMonotone ==
  ASSUME NEW es, NEW fs, es \subseteq fs
  PROVE  Tree(es) \subseteq Tree(fs)
BY DEF Tree

LEMMA EntitiesOf ==
  ASSUME NEW q, NEW r
  PROVE  Entities(q \cup r) = Entities(q) \cup Entities(r) /\ Entities({}) = {}
BY DEF Entities

(* What the type invariant says of the queues and of the sets.             *)
LEMMA WhatSceneTypesSay ==
  ASSUME SceneTypeOK
  PROVE  /\ entities \subseteq used /\ used \subseteq Entity
         /\ scene \subseteq used /\ brief \subseteq used
         /\ New \subseteq used /\ Removed \subseteq used
         /\ TakenNew \subseteq used /\ TakenRemoved \subseteq used
         /\ taken.entities \subseteq used /\ taken.busy \in BOOLEAN
<1>1. /\ newEntities \in SUBSET [entity : used, iteration : 0 .. iterations]
      /\ removeEntities \in SUBSET [entity : used, iteration : 0 .. iterations]
      /\ taken.new \in SUBSET [entity : used, iteration : 0 .. iterations]
      /\ taken.removed \in SUBSET [entity : used, iteration : 0 .. iterations]
      /\ taken.entities \in SUBSET used /\ taken.busy \in BOOLEAN
  BY DEF SceneTypeOK
<1>2. ASSUME NEW q \in SUBSET [entity : used, iteration : 0 .. iterations]
      PROVE  Entities(q) \subseteq used
  BY DEF Entities
<1>3. New \subseteq used /\ Removed \subseteq used
  BY <1>1, <1>2 DEF New, Removed
<1>4. TakenNew \subseteq used /\ TakenRemoved \subseteq used
  BY <1>1, <1>2 DEF TakenNew, TakenRemoved
<1>5. QED
  BY <1>1, <1>3, <1>4 DEF SceneTypeOK

LEMMA SceneInitInv == SceneInit => SceneInv
<1> SUFFICES ASSUME SceneInit PROVE SceneInv
  OBVIOUS
<1> USE DEF SceneInit
<1>1. taken.new = {} /\ taken.removed = {} /\ taken.entities = {} /\ taken.busy = FALSE
  BY DEF None
<1>2. SceneTypeOK
  <2>1. taken \in [new : SUBSET [entity : used, iteration : 0 .. iterations],
                   removed : SUBSET [entity : used, iteration : 0 .. iterations],
                   entities : SUBSET used, busy : BOOLEAN]
    BY DEF None
  <2>2. QED
    BY <1>1, <2>1 DEF SceneTypeOK
<1>3. EntitiesAreTrees
  BY <1>1 DEF EntitiesAreTrees, ParentsAreThere, NamesDiffer
<1>4. NothingBeforeTheFirst /\ QueuesTell /\ SceneMirrorsEcm /\ TakenTell
  BY <1>1
    DEF NothingBeforeTheFirst, QueuesTell, SceneMirrorsEcm, Shown, TakenTell
<1>5. NewIsUnseen
  BY <1>1 DEF NewIsUnseen
<1>6. QED
  BY <1>2, <1>3, <1>4, <1>5 DEF SceneInv

(* What a step of the simulation does to the queues.                       *)
LEMMA StepQueues ==
  ASSUME NEW created, NEW roots, NEW paused, NEW sees \in BOOLEAN,
         SceneInv, Step(created, roots, paused, sees), sees
  PROVE  LET removed == Tree(roots) \cap (entities \cup created)
         IN  /\ New' = New \cup NewOnes(created)
             /\ Removed' = Removed \cup removed
             /\ entities' = (entities \cup created) \ removed
<1> DEFINE removed == Tree(roots) \cap (entities \cup created)
           now == IF paused THEN iterations ELSE iterations + 1
<1>1. newEntities' = newEntities \cup
        {[entity |-> e, iteration |-> now] : e \in NewOnes(created)}
  BY DEF Step
<1>2. removeEntities' = removeEntities \cup
        {[entity |-> e, iteration |-> now] : e \in removed}
  BY DEF Step
<1>3. entities' = (entities \cup created) \ removed
  BY DEF Step
<1> HIDE DEF removed, now
<1>4. New' = New \cup NewOnes(created)
  <2>1. New' = Entities(newEntities')
    BY DEF New
  <2>2. Entities({[entity |-> e, iteration |-> now] : e \in NewOnes(created)})
          = NewOnes(created)
    <3>1. \A e \in NewOnes(created) : [entity |-> e, iteration |-> now].entity = e
      OBVIOUS
    <3>2. QED
      BY <3>1 DEF Entities
  <2>3. QED
    BY <1>1, <2>1, <2>2, EntitiesOf DEF New
<1>5. Removed' = Removed \cup removed
  <2>1. Removed' = Entities(removeEntities')
    BY DEF Removed
  <2>2. Entities({[entity |-> e, iteration |-> now] : e \in removed}) = removed
    <3>1. \A e \in removed : [entity |-> e, iteration |-> now].entity = e
      OBVIOUS
    <3>2. QED
      BY <3>1 DEF Entities
  <2>3. QED
    BY <1>2, <2>1, <2>2, EntitiesOf DEF Removed
<1>6. QED
  BY <1>3, <1>4, <1>5 DEF removed

LEMMA StepTypes ==
  ASSUME NEW created \in SUBSET (Entity \ used), NEW roots, NEW paused \in BOOLEAN,
         NEW sees \in BOOLEAN, SceneInv, Step(created, roots, paused, sees)
  PROVE  SceneTypeOK'
<1> DEFINE now == IF paused THEN iterations ELSE iterations + 1
           removed == Tree(roots) \cap (entities \cup created)
           queue == SUBSET [entity : used, iteration : 0 .. iterations]
           added == {[entity |-> e, iteration |-> now] : e \in NewOnes(created)}
           dropped == {[entity |-> e, iteration |-> now] : e \in removed}
           OnceEach(q) == \A x, y \in q : x.entity = y.entity => x = y
<1>1. /\ iterations \in Nat /\ steps \in Nat
      /\ entities \subseteq used /\ used \subseteq Entity
      /\ scene \subseteq used /\ brief \subseteq used /\ newEntities \in queue
      /\ removeEntities \in queue /\ OnceEach(newEntities) /\ OnceEach(taken.new)
      /\ taken \in [new : queue, removed : queue, entities : SUBSET used, busy : BOOLEAN]
  BY DEF SceneInv, SceneTypeOK
<1>2. /\ iterations' = now /\ steps' = steps + 1 /\ used' = used \cup created
      /\ entities' = (entities \cup created) \ removed /\ sceneInitialized' = sees
      /\ taken' = taken /\ scene' = scene /\ brief' = brief
      /\ IF sees THEN newEntities' = newEntities \cup added
                      /\ removeEntities' = removeEntities \cup dropped
                 ELSE newEntities' = newEntities /\ removeEntities' = removeEntities
  BY DEF Step
<1>3. now \in Nat /\ iterations <= now
  BY <1>1
<1>4. NewOnes(created) \subseteq used \cup created /\ removed \subseteq used \cup created
  BY <1>1 DEF NewOnes
<1> HIDE DEF now, removed
<1>5. queue \subseteq queue'
  BY <1>1, <1>2, <1>3
<1>6. added \in queue' /\ dropped \in queue'
  BY <1>2, <1>3, <1>4
<1>7. newEntities' \in queue' /\ removeEntities' \in queue'
  <2>1. newEntities \in queue' /\ removeEntities \in queue'
    BY <1>1, <1>5
  <2> HIDE DEF queue, added, dropped
  <2>2. CASE sees
    <3>1. \A q, r \in queue' : q \cup r \in queue'
      BY DEF queue
    <3>2. QED
      BY <1>2, <1>6, <2>1, <2>2, <3>1
  <2>3. CASE ~sees
    BY <1>2, <2>1, <2>3
  <2>4. QED
    BY <2>2, <2>3
<1>8. OnceEach(newEntities')
  <2>1. \A x, y \in added : x.entity = y.entity => x = y
    OBVIOUS
  <2>2. \A x \in newEntities, y \in added : x.entity # y.entity
    <3>1. CASE sceneInitialized
      <4>1. \A x \in newEntities : x.entity \in used
        BY <1>1
      <4>2. \A y \in added : y.entity \in created
        BY <3>1 DEF NewOnes
      <4>3. QED
        BY <4>1, <4>2
    <3>2. CASE ~sceneInitialized
      BY <3>2 DEF SceneInv, NothingBeforeTheFirst
    <3>3. QED
      BY <3>1, <3>2
  <2>3. newEntities' = newEntities \/ newEntities' = newEntities \cup added
    BY <1>2
  <2> HIDE DEF added
  <2>4. QED
    BY <1>1, <2>1, <2>2, <2>3
<1>9. taken' \in [new : queue', removed : queue', entities : SUBSET used', busy : BOOLEAN]
  <2>1. SUBSET used \subseteq SUBSET used'
    BY <1>2
  <2> HIDE DEF queue
  <2>2. QED
    BY <1>1, <1>2, <1>5, <2>1
<1>10. OnceEach(taken.new')
  BY <1>1, <1>2
<1>11. /\ iterations' \in Nat /\ steps' \in Nat /\ entities' \subseteq used'
       /\ used' \subseteq Entity /\ scene' \subseteq used' /\ brief' \subseteq used'
       /\ sceneInitialized' \in BOOLEAN
  BY <1>1, <1>2, <1>3
<1>12. QED
  BY <1>7, <1>8, <1>9, <1>10, <1>11 DEF SceneTypeOK

LEMMA StepTrees ==
  ASSUME NEW created \in SUBSET (Entity \ used), NEW roots, NEW paused, NEW sees,
         SceneInv, Step(created, roots, paused, sees)
  PROVE  EntitiesAreTrees'
<1> DEFINE removed == Tree(roots) \cap (entities \cup created)
<1>1. /\ used' = used \cup created /\ entities' = (entities \cup created) \ removed
      /\ taken' = taken
  BY DEF Step
<1>2. /\ entities \subseteq used /\ used \subseteq Entity
      /\ ParentsAreThere(used) /\ ParentsAreThere(entities)
      /\ ParentsAreThere(taken.entities)
      /\ NamesDiffer(entities) /\ NamesDiffer(taken.entities)
  BY WhatSceneTypesSay DEF SceneInv, EntitiesAreTrees
<1>3. \A e \in created : Parent[e] \in {World} \cup entities \cup created
  BY DEF Step, Creatable
<1>4. \A e \in created : \A f \in (entities \cup created) \ {e} : Name[f] # Name[e]
  BY DEF Step, Creatable
<1>5. ParentsAreThere(used')
  BY <1>1, <1>2, <1>3 DEF ParentsAreThere
<1>6. ParentsAreThere(entities')
  <2>1. ASSUME NEW e \in entities', Parent[e] # World PROVE Parent[e] \in entities'
    <3>1. e \in entities \cup created /\ e \in Entity /\ e \notin Tree(roots)
      BY <1>1, <1>2, <2>1
    <3>2. Parent[e] \in entities \cup created
      BY <1>2, <1>3, <2>1, <3>1 DEF ParentsAreThere
    <3>3. Parent[e] \notin Tree(roots)
      BY <3>1, TreesGrow
    <3>4. QED
      BY <1>1, <3>2, <3>3
  <2>2. QED
    BY <2>1 DEF ParentsAreThere
<1>7. NamesDiffer(entities')
  BY <1>1, <1>2, <1>4 DEF NamesDiffer
<1>8. QED
  BY <1>1, <1>2, <1>5, <1>6, <1>7 DEF EntitiesAreTrees

LEMMA StepKeepsTelling ==
  ASSUME NEW created \in SUBSET (Entity \ used), NEW roots, NEW paused,
         NEW sees \in BOOLEAN, SceneInv, Step(created, roots, paused, sees)
  PROVE  NothingBeforeTheFirst' /\ QueuesTell'
<1> DEFINE removed == Tree(roots) \cap (entities \cup created)
<1>1. /\ sceneInitialized' = sees
      /\ sceneInitialized => sees
      /\ taken' = taken /\ scene' = scene /\ brief' = brief
      /\ ~sees => newEntities' = newEntities /\ removeEntities' = removeEntities
  BY DEF Step
<1>2. NothingBeforeTheFirst'
  BY <1>1 DEF SceneInv, NothingBeforeTheFirst
<1>3. CASE ~sees
  BY <1>1, <1>2, <1>3 DEF QueuesTell
<1>4. CASE sees
  <2>1. /\ New' = New \cup NewOnes(created) /\ Removed' = Removed \cup removed
        /\ entities' = (entities \cup created) \ removed
    BY <1>4, StepQueues
  <2>2. Removed \subseteq used /\ New \subseteq used /\ entities \subseteq used
    BY WhatSceneTypesSay DEF SceneInv
  <2>3. CASE sceneInitialized
    <3>1. NewOnes(created) = created
      BY <2>3 DEF NewOnes
    <3>2. /\ entities \ taken.entities \subseteq New
          /\ taken.entities \ entities \subseteq Removed
          /\ New \ entities \subseteq Removed /\ Removed \subseteq taken.entities \cup New
          /\ Removed \cap entities = {}
      BY <2>3 DEF SceneInv, QueuesTell
    <3> HIDE DEF removed
    <3>3. removed \subseteq entities \cup created
      BY DEF removed
    <3>4. QueuesTell'
      BY <1>1, <2>1, <2>2, <3>1, <3>2, <3>3 DEF QueuesTell
    <3>5. QED
      BY <1>2, <3>4
  <2>4. CASE ~sceneInitialized
    <3>1. NewOnes(created) = entities \cup created
      BY <2>4 DEF NewOnes
    <3>2. New = {} /\ Removed = {} /\ taken.entities = {}
      <4>1. newEntities = {} /\ removeEntities = {} /\ taken = None
        BY <2>4 DEF SceneInv, NothingBeforeTheFirst
      <4>2. QED
        BY <4>1, EntitiesOf DEF New, Removed, None
    <3> HIDE DEF removed
    <3>3. removed \subseteq entities \cup created
      BY DEF removed
    <3>4. QueuesTell'
      BY <1>1, <2>1, <3>1, <3>2, <3>3 DEF QueuesTell
    <3>5. QED
      BY <1>2, <3>4
  <2>5. QED
    BY <2>3, <2>4
<1>5. QED
  BY <1>3, <1>4

LEMMA StepIsUnseen ==
  ASSUME NEW created \in SUBSET (Entity \ used), NEW roots, NEW paused,
         NEW sees \in BOOLEAN, SceneInv, Step(created, roots, paused, sees)
  PROVE  NewIsUnseen'
<1>1. /\ taken' = taken /\ scene' = scene
      /\ ~sees => newEntities' = newEntities
  BY DEF Step
<1>2. TakenNew' = TakenNew
  BY <1>1 DEF TakenNew
<1>3. CASE ~sees
  <2>1. New' = New
    BY <1>1, <1>3 DEF New
  <2>2. QED
    BY <1>1, <1>2, <2>1 DEF SceneInv, NewIsUnseen
<1>4. CASE ~sceneInitialized
  <2>1. scene = {} /\ ~taken.busy
    BY <1>4 DEF SceneInv, NothingBeforeTheFirst, None
  <2>2. QED
    BY <1>1, <2>1 DEF NewIsUnseen
<1>5. CASE sees /\ sceneInitialized
  <2>1. New' = New \cup created
    <3>1. sees /\ NewOnes(created) = created
      BY <1>5 DEF NewOnes
    <3>2. New' = New \cup NewOnes(created)
      BY <3>1, StepQueues
    <3>3. QED
      BY <3>1, <3>2
  <2>2. /\ used \subseteq Entity /\ scene \subseteq used /\ TakenNew \subseteq used
        /\ ParentsAreThere(used)
    BY WhatSceneTypesSay DEF SceneInv, EntitiesAreTrees
  <2>3. \A e \in used : Above(e) \cap created = {}
    BY <2>2, ClosedUnderAncestors DEF Above
  <2>4. /\ \A e \in scene : Above(e) \cap New = {}
        /\ taken.busy => /\ \A e \in scene : Above(e) \cap TakenNew = {}
                         /\ \A e \in TakenNew : Above(e) \cap New = {}
    BY DEF SceneInv, NewIsUnseen
  <2>5. /\ \A e \in scene : Above(e) \cap (New \cup created) = {}
        /\ taken.busy => \A e \in TakenNew : Above(e) \cap (New \cup created) = {}
    BY <2>2, <2>3, <2>4
  <2>6. QED
    BY <1>1, <1>2, <2>1, <2>4, <2>5 DEF NewIsUnseen
<1>6. QED
  BY <1>3, <1>4, <1>5

LEMMA StepInv ==
  ASSUME NEW created \in SUBSET (Entity \ used), NEW roots, NEW paused \in BOOLEAN,
         NEW sees \in BOOLEAN, SceneInv, Step(created, roots, paused, sees)
  PROVE  SceneInv'
<1>1. /\ taken' = taken /\ scene' = scene /\ brief' = brief
      /\ sceneInitialized' = sees
  BY DEF Step
<1>2. TakenTell'
  BY <1>1 DEF SceneInv, TakenTell, TakenNew, TakenRemoved, OldGhosts, TakenOut
<1>3. SceneMirrorsEcm'
  <2>1. CASE sceneInitialized
    BY <1>1, <2>1 DEF SceneInv, SceneMirrorsEcm, Shown, Ghosts
  <2>2. CASE ~sceneInitialized
    <3>1. scene = {} /\ taken.entities = {}
      BY <2>2 DEF SceneInv, NothingBeforeTheFirst, None
    <3>2. QED
      BY <1>1, <3>1 DEF SceneMirrorsEcm, Ghosts
  <2>3. QED
    BY <2>1, <2>2
<1>4. QED
  BY <1>2, <1>3, StepTypes, StepTrees, StepKeepsTelling, StepIsUnseen
    DEF SceneInv

LEMMA TakeInv == SceneInv /\ Take => SceneInv'
<1> SUFFICES ASSUME SceneInv, Take PROVE SceneInv'
  OBVIOUS
<1>1. /\ iterations' = iterations /\ entities' = entities /\ used' = used /\ steps' = steps
      /\ sceneInitialized' = sceneInitialized /\ scene' = scene
      /\ sceneInitialized /\ ~taken.busy /\ newEntities' = {} /\ removeEntities' = {}
      /\ taken' = [new |-> newEntities, removed |-> removeEntities, entities |-> entities,
                   busy |-> TRUE]
  BY DEF Take, entityVars
<1>2. /\ taken'.new = newEntities /\ taken'.removed = removeEntities
      /\ taken'.entities = entities /\ taken'.busy = TRUE
  BY <1>1
<1>3. /\ entities \subseteq used /\ used \subseteq Entity /\ scene \subseteq used
      /\ brief \subseteq used /\ New \subseteq used /\ Removed \subseteq used
  BY WhatSceneTypesSay DEF SceneInv
<1>4. brief' = brief \cup
        {e \in New \cap Removed : ~\E a \in Model : e \in Tree({a}) /\ KeptOut(a)}
  BY DEF Take, New, Removed
<1>5. /\ New' = {} /\ Removed' = {} /\ TakenNew' = New /\ TakenRemoved' = Removed
  <2>1. New' = Entities(newEntities') /\ Removed' = Entities(removeEntities')
    BY DEF New, Removed
  <2>2. New' = {} /\ Removed' = {}
    BY <1>1, <2>1, EntitiesOf
  <2>3. TakenNew' = Entities(taken'.new) /\ TakenRemoved' = Entities(taken'.removed)
    BY DEF TakenNew, TakenRemoved
  <2>4. QED
    BY <1>2, <2>2, <2>3 DEF New, Removed
<1>6. /\ entities \ taken.entities \subseteq New
      /\ taken.entities \ entities \subseteq Removed
      /\ New \ entities \subseteq Removed /\ Removed \subseteq taken.entities \cup New
      /\ Removed \cap entities = {}
  BY <1>1 DEF SceneInv, QueuesTell
<1>7. \A e \in scene : Above(e) \cap New = {} /\ e \notin New
  BY DEF SceneInv, NewIsUnseen, Above
<1>8. Ghosts \subseteq brief /\ taken.entities \ scene \subseteq Tree(Clashing(Ghosts))
  BY <1>1 DEF SceneInv, SceneMirrorsEcm, Shown
<1>9. SceneTypeOK'
  <2> DEFINE queue == SUBSET [entity : used, iteration : 0 .. iterations]
             OnceEach(q) == \A x, y \in q : x.entity = y.entity => x = y
  <2>1. /\ iterations \in Nat /\ steps \in Nat /\ newEntities \in queue
        /\ removeEntities \in queue /\ OnceEach(newEntities) /\ sceneInitialized \in BOOLEAN
    BY DEF SceneInv, SceneTypeOK
  <2>2. brief' \subseteq used'
    BY <1>1, <1>3, <1>4
  <2>3. queue' = queue /\ {} \in queue
    BY <1>1
  <2> HIDE DEF queue
  <2>4. taken' \in [new : queue', removed : queue', entities : SUBSET used', busy : BOOLEAN]
    BY <1>1, <1>3, <2>1, <2>3
  <2>5. /\ newEntities' \in queue' /\ removeEntities' \in queue'
        /\ OnceEach(newEntities') /\ OnceEach(taken'.new)
    BY <1>1, <1>2, <2>1, <2>3
  <2> USE DEF queue
  <2>6. QED
    BY <1>1, <1>3, <2>1, <2>2, <2>4, <2>5 DEF SceneTypeOK
<1>10. EntitiesAreTrees'
  BY <1>1, <1>2 DEF SceneInv, EntitiesAreTrees
<1>11. NothingBeforeTheFirst' /\ SceneMirrorsEcm'
  BY <1>1, <1>2 DEF NothingBeforeTheFirst, SceneMirrorsEcm, Shown
<1>12. QueuesTell'
  BY <1>1, <1>2, <1>5 DEF QueuesTell
<1>13. NewIsUnseen'
  BY <1>1, <1>5, <1>7 DEF NewIsUnseen
<1>14. TakenTell'
  <2>1. OldGhosts' = scene \ (entities \cup Removed)
    BY <1>1, <1>2, <1>5 DEF OldGhosts
  <2>2. OldGhosts' \subseteq brief'
    BY <1>4, <1>6, <1>8, <2>1 DEF Ghosts
  <2>3. Ghosts \subseteq OldGhosts'
    BY <1>6, <1>7, <2>1 DEF Ghosts
  <2>4. Tree(Clashing(Ghosts)) \subseteq Tree(Clashing(OldGhosts'))
    BY <2>3, TreesAreMonotone DEF Clashing
  <2>5. entities \subseteq scene \cup New \cup Tree(Clashing(OldGhosts'))
    BY <1>6, <1>8, <2>4
  <2>6. \A a : KeptOut(a) => a \in Entity /\ TakenOut(a)'
    BY <1>2, SceneAssumption DEF KeptOut, TakenOut
  <2>7. \A e \in New \cap Removed :
          e \in brief' \/ \E a \in Entity : TakenOut(a)' /\ e \in Tree({a})
    BY <1>4, <2>6
  <2>8. QED
    BY <1>1, <1>2, <1>5, <1>6, <2>2, <2>5, <2>7 DEF TakenTell
<1>15. QED
  BY <1>9, <1>10, <1>11, <1>12, <1>13, <1>14 DEF SceneInv

(* Of a tree whose root is neither in the scene nor made, nothing is made, *)
(* when nothing of it is in the scene.                                     *)
LEMMA NothingBelowIsMade ==
  ASSUME NEW left, NEW a \in Entity, a \notin Wanted, Tree({a}) \cap left = {}
  PROVE  Tree({a}) \cap Created(left) = {}
<1> DEFINE bad == Tree({a}) \cap Created(left)
<1> SUFFICES ASSUME bad # {} PROVE FALSE
  OBVIOUS
<1>1. bad \in SUBSET Nat
  BY CreatedAre, SceneAssumption
<1>2. PICK e \in bad : \A i \in bad : e <= i
  BY <1>1, LeastOne
<1>3. e \in Entity /\ e \in Tree({a}) /\ e \in Created(left) /\ e \in Wanted
  BY <1>2, CreatedAre DEF Makes
<1>4. Parent[e] \in Tree({a})
  BY <1>3, TreesGrow
<1>5. Parent[e] \in Entity /\ Parent[e] # World
  BY <1>4, ParentIsBelow DEF Tree
<1>6. Parent[e] \in Created(left)
  BY <1>3, <1>4, <1>5, CreatedAre DEF Makes
<1>7. ~(e <= Parent[e])
  BY <1>3, <1>5, ParentIsBelow
<1>8. QED
  BY <1>2, <1>4, <1>6, <1>7

(* An update of the scene makes it show the entities of the last Take.     *)
LEMMA UpdateShows ==
  ASSUME SceneInv, Update
  PROVE  /\ scene' \ taken.entities \subseteq brief
         /\ taken.entities \ scene' \subseteq Tree(Clashing(scene' \ taken.entities))
<1> DEFINE left == scene \ TakenRemoved
           TE == taken.entities
<1>1. taken.busy /\ scene' = left \cup Created(left)
  BY DEF Update, RemovedFirst, TakenRemoved
<1>2. /\ TakenRemoved \cap TE = {} /\ TakenNew \ TE \subseteq TakenRemoved
      /\ OldGhosts \subseteq brief
      /\ TE \subseteq scene \cup TakenNew \cup Tree(Clashing(OldGhosts))
      /\ \A e \in TakenNew \cap TakenRemoved :
           e \in brief \/ \E a \in Entity : TakenOut(a) /\ e \in Tree({a})
  BY <1>1 DEF SceneInv, TakenTell
<1>3. /\ ParentsAreThere(TE) /\ NamesDiffer(TE)
      /\ TE \subseteq Entity /\ scene \subseteq Entity
      /\ TakenNew \subseteq Entity
  BY WhatSceneTypesSay DEF SceneInv, EntitiesAreTrees
<1>4. \A x, y \in taken.new : x.entity = y.entity => x = y
  BY DEF SceneInv, SceneTypeOK
<1>5. Wanted \subseteq TakenNew
  BY DEF Wanted, TakenNew, Entities
<1>6. OldGhosts = left \ TE
  BY DEF OldGhosts
<1> HIDE DEF left
<1>7. /\ Created(left) \subseteq Entity
      /\ \A e \in Entity : e \in Created(left) <=> Makes(e, left)
  BY CreatedAre
<1>8. ASSUME NEW a \in Entity, TakenOut(a) PROVE Tree({a}) \cap scene' = {}
  <2>1. PICK n \in taken.new, r \in taken.removed :
          n.entity = a /\ r.entity = a /\ n.iteration < r.iteration
    BY <1>8 DEF TakenOut
  <2>2. a \notin Wanted
    <3>1. RemovedLater(n)
      BY <1>8, <2>1 DEF RemovedLater, TakenOut
    <3>2. QED
      BY <1>4, <2>1, <3>1 DEF Wanted, Entities
  <2>3. a \in TakenNew
    BY <2>1 DEF TakenNew, Entities
  <2>4. Tree({a}) \cap scene = {}
    BY <1>1, <2>3 DEF SceneInv, NewIsUnseen, Above, Tree
  <2>5. Tree({a}) \cap left = {}
    BY <2>4 DEF left
  <2>6. Tree({a}) \cap Created(left) = {}
    BY <2>2, <2>5, NothingBelowIsMade
  <2>7. QED
    BY <1>1, <2>5, <2>6
<1>9. ASSUME NEW e \in scene' \ TE PROVE e \in brief
  <2>1. CASE e \in left
    BY <1>2, <1>6, <1>9, <2>1
  <2>2. CASE e \in Created(left)
    <3>1. e \in TakenNew
      BY <1>5, <1>7, <2>2 DEF Makes
    <3>2. e \in TakenNew \cap TakenRemoved
      BY <1>2, <1>9, <3>1
    <3>3. ~\E a \in Entity : TakenOut(a) /\ e \in Tree({a})
      BY <1>8, <1>9
    <3>4. QED
      BY <1>2, <3>2, <3>3
  <2>3. QED
    BY <1>1, <1>9, <2>1, <2>2
<1> DEFINE ghosts == scene' \ TE
           bad == (TE \ scene') \ Tree(Clashing(ghosts))
<1>10. bad = {}
  <2> SUFFICES ASSUME bad # {} PROVE FALSE
    OBVIOUS
  <2>1. bad \in SUBSET Nat
    BY <1>3, SceneAssumption
  <2>2. PICK e \in bad : \A i \in bad : e <= i
    BY <2>1, LeastOne
  <2>3. e \in Entity /\ e \in TE /\ e \notin scene' /\ e \notin Tree(Clashing(ghosts))
    BY <1>3, <2>2
  <2>4. e \notin TakenRemoved /\ e \notin left /\ e \notin Created(left)
    BY <1>1, <1>2, <2>3
  <2>5. Tree(Clashing(OldGhosts)) \subseteq Tree(Clashing(ghosts))
    <3>1. OldGhosts \subseteq ghosts
      BY <1>1, <1>6
    <3>2. Clashing(OldGhosts) \subseteq Clashing(ghosts)
      BY <3>1 DEF Clashing
    <3>3. QED
      BY <3>2, TreesAreMonotone
  <2>6. e \in TakenNew
    BY <1>2, <2>3, <2>4, <2>5 DEF left
  <2>7. e \in Wanted \ left
    <3>1. PICK n \in taken.new : n.entity = e
      BY <2>6 DEF TakenNew, Entities
    <3>2. ~RemovedLater(n)
      BY <2>4, <3>1 DEF RemovedLater, TakenRemoved, Entities
    <3>3. QED
      BY <2>4, <3>1, <3>2 DEF Wanted, Entities
  <2>8. Parent[e] = World \/ Parent[e] \in scene'
    <3> SUFFICES ASSUME Parent[e] # World, Parent[e] \notin scene' PROVE FALSE
      OBVIOUS
    <3>1. Parent[e] \in TE
      BY <1>3, <2>3 DEF ParentsAreThere
    <3>2. ~(e <= Parent[e])
      BY <1>3, <2>3, <3>1, ParentIsBelow
    <3>3. Parent[e] \in Tree(Clashing(ghosts))
      BY <2>2, <3>1, <3>2
    <3>4. QED
      BY <2>3, <3>3, TreesGrow
  <2>9. ASSUME NEW f \in Entity, f # e, Name[f] = Name[e] PROVE f \notin scene'
    <3> SUFFICES ASSUME f \in scene' PROVE FALSE
      OBVIOUS
    <3>1. f \in ghosts
      BY <1>3, <2>3, <2>9 DEF NamesDiffer
    <3>2. e \in Clashing(ghosts)
      BY <2>3, <2>9, <3>1 DEF Clashing
    <3>3. QED
      BY <2>3, <3>2, TreesGrow
  <2>10. Makes(e, left)
    BY <1>1, <2>7, <2>8, <2>9 DEF Makes
  <2>11. QED
    BY <1>7, <2>3, <2>4, <2>10
<1>11. QED
  BY <1>9, <1>10

LEMMA UpdateInv == SceneInv /\ Update => SceneInv'
<1> SUFFICES ASSUME SceneInv, Update PROVE SceneInv'
  OBVIOUS
<1>1. /\ iterations' = iterations /\ entities' = entities /\ used' = used /\ steps' = steps
      /\ sceneInitialized' = sceneInitialized /\ newEntities' = newEntities
      /\ removeEntities' = removeEntities /\ brief' = brief
      /\ taken' = [taken EXCEPT !.busy = FALSE] /\ taken.busy
  BY DEF Update, entityVars, changeVars
<1> DEFINE queue == SUBSET [entity : used, iteration : 0 .. iterations]
<1>2. taken \in [new : queue, removed : queue, entities : SUBSET used, busy : BOOLEAN]
  BY DEF SceneInv, SceneTypeOK
<1> HIDE DEF queue
<1>3. /\ taken'.new = taken.new /\ taken'.removed = taken.removed
      /\ taken'.entities = taken.entities /\ taken'.busy = FALSE
      /\ taken' \in [new : queue, removed : queue, entities : SUBSET used, busy : BOOLEAN]
  BY <1>1, <1>2
<1>4. scene' \subseteq scene \cup TakenNew
  <2>1. scene' = (scene \ RemovedFirst) \cup Created(scene \ RemovedFirst)
    BY DEF Update
  <2>2. Created(scene \ RemovedFirst) \subseteq Wanted
    BY CreatedAre DEF Makes
  <2>3. Wanted \subseteq TakenNew
    BY DEF Wanted, TakenNew, Entities
  <2>4. QED
    BY <2>1, <2>2, <2>3
<1>5. New' = New
  BY <1>1 DEF New
<1>6. SceneTypeOK'
  <2>1. scene' \subseteq used'
    BY <1>1, <1>4, WhatSceneTypesSay DEF SceneInv
  <2>2. taken' \in [new : queue', removed : queue', entities : SUBSET used', busy : BOOLEAN]
    BY <1>1, <1>3 DEF queue
  <2>3. SceneTypeOK
    BY DEF SceneInv
  <2> USE DEF queue
  <2>4. QED
    BY <1>1, <1>3, <2>1, <2>2, <2>3 DEF SceneTypeOK
<1>7. EntitiesAreTrees'
  BY <1>1, <1>3 DEF SceneInv, EntitiesAreTrees
<1>8. NothingBeforeTheFirst'
  <2>1. sceneInitialized
    BY <1>1 DEF SceneInv, NothingBeforeTheFirst, None
  <2>2. QED
    BY <1>1, <2>1 DEF NothingBeforeTheFirst
<1>9. QueuesTell'
  <2>1. Removed' = Removed
    BY <1>1 DEF Removed
  <2>2. QED
    BY <1>1, <1>3, <1>5, <2>1 DEF SceneInv, QueuesTell
<1>10. NewIsUnseen' /\ TakenTell'
  <2>1. \A e \in scene' : Above(e) \cap New = {}
    BY <1>1, <1>4 DEF SceneInv, NewIsUnseen
  <2>2. QED
    BY <1>3, <1>5, <2>1 DEF NewIsUnseen, TakenTell
<1>11. SceneMirrorsEcm'
  <2>1. Ghosts' = scene' \ taken.entities
    BY <1>3 DEF Ghosts
  <2>2. QED
    BY <1>1, <1>3, <2>1, UpdateShows DEF SceneMirrorsEcm
<1>12. QED
  BY <1>6, <1>7, <1>8, <1>9, <1>10, <1>11 DEF SceneInv

LEMMA SceneStutterInv == SceneInv /\ UNCHANGED sceneVars => SceneInv'
<1> SUFFICES ASSUME SceneInv, UNCHANGED sceneVars PROVE SceneInv'
  OBVIOUS
<1>1. /\ iterations' = iterations /\ entities' = entities /\ used' = used /\ steps' = steps
      /\ sceneInitialized' = sceneInitialized /\ newEntities' = newEntities
      /\ removeEntities' = removeEntities /\ taken' = taken /\ scene' = scene
      /\ brief' = brief
  BY DEF sceneVars, entityVars, changeVars
<1>2. SceneTypeOK' /\ EntitiesAreTrees' /\ NothingBeforeTheFirst'
  BY <1>1 DEF SceneInv, SceneTypeOK, EntitiesAreTrees, NothingBeforeTheFirst
<1>3. QueuesTell' /\ NewIsUnseen'
  BY <1>1 DEF SceneInv, QueuesTell, NewIsUnseen, New, Removed, TakenNew
<1>4. TakenTell' /\ SceneMirrorsEcm'
  BY <1>1
    DEF SceneInv, TakenTell, TakenNew, TakenRemoved, OldGhosts, TakenOut,
        SceneMirrorsEcm, Shown, Ghosts
<1>5. QED
  BY <1>2, <1>3, <1>4 DEF SceneInv

LEMMA SceneInvHolds == SceneSpec => []SceneInv
<1>1. SceneInv /\ [SceneNext]_sceneVars => SceneInv'
  <2> SUFFICES ASSUME SceneInv, [SceneNext]_sceneVars PROVE SceneInv'
    OBVIOUS
  <2>1. ASSUME NEW created \in SUBSET (Entity \ used), NEW paused \in BOOLEAN,
               NEW sees \in BOOLEAN, NEW roots \in SUBSET (entities \cup created),
               Step(created, roots, paused, sees)
        PROVE  SceneInv'
    BY <2>1, StepInv
  <2>2. CASE Take
    BY <2>2, TakeInv
  <2>3. CASE Update
    BY <2>3, UpdateInv
  <2>4. CASE UNCHANGED sceneVars
    BY <2>4, SceneStutterInv
  <2>5. QED
    BY <2>1, <2>2, <2>3, <2>4 DEF SceneNext
<1>2. QED
  BY <1>1, SceneInitInv, PTL DEF SceneSpec

(* All that the model keeps has its type, for all trees of entities: no    *)
(* entity is twice in the queues of new ones, and none is in a queue or in *)
(* the scene that the ECM has never had.                                   *)
THEOREM SceneTypeCorrect == SceneSpec => []SceneTypeOK
<1>1. SceneInv => SceneTypeOK
  BY DEF SceneInv
<1>2. QED
  BY <1>1, SceneInvHolds, PTL

(* After each update the scene shows the entities that there were when the *)
(* queues were taken (RenderUtil::Update, UpdateFromECM), except for what  *)
(* came and went unnoticed by the test for models, what has the name of it *)
(* and what is below that: for all trees of entities, however many steps   *)
(* an update covers.                                                       *)
THEOREM SceneShowsTheEntities == SceneSpec => []SceneMirrorsEcm
<1>1. SceneInv => SceneMirrorsEcm
  BY DEF SceneInv
<1>2. QED
  BY <1>1, SceneInvHolds, PTL

-------------------------------------------------------------------------------
(* Sensors.                                                                *)

SensorsTypeOK ==
  /\ simPc \in {"idle", "resetTimes", "requestInit", "test", "awaitScene", "decide",
                "awaitRenderer"}
  /\ renderPc \in {"awaitInit", "awaitFrame", "apply", "applying", "frame", "publish",
                   "endFrame", "done"}
  /\ stopPc \in {"none", "join", "stopped"}
  /\ asleep \subseteq {"sim", "render"}
  /\ ecm \in [step : Nat, time : Nat, resets : Nat, sensors : SUBSET Sensor,
              gone : SUBSET Sensor]
  /\ collected \in [step : Nat, sensors : SUBSET Sensor]
  /\ making \in [new : SUBSET Sensor, removed : SUBSET Sensor]
  /\ newSensors \subseteq Sensor /\ removedSensors \subseteq Sensor
  /\ sensorIds \subseteq Sensor /\ connected \subseteq Sensor
  /\ activeSensors \subseteq Sensor /\ sensorsToUpdate \subseteq Sensor
  /\ scheduled \subseteq Sensor
  /\ dataTime \in [Sensor -> Nat]
  /\ updateTime \in Nat /\ updateTimeApplied \in Nat /\ updateTimeToApply \in Nat
  /\ sceneStep \in Nat /\ asked \in Nat /\ events \in Nat
  /\ running \in BOOLEAN /\ initialized \in BOOLEAN /\ doInit \in BOOLEAN
  /\ updateAvailable \in BOOLEAN /\ forceUpdate \in BOOLEAN
  /\ renderListener \in BOOLEAN /\ blind \in BOOLEAN

(* Before WaitForInit is over, the simulation thread does not get further  *)
(* than to the test of `initialized`.                                      *)
InitIsFirst ==
  renderPc = "awaitInit" =>
    /\ ~initialized /\ ~updateAvailable /\ newSensors = {}
    /\ simPc \in {"idle", "requestInit", "test"}

(* What is rendered has been asked for, and not been answered.             *)
FrameIsAskedFor ==
  renderPc \in {"apply", "applying"} \/ InFrame => updateAvailable

(* Between the request for a frame and its application the collected       *)
(* entities are those that it is to show, and the times tell it.           *)
RequestIsPending ==
  updateAvailable /\ renderPc \in {"awaitFrame", "apply", "applying"} /\ ~blind =>
    /\ updateTimeToApply # updateTimeApplied /\ updateTime = updateTimeToApply
    /\ collected.step = asked
    /\ simPc # "decide"

FrameShowsAsked == InFrame /\ ~blind => sceneStep = asked

LoopIsLeftStopped == renderPc = "done" => ~running

(* Outside of the part of PostUpdate that asks for frames, new sensors are *)
(* on their way.                                                           *)
NewSensorsWait ==
  simPc \notin {"decide", "awaitRenderer"} /\ initialized /\ running =>
    newSensors = {} \/ (updateAvailable /\ renderPc \in {"awaitFrame", "apply"})

(* Ids are not used again: a sensor that is new, in a queue or with the    *)
(* renderer, has no place in the plans yet.                                *)
IdsAreFresh ==
  /\ ecm.sensors \cap ecm.gone = {}
  /\ collected.sensors \subseteq ecm.sensors \cup ecm.gone
  /\ scheduled \cup sensorIds \cup making.new \cup newSensors
       \subseteq collected.sensors \cup ecm.gone
  /\ newSensors \cap (scheduled \cup sensorIds \cup making.new) = {}
  /\ making.new \cap (scheduled \cup sensorIds) = {}

(* The next update is planned within a period of each sensor planned for.  *)
PlanIsInTime ==
  \A s \in scheduled : /\ nextUpdateTime \in Nat
                       /\ nextUpdateTime <= dataTime[s] + Period[s]

SensorsInv ==
  /\ SensorsTypeOK
  /\ InitIsFirst /\ FrameIsAskedFor /\ RequestIsPending /\ FrameShowsAsked
  /\ LoopIsLeftStopped /\ NewSensorsWait
  /\ IdsAreFresh /\ PlanIsInTime

(* The smallest of some natural numbers: FiniteSetsExt's Min.              *)
LEMMA MinIsLeast ==
  ASSUME NEW S \in SUBSET Nat, S # {}
  PROVE  Min(S) \in S /\ \A y \in S : Min(S) <= y
BY LeastOne DEF Min

(* The plan is for no later than a period after each sensor's last time.   *)
LEMMA PlannedInTime ==
  ASSUME SensorsTypeOK, NEW now \in Nat, NextUpdateTime(now)
  PROVE  /\ scheduled' = Schedulable
         /\ sensorsToUpdate' \subseteq Sensor
         /\ \A s \in scheduled' : /\ nextUpdateTime' \in Nat
                                  /\ nextUpdateTime' <= dataTime[s] + Period[s]
<1>1. scheduled' = Schedulable /\ Schedulable \subseteq Sensor
  BY DEF NextUpdateTime, Schedulable, SensorsTypeOK
<1>2. sensorsToUpdate' \subseteq Sensor
  BY <1>1 DEF NextUpdateTime
<1>3. ASSUME NEW s \in scheduled'
      PROVE  nextUpdateTime' \in Nat /\ nextUpdateTime' <= dataTime[s] + Period[s]
  <2> DEFINE times == {NextDataTime(u, now) : u \in Schedulable}
  <2>1. \A u \in Schedulable : dataTime[u] \in Nat /\ Period[u] \in Nat
    BY <1>1, SensorsAssumption DEF SensorsTypeOK
  <2>2. \A u \in Schedulable : /\ NextDataTime(u, now) \in Nat
                               /\ NextDataTime(u, now) <= dataTime[u] + Period[u]
    BY <2>1 DEF NextDataTime
  <2>3. times \in SUBSET Nat /\ NextDataTime(s, now) \in times
    BY <1>1, <1>3, <2>2
  <2>4. Schedulable # {} /\ nextUpdateTime' = Min(times)
    BY <1>1, <1>3 DEF NextUpdateTime
  <2>5. Min(times) \in Nat /\ Min(times) <= NextDataTime(s, now)
    <3> HIDE DEF times
    <3>1. QED
      BY <2>3, MinIsLeast
  <2> HIDE DEF times
  <2>6. QED
    BY <1>1, <1>3, <2>1, <2>2, <2>4, <2>5
<1>4. QED
  BY <1>1, <1>2, <1>3

(* The groups of variables that actions leave alone.                       *)
USE DEF ecmVars, queueVars, timeVars, flagVars, planVars, renderVars, historyVars, pcVars,
        dataVars, syncVars, workVars, bookVars

LEMMA BeginStepKeeps ==
  ASSUME SensorsInv, BeginStep
  PROVE  SensorsInv'
<1>1. SensorsTypeOK'
  <2>1. PICK paused \in BOOLEAN, sensors \in SUBSET (Sensor \ ecm.gone) :
          ecm' = [ecm EXCEPT !.step = @ + 1, !.time = IF paused THEN @ ELSE @ + 1,
                             !.sensors = sensors,
                             !.gone = @ \cup (ecm.sensors \ sensors)]
    BY DEF BeginStep
  <2>2. /\ ecm.step + 1 \in Nat /\ (IF paused THEN ecm.time ELSE ecm.time + 1) \in Nat
        /\ ecm.gone \cup (ecm.sensors \ sensors) \in SUBSET Sensor
        /\ sensors \in SUBSET Sensor
    BY DEF SensorsInv, SensorsTypeOK
  <2>3. ecm' \in [step : Nat, time : Nat, resets : Nat, sensors : SUBSET Sensor,
                  gone : SUBSET Sensor]
    BY <2>1, <2>2 DEF SensorsInv, SensorsTypeOK
  <2>4. QED
    BY <2>3 DEF BeginStep, SimGoes, SensorsInv, SensorsTypeOK
<1>2. InitIsFirst'
  BY DEF BeginStep, SimGoes, SensorsInv, InitIsFirst
<1>3. FrameIsAskedFor'
  BY DEF BeginStep, SimGoes, SensorsInv, FrameIsAskedFor, InFrame
<1>4. RequestIsPending'
  BY DEF BeginStep, SimGoes, SensorsInv, RequestIsPending
<1>5. FrameShowsAsked'
  BY DEF BeginStep, SimGoes, SensorsInv, FrameShowsAsked, InFrame
<1>6. NewSensorsWait'
  BY DEF BeginStep, SimGoes, SensorsInv, NewSensorsWait
<1>7. IdsAreFresh'
  BY DEF BeginStep, SensorsInv, IdsAreFresh
<1>8. PlanIsInTime'
  BY DEF BeginStep, SensorsInv, PlanIsInTime
<1>9. LoopIsLeftStopped'
  BY DEF BeginStep, SimGoes, SensorsInv, LoopIsLeftStopped
<1>10. QED
  BY <1>1, <1>2, <1>3, <1>4, <1>5, <1>6, <1>7, <1>8, <1>9 DEF SensorsInv

LEMMA ResetSensorsKeeps ==
  ASSUME SensorsInv, ResetSensors
  PROVE  SensorsInv'
<1>1. SensorsTypeOK'
  <2>1. ecm' \in [step : Nat, time : Nat, resets : Nat, sensors : SUBSET Sensor,
                  gone : SUBSET Sensor]
    <3>1. ecm.resets + 1 \in Nat
      BY DEF SensorsInv, SensorsTypeOK
    <3>2. QED
      BY <3>1 DEF ResetSensors, SensorsInv, SensorsTypeOK
  <2>2. dataTime' \in [Sensor -> Nat]
    BY DEF ResetSensors, SensorsInv, SensorsTypeOK
  <2>3. QED
    BY <2>1, <2>2 DEF ResetSensors, SensorsInv, SensorsTypeOK
<1>2. InitIsFirst'
  BY DEF ResetSensors, SensorsInv, InitIsFirst
<1>3. FrameIsAskedFor'
  BY DEF ResetSensors, SensorsInv, FrameIsAskedFor, InFrame
<1>4. RequestIsPending'
  BY DEF ResetSensors, SensorsInv, RequestIsPending
<1>5. FrameShowsAsked'
  BY DEF ResetSensors, SensorsInv, FrameShowsAsked, InFrame
<1>6. NewSensorsWait'
  BY DEF ResetSensors, SensorsInv, NewSensorsWait
<1>7. IdsAreFresh'
  BY DEF ResetSensors, SensorsInv, IdsAreFresh
<1>8. PlanIsInTime'
  BY SensorsAssumption DEF ResetSensors, SensorsInv, SensorsTypeOK, PlanIsInTime
<1>9. LoopIsLeftStopped'
  BY DEF ResetSensors, SensorsInv, LoopIsLeftStopped
<1>10. QED
  BY <1>1, <1>2, <1>3, <1>4, <1>5, <1>6, <1>7, <1>8, <1>9 DEF SensorsInv

LEMMA ResetTimesKeeps ==
  ASSUME SensorsInv, ResetTimes
  PROVE  SensorsInv'
<1>1. SensorsTypeOK'
  BY DEF ResetTimes, SimGoes, SensorsInv, SensorsTypeOK
<1>2. InitIsFirst'
  BY DEF ResetTimes, SimGoes, SensorsInv, InitIsFirst
<1>3. FrameIsAskedFor'
  BY DEF ResetTimes, SimGoes, SensorsInv, FrameIsAskedFor, InFrame
<1>4. RequestIsPending'
  BY DEF ResetTimes, RequestIsPending
<1>5. FrameShowsAsked'
  BY DEF ResetTimes, FrameShowsAsked
<1>6. NewSensorsWait'
  BY DEF ResetTimes, SimGoes, SensorsInv, NewSensorsWait
<1>7. IdsAreFresh'
  BY DEF ResetTimes, SensorsInv, IdsAreFresh
<1>8. PlanIsInTime'
  BY DEF ResetTimes, SensorsInv, PlanIsInTime
<1>9. LoopIsLeftStopped'
  BY DEF ResetTimes, SimGoes, SensorsInv, LoopIsLeftStopped
<1>10. QED
  BY <1>1, <1>2, <1>3, <1>4, <1>5, <1>6, <1>7, <1>8, <1>9 DEF SensorsInv

LEMMA RequestInitKeeps ==
  ASSUME SensorsInv, RequestInit
  PROVE  SensorsInv'
<1>1. SensorsTypeOK'
  <2>1. doInit' \in BOOLEAN /\ asleep' \subseteq asleep
    BY DEF RequestInit, NotifyRenderCv, SensorsInv, SensorsTypeOK
  <2>2. QED
    BY <2>1 DEF RequestInit, SimGoes, SensorsInv, SensorsTypeOK
<1>2. InitIsFirst'
  BY DEF RequestInit, SimGoes, SensorsInv, InitIsFirst
<1>3. FrameIsAskedFor'
  BY DEF RequestInit, SimGoes, SensorsInv, FrameIsAskedFor, InFrame
<1>4. RequestIsPending'
  BY DEF RequestInit, SimGoes, SensorsInv, RequestIsPending
<1>5. FrameShowsAsked'
  BY DEF RequestInit, SimGoes, SensorsInv, FrameShowsAsked, InFrame
<1>6. NewSensorsWait'
  BY DEF RequestInit, SimGoes, SensorsInv, NewSensorsWait
<1>7. IdsAreFresh'
  BY DEF RequestInit, SensorsInv, IdsAreFresh
<1>8. PlanIsInTime'
  BY DEF RequestInit, SensorsInv, PlanIsInTime
<1>9. LoopIsLeftStopped'
  BY DEF RequestInit, SimGoes, SensorsInv, LoopIsLeftStopped
<1>10. QED
  BY <1>1, <1>2, <1>3, <1>4, <1>5, <1>6, <1>7, <1>8, <1>9 DEF SensorsInv

LEMMA TestRunningKeeps ==
  ASSUME SensorsInv, TestRunning
  PROVE  SensorsInv'
<1>1. SensorsTypeOK'
  BY DEF TestRunning, SimGoes, SensorsInv, SensorsTypeOK
<1>2. InitIsFirst'
  BY DEF TestRunning, SimGoes, SensorsInv, InitIsFirst
<1>3. FrameIsAskedFor'
  BY DEF TestRunning, SimGoes, SensorsInv, FrameIsAskedFor, InFrame
<1>4. RequestIsPending'
  BY DEF TestRunning, SimGoes, SensorsInv, RequestIsPending
<1>5. FrameShowsAsked'
  BY DEF TestRunning, SimGoes, SensorsInv, FrameShowsAsked, InFrame
<1>6. NewSensorsWait'
  BY DEF TestRunning, SimGoes, SensorsInv, NewSensorsWait
<1>7. IdsAreFresh'
  BY DEF TestRunning, SensorsInv, IdsAreFresh
<1>8. PlanIsInTime'
  BY DEF TestRunning, SensorsInv, PlanIsInTime
<1>9. LoopIsLeftStopped'
  BY DEF TestRunning, SimGoes, SensorsInv, LoopIsLeftStopped
<1>10. QED
  BY <1>1, <1>2, <1>3, <1>4, <1>5, <1>6, <1>7, <1>8, <1>9 DEF SensorsInv

LEMMA SleepForSceneKeeps ==
  ASSUME SensorsInv, SleepForScene
  PROVE  SensorsInv'
<1>1. SensorsTypeOK'
  BY DEF SleepForScene, SensorsInv, SensorsTypeOK
<1>2. InitIsFirst'
  BY DEF SleepForScene, SensorsInv, InitIsFirst
<1>3. FrameIsAskedFor'
  BY DEF SleepForScene, SensorsInv, FrameIsAskedFor, InFrame
<1>4. RequestIsPending'
  BY DEF SleepForScene, SensorsInv, RequestIsPending
<1>5. FrameShowsAsked'
  BY DEF SleepForScene, SensorsInv, FrameShowsAsked, InFrame
<1>6. NewSensorsWait'
  BY DEF SleepForScene, SensorsInv, NewSensorsWait
<1>7. IdsAreFresh'
  BY DEF SleepForScene, SensorsInv, IdsAreFresh
<1>8. PlanIsInTime'
  BY DEF SleepForScene, SensorsInv, PlanIsInTime
<1>9. LoopIsLeftStopped'
  BY DEF SleepForScene, SensorsInv, LoopIsLeftStopped
<1>10. QED
  BY <1>1, <1>2, <1>3, <1>4, <1>5, <1>6, <1>7, <1>8, <1>9 DEF SensorsInv

LEMMA UpdateFromECMKeeps ==
  ASSUME SensorsInv, UpdateFromECM
  PROVE  SensorsInv'
<1>1. SensorsTypeOK'
  <2>1. /\ ecm.step \in Nat /\ ecm.time \in Nat /\ ecm.sensors \in SUBSET Sensor
        /\ collected.sensors \in SUBSET Sensor
    BY DEF SensorsInv, SensorsTypeOK
  <2>2. collected' \in [step : Nat, sensors : SUBSET Sensor]
    BY <2>1 DEF UpdateFromECM
  <2>3. /\ newSensors' \subseteq Sensor /\ removedSensors' \subseteq Sensor
        /\ updateTime' \in Nat
    BY <2>1 DEF UpdateFromECM, SensorsInv, SensorsTypeOK
  <2>4. QED
    BY <2>2, <2>3 DEF UpdateFromECM, SimGoes, SensorsInv, SensorsTypeOK
<1>2. InitIsFirst'
  BY DEF UpdateFromECM, SimGoes, SensorsInv, InitIsFirst
<1>3. FrameIsAskedFor'
  BY DEF UpdateFromECM, SimGoes, SensorsInv, FrameIsAskedFor, InFrame
<1>4. RequestIsPending'
  BY DEF UpdateFromECM, SimGoes, Applied, SensorsInv, RequestIsPending
<1>5. FrameShowsAsked'
  BY DEF UpdateFromECM, SimGoes, SensorsInv, FrameShowsAsked, InFrame
<1>6. NewSensorsWait'
  BY DEF UpdateFromECM, SimGoes, NewSensorsWait
<1>7. IdsAreFresh'
  BY DEF UpdateFromECM, SensorsInv, IdsAreFresh
<1>8. PlanIsInTime'
  BY DEF UpdateFromECM, SensorsInv, PlanIsInTime
<1>9. LoopIsLeftStopped'
  BY DEF UpdateFromECM, SimGoes, SensorsInv, LoopIsLeftStopped
<1>10. QED
  BY <1>1, <1>2, <1>3, <1>4, <1>5, <1>6, <1>7, <1>8, <1>9 DEF SensorsInv

LEMMA DecideKeeps ==
  ASSUME SensorsInv, Decide
  PROVE  SensorsInv'
<1>0. /\ sensorsToUpdate' \subseteq Sensor
      /\ scheduled' \subseteq scheduled \/ scheduled' \subseteq sensorIds
      /\ \A s \in scheduled' : /\ nextUpdateTime' \in Nat
                              /\ nextUpdateTime' <= dataTime[s] + Period[s]
  <2>1. ecm.time \in Nat
    BY DEF SensorsInv, SensorsTypeOK
  <2>2. CASE NextUpdateTime(ecm.time)
    BY <2>1, <2>2, PlannedInTime DEF SensorsInv, Schedulable
  <2>3. CASE UNCHANGED planVars
    BY <2>3 DEF SensorsInv, PlanIsInTime, SensorsTypeOK
  <2>4. QED
    BY <2>2, <2>3 DEF Decide, PlanAgain
<1>1. SensorsTypeOK'
  BY <1>0 DEF Decide, SimGoes, SensorsInv, SensorsTypeOK
<1>2. InitIsFirst'
  BY DEF Decide, SimGoes, SensorsInv, InitIsFirst
<1>3. FrameIsAskedFor'
  BY DEF Decide, SimGoes, SensorsInv, FrameIsAskedFor, InFrame
<1>4. RequestIsPending'
  BY DEF Decide, SimGoes, SensorsInv, RequestIsPending
<1>5. FrameShowsAsked'
  BY DEF Decide, SimGoes, SensorsInv, FrameShowsAsked, InFrame
<1>6. NewSensorsWait'
  BY DEF Decide, SimGoes, FrameWanted, NewSensorsWait
<1>7. IdsAreFresh'
  BY <1>0 DEF Decide, SensorsInv, IdsAreFresh
<1>8. PlanIsInTime'
  BY <1>0 DEF Decide, PlanIsInTime
<1>9. LoopIsLeftStopped'
  BY DEF Decide, SimGoes, SensorsInv, LoopIsLeftStopped
<1>10. QED
  BY <1>1, <1>2, <1>3, <1>4, <1>5, <1>6, <1>7, <1>8, <1>9 DEF SensorsInv

LEMMA SleepForRendererKeeps ==
  ASSUME SensorsInv, SleepForRenderer
  PROVE  SensorsInv'
<1>1. SensorsTypeOK'
  BY DEF SleepForRenderer, SensorsInv, SensorsTypeOK
<1>2. InitIsFirst'
  BY DEF SleepForRenderer, SensorsInv, InitIsFirst
<1>3. FrameIsAskedFor'
  BY DEF SleepForRenderer, SensorsInv, FrameIsAskedFor, InFrame
<1>4. RequestIsPending'
  BY DEF SleepForRenderer, SensorsInv, RequestIsPending
<1>5. FrameShowsAsked'
  BY DEF SleepForRenderer, SensorsInv, FrameShowsAsked, InFrame
<1>6. NewSensorsWait'
  BY DEF SleepForRenderer, NewSensorsWait
<1>7. IdsAreFresh'
  BY DEF SleepForRenderer, SensorsInv, IdsAreFresh
<1>8. PlanIsInTime'
  BY DEF SleepForRenderer, SensorsInv, PlanIsInTime
<1>9. LoopIsLeftStopped'
  BY DEF SleepForRenderer, SensorsInv, LoopIsLeftStopped
<1>10. QED
  BY <1>1, <1>2, <1>3, <1>4, <1>5, <1>6, <1>7, <1>8, <1>9 DEF SensorsInv

LEMMA EndPostUpdateKeeps ==
  ASSUME SensorsInv, EndPostUpdate
  PROVE  SensorsInv'
<1>0. /\ sensorsToUpdate' \subseteq Sensor
      /\ scheduled' \subseteq scheduled \/ scheduled' \subseteq sensorIds
      /\ \A s \in scheduled' : /\ nextUpdateTime' \in Nat
                              /\ nextUpdateTime' <= dataTime[s] + Period[s]
  <2>1. ecm.time \in Nat
    BY DEF SensorsInv, SensorsTypeOK
  <2>2. CASE NextUpdateTime(ecm.time)
    BY <2>1, <2>2, PlannedInTime DEF SensorsInv, Schedulable
  <2>3. CASE UNCHANGED planVars
    BY <2>3 DEF SensorsInv, PlanIsInTime, SensorsTypeOK
  <2>4. QED
    BY <2>2, <2>3 DEF EndPostUpdate, AskForFrame
<1>1. SensorsTypeOK'
  <2>1. /\ activeSensors' \subseteq Sensor
        /\ updateTimeToApply' \in Nat /\ asked' \in Nat
        /\ updateAvailable' \in BOOLEAN
    BY DEF EndPostUpdate, AskForFrame, SensorsInv, SensorsTypeOK
  <2>2. forceUpdate' \in BOOLEAN
    BY DEF EndPostUpdate, AskForFrame, SensorsInv, SensorsTypeOK
  <2>3. blind' \in BOOLEAN
    BY DEF EndPostUpdate, AskForFrame, SensorsInv, SensorsTypeOK
  <2>4. QED
    BY <1>0, <2>1, <2>2, <2>3
      DEF EndPostUpdate, SimGoes, SensorsInv, SensorsTypeOK
<1>2. InitIsFirst'
  BY DEF EndPostUpdate, SimGoes, SensorsInv, InitIsFirst
<1>3. FrameIsAskedFor'
  BY DEF EndPostUpdate, SimGoes, AskForFrame, SensorsInv, FrameIsAskedFor,
         InFrame
<1>4. RequestIsPending'
  <2>1. CASE AskForFrame
    <3>1. simPc' = "idle" /\ renderPc' = renderPc
      BY DEF EndPostUpdate, SimGoes
    <3>2. /\ updateTime' = updateTime /\ updateTimeApplied' = updateTimeApplied
          /\ collected' = collected
      BY DEF EndPostUpdate
    <3>3. QED
      BY <2>1, <3>1, <3>2 DEF AskForFrame, RequestIsPending
  <2>2. CASE UNCHANGED <<updateTimeToApply, updateAvailable, blind, asked>>
    BY <2>2 DEF EndPostUpdate, SimGoes, SensorsInv, RequestIsPending
  <2>3. QED
    BY <2>1, <2>2 DEF EndPostUpdate
<1>5. FrameShowsAsked'
  BY DEF EndPostUpdate, SimGoes, RendererIsDone, AskForFrame, SensorsInv,
         FrameShowsAsked, FrameIsAskedFor, InFrame
<1>6. NewSensorsWait'
  <2>1. CASE AskForFrame
    <3>1. running /\ ~updateAvailable /\ updateAvailable'
      BY <2>1 DEF EndPostUpdate, RendererIsDone, AskForFrame
    <3>2. renderPc = "awaitFrame"
      BY <3>1
        DEF EndPostUpdate, SimGoes, SensorsInv, SensorsTypeOK, InitIsFirst,
            FrameIsAskedFor, InFrame, LoopIsLeftStopped
    <3>3. QED
      BY <3>1, <3>2 DEF EndPostUpdate, SimGoes, NewSensorsWait
  <2>2. CASE ~running
    BY <2>2 DEF EndPostUpdate, NewSensorsWait
  <2>3. QED
    BY <2>1, <2>2 DEF EndPostUpdate
<1>7. IdsAreFresh'
  BY <1>0 DEF EndPostUpdate, SensorsInv, IdsAreFresh
<1>8. PlanIsInTime'
  BY <1>0 DEF EndPostUpdate, PlanIsInTime
<1>9. LoopIsLeftStopped'
  BY DEF EndPostUpdate, SimGoes, SensorsInv, LoopIsLeftStopped
<1>10. QED
  BY <1>1, <1>2, <1>3, <1>4, <1>5, <1>6, <1>7, <1>8, <1>9 DEF SensorsInv

LEMMA SleepForInitKeeps ==
  ASSUME SensorsInv, SleepForInit
  PROVE  SensorsInv'
<1>1. SensorsTypeOK'
  BY DEF SleepForInit, SensorsInv, SensorsTypeOK
<1>2. InitIsFirst'
  BY DEF SleepForInit, SensorsInv, InitIsFirst
<1>3. FrameIsAskedFor'
  BY DEF SleepForInit, FrameIsAskedFor, InFrame
<1>4. RequestIsPending'
  BY DEF SleepForInit, RequestIsPending
<1>5. FrameShowsAsked'
  BY DEF SleepForInit, FrameShowsAsked, InFrame
<1>6. NewSensorsWait'
  BY DEF SleepForInit, SensorsInv, NewSensorsWait
<1>7. IdsAreFresh'
  BY DEF SleepForInit, SensorsInv, IdsAreFresh
<1>8. PlanIsInTime'
  BY DEF SleepForInit, SensorsInv, PlanIsInTime
<1>9. LoopIsLeftStopped'
  BY DEF SleepForInit, LoopIsLeftStopped
<1>10. QED
  BY <1>1, <1>2, <1>3, <1>4, <1>5, <1>6, <1>7, <1>8, <1>9 DEF SensorsInv

LEMMA InitializeKeeps ==
  ASSUME SensorsInv, Initialize
  PROVE  SensorsInv'
<1>1. SensorsTypeOK'
  <2>1. asleep' \subseteq {"sim", "render"}
    BY DEF Initialize, NotifyRenderCv, SensorsInv, SensorsTypeOK
  <2>2. QED
    BY <2>1 DEF Initialize, RenderGoes, SensorsInv, SensorsTypeOK
<1>2. InitIsFirst'
  BY DEF Initialize, RenderGoes, InitIsFirst
<1>3. FrameIsAskedFor'
  BY DEF Initialize, RenderGoes, FrameIsAskedFor, InFrame
<1>4. RequestIsPending'
  BY DEF Initialize, RequestIsPending
<1>5. FrameShowsAsked'
  BY DEF Initialize, RenderGoes, FrameShowsAsked, InFrame
<1>6. NewSensorsWait'
  BY DEF Initialize, RenderGoes, SensorsInv, NewSensorsWait, InitIsFirst
<1>7. IdsAreFresh'
  BY DEF Initialize, SensorsInv, IdsAreFresh
<1>8. PlanIsInTime'
  BY DEF Initialize, SensorsInv, PlanIsInTime
<1>9. LoopIsLeftStopped'
  BY DEF Initialize, RenderGoes, LoopIsLeftStopped
<1>10. QED
  BY <1>1, <1>2, <1>3, <1>4, <1>5, <1>6, <1>7, <1>8, <1>9 DEF SensorsInv

LEMMA StartFrameKeeps ==
  ASSUME SensorsInv, StartFrame
  PROVE  SensorsInv'
<1>1. SensorsTypeOK'
  BY DEF StartFrame, RenderGoes, SensorsInv, SensorsTypeOK
<1>2. InitIsFirst'
  BY DEF StartFrame, RenderGoes, InitIsFirst
<1>3. FrameIsAskedFor'
  BY DEF StartFrame, FrameIsAskedFor
<1>4. RequestIsPending'
  BY DEF StartFrame, RenderGoes, SensorsInv, RequestIsPending
<1>5. FrameShowsAsked'
  BY DEF StartFrame, RenderGoes, FrameShowsAsked, InFrame
<1>6. NewSensorsWait'
  BY DEF StartFrame, RenderGoes, NewSensorsWait
<1>7. IdsAreFresh'
  BY DEF StartFrame, SensorsInv, IdsAreFresh
<1>8. PlanIsInTime'
  BY DEF StartFrame, SensorsInv, PlanIsInTime
<1>9. LoopIsLeftStopped'
  BY DEF StartFrame, RenderGoes, LoopIsLeftStopped
<1>10. QED
  BY <1>1, <1>2, <1>3, <1>4, <1>5, <1>6, <1>7, <1>8, <1>9 DEF SensorsInv

LEMMA LeaveLoopKeeps ==
  ASSUME SensorsInv, LeaveLoop
  PROVE  SensorsInv'
<1>1. SensorsTypeOK'
  BY DEF LeaveLoop, RenderGoes, SensorsInv, SensorsTypeOK
<1>2. InitIsFirst'
  BY DEF LeaveLoop, RenderGoes, InitIsFirst
<1>3. FrameIsAskedFor'
  BY DEF LeaveLoop, RenderGoes, FrameIsAskedFor, InFrame
<1>4. RequestIsPending'
  BY DEF LeaveLoop, RenderGoes, RequestIsPending
<1>5. FrameShowsAsked'
  BY DEF LeaveLoop, RenderGoes, FrameShowsAsked, InFrame
<1>6. NewSensorsWait'
  BY DEF LeaveLoop, NewSensorsWait
<1>7. IdsAreFresh'
  BY DEF LeaveLoop, SensorsInv, IdsAreFresh
<1>8. PlanIsInTime'
  BY DEF LeaveLoop, SensorsInv, PlanIsInTime
<1>9. LoopIsLeftStopped'
  BY DEF LeaveLoop, LoopIsLeftStopped
<1>10. QED
  BY <1>1, <1>2, <1>3, <1>4, <1>5, <1>6, <1>7, <1>8, <1>9 DEF SensorsInv

LEMMA TakeChangesKeeps ==
  ASSUME SensorsInv, TakeChanges
  PROVE  SensorsInv'
<1>1. SensorsTypeOK'
  BY DEF TakeChanges, RenderGoes, SensorsInv, SensorsTypeOK
<1>2. InitIsFirst'
  BY DEF TakeChanges, RenderGoes, InitIsFirst
<1>3. FrameIsAskedFor'
  BY DEF TakeChanges, RenderGoes, SensorsInv, FrameIsAskedFor
<1>4. RequestIsPending'
  BY DEF TakeChanges, RenderGoes, SensorsInv, RequestIsPending
<1>5. FrameShowsAsked'
  BY DEF TakeChanges, RenderGoes, FrameShowsAsked, InFrame
<1>6. NewSensorsWait'
  BY DEF TakeChanges, NewSensorsWait
<1>7. IdsAreFresh'
  BY DEF TakeChanges, SensorsInv, IdsAreFresh
<1>8. PlanIsInTime'
  BY DEF TakeChanges, SensorsInv, PlanIsInTime
<1>9. LoopIsLeftStopped'
  BY DEF TakeChanges, RenderGoes, LoopIsLeftStopped
<1>10. QED
  BY <1>1, <1>2, <1>3, <1>4, <1>5, <1>6, <1>7, <1>8, <1>9 DEF SensorsInv

LEMMA ApplyChangesKeeps ==
  ASSUME SensorsInv, ApplyChanges
  PROVE  SensorsInv'
<1>1. SensorsTypeOK'
  <2>1. /\ making.new \in SUBSET Sensor /\ making.removed \in SUBSET Sensor
        /\ collected.step \in Nat
    BY DEF SensorsInv, SensorsTypeOK
  <2>2. making' \in [new : SUBSET Sensor, removed : SUBSET Sensor]
    BY DEF ApplyChanges
  <2>3. sensorIds' \subseteq Sensor /\ dataTime' \in [Sensor -> Nat]
    BY <2>1 DEF ApplyChanges, CreateSensors, SensorsInv, SensorsTypeOK
  <2>4. activeSensors' \subseteq Sensor /\ sensorsToUpdate' \subseteq Sensor
    BY DEF ApplyChanges, RemoveFromPlans, SensorsInv, SensorsTypeOK
  <2>5. asleep' \subseteq {"sim", "render"}
    BY DEF ApplyChanges, SensorsInv, SensorsTypeOK
  <2>6. QED
    BY <2>1, <2>2, <2>3, <2>4, <2>5
      DEF ApplyChanges, RenderGoes, SensorsInv, SensorsTypeOK
<1>2. InitIsFirst'
  BY DEF ApplyChanges, RenderGoes, InitIsFirst
<1>3. FrameIsAskedFor'
  BY DEF ApplyChanges, RenderGoes, SensorsInv, FrameIsAskedFor
<1>4. RequestIsPending'
  BY DEF ApplyChanges, RenderGoes, RequestIsPending
<1>5. FrameShowsAsked'
  BY DEF ApplyChanges, RenderGoes, SensorsInv, FrameShowsAsked, FrameIsAskedFor,
         RequestIsPending
<1>6. NewSensorsWait'
  BY DEF ApplyChanges, RenderGoes, SensorsInv, NewSensorsWait
<1>7. IdsAreFresh'
  BY DEF ApplyChanges, CreateSensors, SensorsInv, IdsAreFresh
<1>8. PlanIsInTime'
  BY DEF ApplyChanges, CreateSensors, SensorsInv, SensorsTypeOK, PlanIsInTime,
         IdsAreFresh
<1>9. LoopIsLeftStopped'
  BY DEF ApplyChanges, RenderGoes, LoopIsLeftStopped
<1>10. QED
  BY <1>1, <1>2, <1>3, <1>4, <1>5, <1>6, <1>7, <1>8, <1>9 DEF SensorsInv

LEMMA BeginFrameKeeps ==
  ASSUME SensorsInv, BeginFrame
  PROVE  SensorsInv'
<1>1. SensorsTypeOK'
  BY DEF BeginFrame, RenderGoes, SensorsInv, SensorsTypeOK
<1>2. InitIsFirst'
  BY DEF BeginFrame, RenderGoes, InitIsFirst
<1>3. FrameIsAskedFor'
  BY DEF BeginFrame, RenderGoes, SensorsInv, FrameIsAskedFor, InFrame
<1>4. RequestIsPending'
  BY DEF BeginFrame, RenderGoes, RequestIsPending
<1>5. FrameShowsAsked'
  BY DEF BeginFrame, RenderGoes, SensorsInv, FrameShowsAsked, InFrame
<1>6. NewSensorsWait'
  BY DEF BeginFrame, RenderGoes, SensorsInv, NewSensorsWait
<1>7. IdsAreFresh'
  BY DEF BeginFrame, SensorsInv, IdsAreFresh
<1>8. PlanIsInTime'
  BY DEF BeginFrame, SensorsInv, PlanIsInTime
<1>9. LoopIsLeftStopped'
  BY DEF BeginFrame, RenderGoes, LoopIsLeftStopped
<1>10. QED
  BY <1>1, <1>2, <1>3, <1>4, <1>5, <1>6, <1>7, <1>8, <1>9 DEF SensorsInv

LEMMA PublishKeeps ==
  ASSUME SensorsInv, Publish
  PROVE  SensorsInv'
<1>1. SensorsTypeOK'
  <2>1. \A s \in Sensor : dataTime[s] + Period[s] \in Nat
    BY SensorsAssumption DEF SensorsInv, SensorsTypeOK
  <2>2. dataTime' \in [Sensor -> Nat]
    BY <2>1 DEF Publish, SensorsInv, SensorsTypeOK
  <2>3. QED
    BY <2>2 DEF Publish, RenderGoes, SensorsInv, SensorsTypeOK
<1>2. InitIsFirst'
  BY DEF Publish, RenderGoes, InitIsFirst
<1>3. FrameIsAskedFor'
  BY DEF Publish, RenderGoes, SensorsInv, FrameIsAskedFor, InFrame
<1>4. RequestIsPending'
  BY DEF Publish, RenderGoes, RequestIsPending
<1>5. FrameShowsAsked'
  BY DEF Publish, RenderGoes, SensorsInv, FrameShowsAsked, InFrame
<1>6. NewSensorsWait'
  BY DEF Publish, RenderGoes, SensorsInv, NewSensorsWait
<1>7. IdsAreFresh'
  BY DEF Publish, SensorsInv, IdsAreFresh
<1>8. PlanIsInTime'
  BY SensorsAssumption DEF Publish, SensorsInv, SensorsTypeOK, PlanIsInTime
<1>9. LoopIsLeftStopped'
  BY DEF Publish, RenderGoes, LoopIsLeftStopped
<1>10. QED
  BY <1>1, <1>2, <1>3, <1>4, <1>5, <1>6, <1>7, <1>8, <1>9 DEF SensorsInv

LEMMA EndFrameKeeps ==
  ASSUME SensorsInv, EndFrame
  PROVE  SensorsInv'
<1>1. SensorsTypeOK'
  <2>1. asleep' \subseteq {"sim", "render"}
    BY DEF EndFrame, NotifyRenderCv, SensorsInv, SensorsTypeOK
  <2>2. /\ activeSensors' \subseteq Sensor
        /\ forceUpdate' \in BOOLEAN /\ updateAvailable' \in BOOLEAN
    BY DEF EndFrame
  <2>3. renderPc' = "awaitFrame" /\ UNCHANGED <<simPc, stopPc>>
    BY DEF EndFrame, RenderGoes
  <2>4. QED
    BY <2>1, <2>2, <2>3 DEF EndFrame, SensorsInv, SensorsTypeOK
<1>2. InitIsFirst'
  BY DEF EndFrame, RenderGoes, InitIsFirst
<1>3. FrameIsAskedFor'
  BY DEF EndFrame, RenderGoes, FrameIsAskedFor, InFrame
<1>4. RequestIsPending'
  BY DEF EndFrame, RequestIsPending
<1>5. FrameShowsAsked'
  BY DEF EndFrame, RenderGoes, FrameShowsAsked, InFrame
<1>6. NewSensorsWait'
  BY DEF EndFrame, RenderGoes, SensorsInv, NewSensorsWait
<1>7. IdsAreFresh'
  BY DEF EndFrame, SensorsInv, IdsAreFresh
<1>8. PlanIsInTime'
  BY DEF EndFrame, SensorsInv, PlanIsInTime
<1>9. LoopIsLeftStopped'
  BY DEF EndFrame, RenderGoes, LoopIsLeftStopped
<1>10. QED
  BY <1>1, <1>2, <1>3, <1>4, <1>5, <1>6, <1>7, <1>8, <1>9 DEF SensorsInv

LEMMA ForceRenderKeeps ==
  ASSUME SensorsInv, ForceRender
  PROVE  SensorsInv'
<1>1. SensorsTypeOK'
  BY DEF ForceRender, SensorsInv, SensorsTypeOK
<1>2. InitIsFirst'
  BY DEF ForceRender, SensorsInv, InitIsFirst
<1>3. FrameIsAskedFor'
  BY DEF ForceRender, SensorsInv, FrameIsAskedFor, InFrame
<1>4. RequestIsPending'
  BY DEF ForceRender, SensorsInv, RequestIsPending
<1>5. FrameShowsAsked'
  BY DEF ForceRender, SensorsInv, FrameShowsAsked, InFrame
<1>6. NewSensorsWait'
  BY DEF ForceRender, SensorsInv, NewSensorsWait
<1>7. IdsAreFresh'
  BY DEF ForceRender, SensorsInv, IdsAreFresh
<1>8. PlanIsInTime'
  BY DEF ForceRender, SensorsInv, PlanIsInTime
<1>9. LoopIsLeftStopped'
  BY DEF ForceRender, SensorsInv, LoopIsLeftStopped
<1>10. QED
  BY <1>1, <1>2, <1>3, <1>4, <1>5, <1>6, <1>7, <1>8, <1>9 DEF SensorsInv

LEMMA SubscriptionKeeps ==
  ASSUME SensorsInv, NEW s \in Sensor, Subscription(s)
  PROVE  SensorsInv'
<1>1. SensorsTypeOK'
  BY DEF Subscription, SensorsInv, SensorsTypeOK
<1>2. InitIsFirst'
  BY DEF Subscription, SensorsInv, InitIsFirst
<1>3. FrameIsAskedFor'
  BY DEF Subscription, SensorsInv, FrameIsAskedFor, InFrame
<1>4. RequestIsPending'
  BY DEF Subscription, SensorsInv, RequestIsPending
<1>5. FrameShowsAsked'
  BY DEF Subscription, SensorsInv, FrameShowsAsked, InFrame
<1>6. NewSensorsWait'
  BY DEF Subscription, SensorsInv, NewSensorsWait
<1>7. IdsAreFresh'
  BY DEF Subscription, SensorsInv, IdsAreFresh
<1>8. PlanIsInTime'
  BY DEF Subscription, SensorsInv, PlanIsInTime
<1>9. LoopIsLeftStopped'
  BY DEF Subscription, SensorsInv, LoopIsLeftStopped
<1>10. QED
  BY <1>1, <1>2, <1>3, <1>4, <1>5, <1>6, <1>7, <1>8, <1>9 DEF SensorsInv

LEMMA StopKeeps ==
  ASSUME SensorsInv, Stop
  PROVE  SensorsInv'
<1>1. SensorsTypeOK'
  <2>1. asleep' \subseteq {"sim", "render"}
    BY DEF Stop, SensorsInv, SensorsTypeOK
  <2>2. running' \in BOOLEAN /\ stopPc' \in {"none", "join", "stopped"}
    BY DEF Stop
  <2>3. /\ UNCHANGED <<simPc, renderPc, initialized, doInit, updateAvailable, forceUpdate,
                      dataVars, workVars, bookVars>>
    BY DEF Stop
  <2>4. QED
    BY <2>1, <2>2, <2>3 DEF SensorsInv, SensorsTypeOK
<1>2. InitIsFirst'
  BY DEF Stop, SensorsInv, InitIsFirst
<1>3. FrameIsAskedFor'
  BY DEF Stop, SensorsInv, FrameIsAskedFor, InFrame
<1>4. RequestIsPending'
  BY DEF Stop, SensorsInv, RequestIsPending
<1>5. FrameShowsAsked'
  BY DEF Stop, SensorsInv, FrameShowsAsked, InFrame
<1>6. NewSensorsWait'
  BY DEF Stop, NewSensorsWait
<1>7. IdsAreFresh'
  BY DEF Stop, SensorsInv, IdsAreFresh
<1>8. PlanIsInTime'
  BY DEF Stop, SensorsInv, PlanIsInTime
<1>9. LoopIsLeftStopped'
  BY DEF Stop, LoopIsLeftStopped
<1>10. QED
  BY <1>1, <1>2, <1>3, <1>4, <1>5, <1>6, <1>7, <1>8, <1>9 DEF SensorsInv

LEMMA JoinRendererKeeps ==
  ASSUME SensorsInv, JoinRenderer
  PROVE  SensorsInv'
<1>1. SensorsTypeOK'
  BY DEF JoinRenderer, SensorsInv, SensorsTypeOK
<1>2. InitIsFirst'
  BY DEF JoinRenderer, InitIsFirst
<1>3. FrameIsAskedFor'
  BY DEF JoinRenderer, FrameIsAskedFor, InFrame
<1>4. RequestIsPending'
  BY DEF JoinRenderer, RequestIsPending
<1>5. FrameShowsAsked'
  BY DEF JoinRenderer, FrameShowsAsked, InFrame
<1>6. NewSensorsWait'
  BY DEF JoinRenderer, SensorsInv, NewSensorsWait
<1>7. IdsAreFresh'
  BY DEF JoinRenderer, SensorsInv, IdsAreFresh
<1>8. PlanIsInTime'
  BY DEF JoinRenderer, SensorsInv, PlanIsInTime
<1>9. LoopIsLeftStopped'
  BY DEF JoinRenderer, SensorsInv, LoopIsLeftStopped
<1>10. QED
  BY <1>1, <1>2, <1>3, <1>4, <1>5, <1>6, <1>7, <1>8, <1>9 DEF SensorsInv

LEMMA SpuriousWakeupKeeps ==
  ASSUME SensorsInv, NEW t \in {"sim", "render"}, SpuriousWakeup(t)
  PROVE  SensorsInv'
<1>1. SensorsTypeOK'
  BY DEF SpuriousWakeup, SensorsInv, SensorsTypeOK
<1>2. InitIsFirst'
  BY DEF SpuriousWakeup, SensorsInv, InitIsFirst
<1>3. FrameIsAskedFor'
  BY DEF SpuriousWakeup, SensorsInv, FrameIsAskedFor, InFrame
<1>4. RequestIsPending'
  BY DEF SpuriousWakeup, SensorsInv, RequestIsPending
<1>5. FrameShowsAsked'
  BY DEF SpuriousWakeup, SensorsInv, FrameShowsAsked, InFrame
<1>6. NewSensorsWait'
  BY DEF SpuriousWakeup, SensorsInv, NewSensorsWait
<1>7. IdsAreFresh'
  BY DEF SpuriousWakeup, SensorsInv, IdsAreFresh
<1>8. PlanIsInTime'
  BY DEF SpuriousWakeup, SensorsInv, PlanIsInTime
<1>9. LoopIsLeftStopped'
  BY DEF SpuriousWakeup, SensorsInv, LoopIsLeftStopped
<1>10. QED
  BY <1>1, <1>2, <1>3, <1>4, <1>5, <1>6, <1>7, <1>8, <1>9 DEF SensorsInv

LEMMA SensorsInitInv == SensorsInit => SensorsInv
<1> SUFFICES ASSUME SensorsInit PROVE SensorsInv
  OBVIOUS
<1>1. SensorsTypeOK
  <2>1. dataTime \in [Sensor -> Nat]
    BY DEF SensorsInit
  <2>2. /\ ecm \in [step : Nat, time : Nat, resets : Nat, sensors : SUBSET Sensor,
                    gone : SUBSET Sensor]
        /\ collected \in [step : Nat, sensors : SUBSET Sensor]
        /\ making \in [new : SUBSET Sensor, removed : SUBSET Sensor]
    BY DEF SensorsInit
  <2>3. QED
    BY <2>1, <2>2 DEF SensorsInit, SensorsTypeOK
<1>2. /\ InitIsFirst /\ FrameIsAskedFor /\ RequestIsPending /\ FrameShowsAsked
      /\ NewSensorsWait /\ LoopIsLeftStopped
  BY DEF SensorsInit, InitIsFirst, FrameIsAskedFor, RequestIsPending,
         FrameShowsAsked, NewSensorsWait, LoopIsLeftStopped, InFrame
<1>3. IdsAreFresh /\ PlanIsInTime
  BY DEF SensorsInit, IdsAreFresh, PlanIsInTime
<1>4. QED
  BY <1>1, <1>2, <1>3 DEF SensorsInv

LEMMA SensorsNextInv == SensorsInv /\ [SensorsNext]_sensorsVars => SensorsInv'
<1> SUFFICES ASSUME SensorsInv, [SensorsNext]_sensorsVars PROVE SensorsInv'
  OBVIOUS
<1>1. CASE Sim
  BY <1>1, BeginStepKeeps, ResetSensorsKeeps, ResetTimesKeeps, RequestInitKeeps,
     TestRunningKeeps, SleepForSceneKeeps, UpdateFromECMKeeps, DecideKeeps,
     SleepForRendererKeeps, EndPostUpdateKeeps
    DEF Sim
<1>2. CASE Render
  BY <1>2, SleepForInitKeeps, InitializeKeeps, StartFrameKeeps, LeaveLoopKeeps,
     TakeChangesKeeps, ApplyChangesKeeps, BeginFrameKeeps, PublishKeeps,
     EndFrameKeeps
    DEF Render
<1>3. CASE Stop \/ JoinRenderer \/ ForceRender
  BY <1>3, StopKeeps, JoinRendererKeeps, ForceRenderKeeps
<1>4. CASE \E s \in Sensor : Subscription(s)
  BY <1>4, SubscriptionKeeps
<1>5. CASE \E t \in {"sim", "render"} : SpuriousWakeup(t)
  BY <1>5, SpuriousWakeupKeeps
<1>6. CASE UNCHANGED sensorsVars
  BY <1>6
    DEF sensorsVars, SensorsInv, SensorsTypeOK, InitIsFirst, FrameIsAskedFor,
        RequestIsPending, FrameShowsAsked, NewSensorsWait, LoopIsLeftStopped,
        IdsAreFresh, PlanIsInTime, InFrame
<1>7. QED
  BY <1>1, <1>2, <1>3, <1>4, <1>5, <1>6 DEF SensorsNext

LEMMA SensorsAreSound == SensorsSpec => []SensorsInv
<1>1. QED
  BY SensorsInitInv, SensorsNextInv, PTL DEF SensorsSpec

(* A frame shows the entities as they were in the step that asked for it,  *)
(* and nobody walks the set of sensors while the renderer changes it,      *)
(* unless the times that PostUpdate compares cannot tell.                  *)
THEOREM FramesShowTheirStep == SensorsSpec => []SceneIsAwaited
<1>1. SensorsInv => SceneIsAwaited
  BY DEF SensorsInv, FrameIsAskedFor, RequestIsPending, FrameShowsAsked,
         SceneIsAwaited
<1>2. QED
  BY <1>1, SensorsAreSound, PTL

(* When PostUpdate has returned, every sensor that waits for its creation  *)
(* is created by the frame that was asked for.                             *)
THEOREM NewSensorsGetAFrame == SensorsSpec => []NewSensorsAreMade
<1>1. SensorsInv => NewSensorsAreMade
  BY DEF SensorsInv, NewSensorsWait, NewSensorsAreMade
<1>2. QED
  BY <1>1, SensorsAreSound, PTL

(* PostUpdate does without a frame only while no sensor of its plan is a   *)
(* whole period late.                                                      *)
THEOREM PlansAreKept == SensorsSpec => NobodyIsLate
<1>1. SensorsInv /\ SensorsInv' /\ [SensorsNext]_sensorsVars =>
        [simPc = "decide" /\ simPc' = "idle" =>
           \A s \in scheduled' \cap sensorIds \cap connected :
             dataTime[s] + Period[s] > ecm.time]_sensorsVars
  <2> SUFFICES ASSUME SensorsInv, SensorsInv', SensorsNext,
                      simPc = "decide", simPc' = "idle", NEW s \in scheduled'
               PROVE  dataTime[s] + Period[s] > ecm.time
    OBVIOUS
  <2>1. Decide
    BY DEF SensorsNext, Sim, Render, BeginStep, ResetSensors, ResetTimes,
           RequestInit, TestRunning, SleepForScene, UpdateFromECM,
           SleepForRenderer, EndPostUpdate, SleepForInit, Initialize,
           StartFrame, LeaveLoop, TakeChanges, ApplyChanges, BeginFrame,
           Publish, EndFrame, Stop, JoinRenderer, ForceRender, Subscription,
           SpuriousWakeup, SimGoes, RenderGoes
  <2>2. ~(nextUpdateTime' <= ecm.time) /\ dataTime' = dataTime
    BY <2>1 DEF Decide, SimGoes, FrameWanted
  <2>3. nextUpdateTime' \in Nat /\ nextUpdateTime' <= dataTime[s] + Period[s]
    BY <2>2 DEF SensorsInv, PlanIsInTime
  <2>4. ecm.time \in Nat /\ dataTime[s] \in Nat /\ Period[s] \in Nat
    BY <2>2, SensorsAssumption DEF SensorsInv, SensorsTypeOK
  <2>5. QED
    BY <2>2, <2>3, <2>4
<1>2. QED
  BY <1>1, SensorsAreSound, SensorsNextInv, PTL DEF SensorsSpec, NobodyIsLate

================================================================================
