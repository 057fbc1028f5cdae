----------------------------- MODULE ThreadProofs -----------------------------
(***************************************************************************)
(* Proofs about what threads share at a low level: gz::sim::Barrier, for   *)
(* any number of threads, any width of the generation number, any rounds   *)
(* and cancellations; and the views that several threads iterate at once   *)
(* (ParallelEach), for any number of threads, views and entities.  The two *)
(* parts use nothing of each other.                                        *)
(***************************************************************************)
EXTENDS BarrierClients, ParallelEach, FiniteSetTheorems, TLAPS

(* There is at least one thread, and finitely many.                        *)
LEMMA SomeThreads == Cardinality(Threads) \in Nat \ {0}
BY FS_CardinalityType, FS_EmptySet, BarrierAssumption, ClientsAssumption

(* A countdown that counts the threads missing from S is 1 only when the   *)
(* one thread outside of S is the last: Wait's `--count == 0`.             *)
LEMMA LastIsLast ==
  ASSUME NEW S \in SUBSET Threads, NEW t \in Threads, t \notin S,
         Cardinality(Threads) - Cardinality(S) = 1
  PROVE  \A u \in Threads : u = t \/ u \in S
<1>1. IsFiniteSet(S) /\ Cardinality(S) \in Nat
  BY FS_Subset, FS_CardinalityType, BarrierAssumption
<1>2. Cardinality(S \cup {t}) = Cardinality(S) + 1
  BY <1>1, FS_AddElement
<1>3. Cardinality(S \cup {t}) = Cardinality(Threads)
  BY <1>1, <1>2, SomeThreads
<1>4. S \cup {t} = Threads
  BY <1>3, FS_Subset, BarrierAssumption
<1>5. QED
  BY <1>4

(* Counting in a thread that was missing makes one fewer missing.          *)
LEMMA ArrivalCounts ==
  ASSUME NEW S \in SUBSET Threads, NEW t \in Threads, t \notin S
  PROVE  /\ Cardinality(S) \in Nat
         /\ Cardinality(S \cup {t}) = Cardinality(S) + 1
         /\ Cardinality(S \cup {t}) <= Cardinality(Threads)
<1>1. IsFiniteSet(S) /\ Cardinality(S) \in Nat
  BY FS_Subset, FS_CardinalityType, BarrierAssumption
<1>2. S \cup {t} \in SUBSET Threads
  OBVIOUS
<1>3. QED
  BY <1>1, <1>2, FS_AddElement, FS_Subset, BarrierAssumption

(* Two generations in a row have different numbers, wrapped around or not. *)
LEMMA GenerationMoves ==
  ASSUME NEW g \in 0..(GenModulus - 1)
  PROVE  /\ (g + 1) % GenModulus \in 0..(GenModulus - 1)
         /\ (g + 1) % GenModulus # g
<1>1. CASE g + 1 = GenModulus
  <2>1. (g + 1) % GenModulus = 0
    BY <1>1
  <2>2. QED
    BY <1>1, <2>1, BarrierAssumption
<1>2. CASE g + 1 < GenModulus
  <2>1. (g + 1) % GenModulus = g + 1
    BY <1>2, BarrierAssumption
  <2>2. QED
    BY <1>2, <2>1, BarrierAssumption
<1>3. QED
  BY <1>1, <1>2, BarrierAssumption

-------------------------------------------------------------------------------

LEMMA InitInv == Init => BarrierInv
<1> SUFFICES ASSUME Init PROVE BarrierInv
  OBVIOUS
<1> USE BarrierAssumption DEF Init, BarrierInit
<1>1. TypeOK
  <2>1. cancelled \in BOOLEAN
    BY Zenon
  <2>2. /\ threadCount \in Nat \ {0} /\ threadCount = Cardinality(Threads)
        /\ count \in 1..threadCount
    BY SomeThreads
  <2>3. 0 \in 0..(GenModulus - 1)
    OBVIOUS
  <2>4. generation \in 0..(GenModulus - 1) /\ gen \in [Threads -> 0..(GenModulus - 1)]
    BY <2>3
  <2>5. at \in [Threads -> Location] /\ status \in [Threads -> ExitStatus \cup {"NONE"}]
    BY DEF Location
  <2>6. QED
    BY <2>1, <2>2, <2>4, <2>5 DEF TypeOK, BarrierTypeOK
<1>2. InGeneration = {}
  BY DEF InGeneration
<1>3. RoundsInStep
  BY DEF RoundsInStep, Waiting
<1>4. CountIsMissing
  BY <1>1, <1>2, FS_EmptySet DEF CountIsMissing, TypeOK, BarrierTypeOK
<1>5. InGenerationStays /\ ReleasedCanLeave /\ NoLostWakeup
  BY <1>2 DEF InGenerationStays, ReleasedCanLeave, NoLostWakeup, Waiting
<1>6. QED
  BY <1>1, <1>3, <1>4, <1>5 DEF BarrierInv

LEMMA CallWaitInv ==
  ASSUME BarrierInv, NEW t \in Threads, CallWait(t)
  PROVE  BarrierInv'
<1> USE DEF CallWait, WaitCancelled, WaitBegin, Open, historyVars, BarrierInv
<1>1. TypeOK'
  BY DEF TypeOK, BarrierTypeOK, Location, ExitStatus
<1>2. InGeneration' = InGeneration
  BY DEF InGeneration
<1>3. RoundsInStep'
  BY DEF RoundsInStep, Waiting, TypeOK, BarrierTypeOK
<1>4. CountIsMissing'
  BY <1>2 DEF CountIsMissing
<1>5. InGenerationStays'
  BY <1>2 DEF InGenerationStays, InGeneration, Waiting, TypeOK, BarrierTypeOK
<1>6. ReleasedCanLeave' /\ NoLostWakeup'
  BY <1>2 DEF ReleasedCanLeave, NoLostWakeup, Waiting, TypeOK, BarrierTypeOK
<1>7. QED
  BY <1>1, <1>3, <1>4, <1>5, <1>6

LEMMA LastInv ==
  ASSUME BarrierInv, NEW t \in Threads, Last(t)
  PROVE  BarrierInv'
<1> USE DEF BarrierInv, Last, ArriveLast, FullCount
<1>1. t \notin InGeneration
  BY DEF InGenerationStays, Waiting
<1>2. \A u \in Threads : u = t \/ u \in InGeneration
  <2>1. count = 1
    OBVIOUS
  <2>2. Cardinality(Threads) - Cardinality(InGeneration) = 1
    BY <2>1 DEF CountIsMissing, TypeOK
  <2>3. QED
    BY <1>1, <2>2, LastIsLast DEF InGeneration
<1>3. \A u \in Threads : arrived'[u] = lasts'
  BY <1>1, <1>2 DEF RoundsInStep, InGeneration, Bump, TypeOK
<1>4. NextGeneration \in 0..(GenModulus - 1) /\ NextGeneration # generation
  BY GenerationMoves DEF NextGeneration, TypeOK, BarrierTypeOK
<1>5. TypeOK'
  BY <1>4 DEF TypeOK, BarrierTypeOK, Location, ExitStatus, NotifyAll, Bump
<1>6. InGeneration' = {}
  BY <1>3, <1>5 DEF InGeneration, TypeOK
<1>7. RoundsInStep'
  BY <1>1, <1>3, <1>5 DEF RoundsInStep, Waiting, NotifyAll, Bump, TypeOK
<1>8. CountIsMissing'
  BY <1>6, FS_EmptySet DEF CountIsMissing, TypeOK, BarrierTypeOK
<1>9. InGenerationStays'
  BY <1>6 DEF InGenerationStays
<1>10. ReleasedCanLeave'
  <2> SUFFICES ASSUME NEW u \in Threads, Waiting(u)'
               PROVE  gen'[u] # generation' \/ cancelled'
    BY DEF ReleasedCanLeave
  <2>1. u # t /\ u \in InGeneration
    BY <1>2 DEF Waiting, NotifyAll
  <2>2. gen[u] = generation \/ cancelled
    BY <2>1 DEF InGenerationStays
  <2>3. QED
    BY <1>4, <2>1, <2>2
<1>11. NoLostWakeup'
  BY DEF NoLostWakeup, NotifyAll
<1>12. QED
  BY <1>5, <1>7, <1>8, <1>9, <1>10, <1>11

LEMMA ArriveInv ==
  ASSUME BarrierInv, NEW t \in Threads, Arrive(t)
  PROVE  BarrierInv'
<1> USE DEF BarrierInv, Arrive, ArriveAndSleep, ArriveCancelled
<1>1. t \notin InGeneration
  BY DEF InGenerationStays, Waiting
<1>2. arrived[t] = lasts
  BY <1>1 DEF RoundsInStep, InGeneration
<1>3. InGeneration' = InGeneration \cup {t}
  BY <1>2 DEF InGeneration, Bump, TypeOK
<1>4. TypeOK'
  BY DEF TypeOK, BarrierTypeOK, Location, ExitStatus, Bump
<1>5. RoundsInStep'
  BY <1>2 DEF RoundsInStep, Waiting, Bump, TypeOK, BarrierTypeOK
<1>6. CountIsMissing'
  <2>1. InGeneration \in SUBSET Threads
    BY DEF InGeneration
  <2>2. Cardinality(InGeneration) \in Nat
        /\ Cardinality(InGeneration') = Cardinality(InGeneration) + 1
    BY <1>1, <1>3, <2>1, ArrivalCounts
  <2>3. QED
    BY <2>2 DEF CountIsMissing, TypeOK, BarrierTypeOK
<1>7. InGenerationStays'
  <2> SUFFICES ASSUME NEW u \in InGeneration'
               PROVE  \/ Waiting(u)' /\ (gen'[u] = generation' \/ cancelled')
                      \/ at'[u] = "out" /\ cancelled'
    BY DEF InGenerationStays
  <2>1. u \in Threads
    BY DEF InGeneration
  <2>2. CASE u = t
    BY <2>1, <2>2 DEF Waiting, TypeOK, BarrierTypeOK
  <2>3. CASE u # t
    BY <1>3, <2>1, <2>3 DEF InGenerationStays, Waiting, TypeOK, BarrierTypeOK
  <2>4. QED
    BY <2>2, <2>3
<1>8. ReleasedCanLeave'
  BY <1>3 DEF ReleasedCanLeave, Waiting, TypeOK, BarrierTypeOK
<1>9. NoLostWakeup'
  BY DEF NoLostWakeup, TypeOK, BarrierTypeOK
<1>10. QED
  BY <1>4, <1>5, <1>6, <1>7, <1>8, <1>9

LEMMA ReturnInv ==
  ASSUME BarrierInv, NEW t \in Threads, Return(t)
  PROVE  BarrierInv'
<1> USE DEF BarrierInv, Return, Leave, Released
<1>1. TypeOK'
  BY DEF TypeOK, BarrierTypeOK, Location, ExitStatus, Bump
<1>2. InGeneration' = InGeneration
  BY DEF InGeneration
<1>3. ~cancelled => t \notin InGeneration
  BY DEF InGenerationStays
<1>4. RoundsInStep'
  BY <1>3 DEF RoundsInStep, InGeneration, Waiting, Bump, TypeOK, BarrierTypeOK
<1>5. CountIsMissing'
  BY <1>2 DEF CountIsMissing
<1>6. InGenerationStays'
  <2> SUFFICES ASSUME NEW u \in InGeneration
               PROVE  \/ Waiting(u)' /\ (gen'[u] = generation' \/ cancelled')
                      \/ at'[u] = "out" /\ cancelled'
    BY <1>2 DEF InGenerationStays
  <2>1. u \in Threads
    BY DEF InGeneration
  <2>2. QED
    BY <1>3, <2>1 DEF InGenerationStays, Waiting
<1>7. ReleasedCanLeave' /\ NoLostWakeup'
  BY <1>2 DEF ReleasedCanLeave, NoLostWakeup, Waiting
<1>8. QED
  BY <1>1, <1>4, <1>5, <1>6, <1>7

LEMMA DozeInv ==
  ASSUME BarrierInv, NEW t \in Threads, Doze(t)
  PROVE  BarrierInv'
<1> USE DEF BarrierInv, Doze, SleepAgain, Released, SpuriousWakeup, historyVars
<1>1. TypeOK'
  BY DEF TypeOK, BarrierTypeOK, Location
<1>2. InGeneration' = InGeneration
  BY DEF InGeneration
<1>3. RoundsInStep'
  BY DEF RoundsInStep, Waiting, TypeOK, BarrierTypeOK
<1>4. CountIsMissing'
  BY <1>2 DEF CountIsMissing
<1>5. InGenerationStays'
  BY <1>2 DEF InGenerationStays, InGeneration, Waiting, TypeOK, BarrierTypeOK
<1>6. ReleasedCanLeave' /\ NoLostWakeup'
  BY <1>2 DEF ReleasedCanLeave, NoLostWakeup, Waiting, TypeOK, BarrierTypeOK
<1>7. QED
  BY <1>1, <1>3, <1>4, <1>5, <1>6

LEMMA CancelInv ==
  ASSUME BarrierInv, CallCancel
  PROVE  BarrierInv'
<1> USE DEF BarrierInv, CallCancel, Cancel
<1>1. NextGeneration \in 0..(GenModulus - 1)
  BY GenerationMoves DEF NextGeneration, TypeOK, BarrierTypeOK
<1>2. TypeOK'
  BY <1>1 DEF TypeOK, BarrierTypeOK, Location, NotifyAll
<1>3. InGeneration' = InGeneration
  BY DEF InGeneration
<1>4. RoundsInStep'
  BY DEF RoundsInStep, Waiting, NotifyAll
<1>5. CountIsMissing'
  BY <1>3 DEF CountIsMissing
<1>6. InGenerationStays'
  BY <1>3 DEF InGenerationStays, InGeneration, Waiting, NotifyAll
<1>7. ReleasedCanLeave' /\ NoLostWakeup'
  BY DEF ReleasedCanLeave, NoLostWakeup, NotifyAll
<1>8. QED
  BY <1>2, <1>4, <1>5, <1>6, <1>7

LEMMA StutterInv ==
  ASSUME BarrierInv, UNCHANGED vars
  PROVE  BarrierInv'
BY DEF vars, barrierVars, historyVars, BarrierInv, TypeOK, BarrierTypeOK,
       RoundsInStep, CountIsMissing, InGenerationStays, InGeneration,
       ReleasedCanLeave, NoLostWakeup, Waiting

(* The inductive invariant holds of every behaviour of the barrier and its *)
(* clients; CountIsMissing, ReleasedCanLeave and NoLostWakeup are parts.   *)
THEOREM BarrierIsSound == Spec => []BarrierInv
<1>1. BarrierInv /\ [Next]_vars => BarrierInv'
  <2> SUFFICES ASSUME BarrierInv, [Next]_vars PROVE BarrierInv'
    OBVIOUS
  <2>1. ASSUME NEW t \in Threads,
               CallWait(t) \/ Last(t) \/ Arrive(t) \/ Return(t) \/ Doze(t)
        PROVE  BarrierInv'
    BY <2>1, CallWaitInv, LastInv, ArriveInv, ReturnInv, DozeInv
  <2>2. CASE CallCancel
    BY <2>2, CancelInv
  <2>3. CASE Finished
    BY <2>3, StutterInv DEF Finished
  <2>4. CASE UNCHANGED vars
    BY <2>4, StutterInv
  <2>5. QED
    BY <2>1, <2>2, <2>3, <2>4 DEF Next
<1>2. QED
  BY <1>1, InitInv, PTL DEF Spec

(* Type correctness of the barrier and of its clients' history.            *)
THEOREM TypeCorrect == Spec => []TypeOK
<1>1. BarrierInv => TypeOK
  BY DEF BarrierInv
<1>2. QED
  BY <1>1, BarrierIsSound, PTL

(* No thread gets past its n-th Wait() before all have entered theirs.     *)
THEOREM NoThreadPassesEarly == Spec => []NoEarlyPass
<1>1. BarrierInv => NoEarlyPass
  BY DEF BarrierInv, NoEarlyPass, RoundsInStep, TypeOK
<1>2. QED
  BY <1>1, BarrierIsSound, PTL

(* Exactly one Wait() of each generation returns DONE_LAST.                *)
THEOREM OneLast == Spec => []OneLastPerGeneration
<1>1. ASSUME BarrierInv PROVE OneLastPerGeneration
  <2>1. \A t \in Threads : lasts <= arrived[t]
    BY <1>1 DEF BarrierInv, RoundsInStep, TypeOK
  <2>2. InGeneration # Threads
    BY <1>1 DEF BarrierInv, TypeOK, BarrierTypeOK, CountIsMissing
  <2>3. \E t \in Threads : arrived[t] = lasts
    BY <1>1, <2>2 DEF BarrierInv, RoundsInStep, InGeneration
  <2>4. QED
    BY <2>1, <2>3 DEF OneLastPerGeneration
<1>2. QED
  BY <1>1, BarrierIsSound, PTL

(* However often the generation number wraps around, a waiter of a         *)
(* finished generation can tell, and nobody sleeps through a notification. *)
THEOREM NobodyIsStranded == Spec => [](ReleasedCanLeave /\ NoLostWakeup)
<1>1. BarrierInv => ReleasedCanLeave /\ NoLostWakeup
  BY DEF BarrierInv
<1>2. QED
  BY <1>1, BarrierIsSound, PTL

-------------------------------------------------------------------------------
(* ParallelEach.                                                           *)

EachTypeOK ==
  /\ shared \in BOOLEAN
  /\ entities \subseteq Entity
  /\ views \in [Key -> Caller \cup {None}]
  /\ valid \in [Key -> SUBSET Entity]
  /\ toAdd \in [Key -> SUBSET Entity]
  /\ viewMutex \in [Key -> Caller \cup {None}]
  /\ pc \in [Caller -> {"idle", "build", "lock", "add", "iterate"}]
  /\ key \in [Caller -> Key]
  /\ found \in [Caller -> Caller \cup {None}]
  /\ left \in [Caller -> SUBSET Entity]

(* The runner and the threads take turns.                                  *)
OthersAreIdle == \A c \in Caller : pc[c] # "idle" => MayCall(c)

(* While the PostUpdates run, who adds to a view holds its mutex.          *)
MutexIsAdders ==
  \A k \in Key, c \in Caller :
    viewMutex[k] = c <=> shared /\ pc[c] = "add" /\ key[c] = k

(* A pointer to a view stays good: no view is built a second time.         *)
FoundIsThere ==
  \A c \in Caller : pc[c] \in {"lock", "add", "iterate"} =>
    Exists(key[c]) /\ found[c] = views[key[c]]

(* Nothing is lost on the way from toAddEntities into a view.              *)
ViewIsFull ==
  \A k \in Key : Exists(k) => valid[k] \cup toAdd[k] = Matching(k)

LoopIsExact ==
  \A c \in Caller : pc[c] = "add" =>
    /\ left[c] \subseteq toAdd[key[c]]
    /\ toAdd[key[c]] \subseteq left[c] \cup valid[key[c]]

(* No entity waits to be added to a view that somebody iterates, or that   *)
(* was built while somebody was about to build it.                         *)
NothingToAdd ==
  \A c \in Caller :
    pc[c] \in {"build", "iterate"} /\ Exists(key[c]) => toAdd[key[c]] = {}

EachInv ==
  /\ EachTypeOK
  /\ OthersAreIdle /\ MutexIsAdders /\ FoundIsThere
  /\ ViewIsFull /\ LoopIsExact /\ NothingToAdd

LEMMA Facts ==
  /\ None \notin Caller /\ Runner \in Caller /\ Runner \notin Thread
  /\ \A k \in Key : Components[k] \subseteq Entity
BY EachAssumption DEF Caller

(* Outside of the PostUpdates, only the runner is not idle; during them,   *)
(* only threads are not.                                                   *)
LEMMA Turns ==
  ASSUME EachInv
  PROVE  /\ ~shared => \A c \in Caller : c # Runner => pc[c] = "idle"
         /\ shared => pc[Runner] = "idle"
BY Facts DEF EachInv, OthersAreIdle, MayCall, Caller

LEMMA EachInitInv == EachInit => EachInv
<1> SUFFICES ASSUME EachInit PROVE EachInv
  OBVIOUS
<1> USE DEF EachInit
<1>1. EachTypeOK
  BY DEF EachTypeOK
<1>2. OthersAreIdle /\ FoundIsThere /\ LoopIsExact /\ NothingToAdd
  BY DEF OthersAreIdle, FoundIsThere, LoopIsExact, NothingToAdd
<1>3. MutexIsAdders
  BY Facts DEF MutexIsAdders
<1>4. ViewIsFull
  BY DEF ViewIsFull, Exists
<1>5. QED
  BY <1>1, <1>2, <1>3, <1>4 DEF EachInv

LEMMA CreateEntityInv ==
  ASSUME EachInv, NEW e \in Entity, CreateEntity(e)
  PROVE  EachInv'
<1> USE DEF EachInv, CreateEntity, callerVars
<1>1. \A c \in Caller : pc[c] = "idle"
  BY Turns
<1>2. EachTypeOK'
  BY DEF EachTypeOK
<1>3. OthersAreIdle' /\ FoundIsThere' /\ LoopIsExact' /\ NothingToAdd'
  BY <1>1 DEF OthersAreIdle, FoundIsThere, LoopIsExact, NothingToAdd
<1>4. MutexIsAdders'
  BY DEF MutexIsAdders
<1>5. ViewIsFull'
  BY DEF ViewIsFull, Exists, Matching
<1>6. QED
  BY <1>2, <1>3, <1>4, <1>5

LEMMA PhaseInv ==
  ASSUME EachInv, StartPostUpdates \/ EndPostUpdates
  PROVE  EachInv'
<1> USE DEF EachInv, StartPostUpdates, EndPostUpdates, callerVars, viewVars
<1>1. \A c \in Caller : pc[c] = "idle"
  BY Turns DEF Caller
<1>2. EachTypeOK'
  BY DEF EachTypeOK
<1>3. OthersAreIdle' /\ FoundIsThere' /\ LoopIsExact' /\ NothingToAdd'
  BY <1>1 DEF OthersAreIdle, FoundIsThere, LoopIsExact, NothingToAdd
<1>4. MutexIsAdders'
  BY <1>1 DEF MutexIsAdders
<1>5. ViewIsFull'
  BY DEF ViewIsFull, Exists, Matching
<1>6. QED
  BY <1>2, <1>3, <1>4, <1>5

LEMMA CallInv ==
  ASSUME EachInv, NEW c \in Caller, NEW k \in Key, Call(c, k)
  PROVE  EachInv'
<1> USE DEF EachInv, Call, viewVars, Exists
<1>1. EachTypeOK'
  BY DEF EachTypeOK
<1>2. OthersAreIdle'
  BY DEF OthersAreIdle, MayCall
<1>3. MutexIsAdders'
  BY DEF MutexIsAdders
<1>4. FoundIsThere'
  BY DEF FoundIsThere, EachTypeOK
<1>5. ViewIsFull'
  BY DEF ViewIsFull, Matching
<1>6. LoopIsExact' /\ NothingToAdd'
  BY DEF LoopIsExact, NothingToAdd, EachTypeOK
<1>7. QED
  BY <1>1, <1>2, <1>3, <1>4, <1>5, <1>6

(* The first to build a view fills it with all that match; whoever is late *)
(* finds that.                                                             *)
LEMMA BuildViewInv ==
  ASSUME EachInv, NEW c \in Caller, BuildView(c)
  PROVE  EachInv'
<1> DEFINE k == key[c]
<1> USE DEF EachInv, BuildView, viewVars, NobodyWasFirst, Exists
<1>1. k \in Key /\ views'[k] \in Caller /\ None \notin Caller
  BY Facts DEF EachTypeOK
<1>2. Matching(k) \subseteq Entity
  BY DEF Matching, EachTypeOK
<1>3. EachTypeOK'
  BY <1>1, <1>2 DEF EachTypeOK
<1>4. OthersAreIdle'
  BY DEF OthersAreIdle, MayCall
<1>5. MutexIsAdders'
  BY DEF MutexIsAdders
<1>6. FoundIsThere'
  BY <1>1 DEF FoundIsThere, EachTypeOK
<1>7. ViewIsFull'
  BY DEF ViewIsFull, Matching, EachTypeOK
<1>8. LoopIsExact'
  BY DEF LoopIsExact, FoundIsThere, EachTypeOK
<1>9. NothingToAdd'
  BY DEF NothingToAdd, EachTypeOK
<1>10. QED
  BY <1>3, <1>4, <1>5, <1>6, <1>7, <1>8, <1>9

LEMMA LockViewInv ==
  ASSUME EachInv, NEW c \in Caller, LockView(c)
  PROVE  EachInv'
<1> USE DEF EachInv, LockView, viewVars, LockAddingEntitiesToViews
<1>1. EachTypeOK'
  BY DEF EachTypeOK
<1>2. OthersAreIdle'
  BY DEF OthersAreIdle, MayCall
<1>3. MutexIsAdders'
  BY Facts DEF MutexIsAdders, EachTypeOK
<1>4. FoundIsThere' /\ ViewIsFull'
  BY DEF FoundIsThere, ViewIsFull, Exists, Matching
<1>5. LoopIsExact' /\ NothingToAdd'
  BY DEF LoopIsExact, NothingToAdd, Exists, EachTypeOK
<1>6. QED
  BY <1>1, <1>2, <1>3, <1>4, <1>5

LEMMA AddEntityInv ==
  ASSUME EachInv, NEW c \in Caller, NEW e \in Entity, AddEntity(c, e)
  PROVE  EachInv'
<1> USE DEF EachInv, AddEntity
<1>1. EachTypeOK'
  BY DEF EachTypeOK
<1>2. OthersAreIdle' /\ MutexIsAdders' /\ FoundIsThere' /\ NothingToAdd'
  BY DEF OthersAreIdle, MayCall, MutexIsAdders, FoundIsThere, NothingToAdd,
         Exists
<1>3. e \in toAdd[key[c]]
  BY DEF LoopIsExact
<1>4. ViewIsFull'
  BY <1>3 DEF ViewIsFull, Exists, Matching
<1>5. LoopIsExact'
  BY DEF LoopIsExact, EachTypeOK
<1>6. QED
  BY <1>1, <1>2, <1>4, <1>5

(* Of those that add to a view there is one.                               *)
LEMMA OneAdds ==
  ASSUME EachInv, NEW c \in Caller, NEW d \in Caller,
         pc[c] = "add", pc[d] = "add", key[c] = key[d]
  PROVE  c = d
<1>1. CASE shared
  BY <1>1 DEF EachInv, MutexIsAdders, EachTypeOK
<1>2. CASE ~shared
  BY <1>2, Turns
<1>3. QED
  BY <1>1, <1>2

LEMMA ClearToAddEntitiesInv ==
  ASSUME EachInv, NEW c \in Caller, ClearToAddEntities(c)
  PROVE  EachInv'
<1> USE DEF EachInv, ClearToAddEntities, AllAdded
<1>1. EachTypeOK'
  BY DEF EachTypeOK
<1>2. OthersAreIdle' /\ FoundIsThere'
  BY DEF OthersAreIdle, MayCall, FoundIsThere, Exists
<1>3. MutexIsAdders'
  BY Facts DEF MutexIsAdders, EachTypeOK
<1>4. toAdd[key[c]] \subseteq valid[key[c]]
  BY DEF LoopIsExact
<1>5. ViewIsFull'
  BY <1>4 DEF ViewIsFull, Exists, Matching
<1>6. LoopIsExact'
  <2> SUFFICES ASSUME NEW d \in Caller, pc'[d] = "add"
               PROVE  /\ left[d] \subseteq toAdd'[key[d]]
                      /\ toAdd'[key[d]] \subseteq left[d] \cup valid[key[d]]
    BY DEF LoopIsExact
  <2>1. pc[d] = "add" /\ d # c
    BY DEF EachTypeOK
  <2>2. key[d] # key[c]
    BY <2>1, OneAdds
  <2>3. QED
    BY <2>1, <2>2 DEF LoopIsExact
<1>7. NothingToAdd'
  BY DEF NothingToAdd, Exists, EachTypeOK
<1>8. QED
  BY <1>1, <1>2, <1>3, <1>5, <1>6, <1>7

LEMMA EndEachInv ==
  ASSUME EachInv, NEW c \in Caller, EndEach(c)
  PROVE  EachInv'
<1> USE DEF EachInv, EndEach, viewVars
<1>1. EachTypeOK'
  BY DEF EachTypeOK
<1>2. OthersAreIdle' /\ MutexIsAdders' /\ FoundIsThere'
  BY DEF OthersAreIdle, MayCall, MutexIsAdders, FoundIsThere, Exists
<1>3. ViewIsFull' /\ LoopIsExact' /\ NothingToAdd'
  BY DEF ViewIsFull, LoopIsExact, NothingToAdd, Exists, Matching
<1>4. QED
  BY <1>1, <1>2, <1>3

LEMMA EachNextInv == EachInv /\ [EachNext]_eachVars => EachInv'
<1> SUFFICES ASSUME EachInv, [EachNext]_eachVars PROVE EachInv'
  OBVIOUS
<1>1. CASE UNCHANGED eachVars
  BY <1>1
    DEF eachVars, viewVars, callerVars, EachInv, EachTypeOK, OthersAreIdle,
        MayCall, MutexIsAdders, FoundIsThere, ViewIsFull, LoopIsExact,
        NothingToAdd, Exists, Matching
<1>2. CASE \E e \in Entity : CreateEntity(e)
  BY <1>2, CreateEntityInv
<1>3. CASE StartPostUpdates \/ EndPostUpdates
  BY <1>3, PhaseInv
<1>4. ASSUME NEW c \in Caller, FindView(c)
      PROVE  EachInv'
  <2>1. CASE \E k \in Key : Call(c, k)
    BY <2>1, CallInv
  <2>2. CASE BuildView(c)
    BY <2>2, BuildViewInv
  <2>3. CASE LockView(c)
    BY <2>3, LockViewInv
  <2>4. CASE \E e \in Entity : AddEntity(c, e)
    BY <2>4, AddEntityInv
  <2>5. CASE ClearToAddEntities(c)
    BY <2>5, ClearToAddEntitiesInv
  <2>6. CASE EndEach(c)
    BY <2>6, EndEachInv
  <2>7. QED
    BY <1>4, <2>1, <2>2, <2>3, <2>4, <2>5, <2>6 DEF FindView
<1>5. QED
  BY <1>1, <1>2, <1>3, <1>4 DEF EachNext

(* Where every caller is in the lookup of a view, what the view holds and  *)
(* what waits for it agree, in every interleaving.                         *)
THEOREM EachIsSound == EachSpec => []EachInv
BY EachInitInv, EachNextInv, PTL DEF EachSpec

(* Nobody adds to a view that somebody iterates, only one adds at a time,  *)
(* and the view is the one in the map: pointers and iterators stay good.   *)
THEOREM IteratorsStayGood == EachSpec => []NothingMovesBelow
<1>1. EachInv => NothingMovesBelow
  <2> SUFFICES ASSUME EachInv, NEW c \in Caller, NEW d \in Caller,
                      c # d, key[c] = key[d]
               PROVE  /\ pc[c] \in {"iterate", "add", "lock"} =>
                           found[c] = views[key[c]]
                      /\ pc[c] = "iterate" /\ pc[d] = "add" => left[d] = {}
                      /\ pc[c] # "add" \/ pc[d] # "add"
    BY DEF NothingMovesBelow
  <2>1. pc[c] \in {"iterate", "add", "lock"} => found[c] = views[key[c]]
    BY DEF EachInv, FoundIsThere
  <2>2. pc[c] = "iterate" /\ pc[d] = "add" => left[d] = {}
    BY DEF EachInv, FoundIsThere, NothingToAdd, LoopIsExact
  <2>3. pc[c] # "add" \/ pc[d] # "add"
    BY OneAdds
  <2>4. QED
    BY <2>1, <2>2, <2>3
<1>2. QED
  BY <1>1, EachIsSound, PTL

(* Each visits all entities that have the components, and no others.       *)
THEOREM EachVisitsAll == EachSpec => []EachSeesAll
<1>1. EachInv => EachSeesAll
  BY DEF EachInv, EachSeesAll, FoundIsThere, NothingToAdd, ViewIsFull,
         EachTypeOK
<1>2. QED
  BY <1>1, EachIsSound, PTL

===============================================================================
