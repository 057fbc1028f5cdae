----------------------------- MODULE RunnerProofs -----------------------------
(***************************************************************************)
(* Proofs about the threads of a simulation runner and of the server that  *)
(* owns it: PostUpdate, for any number of systems, workers, steps and      *)
(* resets; and ServerLifecycle, for any number of calls, iterations and    *)
(* requests to stop.  The two parts use nothing of each other.             *)
(***************************************************************************)
EXTENDS PostUpdate, ServerLifecycle, FiniteSetTheorems, TLAPS

WorkerLocation == {"none", "loop", "start", "test", "post", "stop", "exited"}

(* The runner is one of the threads: where each of them is in its loop.    *)
Active == Team \cup {Runner}
Place(t) == IF t # Runner THEN wpc[t]
            ELSE IF rpc = "waitStart" THEN "start"
            ELSE IF rpc = "waitStop" THEN "stop"
            ELSE "loop"

InStartWait(t) == startAt[t] \in {"asleep", "awake"}
InStopWait(t) == stopAt[t] \in {"asleep", "awake"}

(* Who has counted itself into the generation under way, and who waits for *)
(* one that is over.                                                       *)
AtStart(t) == InStartWait(t) /\ startGen[t] = startGeneration
AtStop(t) == InStopWait(t) /\ stopGen[t] = stopGeneration
LeavesStart(t) == InStartWait(t) /\ startGen[t] # startGeneration
LeavesStop(t) == InStopWait(t) /\ stopGen[t] # stopGeneration

(* A thread is in the shared phase from the end of the wait at the one     *)
(* barrier to the end of the wait at the other.                            *)
Inside(t) ==
  \/ Place(t) = "start" /\ LeavesStart(t)
  \/ Place(t) \in {"test", "post"}
  \/ Place(t) = "stop" /\ ~LeavesStop(t)

HasToRun(t) == \/ Place(t) = "start" /\ LeavesStart(t)
               \/ Place(t) \in {"test", "post"}

StartTypes ==
  /\ startAt \in [Threads -> Start!Location]
  /\ startGen \in [Threads -> 0 .. GenModulus - 1]
  /\ startGeneration \in 0 .. GenModulus - 1
  /\ startCount \in Int /\ startThreadCount \in Nat
  /\ startStatus \in [Threads -> Start!ExitStatus \cup {"NONE"}]
  /\ startCancelled \in BOOLEAN

StopTypes ==
  /\ stopAt \in [Threads -> Stop!Location]
  /\ stopGen \in [Threads -> 0 .. GenModulus - 1]
  /\ stopGeneration \in 0 .. GenModulus - 1
  /\ stopCount \in Int /\ stopThreadCount \in Nat
  /\ stopCancelled \in BOOLEAN

TypesOK ==
  /\ rpc \in RunnerLocation /\ wpc \in [Workers -> WorkerLocation]
  /\ running \in BOOLEAN /\ built \in BOOLEAN
  /\ opened \in Nat /\ ended \in Nat /\ done \in [Workers -> 0 .. opened]
  /\ StartTypes /\ StopTypes

SystemRecord == [id : Ids, loaded : BOOLEAN, instance : Nat]

QueuesOK ==
  /\ requested \in Seq(SystemRecord) /\ pending \in Seq(SystemRecord)
  /\ post \in Seq(SystemRecord)

(* Only who is at a barrier is in its Wait(), and has not been the last.   *)
WaitsAreMatched ==
  \A t \in Threads :
    /\ startAt[t] # "out" => Place(t) = "start" /\ startStatus[t] # "DONE_LAST"
    /\ stopAt[t] # "out" => Place(t) = "stop"

Stopping == {"cancelStart", "cancelStop", "join",
             "lastCancelStart", "lastCancelStop", "lastJoin"}
AfterStart == {"cancelStop", "join", "lastCancelStop", "lastJoin", "activate", "destroyed"}
AfterStop == {"join", "lastJoin", "activate", "destroyed"}

PhaseIsCounted ==
  opened = IF Place(Runner) = "stop" \/ Inside(Runner) THEN ended + 1 ELSE ended

RunnerIsRight ==
  /\ ~built \/ rpc \in {"activate", "destroyed"} => Team = {}
  /\ running => built /\ rpc \notin Stopping \cup {"activate", "destroyed"}
  /\ built /\ ~running => rpc \in Stopping \cup {"activate", "destroyed"}
  /\ rpc \in {"waitStart", "waitStop"} => built
  /\ startCancelled => rpc \in AfterStart
  /\ stopCancelled => rpc \in AfterStop
  /\ PhaseIsCounted

(* While the threads run, they are all inside or all outside, and a barrier*)
(* misses those that have not come to it yet.                              *)
PhaseIsShared ==
  /\ \A w \in Team : /\ wpc[w] # "exited"
                     /\ Inside(w) <=> Inside(Runner)
                     /\ done[w] = IF HasToRun(w) THEN opened - 1 ELSE opened
  /\ Cardinality(Active) <= startThreadCount /\ Cardinality(Active) <= stopThreadCount
  /\ startCount >= Cardinality({t \in Active : ~AtStart(t)})
  /\ stopCount >= Cardinality({t \in Active : ~AtStop(t)})

(* While they are being stopped, nobody is the last at a barrier, for the  *)
(* runner does not come.                                                   *)
ToStart == {w \in Team : wpc[w] = "start" /\ ~InStartWait(w)}
ToStop == {w \in Team : \/ wpc[w] \in {"start", "test"}
                        \/ wpc[w] = "stop" /\ ~InStopWait(w)}

NobodyIsLast ==
  /\ \A w \in Team : wpc[w] # "post"
  /\ startCount > Cardinality(ToStart) /\ stopCount > Cardinality(ToStop)

PhaseInv ==
  /\ TypesOK /\ QueuesOK /\ WaitsAreMatched /\ RunnerIsRight
  /\ running => PhaseIsShared
  /\ ~running /\ Team # {} => NobodyIsLast

-------------------------------------------------------------------------------
LEMMA ThreadFacts ==
  /\ Workers \subseteq Nat /\ Runner \notin Workers /\ IsFiniteSet(Workers)
  /\ Team \subseteq Workers /\ Active \subseteq Threads /\ Threads = Workers \cup {Runner}
  /\ IsFiniteSet(Active) /\ IsFiniteSet(Team) /\ Runner \in Active
<1>1. Cardinality(Ids) \in Nat /\ Workers = 1 .. Cardinality(Ids)
  BY PostUpdateAssumption, FS_CardinalityType
<1>2. IsFiniteSet(Workers) /\ Workers \subseteq Nat /\ Runner \notin Workers
  BY <1>1, FS_Interval DEF Runner
<1>3. Team \subseteq Workers
  BY DEF Team
<1>4. IsFiniteSet(Team)
  BY <1>2, <1>3, FS_Subset
<1>5. IsFiniteSet(Active)
  BY <1>4, FS_AddElement DEF Active
<1> QED  BY <1>2, <1>3, <1>4, <1>5 DEF Active, Threads

(* Of the members of a finite set fewer are left without one of them.      *)
LEMMA OneLess ==
  ASSUME NEW S, IsFiniteSet(S), NEW x \in S, NEW T, T \subseteq S \ {x}
  PROVE  /\ IsFiniteSet(T) /\ Cardinality(T) \in Nat /\ Cardinality(S) \in Nat
         /\ Cardinality(T) < Cardinality(S)
<1>1. IsFiniteSet(S \ {x}) /\ Cardinality(S \ {x}) = Cardinality(S) - 1
  BY FS_RemoveElement
<1>2. IsFiniteSet(T) /\ Cardinality(T) <= Cardinality(S \ {x})
  BY <1>1, FS_Subset
<1> QED  BY <1>1, <1>2, FS_CardinalityType

LEMMA TwoOfThem ==
  ASSUME NEW S, IsFiniteSet(S), NEW x \in S, NEW y \in S \ {x}
  PROVE  Cardinality(S) \in Nat /\ Cardinality(S) > 1
<1>1. {y} \subseteq S \ {x}
  OBVIOUS
<1>2. Cardinality({y}) < Cardinality(S) /\ Cardinality(S) \in Nat
  BY <1>1, OneLess
<1>3. Cardinality({y}) = 1
  BY FS_Singleton
<1> QED  BY <1>2, <1>3

LEMMA NotMore ==
  ASSUME NEW S, IsFiniteSet(S), NEW T, T \subseteq S
  PROVE  /\ IsFiniteSet(T) /\ Cardinality(T) \in Nat /\ Cardinality(S) \in Nat
         /\ Cardinality(T) <= Cardinality(S)
BY FS_Subset, FS_CardinalityType

(* Of the numbers below its size, each is the rank of a member of a finite *)
(* set of numbers, so that there is an n-th one to be picked.              *)
Rank(x, S) == Cardinality({y \in S : y < x})

LEMMA RanksDiffer ==
  ASSUME NEW S \in SUBSET Nat, IsFiniteSet(S), NEW x \in S
  PROVE  /\ Rank(x, S) \in 0 .. Cardinality(S) - 1
         /\ \A y \in S : x < y => Rank(x, S) < Rank(y, S)
<1>1. ASSUME NEW T \in SUBSET S, x \in T, {y \in S : y < x} \subseteq T
      PROVE  Rank(x, S) < Cardinality(T) /\ Rank(x, S) \in Nat /\ Cardinality(T) \in Nat
  <2>1. IsFiniteSet(T)
    BY FS_Subset
  <2>2. \A y \in S : y < x => y \in T \ {x}
    BY <1>1
  <2>3. {y \in S : y < x} \subseteq T \ {x}
    BY <2>2
  <2> QED  BY <1>1, <2>1, <2>3, OneLess DEF Rank
<1>2. Rank(x, S) < Cardinality(S) /\ Rank(x, S) \in Nat /\ Cardinality(S) \in Nat
  BY <1>1
<1>3. ASSUME NEW y \in S, x < y
      PROVE  Rank(x, S) < Rank(y, S)
  <2>1. x \in {z \in S : z < y}
    BY <1>3
  <2>2. \A z \in S : z < x => z < y
    BY <1>3
  <2>3. {z \in S : z < x} \subseteq {z \in S : z < y}
    BY <2>2
  <2> QED  BY <1>1, <2>1, <2>3 DEF Rank
<1> QED  BY <1>2, <1>3

LEMMA EachRankIsTaken ==
  ASSUME NEW S \in SUBSET Nat, IsFiniteSet(S), NEW k \in 0 .. Cardinality(S) - 1
  PROVE  \E x \in S : Rank(x, S) = k
<1> DEFINE T == 0 .. Cardinality(S) - 1
           rank == [x \in S |-> Rank(x, S)]
<1>1. Cardinality(S) \in Nat
  BY FS_CardinalityType
<1>2. IsFiniteSet(T) /\ Cardinality(T) = Cardinality(S)
  BY <1>1, FS_Interval
<1>3. \A x, y \in S : Rank(x, S) \in T /\ (Rank(x, S) = Rank(y, S) => x = y)
  <2> SUFFICES ASSUME NEW x \in S, NEW y \in S
               PROVE  Rank(x, S) \in T /\ (Rank(x, S) = Rank(y, S) => x = y)
    OBVIOUS
  <2>1. /\ Rank(x, S) \in T /\ Rank(y, S) \in T
        /\ x < y => Rank(x, S) < Rank(y, S)
        /\ y < x => Rank(y, S) < Rank(x, S)
    BY RanksDiffer
  <2> QED  BY <1>1, <2>1
<1>4. rank \in Injection(S, T)
  BY <1>3 DEF Injection, IsInjective
<1>5. rank \in Surjection(S, T)
  BY <1>2, <1>4, FS_Injection
<1> QED  BY <1>5 DEF Surjection

LEMMA FirstNumbers ==
  ASSUME NEW n \in Nat
  PROVE  IsFiniteSet(1 .. n) /\ Cardinality(1 .. n) = n
<1>1. Cardinality(1 .. n) = IF 1 > n THEN 0 ELSE n - 1 + 1
  BY FS_Interval
<1> QED  BY <1>1, FS_Interval

LEMMA PickedIsASequence ==
  ASSUME NEW S, NEW s \in Seq(S), NEW P, P \subseteq DOMAIN s
  PROVE  /\ Picked(s, P) \in Seq(S) /\ Len(Picked(s, P)) = Cardinality(P)
         /\ Cardinality(P) \in Nat /\ Cardinality(P) <= Len(s)
<1>a. Len(s) \in Nat /\ P \subseteq 1 .. Len(s)
  OBVIOUS
<1>b. IsFiniteSet(1 .. Len(s)) /\ Cardinality(1 .. Len(s)) = Len(s)
  BY <1>a, FirstNumbers
<1>1. /\ IsFiniteSet(1 .. Len(s)) /\ Cardinality(1 .. Len(s)) = Len(s)
      /\ P \subseteq 1 .. Len(s) /\ P \in SUBSET Nat
  BY <1>a, <1>b
<1>2. IsFiniteSet(P) /\ Cardinality(P) \in Nat /\ Cardinality(P) <= Len(s)
  BY <1>1, NotMore
<1> DEFINE n == Cardinality(P)
           at(i) == CHOOSE j \in P : Rank(j, P) = i - 1
<1>3. Picked(s, P) = [i \in 1 .. n |-> s[at(i)]]
  BY DEF Picked, Rank
<1>4. \A i \in 1 .. n : at(i) \in P
  <2> SUFFICES ASSUME NEW i \in 1 .. n PROVE at(i) \in P
    OBVIOUS
  <2>1. i - 1 \in 0 .. Cardinality(P) - 1
    BY <1>2
  <2>2. \E j \in P : Rank(j, P) = i - 1
    BY <1>1, <1>2, <2>1, EachRankIsTaken
  <2> QED  BY <2>2
<1> HIDE DEF at
<1>5. \A i \in 1 .. n : s[at(i)] \in S
  BY <1>1, <1>4
<1>6. [i \in 1 .. n |-> s[at(i)]] \in Seq(S)
  BY <1>2, <1>5
<1>7. Len([i \in 1 .. n |-> s[at(i)]]) = n
  BY <1>2
<1> QED  BY <1>2, <1>3, <1>6, <1>7

(* Two generations in a row have different numbers.                        *)
LEMMA NumbersDiffer ==
  ASSUME NEW g \in 0 .. GenModulus - 1
  PROVE  (g + 1) % GenModulus \in 0 .. GenModulus - 1 /\ (g + 1) % GenModulus # g
<1> USE PostUpdateAssumption
<1>1. CASE g + 1 = GenModulus
  <2>1. (g + 1) % GenModulus = 0
    BY <1>1
  <2> QED  BY <1>1, <2>1
<1>2. CASE g + 1 < GenModulus
  <2>1. (g + 1) % GenModulus = g + 1
    BY <1>2
  <2> QED  BY <1>2, <2>1
<1> QED  BY <1>1, <1>2

(* What the waits at the two barriers may do.                              *)
StartEnters(t) ==
  /\ startAt[t] = "out" /\ startAt'[t] = "entering" /\ startStatus'[t] = "NONE"
  /\ ~startCancelled
  /\ UNCHANGED <<startCount, startGeneration, startGen>>
StartIsLast(t) ==
  /\ startAt[t] = "entering" /\ startAt'[t] = "out" /\ startStatus'[t] = "DONE_LAST"
  /\ startCount = 1 /\ startCount' = startThreadCount
  /\ startGeneration' # startGeneration
StartArrives(t) ==
  /\ startAt[t] = "entering" /\ startAt'[t] = "asleep"
  /\ startStatus'[t] = startStatus[t]
  /\ startGen'[t] = startGeneration
  /\ startCount' = startCount - 1
  /\ UNCHANGED startGeneration
StartDozes(t) ==
  /\ InStartWait(t) /\ startAt'[t] = "asleep" /\ startStatus'[t] = startStatus[t]
  /\ UNCHANGED <<startCount, startGeneration, startGen>>
StartLeaves(t) ==
  /\ InStartWait(t) /\ startAt'[t] = "out" /\ startStatus'[t] # "DONE_LAST"
  /\ LeavesStart(t) \/ startCancelled
  /\ UNCHANGED <<startCount, startGeneration, startGen>>
StartGivesUp(t) ==
  /\ ~InStartWait(t) /\ startAt'[t] = "out" /\ startStatus'[t] # "DONE_LAST"
  /\ startCancelled /\ startCount' \in {startCount, startCount - 1}
  /\ UNCHANGED startGeneration

OthersAtStart(t) ==
  /\ UNCHANGED <<startThreadCount, startCancelled>>
  /\ \A u \in Threads \ {t} :
       /\ InStartWait(u)' <=> InStartWait(u)
       /\ startAt'[u] = "out" <=> startAt[u] = "out"
       /\ startGen'[u] = startGen[u] /\ startStatus'[u] = startStatus[u]

LEMMA StartWaitIs ==
  ASSUME StartTypes, NEW t \in Threads, Start!WaitStep(t)
  PROVE  /\ StartTypes' /\ OthersAtStart(t)
         /\ \/ StartEnters(t) \/ StartIsLast(t) \/ StartArrives(t)
            \/ StartDozes(t) \/ StartLeaves(t) \/ StartGivesUp(t)
<1> USE PostUpdateAssumption DEF StartTypes, OthersAtStart, InStartWait, LeavesStart
<1>1. CASE Start!WaitCancelled(t)
  BY <1>1 DEF Start!WaitCancelled, Start!Open, Start!ExitStatus, Start!Location,
              StartGivesUp
<1>2. CASE Start!WaitBegin(t)
  BY <1>2 DEF Start!WaitBegin, Start!Open, Start!ExitStatus, Start!Location, StartEnters
<1>3. CASE Start!ArriveLast(t)
  <2>1. /\ startGeneration' \in 0 .. GenModulus - 1
        /\ startGeneration' # startGeneration
    BY <1>3, NumbersDiffer DEF Start!ArriveLast, Start!NextGeneration
  <2>2. startAt' = Start!NotifyAll([startAt EXCEPT ![t] = "out"])
    BY <1>3 DEF Start!ArriveLast
  <2>3. /\ startAt' \in [Threads -> Start!Location] /\ startAt'[t] = "out"
        /\ \A u \in Threads \ {t} :
             startAt'[u] = IF startAt[u] = "asleep" THEN "awake" ELSE startAt[u]
    BY <2>2 DEF Start!NotifyAll, Start!Location
  <2>4. /\ startAt[t] = "entering" /\ startCount = 1 /\ startCount' = startThreadCount
        /\ startGen' = [startGen EXCEPT ![t] = startGeneration]
        /\ startStatus' = [startStatus EXCEPT ![t] = "DONE_LAST"]
        /\ UNCHANGED <<startThreadCount, startCancelled>>
    BY <1>3 DEF Start!ArriveLast, Start!FullCount
  <2>5. StartTypes'
    BY <2>1, <2>3, <2>4 DEF Start!ExitStatus
  <2>6. OthersAtStart(t) /\ StartIsLast(t)
    BY <2>1, <2>3, <2>4 DEF StartIsLast, Start!Location
  <2> QED  BY <2>5, <2>6
<1>4. CASE Start!ArriveAndSleep(t)
  BY <1>4 DEF Start!ArriveAndSleep, Start!Location, StartArrives
<1>5. CASE Start!ArriveCancelled(t)
  BY <1>5 DEF Start!ArriveCancelled, Start!Location, Start!ExitStatus, StartGivesUp
<1>6. CASE Start!SleepAgain(t)
  BY <1>6 DEF Start!SleepAgain, Start!Location, StartDozes
<1>7. CASE Start!Leave(t)
  BY <1>7 DEF Start!Leave, Start!Released, Start!Location, Start!ExitStatus, StartLeaves
<1> QED  BY <1>1, <1>2, <1>3, <1>4, <1>5, <1>6, <1>7 DEF Start!WaitStep, Start!WaitContinue

StopEnters(t) ==
  /\ stopAt[t] = "out" /\ stopAt'[t] = "entering"
  /\ ~stopCancelled
  /\ UNCHANGED <<stopCount, stopGeneration, stopGen>>
StopIsLast(t) ==
  /\ stopAt[t] = "entering" /\ stopAt'[t] = "out"
  /\ stopCount = 1 /\ stopCount' = stopThreadCount
  /\ stopGeneration' # stopGeneration
StopArrives(t) ==
  /\ stopAt[t] = "entering" /\ stopAt'[t] = "asleep"
  /\ stopGen'[t] = stopGeneration
  /\ stopCount' = stopCount - 1
  /\ UNCHANGED stopGeneration
StopDozes(t) ==
  /\ InStopWait(t) /\ stopAt'[t] = "asleep"
  /\ UNCHANGED <<stopCount, stopGeneration, stopGen>>
StopLeaves(t) ==
  /\ InStopWait(t) /\ stopAt'[t] = "out"
  /\ LeavesStop(t) \/ stopCancelled
  /\ UNCHANGED <<stopCount, stopGeneration, stopGen>>
StopGivesUp(t) ==
  /\ ~InStopWait(t) /\ stopAt'[t] = "out"
  /\ stopCancelled /\ stopCount' \in {stopCount, stopCount - 1}
  /\ UNCHANGED stopGeneration

OthersAtStop(t) ==
  /\ UNCHANGED <<stopThreadCount, stopCancelled>>
  /\ \A u \in Threads \ {t} :
       /\ InStopWait(u)' <=> InStopWait(u)
       /\ stopAt'[u] = "out" <=> stopAt[u] = "out"
       /\ stopGen'[u] = stopGen[u]

LEMMA StopWaitIs ==
  ASSUME StopTypes, NEW t \in Threads, Stop!WaitStep(t)
  PROVE  /\ StopTypes' /\ OthersAtStop(t)
         /\ \/ StopEnters(t) \/ StopIsLast(t) \/ StopArrives(t)
            \/ StopDozes(t) \/ StopLeaves(t) \/ StopGivesUp(t)
<1> USE PostUpdateAssumption DEF StopTypes, OthersAtStop, InStopWait, LeavesStop
<1>1. CASE Stop!WaitCancelled(t)
  BY <1>1 DEF Stop!WaitCancelled, Stop!Open, Stop!Location,
              StopGivesUp
<1>2. CASE Stop!WaitBegin(t)
  BY <1>2 DEF Stop!WaitBegin, Stop!Open, Stop!Location, StopEnters
<1>3. CASE Stop!ArriveLast(t)
  <2>1. /\ stopGeneration' \in 0 .. GenModulus - 1
        /\ stopGeneration' # stopGeneration
    BY <1>3, NumbersDiffer DEF Stop!ArriveLast, Stop!NextGeneration
  <2>2. stopAt' = Stop!NotifyAll([stopAt EXCEPT ![t] = "out"])
    BY <1>3 DEF Stop!ArriveLast
  <2>3. /\ stopAt' \in [Threads -> Stop!Location] /\ stopAt'[t] = "out"
        /\ \A u \in Threads \ {t} :
             stopAt'[u] = IF stopAt[u] = "asleep" THEN "awake" ELSE stopAt[u]
    BY <2>2 DEF Stop!NotifyAll, Stop!Location
  <2>4. /\ stopAt[t] = "entering" /\ stopCount = 1 /\ stopCount' = stopThreadCount
        /\ stopGen' = [stopGen EXCEPT ![t] = stopGeneration]
        /\ UNCHANGED <<stopThreadCount, stopCancelled>>
    BY <1>3 DEF Stop!ArriveLast, Stop!FullCount
  <2>5. StopTypes'
    BY <2>1, <2>3, <2>4
  <2>6. OthersAtStop(t) /\ StopIsLast(t)
    BY <2>1, <2>3, <2>4 DEF StopIsLast, Stop!Location
  <2> QED  BY <2>5, <2>6
<1>4. CASE Stop!ArriveAndSleep(t)
  BY <1>4 DEF Stop!ArriveAndSleep, Stop!Location, StopArrives
<1>5. CASE Stop!ArriveCancelled(t)
  BY <1>5 DEF Stop!ArriveCancelled, Stop!Location, StopGivesUp
<1>6. CASE Stop!SleepAgain(t)
  BY <1>6 DEF Stop!SleepAgain, Stop!Location, StopDozes
<1>7. CASE Stop!Leave(t)
  BY <1>7 DEF Stop!Leave, Stop!Released, Stop!Location, StopLeaves
<1> QED  BY <1>1, <1>2, <1>3, <1>4, <1>5, <1>6, <1>7 DEF Stop!WaitStep, Stop!WaitContinue

-------------------------------------------------------------------------------
(* A thread at one of the barriers.                                        *)
AtTheStart(t) ==
  /\ Place(t) = "start" /\ InStart(t)
  /\ Place(t)' = IF startAt'[t] # "out" THEN "start"
                 ELSE IF t = Runner THEN "stop" ELSE "test"
  /\ \A u \in Threads \ {t} : Place(u)' = Place(u)
  /\ Team' = Team
  /\ UNCHANGED <<running, built, ended, done, stopVars>>

AtTheStop(t) ==
  /\ Place(t) = "stop" /\ Stop!WaitStep(t)
  /\ Place(t)' = IF stopAt'[t] # "out" THEN "stop" ELSE "loop"
  /\ \A u \in Threads \ {t} : Place(u)' = Place(u)
  /\ Team' = Team
  /\ ended' = IF t = Runner /\ stopAt'[t] = "out" THEN opened ELSE ended
  /\ UNCHANGED <<running, built, opened, done, startVars>>

LEMMA StartKeepsMatch ==
  ASSUME TypesOK, WaitsAreMatched, NEW t \in Threads, AtTheStart(t)
  PROVE  WaitsAreMatched'
<1>1. /\ OthersAtStart(t) /\ startAt' \in [Threads -> Start!Location]
      /\ \/ StartEnters(t) \/ StartIsLast(t) \/ StartArrives(t)
         \/ StartDozes(t) \/ StartLeaves(t) \/ StartGivesUp(t)
  BY StartWaitIs DEF AtTheStart, InStart, TypesOK, StartTypes
<1>2. startAt'[t] # "out" => startStatus'[t] # "DONE_LAST"
  BY <1>1 DEF WaitsAreMatched, StartEnters, StartIsLast, StartArrives, StartDozes,
              StartLeaves, StartGivesUp, InStartWait
<1>3. stopAt' = stopAt /\ stopAt[t] = "out"
  BY DEF AtTheStart, stopVars, WaitsAreMatched
<1>4. \A u \in Threads \ {t} : Place(u)' = Place(u)
  BY DEF AtTheStart
<1>5. startAt'[t] # "out" => Place(t)' = "start"
  BY DEF AtTheStart
<1> QED  BY <1>1, <1>2, <1>3, <1>4, <1>5 DEF WaitsAreMatched, OthersAtStart

LEMMA StopKeepsMatch ==
  ASSUME TypesOK, WaitsAreMatched, NEW t \in Threads, AtTheStop(t)
  PROVE  WaitsAreMatched'
<1>1. OthersAtStop(t)
  BY StopWaitIs DEF AtTheStop, TypesOK
<1>2. startAt' = startAt /\ startStatus' = startStatus /\ startAt[t] = "out"
  BY DEF AtTheStop, startVars, WaitsAreMatched
<1>3. /\ \A u \in Threads \ {t} : Place(u)' = Place(u)
      /\ stopAt'[t] # "out" => Place(t)' = "stop"
  BY DEF AtTheStop
<1> QED  BY <1>1, <1>2, <1>3 DEF WaitsAreMatched, OthersAtStop

(* What stays as it is of somebody who is not, or not the last, at a       *)
(* barrier.                                                                *)
SameAtStart(u) == /\ AtStart(u)' <=> AtStart(u)
                  /\ LeavesStart(u)' <=> LeavesStart(u)
SameAtStop(u) == /\ AtStop(u)' <=> AtStop(u)
                 /\ LeavesStop(u)' <=> LeavesStop(u)
SamePhase(u) == (Inside(u)' <=> Inside(u)) /\ (HasToRun(u)' <=> HasToRun(u))

(* If nobody's phase changes, what is counted at the barriers is what      *)
(* remains to be shown.                                                    *)
LEMMA PhaseStays ==
  ASSUME PhaseIsShared, PhaseIsCounted, Team' = Team,
         \A u \in Team : SamePhase(u) /\ wpc'[u] # "exited",
         Inside(Runner)' <=> Inside(Runner),
         (Place(Runner)' = "stop" \/ Inside(Runner)')
           <=> (Place(Runner) = "stop" \/ Inside(Runner)),
         UNCHANGED <<opened, ended, done, startThreadCount, stopThreadCount>>,
         startCount' >= Cardinality({u \in Active : ~AtStart(u)'}),
         stopCount' >= Cardinality({u \in Active : ~AtStop(u)'})
  PROVE  PhaseIsShared' /\ PhaseIsCounted'
<1>1. Active' = Active
  BY DEF Active
<1>2. PhaseIsCounted'
  BY DEF PhaseIsCounted
<1>3. \A u \in Team : /\ Inside(u)' <=> Inside(Runner)'
                      /\ done'[u] = IF HasToRun(u)' THEN opened' - 1 ELSE opened'
  BY DEF PhaseIsShared, SamePhase
<1> QED  BY <1>1, <1>2, <1>3 DEF PhaseIsShared

LEMMA StartWhileRunning ==
  ASSUME PhaseInv, running, NEW t \in Active, AtTheStart(t)
  PROVE  PhaseIsShared' /\ PhaseIsCounted'
<1> USE ThreadFacts DEF PhaseInv
<1>1. /\ OthersAtStart(t) /\ StartTypes'
      /\ \/ StartEnters(t) \/ StartIsLast(t) \/ StartArrives(t)
         \/ StartDozes(t) \/ StartLeaves(t) \/ StartGivesUp(t)
  BY StartWaitIs DEF AtTheStart, InStart, TypesOK
<1>2. /\ ~startCancelled /\ PhaseIsShared /\ PhaseIsCounted /\ Active' = Active
      /\ Active \subseteq Threads
  BY DEF RunnerIsRight, AfterStart, Stopping, AtTheStart, Active
<1>3. /\ \A u \in Threads : SameAtStop(u)
      /\ stopAt[t] = "out" /\ stopAt'[t] = "out" /\ ~InStopWait(t) /\ ~InStopWait(t)'
      /\ UNCHANGED <<ended, done, stopCount, stopThreadCount, startThreadCount>>
  BY <1>1
     DEF AtTheStart, OthersAtStart, WaitsAreMatched, stopVars, SameAtStop, AtStop,
         LeavesStop, InStopWait
<1>4. stopCount' >= Cardinality({u \in Active : ~AtStop(u)'})
  <2>1. {u \in Active : ~AtStop(u)'} = {u \in Active : ~AtStop(u)}
    BY <1>2, <1>3 DEF SameAtStop
  <2> QED  BY <1>2, <1>3, <2>1 DEF PhaseIsShared
<1>5. \A u \in Threads \ {t} : Place(u)' = Place(u)
  BY DEF AtTheStart
<1>6. Place(t) = "start"
  BY DEF AtTheStart
<1>7. \A u \in Team : wpc'[u] # "exited"
  BY <1>2, <1>5, <1>6 DEF PhaseIsShared, Place, AtTheStart
<1>a. IsFiniteSet({u \in Active : ~AtStart(u)})
  BY FS_Subset
<1>8. CASE ~StartIsLast(t)
  <2>1. /\ StartEnters(t) \/ StartArrives(t) \/ StartDozes(t) \/ StartLeaves(t)
        /\ startGeneration' = startGeneration
    BY <1>1, <1>2, <1>8
       DEF StartGivesUp, StartEnters, StartArrives, StartDozes, StartLeaves
  <2>2. opened' = opened
    <3>1. startAt[t] # "out" => startStatus[t] # "DONE_LAST"
      BY DEF WaitsAreMatched
    <3>2. startStatus'[t] # "DONE_LAST"
      BY <2>1, <3>1 DEF StartEnters, StartArrives, StartDozes, StartLeaves, InStartWait
    <3> QED  BY <3>2 DEF AtTheStart, InStart
  <2>3. \A u \in Threads \ {t} : SameAtStart(u)
    BY <1>1, <2>1 DEF SameAtStart, OthersAtStart, AtStart, LeavesStart
  <2>4. \A u \in Threads \ {t} : SamePhase(u)
    BY <1>3, <1>5, <2>3 DEF SamePhase, SameAtStart, SameAtStop, Inside, HasToRun
  <2>5. /\ StartLeaves(t) => LeavesStart(t) /\ startAt'[t] = "out"
        /\ ~StartLeaves(t) => /\ LeavesStart(t)' <=> LeavesStart(t)
                              /\ startAt'[t] # "out"
    BY <1>2, <2>1 DEF StartEnters, StartArrives, StartDozes, StartLeaves, LeavesStart,
                      InStartWait
  <2>6. /\ StartLeaves(t) => Place(t)' = IF t = Runner THEN "stop" ELSE "test"
        /\ ~StartLeaves(t) => Place(t)' = "start"
    BY <2>5 DEF AtTheStart
  <2>7. Inside(t)' <=> Inside(t)
    BY <1>3, <1>6, <2>5, <2>6 DEF Inside, LeavesStop
  <2>8. t # Runner => (HasToRun(t)' <=> HasToRun(t))
    BY <1>6, <2>5, <2>6 DEF HasToRun
  <2>9. startCount' >= Cardinality({u \in Active : ~AtStart(u)'})
    <3> DEFINE S == {u \in Active : ~AtStart(u)}
               T == {u \in Active : ~AtStart(u)'}
    <3>1. CASE StartArrives(t)
      <4>1. t \in S /\ T \subseteq S \ {t}
        BY <2>1, <2>3, <3>1
           DEF SameAtStart, StartArrives, AtStart, InStartWait
      <4>2. startCount >= Cardinality(S) /\ startCount' = startCount - 1
        BY <1>2, <3>1 DEF PhaseIsShared, StartArrives
      <4> HIDE DEF S, T
      <4>3. /\ Cardinality(T) < Cardinality(S)
            /\ Cardinality(T) \in Nat /\ Cardinality(S) \in Nat
        BY <1>a, <4>1, OneLess DEF S
      <4>4. startCount \in Int
        BY DEF TypesOK, StartTypes
      <4> QED  BY <4>2, <4>3, <4>4 DEF T
    <3>2. CASE ~StartArrives(t)
      <4>1. T \subseteq S
        <5>1. ~AtStart(t)' => ~AtStart(t)
          BY <1>2, <2>1, <3>2
             DEF StartEnters, StartDozes, StartLeaves, AtStart, InStartWait, LeavesStart
        <5> QED  BY <2>3, <5>1, <1>2 DEF SameAtStart
      <4>2. startCount >= Cardinality(S) /\ startCount' = startCount
        BY <1>2, <2>1, <3>2 DEF PhaseIsShared, StartEnters, StartDozes, StartLeaves
      <4> HIDE DEF S, T
      <4>3. /\ Cardinality(T) <= Cardinality(S)
            /\ Cardinality(T) \in Nat /\ Cardinality(S) \in Nat
        BY <1>a, <4>1, NotMore DEF S
      <4>4. startCount \in Int
        BY DEF TypesOK, StartTypes
      <4> QED  BY <4>2, <4>3, <4>4 DEF T
    <3> QED  BY <3>1, <3>2
  <2>10. \A u \in Team : SamePhase(u)
    BY <2>4, <2>7, <2>8 DEF SamePhase
  <2>11. Inside(Runner)' <=> Inside(Runner)
    BY <2>4, <2>7 DEF SamePhase
  <2>12. (Place(Runner)' = "stop" \/ Inside(Runner)')
           <=> (Place(Runner) = "stop" \/ Inside(Runner))
    BY <1>5, <1>6, <2>5, <2>6, <2>11 DEF Inside
  <2> QED  BY <1>2, <1>3, <1>4, <1>7, <2>2, <2>9, <2>10, <2>11, <2>12, PhaseStays
           DEF AtTheStart
<1>9. CASE StartIsLast(t)
  <2>1. \A u \in Active \ {t} : AtStart(u)
    <3> SUFFICES ASSUME NEW v \in Active \ {t}, ~AtStart(v)
                 PROVE  FALSE
      OBVIOUS
    <3> DEFINE S == {u \in Active : ~AtStart(u)}
    <3>1. t \in S /\ v \in S \ {t}
      BY <1>9 DEF StartIsLast, AtStart, InStartWait
    <3>2. startCount >= Cardinality(S) /\ startCount = 1
      BY <1>2, <1>9 DEF PhaseIsShared, StartIsLast
    <3>3. IsFiniteSet(S)
      BY <1>a
    <3> HIDE DEF S
    <3>4. Cardinality(S) \in Nat /\ Cardinality(S) > 1
      BY <3>1, <3>3, TwoOfThem
    <3> QED  BY <3>2, <3>4
  <2>2. \A u \in Active : /\ Place(u) = "start" /\ ~LeavesStart(u)
                          /\ stopAt[u] = "out" /\ ~Inside(u) /\ ~HasToRun(u)
    BY <1>6, <1>9, <2>1
       DEF AtStart, InStartWait, WaitsAreMatched, LeavesStart, StartIsLast, Inside,
           HasToRun
  <2>3. opened = ended /\ opened' = opened + 1 /\ opened \in Nat
    BY <1>2, <1>9, <2>2
       DEF PhaseIsCounted, StartIsLast, AtTheStart, InStart, TypesOK
  <2>4. \A u \in Active \ {t} : LeavesStart(u)' /\ Place(u)' = "start"
    BY <1>1, <1>5, <1>9, <2>1, <2>2
       DEF AtStart, LeavesStart, OthersAtStart, StartIsLast
  <2>5. Place(t)' = IF t = Runner THEN "stop" ELSE "test"
    BY <1>9 DEF AtTheStart, StartIsLast
  <2>6. \A u \in Active : Inside(u)' /\ (u # Runner => HasToRun(u)')
    BY <1>3, <2>4, <2>5 DEF Inside, HasToRun, LeavesStop
  <2>7. PhaseIsCounted'
    BY <1>3, <2>3, <2>6 DEF PhaseIsCounted
  <2>8. \A u \in Team : done'[u] = opened' - 1
    BY <1>2, <1>3, <2>2, <2>3 DEF PhaseIsShared, Active
  <2>9. startCount' >= Cardinality({u \in Active : ~AtStart(u)'})
    <3>1. /\ {u \in Active : ~AtStart(u)'} \subseteq Active
          /\ startCount' >= Cardinality(Active) /\ startCount' \in Nat
      BY <1>2, <1>9 DEF PhaseIsShared, StartIsLast, TypesOK, StartTypes
    <3> QED  BY <3>1, NotMore
  <2> QED  BY <1>2, <1>3, <1>4, <1>7, <2>6, <2>7, <2>8, <2>9
           DEF PhaseIsShared, AtTheStart, Active
<1> QED  BY <1>8, <1>9

LEMMA StopWhileRunning ==
  ASSUME PhaseInv, running, NEW t \in Active, AtTheStop(t)
  PROVE  PhaseIsShared' /\ PhaseIsCounted'
<1> USE ThreadFacts DEF PhaseInv
<1>1. /\ OthersAtStop(t) /\ StopTypes'
      /\ \/ StopEnters(t) \/ StopIsLast(t) \/ StopArrives(t)
         \/ StopDozes(t) \/ StopLeaves(t) \/ StopGivesUp(t)
  BY StopWaitIs DEF AtTheStop, TypesOK
<1>2. /\ ~stopCancelled /\ PhaseIsShared /\ PhaseIsCounted /\ Active' = Active
      /\ Active \subseteq Threads
  BY DEF RunnerIsRight, AfterStop, Stopping, AtTheStop, Active
<1>3. /\ \A u \in Threads : SameAtStart(u)
      /\ startAt[t] = "out" /\ startAt'[t] = "out" /\ ~InStartWait(t) /\ ~InStartWait(t)'
      /\ UNCHANGED <<opened, done, startCount, startThreadCount, stopThreadCount>>
  BY <1>1
     DEF AtTheStop, OthersAtStop, WaitsAreMatched, startVars, SameAtStart, AtStart,
         LeavesStart, InStartWait
<1>4. startCount' >= Cardinality({u \in Active : ~AtStart(u)'})
  <2>1. {u \in Active : ~AtStart(u)'} = {u \in Active : ~AtStart(u)}
    BY <1>2, <1>3 DEF SameAtStart
  <2> QED  BY <1>2, <1>3, <2>1 DEF PhaseIsShared
<1>5. \A u \in Threads \ {t} : Place(u)' = Place(u)
  BY DEF AtTheStop
<1>6. Place(t) = "stop" /\ ~HasToRun(t)
  BY DEF AtTheStop, HasToRun
<1>7. /\ \A u \in Team : wpc'[u] # "exited"
      /\ Place(t)' \in {"stop", "loop"} /\ ~HasToRun(t)'
  BY <1>2, <1>5, <1>6 DEF PhaseIsShared, Place, AtTheStop, HasToRun
<1>8. IsFiniteSet({u \in Active : ~AtStop(u)})
  BY FS_Subset
<1>9. opened \in Nat /\ ended \in Nat /\ stopCount \in Int /\ stopThreadCount \in Nat
  BY DEF TypesOK, StopTypes
<1>10. CASE ~StopIsLast(t)
  <2>1. /\ StopEnters(t) \/ StopArrives(t) \/ StopDozes(t) \/ StopLeaves(t)
        /\ stopGeneration' = stopGeneration
    BY <1>1, <1>2, <1>10
       DEF StopGivesUp, StopEnters, StopArrives, StopDozes, StopLeaves
  <2>2. \A u \in Threads \ {t} : SameAtStop(u)
    BY <1>1, <2>1 DEF SameAtStop, OthersAtStop, AtStop, LeavesStop
  <2>3. \A u \in Threads \ {t} : SamePhase(u)
    BY <1>3, <1>5, <2>2 DEF SamePhase, SameAtStart, SameAtStop, Inside, HasToRun
  <2>4. /\ StopLeaves(t) => LeavesStop(t) /\ stopAt'[t] = "out"
        /\ ~StopLeaves(t) => /\ LeavesStop(t)' <=> LeavesStop(t)
                             /\ stopAt'[t] # "out"
    BY <1>2, <2>1 DEF StopEnters, StopArrives, StopDozes, StopLeaves, LeavesStop,
                      InStopWait
  <2>5. /\ StopLeaves(t) => Place(t)' = "loop"
        /\ ~StopLeaves(t) => Place(t)' = "stop"
    BY <2>4 DEF AtTheStop
  <2>6. Inside(t)' <=> Inside(t)
    BY <1>3, <1>6, <2>4, <2>5 DEF Inside, LeavesStart
  <2>7. stopCount' >= Cardinality({u \in Active : ~AtStop(u)'})
    <3> DEFINE S == {u \in Active : ~AtStop(u)}
               T == {u \in Active : ~AtStop(u)'}
    <3>1. CASE StopArrives(t)
      <4>1. t \in S /\ T \subseteq S \ {t}
        BY <2>1, <2>2, <3>1 DEF SameAtStop, StopArrives, AtStop, InStopWait
      <4>2. stopCount >= Cardinality(S) /\ stopCount' = stopCount - 1
        BY <1>2, <3>1 DEF PhaseIsShared, StopArrives
      <4> HIDE DEF S, T
      <4>3. Cardinality(T) < Cardinality(S) /\ Cardinality(T) \in Nat
            /\ Cardinality(S) \in Nat
        BY <1>8, <4>1, OneLess DEF S
      <4> QED  BY <1>9, <4>2, <4>3 DEF T
    <3>2. CASE ~StopArrives(t)
      <4>1. T \subseteq S
        <5>1. ~AtStop(t)' => ~AtStop(t)
          BY <1>2, <2>1, <3>2
             DEF StopEnters, StopDozes, StopLeaves, AtStop, InStopWait, LeavesStop
        <5> QED  BY <2>2, <5>1, <1>2 DEF SameAtStop
      <4>2. stopCount >= Cardinality(S) /\ stopCount' = stopCount
        BY <1>2, <2>1, <3>2 DEF PhaseIsShared, StopEnters, StopDozes, StopLeaves
      <4> HIDE DEF S, T
      <4>3. Cardinality(T) <= Cardinality(S) /\ Cardinality(T) \in Nat
            /\ Cardinality(S) \in Nat
        BY <1>8, <4>1, NotMore DEF S
      <4> QED  BY <1>9, <4>2, <4>3 DEF T
    <3> QED  BY <3>1, <3>2
  <2>8. \A u \in Team : SamePhase(u)
    BY <1>6, <1>7, <2>3, <2>6 DEF SamePhase
  <2>9. Inside(Runner)' <=> Inside(Runner)
    BY <2>3, <2>6 DEF SamePhase
  <2>10. CASE t # Runner \/ ~StopLeaves(t)
    <3>1. (Place(Runner)' = "stop" \/ Inside(Runner)')
             <=> (Place(Runner) = "stop" \/ Inside(Runner))
      BY <1>5, <1>6, <2>5, <2>9, <2>10
    <3>2. ended' = ended
      BY <2>4, <2>10 DEF AtTheStop
    <3> QED  BY <1>2, <1>3, <1>4, <1>7, <2>7, <2>8, <2>9, <3>1, <3>2, PhaseStays
             DEF AtTheStop
  <2>11. CASE t = Runner /\ StopLeaves(t)
    <3>1. ended' = opened' /\ Place(Runner)' = "loop" /\ ~Inside(Runner)'
      BY <1>3, <2>4, <2>5, <2>11 DEF AtTheStop, Inside
    <3>2. PhaseIsCounted'
      BY <3>1 DEF PhaseIsCounted
    <3>3. \A u \in Team : /\ Inside(u)' <=> Inside(Runner)'
                          /\ done'[u] = IF HasToRun(u)' THEN opened' - 1 ELSE opened'
      BY <1>2, <1>3, <2>8, <2>9 DEF PhaseIsShared, SamePhase
    <3> QED  BY <1>2, <1>3, <1>4, <1>7, <2>7, <3>2, <3>3 DEF PhaseIsShared, AtTheStop
  <2> QED  BY <2>10, <2>11
<1>11. CASE StopIsLast(t)
  <2>1. \A u \in Active \ {t} : AtStop(u)
    <3> SUFFICES ASSUME NEW v \in Active \ {t}, ~AtStop(v)
                 PROVE  FALSE
      OBVIOUS
    <3> DEFINE S == {u \in Active : ~AtStop(u)}
    <3>1. t \in S /\ v \in S \ {t}
      BY <1>11 DEF StopIsLast, AtStop, InStopWait
    <3>2. stopCount >= Cardinality(S) /\ stopCount = 1
      BY <1>2, <1>11 DEF PhaseIsShared, StopIsLast
    <3>3. IsFiniteSet(S)
      BY <1>8
    <3> HIDE DEF S
    <3>4. Cardinality(S) \in Nat /\ Cardinality(S) > 1
      BY <3>1, <3>3, TwoOfThem
    <3> QED  BY <3>2, <3>4
  <2>2. \A u \in Active : Place(u) = "stop" /\ ~HasToRun(u)
    BY <1>6, <2>1 DEF AtStop, InStopWait, WaitsAreMatched, HasToRun
  <2>3. opened = ended + 1
    BY <1>2, <2>2 DEF PhaseIsCounted
  <2>4. \A u \in Active \ {t} : LeavesStop(u)' /\ Place(u)' = "stop"
    BY <1>1, <1>5, <1>11, <2>1, <2>2 DEF AtStop, LeavesStop, OthersAtStop, StopIsLast
  <2>5. Place(t)' = "loop"
    BY <1>11 DEF AtTheStop, StopIsLast
  <2>6. \A u \in Active : ~Inside(u)' /\ ~HasToRun(u)'
    BY <2>4, <2>5 DEF Inside, HasToRun
  <2>7. PhaseIsCounted'
    <3>1. ended' = IF t = Runner THEN opened ELSE ended
      BY <1>11 DEF AtTheStop, StopIsLast
    <3> QED  BY <1>3, <2>3, <2>4, <2>5, <2>6, <3>1 DEF PhaseIsCounted
  <2>8. \A u \in Team : done'[u] = opened'
    BY <1>2, <1>3, <2>2 DEF PhaseIsShared, Active
  <2>9. stopCount' >= Cardinality({u \in Active : ~AtStop(u)'})
    <3>1. /\ {u \in Active : ~AtStop(u)'} \subseteq Active
          /\ stopCount' >= Cardinality(Active) /\ stopCount' \in Nat
      BY <1>2, <1>9, <1>11 DEF PhaseIsShared, StopIsLast
    <3> QED  BY <3>1, NotMore
  <2> QED  BY <1>2, <1>3, <1>4, <1>7, <2>6, <2>7, <2>8, <2>9
           DEF PhaseIsShared, AtTheStop, Active
<1> QED  BY <1>10, <1>11

(* While the threads are stopped, a worker gets through the barriers.      *)
LEMMA StartWhileStopping ==
  ASSUME PhaseInv, NobodyIsLast, NEW t \in Team, AtTheStart(t)
  PROVE  NobodyIsLast' /\ opened' = opened
<1> USE ThreadFacts DEF PhaseInv
<1>1. /\ OthersAtStart(t) /\ StartTypes'
      /\ \/ StartEnters(t) \/ StartIsLast(t) \/ StartArrives(t)
         \/ StartDozes(t) \/ StartLeaves(t) \/ StartGivesUp(t)
  BY StartWaitIs DEF AtTheStart, InStart, TypesOK
<1>2. /\ t # Runner /\ t \in Threads /\ wpc[t] = "start" /\ Team' = Team
      /\ wpc'[t] = IF startAt'[t] # "out" THEN "start" ELSE "test"
      /\ \A u \in Team \ {t} : wpc'[u] = wpc[u]
      /\ \A u \in Threads : InStopWait(u)' <=> InStopWait(u)
      /\ stopCount' = stopCount
  BY DEF AtTheStart, Place, InStopWait, stopVars
<1>3. IsFiniteSet(ToStart) /\ startCount \in Int /\ startCount > Cardinality(ToStart)
  BY FS_Subset DEF NobodyIsLast, ToStart, TypesOK, StartTypes
<1>4. ~InStartWait(t) => startCount > 1
  <2> SUFFICES ASSUME ~InStartWait(t) PROVE startCount > 1
    OBVIOUS
  <2>1. t \in ToStart /\ {} \subseteq ToStart \ {t}
    BY <1>2 DEF ToStart
  <2>2. Cardinality({}) < Cardinality(ToStart) /\ Cardinality(ToStart) \in Nat
    BY <1>3, <2>1, OneLess
  <2> QED  BY <1>3, <2>2, FS_EmptySet
<1>5. ~StartIsLast(t)
  BY <1>4 DEF StartIsLast, InStartWait
<1>6. opened' = opened
  <2>1. startAt[t] # "out" => startStatus[t] # "DONE_LAST"
    BY <1>2 DEF WaitsAreMatched
  <2>2. startStatus'[t] # "DONE_LAST"
    BY <1>1, <1>5, <2>1 DEF StartEnters, StartArrives, StartDozes, StartLeaves,
                            StartGivesUp, InStartWait
  <2> QED  BY <2>2 DEF AtTheStart, InStart
<1>7. ToStop' = ToStop
  BY <1>2 DEF ToStop
<1>8. \A u \in Team \ {t} : u \in ToStart' <=> u \in ToStart
  BY <1>1, <1>2 DEF ToStart, OthersAtStart
<1>9. startCount' > Cardinality(ToStart')
  <2>1. CASE startCount' = startCount /\ (t \in ToStart' => t \in ToStart)
    <3>1. ToStart' \subseteq ToStart
      BY <1>2, <1>8, <2>1 DEF ToStart
    <3> QED  BY <1>3, <2>1, <3>1, NotMore
  <2>2. CASE startCount' \in {startCount, startCount - 1} /\ t \in ToStart /\ t \notin ToStart'
    <3>1. ToStart' \subseteq ToStart \ {t}
      BY <1>2, <1>8, <2>2 DEF ToStart
    <3>2. /\ Cardinality(ToStart') < Cardinality(ToStart)
          /\ Cardinality(ToStart') \in Nat /\ Cardinality(ToStart) \in Nat
      BY <1>3, <2>2, <3>1, OneLess
    <3> QED  BY <1>3, <2>2, <3>2
  <2>3. t \in ToStart <=> ~InStartWait(t)
    BY <1>2 DEF ToStart
  <2>4. t \in ToStart' <=> startAt'[t] = "entering"
    BY <1>1, <1>2 DEF ToStart, InStartWait, StartTypes, Start!Location
  <2> QED  BY <1>1, <1>5, <2>1, <2>2, <2>3, <2>4
           DEF StartEnters, StartArrives, StartDozes, StartLeaves, StartGivesUp,
               InStartWait
<1> QED  BY <1>2, <1>6, <1>7, <1>9 DEF NobodyIsLast

LEMMA StopWhileStopping ==
  ASSUME PhaseInv, NobodyIsLast, NEW t \in Team, AtTheStop(t)
  PROVE  NobodyIsLast'
<1> USE ThreadFacts DEF PhaseInv
<1>1. /\ OthersAtStop(t) /\ StopTypes'
      /\ \/ StopEnters(t) \/ StopIsLast(t) \/ StopArrives(t)
         \/ StopDozes(t) \/ StopLeaves(t) \/ StopGivesUp(t)
  BY StopWaitIs DEF AtTheStop, TypesOK
<1>2. /\ t # Runner /\ t \in Threads /\ wpc[t] = "stop" /\ Team' = Team
      /\ wpc'[t] = IF stopAt'[t] # "out" THEN "stop" ELSE "loop"
      /\ \A u \in Team \ {t} : wpc'[u] = wpc[u]
      /\ \A u \in Threads : InStartWait(u)' <=> InStartWait(u)
      /\ startCount' = startCount
  BY DEF AtTheStop, Place, InStartWait, startVars
<1>3. IsFiniteSet(ToStop) /\ stopCount \in Int /\ stopCount > Cardinality(ToStop)
  BY FS_Subset DEF NobodyIsLast, ToStop, TypesOK, StopTypes
<1>4. ~InStopWait(t) => stopCount > 1
  <2> SUFFICES ASSUME ~InStopWait(t) PROVE stopCount > 1
    OBVIOUS
  <2>1. t \in ToStop /\ {} \subseteq ToStop \ {t}
    BY <1>2 DEF ToStop
  <2>2. Cardinality({}) < Cardinality(ToStop) /\ Cardinality(ToStop) \in Nat
    BY <1>3, <2>1, OneLess
  <2> QED  BY <1>3, <2>2, FS_EmptySet
<1>5. ~StopIsLast(t)
  BY <1>4 DEF StopIsLast, InStopWait
<1>6. ToStart' = ToStart
  BY <1>2 DEF ToStart
<1>7. \A u \in Team \ {t} : u \in ToStop' <=> u \in ToStop
  BY <1>1, <1>2 DEF ToStop, OthersAtStop
<1>8. stopCount' > Cardinality(ToStop')
  <2>1. CASE stopCount' = stopCount /\ (t \in ToStop' => t \in ToStop)
    <3>1. ToStop' \subseteq ToStop
      BY <1>2, <1>7, <2>1 DEF ToStop
    <3> QED  BY <1>3, <2>1, <3>1, NotMore
  <2>2. CASE stopCount' \in {stopCount, stopCount - 1} /\ t \in ToStop /\ t \notin ToStop'
    <3>1. ToStop' \subseteq ToStop \ {t}
      BY <1>2, <1>7, <2>2 DEF ToStop
    <3>2. /\ Cardinality(ToStop') < Cardinality(ToStop)
          /\ Cardinality(ToStop') \in Nat /\ Cardinality(ToStop) \in Nat
      BY <1>3, <2>2, <3>1, OneLess
    <3> QED  BY <1>3, <2>2, <3>2
  <2>3. t \in ToStop <=> ~InStopWait(t)
    BY <1>2 DEF ToStop
  <2>4. t \in ToStop' <=> stopAt'[t] = "entering"
    BY <1>1, <1>2 DEF ToStop, InStopWait, StopTypes, Stop!Location
  <2> QED  BY <1>1, <1>5, <2>1, <2>2, <2>3, <2>4
           DEF StopEnters, StopArrives, StopDozes, StopLeaves, StopGivesUp, InStopWait
<1> QED  BY <1>2, <1>6, <1>8 DEF NobodyIsLast

-------------------------------------------------------------------------------
(* The runner where no thread can tell.                                    *)
RunnerAlone == {"queue", "requests", "update", "removals"}

LEMMA RunnerAloneInv ==
  ASSUME PhaseInv, QueuesOK',
         UNCHANGED <<threadVars, phaseVars, startVars, stopVars>>,
         rpc' = rpc \/ /\ rpc \in RunnerAlone /\ rpc' \in RunnerAlone \cup {"waitStart"}
                       /\ rpc' = "waitStart" => built
  PROVE  PhaseInv'
<1> USE DEF PhaseInv, threadVars, phaseVars, startVars, stopVars
<1>1. CASE rpc' = rpc
  BY <1>1
     DEF TypesOK, StartTypes, StopTypes, WaitsAreMatched, RunnerIsRight, PhaseIsCounted,
         PhaseIsShared, NobodyIsLast, Team, Active, Inside, HasToRun, Place, ToStart,
         ToStop, AtStart, AtStop, LeavesStart, LeavesStop, InStartWait, InStopWait
<1>2. CASE /\ rpc \in RunnerAlone /\ rpc' \in RunnerAlone \cup {"waitStart"}
           /\ rpc' = "waitStart" => built
  <2>a. Team' = Team /\ Active' = Active
    BY DEF Team, Active
  <2>b. \A u \in Threads : /\ InStartWait(u)' <=> InStartWait(u)
                           /\ InStopWait(u)' <=> InStopWait(u)
    BY DEF InStartWait, InStopWait
  <2>c. \A u \in Threads : /\ AtStart(u)' <=> AtStart(u)
                           /\ LeavesStart(u)' <=> LeavesStart(u)
    BY <2>b DEF AtStart, LeavesStart
  <2>d. \A u \in Threads : /\ AtStop(u)' <=> AtStop(u)
                           /\ LeavesStop(u)' <=> LeavesStop(u)
    BY <2>b DEF AtStop, LeavesStop
  <2>1. /\ \A u \in Threads : u # Runner => Place(u)' = Place(u)
        /\ ToStart' = ToStart /\ ToStop' = ToStop
    BY <2>a, <2>b, ThreadFacts DEF Place, ToStart, ToStop
  <2>2. Place(Runner) = "loop" /\ Place(Runner)' \in {"loop", "start"}
    BY <1>2 DEF Place, RunnerAlone
  <2>3. startAt[Runner] = "out" /\ stopAt[Runner] = "out" /\ ~LeavesStart(Runner)
    BY <2>2 DEF WaitsAreMatched, Threads, LeavesStart, InStartWait
  <2>4. ~Inside(Runner) /\ ~Inside(Runner)'
    BY <2>c, <2>2, <2>3, ThreadFacts DEF Inside
  <2>5. \A u \in Threads : u # Runner => SamePhase(u)
    BY <2>1, <2>c, <2>d DEF SamePhase, Inside, HasToRun
  <2>6. TypesOK'
    BY <1>2 DEF TypesOK, StartTypes, StopTypes, RunnerAlone, RunnerLocation
  <2>7. WaitsAreMatched'
    BY <2>1, <2>3 DEF WaitsAreMatched
  <2>8. RunnerIsRight'
    <3>1. PhaseIsCounted'
      BY <2>2, <2>4 DEF PhaseIsCounted, RunnerIsRight
    <3> QED  BY <1>2, <2>a, <3>1
             DEF RunnerIsRight, RunnerAlone, Stopping, AfterStart, AfterStop
  <2>9. PhaseIsShared => PhaseIsShared'
    <3> SUFFICES ASSUME PhaseIsShared PROVE PhaseIsShared'
      OBVIOUS
    <3>1. \A w \in Team : /\ Inside(w)' <=> Inside(w)
                          /\ HasToRun(w)' <=> HasToRun(w)
      BY <2>5, ThreadFacts DEF SamePhase
    <3>2. {u \in Active : ~AtStart(u)'} = {u \in Active : ~AtStart(u)}
      BY <2>a, <2>c, ThreadFacts
    <3>3. {u \in Active : ~AtStop(u)'} = {u \in Active : ~AtStop(u)}
      BY <2>a, <2>d, ThreadFacts
    <3> QED  BY <2>a, <2>4, <3>1, <3>2, <3>3 DEF PhaseIsShared
  <2>10. NobodyIsLast => NobodyIsLast'
    BY <2>a, <2>1 DEF NobodyIsLast
  <2> QED  BY <2>a, <2>6, <2>7, <2>8, <2>9, <2>10
<1> QED  BY <1>1, <1>2

(* The runner is not on its way to the barriers when it stops the threads. *)
LEMMA StopWorkersInv ==
  ASSUME PhaseInv, StopWorkers
  PROVE  PhaseInv'
<1> USE ThreadFacts DEF PhaseInv, phaseVars, startVars, stopVars
<1>1. /\ rpc = "queue" /\ rpc' \in Stopping /\ running' = FALSE
      /\ rpc' \in {"join", "lastJoin"} => ~built
      /\ UNCHANGED <<wpc, built, phaseVars, startVars, stopVars, queueVars>>
  BY DEF StopWorkers, Goto, Stopping
<1>2. /\ Team' = Team /\ \A u \in Threads : Place(u)' = Place(u)
      /\ Place(Runner) = "loop" /\ ~Inside(Runner) /\ ~Inside(Runner)'
  BY <1>1 DEF Team, Place, Inside, Stopping
<1>3. TypesOK'
  BY <1>1 DEF TypesOK, StartTypes, StopTypes, Stopping, RunnerLocation
<1>4. WaitsAreMatched'
  BY <1>1, <1>2 DEF WaitsAreMatched
<1>5. RunnerIsRight'
  <2>1. PhaseIsCounted'
    BY <1>1, <1>2 DEF PhaseIsCounted, RunnerIsRight
  <2> QED  BY <1>1, <1>2, <2>1 DEF RunnerIsRight, Stopping, AfterStart, AfterStop
<1>6. Team # {} => NobodyIsLast'
  <2> SUFFICES ASSUME Team # {} PROVE NobodyIsLast'
    OBVIOUS
  <2>1. PhaseIsShared
    BY <1>1 DEF RunnerIsRight, Stopping
  <2>2. \A w \in Team : wpc'[w] # "post"
    BY <1>1, <1>2, <2>1 DEF PhaseIsShared, Inside, Place
  <2>3. ToStart' = ToStart /\ ToStop' = ToStop
    BY <1>1, <1>2 DEF ToStart, ToStop, InStartWait, InStopWait
  <2>4. startAt[Runner] = "out" /\ stopAt[Runner] = "out"
    BY <1>2 DEF WaitsAreMatched
  <2>5. startCount > Cardinality(ToStart)
    <3> DEFINE S == {u \in Active : ~AtStart(u)}
    <3>1. Runner \in S /\ ToStart \subseteq S \ {Runner} /\ IsFiniteSet(S)
      BY <2>4, FS_Subset DEF ToStart, AtStart, InStartWait, Active
    <3>2. startCount >= Cardinality(S) /\ startCount \in Int
      BY <2>1 DEF PhaseIsShared, TypesOK, StartTypes
    <3> HIDE DEF S
    <3>3. /\ Cardinality(ToStart) < Cardinality(S)
          /\ Cardinality(ToStart) \in Nat /\ Cardinality(S) \in Nat
      BY <3>1, OneLess
    <3> QED  BY <3>2, <3>3
  <2>6. stopCount > Cardinality(ToStop)
    <3> DEFINE S == {u \in Active : ~AtStop(u)}
    <3>1. \A w \in ToStop : ~AtStop(w)
      BY DEF ToStop, AtStop, InStopWait, WaitsAreMatched, Place
    <3>2. Runner \in S /\ ToStop \subseteq S \ {Runner} /\ IsFiniteSet(S)
      BY <2>4, <3>1, FS_Subset DEF ToStop, AtStop, InStopWait, Active
    <3>3. stopCount >= Cardinality(S) /\ stopCount \in Int
      BY <2>1 DEF PhaseIsShared, TypesOK, StopTypes
    <3> HIDE DEF S
    <3>4. /\ Cardinality(ToStop) < Cardinality(S)
          /\ Cardinality(ToStop) \in Nat /\ Cardinality(S) \in Nat
      BY <3>2, OneLess
    <3> QED  BY <3>3, <3>4
  <2> QED  BY <1>1, <1>2, <2>2, <2>3, <2>5, <2>6 DEF NobodyIsLast
<1>7. QueuesOK'
  BY <1>1 DEF QueuesOK, queueVars
<1> QED  BY <1>1, <1>2, <1>3, <1>4, <1>5, <1>6, <1>7

(* A Cancel wakes the threads of a barrier up and is in nobody's way.      *)
LEMMA CancelStartInv ==
  ASSUME PhaseInv, CancelStart
  PROVE  PhaseInv'
<1> USE ThreadFacts DEF PhaseInv, threadVars, phaseVars, stopVars, queueVars
<1>1. /\ rpc \in {"cancelStart", "lastCancelStart"}
      /\ rpc' \in {"cancelStop", "lastCancelStop"}
      /\ startCancelled' = TRUE /\ startAt' = Start!NotifyAll(startAt)
      /\ startGeneration' = (startGeneration + 1) % GenModulus
      /\ UNCHANGED <<startThreadCount, startCount, startGen, startStatus>>
      /\ UNCHANGED <<threadVars, queueVars, phaseVars, stopVars>>
  BY DEF CancelStart, Goto, Start!Cancel, Start!NextGeneration
<1>2. /\ startAt' \in [Threads -> Start!Location]
      /\ \A u \in Threads : /\ startAt'[u] = "out" <=> startAt[u] = "out"
                            /\ InStartWait(u)' <=> InStartWait(u)
                            /\ InStopWait(u)' <=> InStopWait(u)
  BY <1>1 DEF Start!NotifyAll, Start!Location, TypesOK, StartTypes, InStartWait, InStopWait
<1>3. /\ Team' = Team /\ \A u \in Threads : Place(u)' = Place(u)
      /\ Place(Runner) = "loop" /\ ~Inside(Runner) /\ ~Inside(Runner)'
  BY <1>1 DEF Team, Place, Inside
<1>4. TypesOK'
  <2>1. startGeneration' \in 0 .. GenModulus - 1
    BY <1>1, NumbersDiffer DEF TypesOK, StartTypes
  <2>2. rpc' \in RunnerLocation
    BY <1>1 DEF RunnerLocation
  <2> QED  BY <1>1, <1>2, <2>1, <2>2 DEF TypesOK, StartTypes, StopTypes
<1>5. WaitsAreMatched'
  BY <1>1, <1>2, <1>3 DEF WaitsAreMatched
<1>6. RunnerIsRight' /\ ~running
  <2>1. PhaseIsCounted'
    BY <1>1, <1>3 DEF PhaseIsCounted, RunnerIsRight
  <2> QED  BY <1>1, <1>3, <2>1 DEF RunnerIsRight, Stopping, AfterStart, AfterStop
<1>7. ToStart' = ToStart /\ ToStop' = ToStop
  BY <1>1, <1>2, <1>3 DEF ToStart, ToStop
<1>8. NobodyIsLast => NobodyIsLast'
  BY <1>1, <1>3, <1>7 DEF NobodyIsLast
<1>9. QueuesOK'
  BY <1>1 DEF QueuesOK
<1> QED  BY <1>1, <1>3, <1>4, <1>5, <1>6, <1>8, <1>9

LEMMA CancelStopInv ==
  ASSUME PhaseInv, CancelStop
  PROVE  PhaseInv'
<1> USE ThreadFacts DEF PhaseInv, threadVars, phaseVars, startVars, queueVars
<1>1. /\ rpc \in {"cancelStop", "lastCancelStop"}
      /\ rpc' \in {"join", "lastJoin"}
      /\ stopCancelled' = TRUE /\ stopAt' = Stop!NotifyAll(stopAt)
      /\ stopGeneration' = (stopGeneration + 1) % GenModulus
      /\ UNCHANGED <<stopThreadCount, stopCount, stopGen>>
      /\ UNCHANGED <<threadVars, queueVars, phaseVars, startVars>>
  BY DEF CancelStop, BothAreCancelled, Goto, Stop!Cancel, Stop!NextGeneration
<1>2. /\ stopAt' \in [Threads -> Stop!Location]
      /\ \A u \in Threads : /\ stopAt'[u] = "out" <=> stopAt[u] = "out"
                            /\ InStopWait(u)' <=> InStopWait(u)
                            /\ InStartWait(u)' <=> InStartWait(u)
  BY <1>1 DEF Stop!NotifyAll, Stop!Location, TypesOK, StopTypes, InStartWait, InStopWait
<1>3. /\ Team' = Team /\ \A u \in Threads : Place(u)' = Place(u)
      /\ Place(Runner) = "loop" /\ ~Inside(Runner) /\ ~Inside(Runner)'
  BY <1>1 DEF Team, Place, Inside
<1>4. TypesOK'
  <2>1. stopGeneration' \in 0 .. GenModulus - 1
    BY <1>1, NumbersDiffer DEF TypesOK, StopTypes
  <2>2. rpc' \in RunnerLocation
    BY <1>1 DEF RunnerLocation
  <2> QED  BY <1>1, <1>2, <2>1, <2>2 DEF TypesOK, StartTypes, StopTypes
<1>5. WaitsAreMatched'
  BY <1>1, <1>2, <1>3 DEF WaitsAreMatched
<1>6. RunnerIsRight' /\ ~running
  <2>1. PhaseIsCounted'
    BY <1>1, <1>3 DEF PhaseIsCounted, RunnerIsRight
  <2> QED  BY <1>1, <1>3, <2>1 DEF RunnerIsRight, Stopping, AfterStart, AfterStop
<1>7. ToStart' = ToStart /\ ToStop' = ToStop
  BY <1>1, <1>2, <1>3 DEF ToStart, ToStop
<1>8. NobodyIsLast => NobodyIsLast'
  BY <1>1, <1>3, <1>7 DEF NobodyIsLast
<1>9. QueuesOK'
  BY <1>1 DEF QueuesOK
<1> QED  BY <1>1, <1>3, <1>4, <1>5, <1>6, <1>8, <1>9

(* Once they are joined there are no threads.                              *)
LEMMA JoinInv ==
  ASSUME PhaseInv, Join
  PROVE  PhaseInv' /\ Team' = {}
<1> USE ThreadFacts DEF PhaseInv, phaseVars, startVars, stopVars, queueVars
<1>1. /\ rpc \in {"join", "lastJoin"} /\ rpc' \in {"activate", "destroyed"}
      /\ \A w \in Workers : wpc[w] \in {"none", "exited"}
      /\ wpc' = [w \in Workers |-> "none"]
      /\ UNCHANGED <<running, built, queueVars, phaseVars, startVars, stopVars>>
  BY DEF Join, Goto
<1>2. Team' = {}
  BY <1>1 DEF Team
<1>3. /\ Place(Runner) = "loop" /\ Place(Runner)' = "loop"
      /\ ~Inside(Runner) /\ ~Inside(Runner)'
  BY <1>1 DEF Place, Inside
<1>4. \A u \in Threads : startAt[u] = "out" /\ stopAt[u] = "out"
  <2>1. \A u \in Threads : Place(u) \notin {"start", "stop"}
    BY <1>1, <1>3 DEF Place
  <2> QED  BY <2>1 DEF WaitsAreMatched
<1>5. TypesOK'
  BY <1>1 DEF TypesOK, StartTypes, StopTypes, WorkerLocation, RunnerLocation
<1>6. WaitsAreMatched'
  BY <1>1, <1>4 DEF WaitsAreMatched
<1>7. RunnerIsRight' /\ ~running
  <2>1. PhaseIsCounted'
    BY <1>1, <1>3 DEF PhaseIsCounted, RunnerIsRight
  <2> QED  BY <1>1, <1>2, <2>1 DEF RunnerIsRight, Stopping, AfterStart, AfterStop
<1>8. QueuesOK'
  BY <1>1 DEF QueuesOK
<1> QED  BY <1>1, <1>2, <1>5, <1>6, <1>7, <1>8

(* New threads are outside, and the new barriers wait for all of them.     *)
LEMMA ActivateInv ==
  ASSUME PhaseInv, Activate
  PROVE  PhaseInv' /\ Team = {} /\ opened = ended
<1> USE ThreadFacts DEF PhaseInv
<1> DEFINE n == Len(post \o pending)
<1>1. /\ rpc = "activate" /\ rpc' = "requests" /\ built' = TRUE /\ running' = TRUE
      /\ wpc' = [w \in Workers |-> IF w <= n THEN "loop" ELSE "none"]
      /\ done' = [w \in Workers |-> opened]
      /\ UNCHANGED <<opened, ended>>
      /\ pending' = <<>> /\ post' = post \o pending /\ requested' = requested
  BY DEF Activate, Goto
<1>2. /\ startThreadCount' = n + 1 /\ startCount' = n + 1 /\ startCancelled' = FALSE
      /\ startGeneration' = 0
      /\ startAt' = [t \in Threads |-> "out"] /\ startGen' = [t \in Threads |-> 0]
      /\ startStatus' = [t \in Threads |-> "NONE"]
  BY DEF Activate, Start!Construct, BarrierSize
<1>3. /\ stopThreadCount' = n + 1 /\ stopCount' = n + 1 /\ stopCancelled' = FALSE
      /\ stopGeneration' = 0
      /\ stopAt' = [t \in Threads |-> "out"] /\ stopGen' = [t \in Threads |-> 0]
  BY DEF Activate, Stop!Construct, BarrierSize
<1>4. n \in Nat /\ QueuesOK'
  <2>1. post \o pending \in Seq(SystemRecord)
    BY DEF QueuesOK
  <2>2. << >> \in Seq(SystemRecord)
    OBVIOUS
  <2> QED  BY <1>1, <2>1, <2>2 DEF QueuesOK
<1> HIDE DEF n
<1>5. TypesOK'
  <2>1. 0 \in 0 .. GenModulus - 1
    BY PostUpdateAssumption
  <2>2. StartTypes'
    <3>1. startCount' \in Int /\ startThreadCount' \in Nat
      BY <1>2, <1>4
    <3>5. startCancelled' \in BOOLEAN
      BY <1>2
    <3>2. /\ startGen' \in [Threads -> 0 .. GenModulus - 1]
          /\ startGeneration' \in 0 .. GenModulus - 1
      BY <1>2, <2>1
    <3>3. startAt' \in [Threads -> Start!Location]
      BY <1>2 DEF Start!Location
    <3>4. startStatus' \in [Threads -> Start!ExitStatus \cup {"NONE"}]
      BY <1>2
    <3> QED  BY <3>1, <3>2, <3>3, <3>4, <3>5 DEF StartTypes
  <2>5. StopTypes'
    <3>1. stopCount' \in Int /\ stopThreadCount' \in Nat
      BY <1>3, <1>4
    <3>5. stopCancelled' \in BOOLEAN
      BY <1>3
    <3>2. /\ stopGen' \in [Threads -> 0 .. GenModulus - 1]
          /\ stopGeneration' \in 0 .. GenModulus - 1
      BY <1>3, <2>1
    <3>3. stopAt' \in [Threads -> Stop!Location]
      BY <1>3 DEF Stop!Location
    <3> QED  BY <3>1, <3>2, <3>3, <3>5 DEF StopTypes
  <2>3. done' \in [Workers -> 0 .. opened'] /\ opened' \in Nat /\ ended' \in Nat
    BY <1>1 DEF TypesOK
  <2>4. wpc' \in [Workers -> WorkerLocation]
    BY <1>1 DEF WorkerLocation
  <2> QED  BY <1>1, <2>2, <2>3, <2>4, <2>5 DEF TypesOK, RunnerLocation
<1>6. WaitsAreMatched'
  BY <1>2, <1>3 DEF WaitsAreMatched
<1>7. /\ \A u \in Active' : Place(u)' = "loop" /\ ~Inside(u)' /\ ~HasToRun(u)'
      /\ Active' \subseteq Threads /\ Runner \in Active'
  <2>1. \A u \in Workers : wpc'[u] # "none" => wpc'[u] = "loop"
    BY <1>1
  <2>2. \A u \in Active' : u \in Threads /\ (u # Runner => u \in Workers /\ wpc'[u] # "none")
    BY DEF Active, Team, Threads
  <2>3. \A u \in Active' : Place(u)' = "loop"
    BY <1>1, <2>1, <2>2 DEF Place
  <2> QED  BY <2>2, <2>3 DEF Inside, HasToRun, Active
<1>8. opened = ended /\ Team = {}
  BY <1>1 DEF RunnerIsRight, PhaseIsCounted, Place, Inside
<1>9. RunnerIsRight'
  <2>1. PhaseIsCounted'
    BY <1>1, <1>7, <1>8 DEF PhaseIsCounted
  <2> QED  BY <1>1, <1>2, <1>3, <2>1 DEF RunnerIsRight, Stopping, AfterStart, AfterStop
<1>10. PhaseIsShared'
  <2>1. Active' \subseteq 0 .. n
    <3>1. \A w \in Workers : wpc'[w] # "none" => w <= n
      BY <1>1
    <3>2. \A w \in Team' : w \in 0 .. n
      BY <1>4, <3>1 DEF Team
    <3> QED  BY <1>4, <3>2 DEF Active, Runner
  <2>2. IsFiniteSet(0 .. n) /\ Cardinality(0 .. n) = n + 1
    BY <1>4, FS_Interval
  <2>3. IsFiniteSet(Active') /\ Cardinality(Active') \in Nat /\ Cardinality(Active') <= n + 1
    BY <2>1, <2>2, NotMore
  <2>4. /\ Cardinality({u \in Active' : ~AtStart(u)'}) \in Nat
        /\ Cardinality({u \in Active' : ~AtStart(u)'}) <= n + 1
    BY <2>1, <2>2, NotMore
  <2>5. /\ Cardinality({u \in Active' : ~AtStop(u)'}) \in Nat
        /\ Cardinality({u \in Active' : ~AtStop(u)'}) <= n + 1
    BY <2>1, <2>2, NotMore
  <2>6. \A w \in Team' : /\ w \in Active' /\ w \in Workers
                         /\ wpc'[w] # "exited" /\ done'[w] = opened'
    BY <1>1 DEF Team, Active
  <2>7. \A w \in Team' : /\ Inside(w)' <=> Inside(Runner)'
                         /\ done'[w] = IF HasToRun(w)' THEN opened' - 1 ELSE opened'
    BY <1>7, <2>6
  <2> QED  BY <1>2, <1>3, <1>4, <2>3, <2>4, <2>5, <2>6, <2>7 DEF PhaseIsShared
<1> QED  BY <1>1, <1>4, <1>5, <1>6, <1>8, <1>9, <1>10

-------------------------------------------------------------------------------
(* A step of a thread at a barrier, whoever it is.                         *)
StepOf(t) ==
  /\ wpc' \in [Workers -> WorkerLocation] /\ QueuesOK'
  /\ IF t = Runner THEN /\ rpc \in {"waitStart", "waitStop"}
                        /\ rpc' \in {"waitStart", "waitStop", "removals"}
                        /\ rpc' = "removals" => rpc = "waitStop"
                   ELSE rpc' = rpc

LEMMA StartInv ==
  ASSUME PhaseInv, NEW t \in Active, AtTheStart(t), StepOf(t)
  PROVE  PhaseInv'
<1> USE ThreadFacts DEF PhaseInv
<1>1. StartTypes' /\ OthersAtStart(t)
  BY StartWaitIs DEF AtTheStart, InStart, TypesOK
<1>2. /\ opened' \in {opened, opened + 1} /\ Team' = Team
      /\ UNCHANGED <<running, built, ended, done, stopVars>>
      /\ UNCHANGED <<startThreadCount, startCancelled>>
  BY <1>1 DEF AtTheStart, InStart, OthersAtStart
<1>3. TypesOK'
  <2>1. StopTypes'
    BY <1>2 DEF TypesOK, StopTypes, stopVars
  <2>2. opened' \in Nat /\ done' \in [Workers -> 0 .. opened']
    BY <1>2 DEF TypesOK
  <2>3. rpc' \in RunnerLocation
    BY DEF StepOf, TypesOK, RunnerLocation
  <2> QED  BY <1>1, <1>2, <2>1, <2>2, <2>3 DEF TypesOK, StepOf
<1>4. WaitsAreMatched'
  BY StartKeepsMatch
<1>5. running => PhaseIsShared' /\ PhaseIsCounted'
  BY StartWhileRunning
<1>6. ~running => t \in Team /\ rpc \in Stopping /\ rpc' = rpc
  <2> SUFFICES ASSUME ~running PROVE t \in Team /\ rpc \in Stopping /\ rpc' = rpc
    OBVIOUS
  <2>1. t # Runner
    BY DEF AtTheStart, Place, RunnerIsRight, Stopping
  <2> QED  BY <2>1 DEF Active, RunnerIsRight, StepOf
<1>7. ~running => NobodyIsLast' /\ opened' = opened
  BY <1>6, StartWhileStopping
<1>8. PhaseIsCounted'
  <2>1. CASE ~running
    <3>1. /\ Place(Runner) = "loop" /\ Place(Runner)' = "loop"
          /\ ~Inside(Runner) /\ ~Inside(Runner)'
      BY <1>6, <2>1 DEF Place, Inside, Stopping
    <3> QED  BY <1>2, <1>7, <2>1, <3>1 DEF PhaseIsCounted, RunnerIsRight
  <2> QED  BY <1>5, <2>1
<1>9. RunnerIsRight'
  <2>1. CASE t = Runner
    BY <1>2, <1>8, <2>1 DEF RunnerIsRight, StepOf, Stopping, AfterStart, AfterStop, stopVars
  <2>2. CASE t # Runner
    BY <1>2, <1>8, <2>2 DEF RunnerIsRight, StepOf, stopVars
  <2> QED  BY <2>1, <2>2
<1> QED  BY <1>2, <1>3, <1>4, <1>5, <1>7, <1>9 DEF StepOf

LEMMA StopInv ==
  ASSUME PhaseInv, NEW t \in Active, AtTheStop(t), StepOf(t)
  PROVE  PhaseInv'
<1> USE ThreadFacts DEF PhaseInv
<1>1. StopTypes' /\ OthersAtStop(t)
  BY StopWaitIs DEF AtTheStop, TypesOK
<1>2. /\ ended' \in {ended, opened} /\ Team' = Team /\ (t # Runner => ended' = ended)
      /\ UNCHANGED <<running, built, opened, done, startVars>>
      /\ UNCHANGED <<stopThreadCount, stopCancelled>>
  BY <1>1 DEF AtTheStop, OthersAtStop
<1>3. TypesOK'
  <2>1. StartTypes'
    BY <1>2 DEF TypesOK, StartTypes, startVars
  <2>2. ended' \in Nat
    BY <1>2 DEF TypesOK
  <2>3. rpc' \in RunnerLocation
    BY DEF StepOf, TypesOK, RunnerLocation
  <2> QED  BY <1>1, <1>2, <2>1, <2>2, <2>3 DEF TypesOK, StepOf
<1>4. WaitsAreMatched'
  BY StopKeepsMatch
<1>5. running => PhaseIsShared' /\ PhaseIsCounted'
  BY StopWhileRunning
<1>6. ~running => t \in Team /\ rpc \in Stopping /\ rpc' = rpc
  <2> SUFFICES ASSUME ~running PROVE t \in Team /\ rpc \in Stopping /\ rpc' = rpc
    OBVIOUS
  <2>1. t # Runner
    BY DEF AtTheStop, Place, RunnerIsRight, Stopping
  <2> QED  BY <2>1 DEF Active, RunnerIsRight, StepOf
<1>7. ~running => NobodyIsLast'
  BY <1>6, StopWhileStopping
<1>8. PhaseIsCounted'
  <2>1. CASE ~running
    <3>1. /\ Place(Runner) = "loop" /\ Place(Runner)' = "loop"
          /\ ~Inside(Runner) /\ ~Inside(Runner)'
      BY <1>6, <2>1 DEF Place, Inside, Stopping
    <3>2. t # Runner
      BY <1>6, <2>1
    <3> QED  BY <1>2, <2>1, <3>1, <3>2 DEF PhaseIsCounted, RunnerIsRight
  <2> QED  BY <1>5, <2>1
<1>9. RunnerIsRight'
  <2>1. CASE t = Runner
    BY <1>2, <1>8, <2>1 DEF RunnerIsRight, StepOf, Stopping, AfterStart, AfterStop, startVars
  <2>2. CASE t # Runner
    BY <1>2, <1>8, <2>2 DEF RunnerIsRight, StepOf, startVars
  <2> QED  BY <2>1, <2>2
<1> QED  BY <1>2, <1>3, <1>4, <1>5, <1>7, <1>9 DEF StepOf

(* Which steps these are.                                                  *)
LEMMA RunnerAtStart ==
  ASSUME PhaseInv, RunnerInStart
  PROVE  AtTheStart(Runner) /\ StepOf(Runner)
<1>1. /\ rpc = "waitStart" /\ InStart(Runner)
      /\ rpc' = IF startAt'[Runner] = "out" THEN "waitStop" ELSE "waitStart"
      /\ UNCHANGED <<threadVars, queueVars, ended, done, stopVars>>
  BY DEF RunnerInStart
<1>2. AtTheStart(Runner)
  BY <1>1, ThreadFacts DEF AtTheStart, Place, Team, threadVars
<1>3. QueuesOK' /\ wpc' \in [Workers -> WorkerLocation]
  BY <1>1 DEF PhaseInv, QueuesOK, TypesOK, queueVars, threadVars
<1> QED  BY <1>1, <1>2, <1>3 DEF StepOf

LEMMA RunnerAtStop ==
  ASSUME PhaseInv, RunnerInStop
  PROVE  AtTheStop(Runner) /\ StepOf(Runner)
<1>1. /\ rpc = "waitStop" /\ Stop!WaitStep(Runner)
      /\ rpc' = IF stopAt'[Runner] = "out" THEN "removals" ELSE "waitStop"
      /\ ended' = IF rpc' = "removals" THEN opened ELSE ended
      /\ UNCHANGED <<threadVars, queueVars, opened, done, startVars>>
  BY DEF RunnerInStop
<1>2. AtTheStop(Runner)
  BY <1>1, ThreadFacts DEF AtTheStop, Place, Team, threadVars
<1>3. QueuesOK' /\ wpc' \in [Workers -> WorkerLocation]
  BY <1>1 DEF PhaseInv, QueuesOK, TypesOK, queueVars, threadVars
<1> QED  BY <1>1, <1>2, <1>3 DEF StepOf

LEMMA WorkerAtStart ==
  ASSUME PhaseInv, NEW w \in Workers, WorkerInStart(w)
  PROVE  AtTheStart(w) /\ StepOf(w) /\ w \in Team
<1> USE ThreadFacts
<1>1. /\ wpc[w] = "start" /\ InStart(w)
      /\ wpc' = [wpc EXCEPT ![w] = IF startAt'[w] = "out" THEN "test" ELSE "start"]
      /\ UNCHANGED <<rpc, running, built, queueVars, ended, done, stopVars>>
  BY DEF WorkerInStart, WGoto
<1>2. wpc \in [Workers -> WorkerLocation] /\ w # Runner
  BY DEF PhaseInv, TypesOK
<1>3. wpc' \in [Workers -> WorkerLocation] /\ Team' = Team /\ w \in Team
  BY <1>1, <1>2 DEF WorkerLocation, Team
<1>4. AtTheStart(w)
  BY <1>1, <1>2, <1>3 DEF AtTheStart, Place
<1>5. QueuesOK'
  BY <1>1 DEF PhaseInv, QueuesOK, queueVars
<1> QED  BY <1>1, <1>2, <1>3, <1>4, <1>5 DEF StepOf

LEMMA WorkerAtStop ==
  ASSUME PhaseInv, NEW w \in Workers, WorkerInStop(w)
  PROVE  AtTheStop(w) /\ StepOf(w) /\ w \in Team
<1> USE ThreadFacts
<1>1. /\ wpc[w] = "stop" /\ Stop!WaitStep(w)
      /\ wpc' = [wpc EXCEPT ![w] = IF stopAt'[w] = "out" THEN "loop" ELSE "stop"]
      /\ UNCHANGED <<rpc, running, built, queueVars, phaseVars, startVars>>
  BY DEF WorkerInStop, WGoto
<1>2. wpc \in [Workers -> WorkerLocation] /\ w # Runner
  BY DEF PhaseInv, TypesOK
<1>3. wpc' \in [Workers -> WorkerLocation] /\ Team' = Team /\ w \in Team
  BY <1>1, <1>2 DEF WorkerLocation, Team
<1>4. AtTheStop(w)
  BY <1>1, <1>2, <1>3 DEF AtTheStop, Place, phaseVars
<1>5. QueuesOK'
  BY <1>1 DEF PhaseInv, QueuesOK, queueVars
<1> QED  BY <1>1, <1>2, <1>3, <1>4, <1>5 DEF StepOf

(* A worker that goes on between the barriers.                             *)
Goes(w, from, to) ==
  /\ from \in {"loop", "test", "post"} /\ to \in {"start", "exited", "post", "stop"}
  /\ WGoto(w, from, to)
  /\ UNCHANGED <<rpc, running, built, queueVars, opened, ended, startVars, stopVars>>

LEMMA WorkerGoes ==
  ASSUME PhaseInv, NEW w \in Workers, NEW from, NEW to, Goes(w, from, to)
  PROVE  /\ w \in Team /\ Team' = Team /\ wpc' \in [Workers -> WorkerLocation]
         /\ startAt[w] = "out" /\ stopAt[w] = "out"
         /\ Place(w) = from /\ Place(w)' = to
         /\ \A u \in Threads \ {w} : Place(u)' = Place(u) /\ SamePhase(u)
         /\ \A u \in Threads : SameAtStart(u) /\ SameAtStop(u)
         /\ QueuesOK' /\ WaitsAreMatched' /\ RunnerIsRight'
<1> USE ThreadFacts DEF PhaseInv
<1>1. /\ wpc[w] = from /\ wpc' = [wpc EXCEPT ![w] = to] /\ w # Runner
      /\ wpc \in [Workers -> WorkerLocation]
      /\ UNCHANGED <<rpc, running, built, queueVars, opened, ended, startVars, stopVars>>
  BY DEF Goes, WGoto, TypesOK
<1>2. w \in Team /\ Team' = Team /\ wpc' \in [Workers -> WorkerLocation]
  BY <1>1 DEF Team, WorkerLocation, Goes
<1>3. Place(w) = from /\ Place(w)' = to /\ \A u \in Threads \ {w} : Place(u)' = Place(u)
  BY <1>1 DEF Place
<1>4. startAt[w] = "out" /\ stopAt[w] = "out"
  BY <1>3 DEF WaitsAreMatched, Goes
<1>5. \A u \in Threads : SameAtStart(u) /\ SameAtStop(u)
  BY <1>1 DEF SameAtStart, SameAtStop, AtStart, AtStop, LeavesStart, LeavesStop,
              InStartWait, InStopWait, startVars, stopVars
<1>6. \A u \in Threads \ {w} : SamePhase(u)
  BY <1>3, <1>5 DEF SamePhase, SameAtStart, SameAtStop, Inside, HasToRun
<1>7. QueuesOK'
  BY <1>1 DEF QueuesOK, queueVars
<1>8. WaitsAreMatched'
  BY <1>1, <1>3, <1>4 DEF WaitsAreMatched, startVars, stopVars
<1>9. RunnerIsRight'
  <2>1. PhaseIsCounted'
    BY <1>1, <1>3, <1>6 DEF PhaseIsCounted, RunnerIsRight, SamePhase
  <2> QED  BY <1>1, <1>2, <2>1 DEF RunnerIsRight, startVars, stopVars
<1> QED  BY <1>2, <1>3, <1>4, <1>5, <1>6, <1>7, <1>8, <1>9

(* While the threads run it is enough to look at that worker ...           *)
LEMMA GoesWhileRunning ==
  ASSUME PhaseInv, running, NEW w \in Workers, NEW from, NEW to, Goes(w, from, to),
         to # "exited", Inside(w)' <=> Inside(w),
         \A u \in Workers \ {w} : done'[u] = done[u],
         done'[w] = IF HasToRun(w)' THEN opened - 1 ELSE opened
  PROVE  PhaseIsShared'
<1> USE ThreadFacts DEF PhaseInv
<1>1. /\ UNCHANGED <<opened, startCount, stopCount, startThreadCount, stopThreadCount>>
      /\ \A u \in Workers \ {w} : wpc'[u] = wpc[u]
      /\ wpc'[w] = to
  BY DEF Goes, WGoto, startVars, stopVars, TypesOK
<1>2. /\ Team' = Team /\ Active' = Active
      /\ \A u \in Threads \ {w} : SamePhase(u)
      /\ \A u \in Threads : SameAtStart(u) /\ SameAtStop(u)
  BY WorkerGoes DEF Active
<1>3. Inside(Runner)' <=> Inside(Runner)
  BY <1>2 DEF SamePhase
<1>4. \A u \in Team : /\ wpc'[u] # "exited"
                      /\ Inside(u)' <=> Inside(Runner)'
                      /\ done'[u] = IF HasToRun(u)' THEN opened' - 1 ELSE opened'
  BY <1>1, <1>2, <1>3 DEF PhaseIsShared, SamePhase
<1>5. {u \in Active : ~AtStart(u)'} = {u \in Active : ~AtStart(u)}
  BY <1>2 DEF SameAtStart
<1>6. {u \in Active : ~AtStop(u)'} = {u \in Active : ~AtStop(u)}
  BY <1>2 DEF SameAtStop
<1> QED  BY <1>1, <1>2, <1>4, <1>5, <1>6 DEF PhaseIsShared

(* ... and while they are stopped, at what it has still before it.         *)
LEMMA GoesWhileStopping ==
  ASSUME PhaseInv, NobodyIsLast, NEW w \in Workers, NEW from, NEW to, Goes(w, from, to),
         \/ from = "loop" /\ to = "exited"
         \/ from = "test" /\ to = "stop"
  PROVE  NobodyIsLast'
<1> USE ThreadFacts DEF PhaseInv
<1>1. /\ Team' = Team /\ w \in Team /\ stopAt[w] = "out" /\ wpc[w] = from /\ wpc'[w] = to
      /\ \A u \in Workers \ {w} : wpc'[u] = wpc[u]
      /\ UNCHANGED <<startVars, stopVars>>
  BY WorkerGoes DEF Goes, WGoto, TypesOK
<1>2. \A u \in Team : /\ InStartWait(u)' <=> InStartWait(u)
                      /\ InStopWait(u)' <=> InStopWait(u)
  BY <1>1 DEF InStartWait, InStopWait, startVars, stopVars
<1>3. ~InStopWait(w)
  BY <1>1 DEF InStopWait
<1>4. ToStart' = ToStart /\ ToStop' = ToStop
  BY <1>1, <1>2, <1>3 DEF ToStart, ToStop
<1>5. \A u \in Team : wpc'[u] # "post"
  BY <1>1 DEF NobodyIsLast
<1> QED  BY <1>1, <1>4, <1>5 DEF NobodyIsLast, startVars, stopVars

LEMMA WorkerLoopInv ==
  ASSUME PhaseInv, NEW w \in Workers, WorkerLoop(w)
  PROVE  PhaseInv' /\ Team' = Team
<1> USE ThreadFacts DEF PhaseInv
<1> DEFINE to == IF running THEN "start" ELSE "exited"
<1>1. Goes(w, "loop", to) /\ UNCHANGED phaseVars
  BY DEF WorkerLoop, Goes, phaseVars
<1>2. /\ w \in Team /\ Team' = Team /\ wpc' \in [Workers -> WorkerLocation]
      /\ startAt[w] = "out" /\ Place(w) = "loop" /\ Place(w)' = to
      /\ SameAtStart(w) /\ w # Runner
      /\ QueuesOK' /\ WaitsAreMatched' /\ RunnerIsRight'
  BY <1>1, WorkerGoes
<1>3. TypesOK' /\ running' = running
  BY <1>1, <1>2 DEF Goes, TypesOK, StartTypes, StopTypes, startVars, stopVars, phaseVars
<1>4. running => PhaseIsShared'
  <2> SUFFICES ASSUME running PROVE PhaseIsShared'
    OBVIOUS
  <2>1. ~LeavesStart(w)' /\ ~Inside(w) /\ ~HasToRun(w) /\ to = "start"
    BY <1>2 DEF SameAtStart, LeavesStart, InStartWait, Inside, HasToRun
  <2>2. ~Inside(w)' /\ ~HasToRun(w)'
    BY <1>2, <2>1 DEF Inside, HasToRun
  <2>3. /\ \A u \in Workers \ {w} : done'[u] = done[u]
        /\ done'[w] = opened
    BY <1>1, <1>2, <2>1 DEF PhaseIsShared, phaseVars
  <2> QED  BY <1>1, <2>1, <2>2, <2>3, GoesWhileRunning
<1>5. ~running => NobodyIsLast'
  BY <1>1, <1>2, GoesWhileStopping
<1> QED  BY <1>2, <1>3, <1>4, <1>5

LEMMA WorkerTestInv ==
  ASSUME PhaseInv, NEW w \in Workers, WorkerTest(w)
  PROVE  PhaseInv' /\ Team' = Team
<1> USE ThreadFacts DEF PhaseInv
<1> DEFINE to == IF running THEN "post" ELSE "stop"
<1>1. Goes(w, "test", to) /\ UNCHANGED phaseVars
  BY DEF WorkerTest, MayRun, Goes, phaseVars
<1>2. /\ w \in Team /\ Team' = Team /\ wpc' \in [Workers -> WorkerLocation]
      /\ Place(w) = "test" /\ Place(w)' = to /\ w # Runner
      /\ QueuesOK' /\ WaitsAreMatched' /\ RunnerIsRight'
  BY <1>1, WorkerGoes
<1>3. TypesOK' /\ running' = running
  BY <1>1, <1>2 DEF Goes, TypesOK, StartTypes, StopTypes, startVars, stopVars, phaseVars
<1>4. running => PhaseIsShared'
  <2> SUFFICES ASSUME running PROVE PhaseIsShared'
    OBVIOUS
  <2>1. Inside(w) /\ HasToRun(w) /\ Inside(w)' /\ HasToRun(w)' /\ to = "post"
    BY <1>2 DEF Inside, HasToRun
  <2>2. /\ \A u \in Workers \ {w} : done'[u] = done[u]
        /\ done'[w] = opened - 1
    BY <1>1, <1>2, <2>1 DEF PhaseIsShared, phaseVars
  <2> QED  BY <1>1, <2>1, <2>2, GoesWhileRunning
<1>5. ~running => NobodyIsLast'
  BY <1>1, <1>2, GoesWhileStopping
<1> QED  BY <1>2, <1>3, <1>4, <1>5

(* A PostUpdate runs in the phase it was let into.                         *)
LEMMA WorkerPostUpdateInv ==
  ASSUME PhaseInv, NEW w \in Workers, WorkerPostUpdate(w)
  PROVE  /\ PhaseInv' /\ Team' = Team /\ w \in Team
         /\ opened = ended + 1 /\ done[w] = opened - 1
<1> USE ThreadFacts DEF PhaseInv
<1>1. /\ Goes(w, "post", "stop") /\ done' = [done EXCEPT ![w] = @ + 1]
      /\ UNCHANGED <<opened, ended>>
  BY DEF WorkerPostUpdate, AfterPost, Goes
<1>2. /\ w \in Team /\ Team' = Team /\ wpc' \in [Workers -> WorkerLocation]
      /\ stopAt[w] = "out" /\ Place(w) = "post" /\ Place(w)' = "stop" /\ w # Runner
      /\ SameAtStop(w)
      /\ QueuesOK' /\ WaitsAreMatched' /\ RunnerIsRight'
  BY <1>1, WorkerGoes
<1>3. running /\ running' = running
  BY <1>1, <1>2 DEF NobodyIsLast, Place, Goes, TypesOK
<1>4. Inside(w) /\ HasToRun(w) /\ Inside(w)' /\ ~HasToRun(w)'
  BY <1>2 DEF Inside, HasToRun, SameAtStop, LeavesStop, InStopWait
<1>5. opened = ended + 1 /\ done[w] = opened - 1
  BY <1>2, <1>3, <1>4 DEF PhaseIsShared, RunnerIsRight, PhaseIsCounted
<1>6. /\ done \in [Workers -> 0 .. opened] /\ opened \in Nat /\ ended \in Nat
  BY DEF TypesOK
<1>7. /\ done' \in [Workers -> 0 .. opened] /\ done'[w] = opened
      /\ \A u \in Workers \ {w} : done'[u] = done[u]
  BY <1>1, <1>5, <1>6
<1>8. TypesOK'
  BY <1>1, <1>2, <1>7 DEF Goes, TypesOK, StartTypes, StopTypes, startVars, stopVars
<1>9. PhaseIsShared'
  BY <1>1, <1>3, <1>4, <1>7, GoesWhileRunning
<1> QED  BY <1>2, <1>3, <1>5, <1>8, <1>9

(* A thread that wakes up is where it was.                                 *)
LEMMA WakeUpInv ==
  ASSUME PhaseInv, NEW t \in Threads, WakeUp(t)
  PROVE  PhaseInv'
<1> USE ThreadFacts DEF PhaseInv
<1>1. /\ UNCHANGED <<rpc, threadVars, queueVars, phaseVars>>
      /\ UNCHANGED <<startThreadCount, startCancelled, startCount, startGeneration,
                     startGen, startStatus, stopThreadCount, stopCancelled, stopCount,
                     stopGeneration, stopGen>>
  BY DEF WakeUp, Start!SpuriousWakeup, Stop!SpuriousWakeup, startVars, stopVars
<1>2. /\ startAt' \in [Threads -> Start!Location] /\ stopAt' \in [Threads -> Stop!Location]
      /\ \A u \in Threads : /\ startAt'[u] = "out" <=> startAt[u] = "out"
                            /\ stopAt'[u] = "out" <=> stopAt[u] = "out"
                            /\ InStartWait(u)' <=> InStartWait(u)
                            /\ InStopWait(u)' <=> InStopWait(u)
  BY DEF WakeUp, Start!SpuriousWakeup, Stop!SpuriousWakeup, startVars, stopVars, TypesOK,
         StartTypes, StopTypes, InStartWait, InStopWait, Start!Location, Stop!Location
<1>3. Team' = Team /\ Active' = Active /\ \A u \in Threads : Place(u)' = Place(u)
  BY <1>1 DEF Team, Active, Place, threadVars
<1>4. \A u \in Threads : SameAtStart(u) /\ SameAtStop(u)
  BY <1>1, <1>2 DEF SameAtStart, SameAtStop, AtStart, AtStop, LeavesStart, LeavesStop
<1>5. \A u \in Threads : SamePhase(u)
  BY <1>3, <1>4 DEF SamePhase, SameAtStart, SameAtStop, Inside, HasToRun
<1>6. TypesOK' /\ running' = running
  BY <1>1, <1>2 DEF TypesOK, StartTypes, StopTypes, threadVars, phaseVars
<1>7. WaitsAreMatched'
  BY <1>1, <1>2, <1>3 DEF WaitsAreMatched
<1>8. /\ Inside(Runner)' <=> Inside(Runner)
      /\ UNCHANGED <<opened, ended, done, startThreadCount, stopThreadCount>>
      /\ Runner \in Threads
  BY <1>1, <1>5 DEF SamePhase, phaseVars
<1>9. RunnerIsRight'
  <2>1. PhaseIsCounted'
    BY <1>3, <1>8 DEF PhaseIsCounted, RunnerIsRight
  <2> QED  BY <1>1, <1>3, <2>1 DEF RunnerIsRight, threadVars
<1>10. running => PhaseIsShared'
  <2> SUFFICES ASSUME running PROVE PhaseIsShared'
    OBVIOUS
  <2>1. {u \in Active : ~AtStart(u)'} = {u \in Active : ~AtStart(u)}
    BY <1>4 DEF SameAtStart
  <2>2. {u \in Active : ~AtStop(u)'} = {u \in Active : ~AtStop(u)}
    BY <1>4 DEF SameAtStop
  <2>3. startCount' >= Cardinality({u \in Active : ~AtStart(u)'})
    BY <1>1, <2>1 DEF PhaseIsShared
  <2>4. stopCount' >= Cardinality({u \in Active : ~AtStop(u)'})
    BY <1>1, <2>2 DEF PhaseIsShared
  <2>5. \A u \in Team : SamePhase(u) /\ wpc'[u] # "exited"
    BY <1>1, <1>5 DEF PhaseIsShared, threadVars
  <2>6. PhaseIsCounted /\ PhaseIsShared
    BY DEF RunnerIsRight
  <2> QED  BY <1>3, <1>8, <2>3, <2>4, <2>5, <2>6, PhaseStays
<1>11. NobodyIsLast => NobodyIsLast'
  <2>1. ToStart' = ToStart /\ ToStop' = ToStop
    BY <1>1, <1>2, <1>3 DEF ToStart, ToStop, threadVars
  <2> QED  BY <1>1, <1>3, <2>1 DEF NobodyIsLast, threadVars
<1>12. QueuesOK'
  BY <1>1 DEF QueuesOK, queueVars
<1> QED  BY <1>3, <1>6, <1>7, <1>9, <1>10, <1>11, <1>12

-------------------------------------------------------------------------------
(* A step of the abstract specification, or none.                          *)
PhaseStep == [Phases!Next]_<<opened, ended, Team, done>>

LEMMA PhasesUntouched ==
  ASSUME UNCHANGED <<opened, ended, done>>, Team' = Team
  PROVE  PhaseStep
BY DEF PhaseStep

LEMMA CountedPhases ==
  ASSUME PhaseInv
  PROVE  /\ opened \in Nat /\ ended \in Nat /\ opened \in {ended, ended + 1}
         /\ rpc \notin {"waitStart", "waitStop"} => opened = ended
BY DEF PhaseInv, TypesOK, RunnerIsRight, PhaseIsCounted, Inside, Place

(* The phase opens when the last thread comes to the start barrier.        *)
LEMMA StartImplements ==
  ASSUME PhaseInv, NEW t \in Active, AtTheStart(t), StepOf(t)
  PROVE  PhaseInv' /\ PhaseStep
<1>1. PhaseInv'
  BY StartInv
<1>2. /\ opened' \in {opened, opened + 1} /\ Team' = Team
      /\ UNCHANGED <<ended, done>>
  BY DEF AtTheStart, InStart
<1>3. CASE opened' = opened
  BY <1>1, <1>2, <1>3, PhasesUntouched
<1>4. CASE opened' = opened + 1
  <2>1. opened' \in {ended', ended' + 1}
    BY <1>1 DEF PhaseInv, RunnerIsRight, PhaseIsCounted
  <2>2. opened = ended
    BY <1>2, <1>4, <2>1, CountedPhases
  <2>3. Phases!Open
    BY <1>2, <1>4, <2>2 DEF Phases!Open, Phases!Exclusive
  <2> QED  BY <1>1, <2>3 DEF PhaseStep, Phases!Next
<1> QED  BY <1>2, <1>3, <1>4

(* It ends when the runner gets past the stop barrier: by then everybody   *)
(* has run in it.                                                          *)
LEMMA StopImplements ==
  ASSUME PhaseInv, NEW t \in Active, AtTheStop(t), StepOf(t)
  PROVE  PhaseInv' /\ PhaseStep
<1>1. PhaseInv'
  BY StopInv
<1>2. /\ Team' = Team /\ UNCHANGED <<opened, done, running>>
      /\ ended' = IF t = Runner /\ stopAt'[t] = "out" THEN opened ELSE ended
  BY DEF AtTheStop
<1>3. CASE ended' = ended
  BY <1>1, <1>2, <1>3, PhasesUntouched
<1>4. CASE ended' # ended
  <2>1. t = Runner /\ stopAt'[t] = "out" /\ ended' = opened /\ opened # ended
    BY <1>2, <1>4
  <2>2. Place(Runner)' = "loop" /\ rpc \in {"waitStart", "waitStop"}
    BY <2>1 DEF AtTheStop, StepOf
  <2>3. ~Inside(Runner)' /\ running
    BY <2>2 DEF Inside, PhaseInv, RunnerIsRight, Stopping
  <2>4. PhaseIsShared'
    BY <1>1, <1>2, <2>3 DEF PhaseInv
  <2>5. \A w \in Team : ~Inside(w)' /\ done[w] = IF HasToRun(w)' THEN opened - 1 ELSE opened
    BY <1>2, <2>3, <2>4 DEF PhaseIsShared
  <2>6. \A w \in Team : done[w] = opened
    BY <2>5 DEF HasToRun, Inside
  <2>7. Phases!End
    BY <1>2, <2>1, <2>6 DEF Phases!End, Phases!Exclusive
  <2> QED  BY <1>1, <2>7 DEF PhaseStep, Phases!Next
<1> QED  BY <1>3, <1>4

LEMMA RebuildImplements ==
  ASSUME PhaseInv, Join \/ Activate
  PROVE  PhaseInv' /\ PhaseStep
<1>1. opened = ended
  BY CountedPhases DEF Join, Activate, Goto
<1>2. Team' \in SUBSET Workers
  BY DEF Team
<1>3. CASE Join
  <2>1. PhaseInv' /\ Team' = {} /\ UNCHANGED <<opened, ended, done>>
    BY <1>3, JoinInv DEF Join, phaseVars
  <2>2. done' \in [Workers -> 0 .. opened]
    BY <2>1 DEF PhaseInv, TypesOK
  <2>3. Phases!Rebuild
    BY <1>1, <1>2, <2>1, <2>2 DEF Phases!Rebuild, Phases!Exclusive
  <2> QED  BY <2>1, <2>3 DEF PhaseStep, Phases!Next
<1>4. CASE Activate
  <2>1. PhaseInv' /\ UNCHANGED <<opened, ended>> /\ done' = [w \in Workers |-> opened]
    BY <1>4, ActivateInv DEF Activate
  <2>2. done' \in [Workers -> 0 .. opened] /\ \A w \in Team' : done'[w] = opened
    BY <1>2, <2>1 DEF PhaseInv, TypesOK
  <2>3. Phases!Rebuild
    BY <1>1, <1>2, <2>1, <2>2 DEF Phases!Rebuild, Phases!Exclusive
  <2> QED  BY <2>1, <2>3 DEF PhaseStep, Phases!Next
<1> QED  BY <1>3, <1>4

LEMMA RunImplements ==
  ASSUME PhaseInv, NEW w \in Workers, WorkerPostUpdate(w)
  PROVE  PhaseInv' /\ PhaseStep
<1>1. /\ PhaseInv' /\ Team' = Team /\ w \in Team
      /\ opened = ended + 1 /\ done[w] = opened - 1
  BY WorkerPostUpdateInv
<1>2. done' = [done EXCEPT ![w] = @ + 1] /\ UNCHANGED <<opened, ended>>
  BY DEF WorkerPostUpdate
<1>a. done[w] + 1 = opened /\ done[w] < opened /\ opened # ended
  BY <1>1, CountedPhases
<1>3. done' = [done EXCEPT ![w] = opened] /\ done[w] < opened /\ opened # ended
  BY <1>2, <1>a
<1>4. Phases!Run(w)
  BY <1>1, <1>2, <1>3 DEF Phases!Run, Phases!Exclusive
<1> QED  BY <1>1, <1>4 DEF PhaseStep, Phases!Next

-------------------------------------------------------------------------------
LEMMA PhaseInvInit == Init => PhaseInv /\ Phases!Init
<1> SUFFICES ASSUME Init PROVE PhaseInv /\ Phases!Init
  OBVIOUS
<1> USE ThreadFacts DEF Init
<1>1. Team = {} /\ running = FALSE /\ built = FALSE
  BY DEF Team
<1>2. /\ startThreadCount = 1 /\ startCount = 1 /\ startCancelled = FALSE
      /\ startGeneration = 0
      /\ startAt = [t \in Threads |-> "out"] /\ startGen = [t \in Threads |-> 0]
      /\ startStatus = [t \in Threads |-> "NONE"]
  BY DEF Start!BarrierInit
<1>3. /\ stopThreadCount = 1 /\ stopCount = 1 /\ stopCancelled = FALSE
      /\ stopGeneration = 0
      /\ stopAt = [t \in Threads |-> "out"] /\ stopGen = [t \in Threads |-> 0]
  BY DEF Stop!BarrierInit
<1>4. 0 \in 0 .. GenModulus - 1
  BY PostUpdateAssumption
<1>5. StartTypes
  <2>1. startCancelled \in BOOLEAN
    BY <1>2
  <2>2. startAt \in [Threads -> Start!Location]
    BY <1>2 DEF Start!Location
  <2> QED  BY <1>2, <1>4, <2>1, <2>2 DEF StartTypes
<1>6. StopTypes
  <2>1. stopCancelled \in BOOLEAN
    BY <1>3
  <2>2. stopAt \in [Threads -> Stop!Location]
    BY <1>3 DEF Stop!Location
  <2> QED  BY <1>3, <1>4, <2>1, <2>2 DEF StopTypes
<1>7. TypesOK
  <2>1. wpc \in [Workers -> WorkerLocation]
    BY DEF WorkerLocation
  <2>2. running \in BOOLEAN /\ built \in BOOLEAN
    BY <1>1
  <2> QED  BY <1>5, <1>6, <2>1, <2>2 DEF TypesOK, RunnerLocation
<1>8. QueuesOK
  BY DEF QueuesOK
<1>9. WaitsAreMatched
  BY <1>2, <1>3 DEF WaitsAreMatched
<1>10. RunnerIsRight
  BY <1>1, <1>2, <1>3 DEF RunnerIsRight, PhaseIsCounted, Place, Inside
<1>11. Phases!Init
  BY <1>1 DEF Phases!Init
<1> QED  BY <1>1, <1>7, <1>8, <1>9, <1>10, <1>11 DEF PhaseInv

(* A reset leaves a sequence of systems that is not longer.                *)
LEMMA ResetKeepsRecords ==
  ASSUME QueuesOK, ResetSystems
  PROVE  post' \in Seq(SystemRecord) /\ Len(post') \in Nat /\ Len(post') <= Len(post)
<1> DEFINE Positions(kind) == {i \in DOMAIN post : Kind[post[i].id] = kind}
           K == Positions("reset")
           kept == Picked(post, K)
<1>1. PICK P \in SUBSET {i \in Positions("plugin") : post[i].loaded} :
        post' = kept \o [i \in DOMAIN Picked(post, P) |-> Reloaded(Picked(post, P)[i])]
  BY DEF ResetSystems
<1> DEFINE old == Picked(post, P)
           loaded == [i \in DOMAIN old |-> Reloaded(old[i])]
<1>2. K \cap P = {} /\ K \subseteq DOMAIN post /\ P \subseteq DOMAIN post
  OBVIOUS
<1> HIDE DEF Positions, K
<1>3. /\ kept \in Seq(SystemRecord) /\ Len(kept) = Cardinality(K)
      /\ old \in Seq(SystemRecord) /\ Len(old) = Cardinality(P)
  BY <1>2, PickedIsASequence DEF QueuesOK
<1>4. post' = kept \o loaded
  BY <1>1
<1> HIDE DEF kept, old
<1>5. /\ IsFiniteSet(DOMAIN post) /\ Cardinality(DOMAIN post) = Len(post)
      /\ Len(post) \in Nat
  <2>1. DOMAIN post = 1 .. Len(post) /\ Len(post) \in Nat
    BY DEF QueuesOK
  <2>2. IsFiniteSet(1 .. Len(post)) /\ Cardinality(1 .. Len(post)) = Len(post)
    BY <2>1, FirstNumbers
  <2> QED  BY <2>1, <2>2
<1>6. /\ IsFiniteSet(K) /\ IsFiniteSet(P) /\ IsFiniteSet(K \cup P)
      /\ Cardinality(K \cup P) <= Len(post)
  BY <1>2, <1>5, FS_Subset
<1>7. /\ Cardinality(K \cup P) = Cardinality(K) + Cardinality(P)
      /\ Cardinality(K) \in Nat /\ Cardinality(P) \in Nat
  <2>1. Cardinality(K) \in Nat /\ Cardinality(P) \in Nat /\ Cardinality(K \cap P) = 0
    BY <1>2, <1>6, FS_CardinalityType, FS_EmptySet
  <2>2. Cardinality(K \cup P)
          = Cardinality(K) + Cardinality(P) - Cardinality(K \cap P)
    BY <1>6, FS_Union
  <2> QED  BY <2>1, <2>2
<1>8. \A i \in DOMAIN old : Reloaded(old[i]) \in SystemRecord
  <2> SUFFICES ASSUME NEW x \in SystemRecord PROVE Reloaded(x) \in SystemRecord
    BY <1>3
  <2> QED  BY DEF Reloaded, SystemRecord
<1>9. loaded \in Seq(SystemRecord) /\ Len(loaded) = Len(old)
  BY <1>3, <1>8
<1> HIDE DEF loaded
<1>10. kept \o loaded \in Seq(SystemRecord) /\ Len(kept \o loaded) = Len(kept) + Len(loaded)
  BY <1>3, <1>9
<1> QED  BY <1>3, <1>4, <1>5, <1>6, <1>7, <1>9, <1>10

(* Those that were asked for wait to be activated, or are not found.       *)
LEMMA RequestsAreTaken ==
  ASSUME QueuesOK, ProcessPendingEntitySystems
  PROVE  /\ pending' \in Seq(SystemRecord) /\ Len(pending') \in Nat
         /\ Len(pending') <= Len(pending) + Len(requested)
         /\ requested' = << >> /\ post' = post
<1>1. PICK found \in SUBSET DOMAIN requested :
        /\ pending' = pending \o Picked(requested, found)
        /\ requested' = << >> /\ post' = post
  BY DEF ProcessPendingEntitySystems
<1> DEFINE picked == Picked(requested, found)
<1>2. /\ picked \in Seq(SystemRecord) /\ Len(picked) \in Nat
      /\ Len(picked) <= Len(requested)
  BY PickedIsASequence DEF QueuesOK
<1> HIDE DEF picked
<1>3. pending' = pending \o picked
  BY <1>1 DEF picked
<1>4. /\ pending \o picked \in Seq(SystemRecord)
      /\ Len(pending \o picked) = Len(pending) + Len(picked)
      /\ Len(pending) \in Nat /\ Len(requested) \in Nat
  BY <1>2 DEF QueuesOK
<1> QED  BY <1>1, <1>2, <1>3, <1>4

LEMMA RunnerAloneImplements ==
  ASSUME PhaseInv,
         \/ QueueIsEmpty \/ ProcessPendingEntitySystems \/ ResetSystems \/ UpdateSystems
         \/ ProcessRemovedEntities \/ (\E id \in Ids : EntitySystemAdd(id) \/ AddSystem(id))
         \/ Destroyed \/ UNCHANGED vars
  PROVE  PhaseInv' /\ PhaseStep
<1> USE DEF PhaseInv
<1>1. /\ UNCHANGED <<threadVars, phaseVars, startVars, stopVars>>
      /\ rpc' = rpc \/ /\ rpc \in RunnerAlone /\ rpc' \in RunnerAlone \cup {"waitStart"}
                       /\ rpc' = "waitStart" => built
  BY DEF QueueIsEmpty, ProcessPendingEntitySystems, ResetSystems, UpdateSystems,
         ProcessRemovedEntities, EntitySystemAdd, AddSystem, Destroyed, vars, Goto,
         RunnerAlone
<1>2. QueuesOK'
  <2>1. CASE QueueIsEmpty \/ UpdateSystems \/ Destroyed \/ UNCHANGED vars
    BY <2>1 DEF QueueIsEmpty, UpdateSystems, Destroyed, vars, queueVars, QueuesOK
  <2>2. CASE ProcessPendingEntitySystems
    BY <2>2, RequestsAreTaken DEF QueuesOK
  <2>3. CASE ResetSystems
    <3>1. post' \in Seq(SystemRecord)
      BY <2>3, ResetKeepsRecords
    <3>2. pending' = << >> /\ requested' = requested
      BY <2>3 DEF ResetSystems
    <3> QED  BY <3>1, <3>2 DEF QueuesOK
  <2>4. CASE ProcessRemovedEntities
    <3>1. PICK gone \in SUBSET Ids :
            /\ post' = Picked(post, {i \in DOMAIN post : post[i].id \notin gone})
            /\ pending' = Picked(pending, {i \in DOMAIN pending : pending[i].id \notin gone})
            /\ requested' = requested
      BY <2>4 DEF ProcessRemovedEntities
    <3>2. post' \in Seq(SystemRecord) /\ pending' \in Seq(SystemRecord)
      BY <3>1, PickedIsASequence DEF QueuesOK
    <3> QED  BY <3>1, <3>2 DEF QueuesOK
  <2>5. ASSUME NEW id \in Ids, EntitySystemAdd(id) \/ AddSystem(id) PROVE QueuesOK'
    <3>1. System(id, TRUE) \in SystemRecord /\ System(id, FALSE) \in SystemRecord
      BY DEF System, SystemRecord
    <3>2. /\ requested' = requested \/ requested' = Append(requested, System(id, TRUE))
          /\ pending' = pending \/ pending' = Append(pending, System(id, FALSE))
          /\ post' = post
      BY <2>5 DEF EntitySystemAdd, AddSystem
    <3>3. /\ Append(requested, System(id, TRUE)) \in Seq(SystemRecord)
          /\ Append(pending, System(id, FALSE)) \in Seq(SystemRecord)
      <4>1. \A x \in SystemRecord : /\ Append(requested, x) \in Seq(SystemRecord)
                                    /\ Append(pending, x) \in Seq(SystemRecord)
        BY DEF QueuesOK
      <4> QED  BY <3>1, <4>1, Zenon
    <3>4. requested' \in Seq(SystemRecord) /\ pending' \in Seq(SystemRecord)
      BY <3>2, <3>3 DEF QueuesOK
    <3> QED  BY <3>2, <3>4 DEF QueuesOK
  <2> QED  BY <2>1, <2>2, <2>3, <2>4, <2>5
<1>3. PhaseInv'
  BY <1>1, <1>2, RunnerAloneInv
<1>4. PhaseStep
  BY <1>1, PhasesUntouched DEF threadVars, phaseVars, Team
<1> QED  BY <1>3, <1>4

(* Every step of the threads is one of the abstract specification, or none.*)
LEMMA PhaseInvNext == PhaseInv /\ [Next]_vars => PhaseInv' /\ PhaseStep
<1> SUFFICES ASSUME PhaseInv, [Next]_vars PROVE PhaseInv' /\ PhaseStep
  OBVIOUS
<1>1. CASE \/ QueueIsEmpty \/ ProcessPendingEntitySystems \/ ResetSystems \/ UpdateSystems
           \/ ProcessRemovedEntities \/ (\E id \in Ids : EntitySystemAdd(id) \/ AddSystem(id))
           \/ Destroyed \/ UNCHANGED vars
  BY <1>1, RunnerAloneImplements
<1>2. CASE StopWorkers
  <2>1. Team' = Team /\ UNCHANGED <<opened, ended, done>>
    BY <1>2 DEF StopWorkers, Team, phaseVars
  <2> QED  BY <1>2, <2>1, StopWorkersInv, PhasesUntouched
<1>3. CASE CancelStart
  <2>1. Team' = Team /\ UNCHANGED <<opened, ended, done>>
    BY <1>3 DEF CancelStart, Team, threadVars, phaseVars
  <2> QED  BY <1>3, <2>1, CancelStartInv, PhasesUntouched
<1>4. CASE CancelStop
  <2>1. Team' = Team /\ UNCHANGED <<opened, ended, done>>
    BY <1>4 DEF CancelStop, Team, threadVars, phaseVars
  <2> QED  BY <1>4, <2>1, CancelStopInv, PhasesUntouched
<1>5. CASE Join \/ Activate
  BY <1>5, RebuildImplements
<1>6. CASE RunnerInStart
  BY <1>6, RunnerAtStart, StartImplements, ThreadFacts
<1>7. CASE RunnerInStop
  BY <1>7, RunnerAtStop, StopImplements, ThreadFacts
<1>8. ASSUME NEW w \in Workers, WorkerStep(w) PROVE PhaseInv' /\ PhaseStep
  <2>1. CASE WorkerLoop(w)
    <3>1. UNCHANGED <<opened, ended, done>>
      BY <2>1 DEF WorkerLoop, phaseVars
    <3> QED  BY <2>1, <3>1, WorkerLoopInv, PhasesUntouched
  <2>2. CASE WorkerInStart(w)
    BY <2>2, WorkerAtStart, StartImplements DEF Active
  <2>3. CASE WorkerTest(w)
    <3>1. UNCHANGED <<opened, ended, done>>
      BY <2>3 DEF WorkerTest, phaseVars
    <3> QED  BY <2>3, <3>1, WorkerTestInv, PhasesUntouched
  <2>4. CASE WorkerPostUpdate(w)
    BY <2>4, RunImplements
  <2>5. CASE WorkerInStop(w)
    BY <2>5, WorkerAtStop, StopImplements DEF Active
  <2> QED  BY <1>8, <2>1, <2>2, <2>3, <2>4, <2>5 DEF WorkerStep
<1>9. ASSUME NEW t \in Threads, WakeUp(t) PROVE PhaseInv' /\ PhaseStep
  <2>1. Team' = Team /\ UNCHANGED <<opened, ended, done>>
    BY <1>9 DEF WakeUp, Team, threadVars, phaseVars
  <2> QED  BY <1>9, <2>1, WakeUpInv, PhasesUntouched
<1> QED  BY <1>1, <1>2, <1>3, <1>4, <1>5, <1>6, <1>7, <1>8, <1>9 DEF Next, RunnerStep

(* Between the two barriers, and only there, the PostUpdates run: each once*)
(* in every phase, with as many workers as there are, however slowly they  *)
(* wake up, and however a stop meets them (SimulationRunner::UpdateSystems,*)
(* ProcessSystemQueue and StopWorkerThreads).                              *)
THEOREM ThreadsImplementPhases == Spec => ImplementsPhases
<1>1. Init => PhaseInv /\ Phases!Init
  BY PhaseInvInit
<1>2. PhaseInv /\ [Next]_vars => PhaseInv' /\ [Phases!Next]_Phases!phaseVars
  BY PhaseInvNext DEF PhaseStep, Phases!phaseVars
<1> QED  BY <1>1, <1>2, PTL DEF Spec, ImplementsPhases, Phases!Spec

(* The invariant behind it: while the threads run, they are all in the     *)
(* shared phase or all out of it, and while they are stopped none of them  *)
(* is left to open it.                                                     *)
THEOREM ThreadsAreInPhase == Spec => []PhaseInv
<1>1. Init => PhaseInv
  BY PhaseInvInit
<1>2. PhaseInv /\ [Next]_vars => PhaseInv'
  BY PhaseInvNext
<1> QED  BY <1>1, <1>2, PTL DEF Spec

-------------------------------------------------------------------------------
(* The vector that the workers look into.  A system is in one queue only,  *)
(* so that there is a worker for each; unless they are to be cleaned up, or*)
(* a reset has dropped systems, they are as many as the vector has systems,*)
(* and the vector is the beginning of its buffer.                          *)
Busy == {"requests", "update", "waitStart", "waitStop", "removals"}

TeamInv ==
  /\ needCleanUp \in BOOLEAN /\ dropped \in BOOLEAN /\ unused \subseteq Ids
  /\ Len(requested) + Len(pending) + Len(post) + Cardinality(unused) <= Cardinality(Ids)
  /\ memory \in Seq(SystemRecord) /\ Len(post) <= Len(memory)
  /\ \A i \in 1 .. Len(post) : memory[i] = post[i]
  /\ needCleanUp => rpc \notin Busy
  /\ running /\ ~needCleanUp => /\ 1 .. Len(post) \subseteq Team
                                /\ ~dropped => Team = 1 .. Len(post)

LEMMA TeamKept ==
  ASSUME TeamInv, UNCHANGED queueVars, Team' = Team, running' => running,
         rpc' \in Busy => rpc \in Busy \/ ~needCleanUp
  PROVE  TeamInv'
BY DEF TeamInv, queueVars

LEMMA LengthsAre ==
  ASSUME QueuesOK, TeamInv
  PROVE  /\ Len(requested) \in Nat /\ Len(pending) \in Nat /\ Len(post) \in Nat
         /\ Len(memory) \in Nat
         /\ Cardinality(Ids) \in Nat /\ Cardinality(unused) \in Nat
         /\ IsFiniteSet(unused) /\ 1 .. Cardinality(Ids) = Workers
BY PostUpdateAssumption, FS_Subset, FS_CardinalityType DEF QueuesOK, TeamInv

(* The vector is filled again in the same buffer.                          *)
LEMMA BufferIsRight ==
  ASSUME QueuesOK, TeamInv, post' \in Seq(SystemRecord), Len(post') <= Len(post),
         memory' = post' \o Rest(memory, Len(post'))
  PROVE  /\ memory' \in Seq(SystemRecord) /\ Len(post') <= Len(memory')
         /\ \A i \in 1 .. Len(post') : memory'[i] = post'[i]
<1>1. /\ Len(post') \in Nat /\ Len(post) \in Nat /\ Len(memory) \in Nat
      /\ Len(post') <= Len(memory) /\ memory \in Seq(SystemRecord)
  BY LengthsAre DEF TeamInv
<1>2. Rest(memory, Len(post')) \in Seq(SystemRecord)
  BY <1>1 DEF Rest
<1> HIDE DEF Rest
<1>3. /\ Len(Rest(memory, Len(post'))) \in Nat
      /\ Len(memory') = Len(post') + Len(Rest(memory, Len(post')))
  BY <1>2
<1> QED  BY <1>1, <1>2, <1>3

LEMMA RequestsKeepTeam ==
  ASSUME QueuesOK, TeamInv, ProcessPendingEntitySystems
  PROVE  TeamInv'
<1>1. /\ rpc \in Busy /\ rpc' \in Busy
      /\ UNCHANGED <<threadVars, needCleanUp, post, memory, unused, dropped>>
  BY DEF ProcessPendingEntitySystems, Goto, Busy
<1>2. /\ Len(pending') <= Len(pending) + Len(requested) /\ Len(pending') \in Nat
      /\ Len(requested') = 0
  BY RequestsAreTaken
<1>3. Team' = Team /\ running' = running
  BY <1>1 DEF Team, threadVars
<1> QED  BY <1>1, <1>2, <1>3, LengthsAre DEF TeamInv

LEMMA ResetKeepsTeam ==
  ASSUME QueuesOK, TeamInv, ResetSystems
  PROVE  TeamInv'
<1>1. /\ pending' = << >> /\ memory' = post' \o Rest(memory, Len(post'))
      /\ dropped' = (dropped \/ Len(post') < Len(post))
      /\ rpc \in Busy /\ rpc' \in Busy
      /\ UNCHANGED <<threadVars, needCleanUp, requested, unused>>
  BY DEF ResetSystems, Goto, Busy
<1>2. post' \in Seq(SystemRecord) /\ Len(post') \in Nat /\ Len(post') <= Len(post)
  BY ResetKeepsRecords
<1>3. Team' = Team /\ running' = running
  BY <1>1 DEF Team, threadVars
<1>4. /\ memory' \in Seq(SystemRecord) /\ Len(post') <= Len(memory')
      /\ \A i \in 1 .. Len(post') : memory'[i] = post'[i]
  BY <1>1, <1>2, BufferIsRight
<1>5. Len(pending') = 0
  BY <1>1
<1>a. 1 .. Len(post') \subseteq 1 .. Len(post)
  BY <1>2, LengthsAre
<1>b. ~dropped' => ~dropped /\ ~(Len(post') < Len(post))
  BY <1>1
<1>6. /\ 1 .. Len(post') \subseteq 1 .. Len(post)
      /\ ~dropped' => ~dropped /\ Len(post') = Len(post)
  BY <1>2, <1>a, <1>b, LengthsAre
<1>7. dropped' \in BOOLEAN
  BY <1>1 DEF TeamInv
<1>8. running' /\ ~needCleanUp' => /\ 1 .. Len(post') \subseteq Team'
                                   /\ ~dropped' => Team' = 1 .. Len(post')
  BY <1>1, <1>3, <1>6 DEF TeamInv
<1>9. Len(requested') + Len(pending') + Len(post') + Cardinality(unused')
        <= Cardinality(Ids)
  BY <1>1, <1>2, <1>5, LengthsAre DEF TeamInv
<1>10. unused' \subseteq Ids /\ needCleanUp' \in BOOLEAN /\ (needCleanUp' => rpc' \notin Busy)
  BY <1>1 DEF TeamInv
<1> QED  BY <1>4, <1>7, <1>8, <1>9, <1>10 DEF TeamInv

LEMMA RemovalKeepsTeam ==
  ASSUME QueuesOK, TeamInv, ProcessRemovedEntities
  PROVE  TeamInv'
<1> PICK gone \in SUBSET Ids :
      /\ Goto("removals", "queue")
      /\ post' = Picked(post, {i \in DOMAIN post : post[i].id \notin gone})
      /\ memory' = post' \o Rest(memory, Len(post'))
      /\ pending' = Picked(pending, {i \in DOMAIN pending : pending[i].id \notin gone})
      /\ needCleanUp' = CleanUp(gone)
      /\ UNCHANGED <<threadVars, requested, unused, dropped>>
  BY DEF ProcessRemovedEntities
<1> DEFINE stay == {i \in DOMAIN post : post[i].id \notin gone}
           wait == {i \in DOMAIN pending : pending[i].id \notin gone}
<1>1. /\ post' \in Seq(SystemRecord) /\ Len(post') = Cardinality(stay)
      /\ Len(post') <= Len(post) /\ Len(post') \in Nat
  BY PickedIsASequence DEF QueuesOK
<1>2. Len(pending') <= Len(pending) /\ Len(pending') \in Nat
  BY PickedIsASequence DEF QueuesOK
<1>3. /\ memory' \in Seq(SystemRecord) /\ Len(post') <= Len(memory')
      /\ \A i \in 1 .. Len(post') : memory'[i] = post'[i]
  BY <1>1, BufferIsRight
<1>4. Team' = Team /\ running' = running /\ rpc' \notin Busy
  BY DEF Team, threadVars, Goto, Busy
<1>5. needCleanUp' \in BOOLEAN
  BY DEF CleanUp, TeamInv
<1>6. ~needCleanUp' => ~needCleanUp /\ Len(post') = Len(post)
  <2> SUFFICES ASSUME ~needCleanUp' PROVE ~needCleanUp /\ Len(post') = Len(post)
    OBVIOUS
  <2>1. ~needCleanUp /\ stay = DOMAIN post
    BY DEF CleanUp
  <2>2. DOMAIN post = 1 .. Len(post) /\ Len(post) \in Nat
    BY DEF QueuesOK
  <2>3. Cardinality(1 .. Len(post)) = Len(post)
    BY <2>2, FirstNumbers
  <2> QED  BY <1>1, <2>1, <2>2, <2>3
<1>7. dropped' = dropped /\ UNCHANGED <<requested, unused>> /\ dropped \in BOOLEAN
  BY DEF TeamInv
<1>8. running' /\ ~needCleanUp' => /\ 1 .. Len(post') \subseteq Team'
                                   /\ ~dropped' => Team' = 1 .. Len(post')
  <2> SUFFICES ASSUME running', ~needCleanUp'
               PROVE  1 .. Len(post') \subseteq Team' /\ (~dropped' => Team' = 1 .. Len(post'))
    OBVIOUS
  <2>1. running /\ ~needCleanUp
    BY <1>4, <1>6
  <2>2. 1 .. Len(post) \subseteq Team /\ (~dropped => Team = 1 .. Len(post))
    BY <2>1 DEF TeamInv
  <2>3. Len(post') = Len(post)
    BY <1>6, <1>7
  <2>4. 1 .. Len(post') = 1 .. Len(post)
    BY <2>3
  <2>5. Team' = Team /\ dropped' = dropped
    BY <1>4, <1>7
  <2>6. 1 .. Len(post') \subseteq Team'
    BY <2>2, <2>4, <2>5
  <2> QED  BY <2>2, <2>4, <2>5, <2>6
<1>9. Len(requested') + Len(pending') + Len(post') + Cardinality(unused')
        <= Cardinality(Ids)
  BY <1>1, <1>2, <1>7, LengthsAre DEF TeamInv
<1> QED  BY <1>3, <1>4, <1>5, <1>7, <1>8, <1>9 DEF TeamInv

LEMMA NewSystemKeepsTeam ==
  ASSUME QueuesOK, TeamInv, NEW id \in Ids, EntitySystemAdd(id) \/ AddSystem(id)
  PROVE  TeamInv'
<1>1. /\ id \in unused /\ unused' = unused \ {id}
      /\ UNCHANGED <<rpc, threadVars, needCleanUp, post, memory, dropped>>
  BY DEF EntitySystemAdd, AddSystem
<1>2. Cardinality(unused') = Cardinality(unused) - 1
  BY <1>1, LengthsAre, FS_RemoveElement
<1>3. System(id, TRUE) \in SystemRecord /\ System(id, FALSE) \in SystemRecord
  BY DEF System, SystemRecord
<1>4. Len(requested') + Len(pending') = Len(requested) + Len(pending) + 1
  <2>1. /\ Len(Append(requested, System(id, TRUE))) = Len(requested) + 1
        /\ Len(Append(pending, System(id, FALSE))) = Len(pending) + 1
    BY <1>3 DEF QueuesOK
  <2>2. \/ requested' = Append(requested, System(id, TRUE)) /\ pending' = pending
        \/ requested' = requested /\ pending' = Append(pending, System(id, FALSE))
    BY DEF EntitySystemAdd, AddSystem
  <2>3. \/ Len(requested') = Len(requested) + 1 /\ Len(pending') = Len(pending)
        \/ Len(requested') = Len(requested) /\ Len(pending') = Len(pending) + 1
    BY <2>1, <2>2
  <2> QED  BY <2>3, LengthsAre
<1>5. Team' = Team /\ running' = running
  BY <1>1 DEF Team, threadVars
<1>6. Len(requested') \in Nat /\ Len(pending') \in Nat
  BY <1>3 DEF EntitySystemAdd, AddSystem, QueuesOK
<1> QED  BY <1>1, <1>2, <1>4, <1>5, <1>6, LengthsAre DEF TeamInv

(* There is a thread for every system.                                     *)
LEMMA ActivateMakesTeam ==
  ASSUME QueuesOK, TeamInv, Activate
  PROVE  TeamInv'
<1> DEFINE active == post \o pending
<1>1. /\ needCleanUp' = FALSE /\ dropped' = FALSE
      /\ pending' = << >> /\ post' = active /\ memory' = active
      /\ wpc' = [w \in Workers |-> IF w <= Len(active) THEN "loop" ELSE "none"]
      /\ UNCHANGED <<requested, unused>>
  BY DEF Activate
<1>2. active \in Seq(SystemRecord) /\ Len(active) = Len(post) + Len(pending)
  BY DEF QueuesOK
<1> HIDE DEF active
<1>3. Len(active) \in Nat /\ Len(active) <= Cardinality(Ids)
  BY <1>2, LengthsAre DEF TeamInv
<1>4. Team' = 1 .. Len(active)
  <2>1. \A w \in Workers : wpc'[w] # "none" <=> w <= Len(active)
    BY <1>1
  <2>2. Workers = 1 .. Cardinality(Ids) /\ Cardinality(Ids) \in Nat
    BY LengthsAre
  <2>3. Team' = {w \in 1 .. Cardinality(Ids) : w <= Len(active)}
    BY <2>1, <2>2 DEF Team
  <2> QED  BY <1>3, <2>2, <2>3
<1>5. Len(pending') = 0
  BY <1>1
<1>6. /\ unused' \subseteq Ids /\ needCleanUp' \in BOOLEAN
      /\ Len(requested') + Len(pending') + Len(post') + Cardinality(unused')
           <= Cardinality(Ids)
  <2>1. /\ Len(requested') + Len(pending') + Len(post') + Cardinality(unused')
             = Len(requested) + Len(pending) + Len(post) + Cardinality(unused)
    BY <1>1, <1>2, <1>5, LengthsAre
  <2>2. unused' \subseteq Ids /\ needCleanUp' \in BOOLEAN
    BY <1>1 DEF TeamInv
  <2> QED  BY <2>1, <2>2 DEF TeamInv
<1>7. /\ memory' \in Seq(SystemRecord) /\ Len(post') <= Len(memory')
      /\ \A i \in 1 .. Len(post') : memory'[i] = post'[i]
  BY <1>1, <1>2, <1>3
<1> QED  BY <1>1, <1>4, <1>6, <1>7 DEF TeamInv

LEMMA TeamInvNext ==
  ASSUME PhaseInv, PhaseInv', TeamInv, [Next]_vars
  PROVE  TeamInv'
<1> USE ThreadFacts
<1>1. QueuesOK
  BY DEF PhaseInv
<1>2. CASE QueueIsEmpty \/ UpdateSystems \/ Destroyed \/ UNCHANGED vars
  <2>1. /\ UNCHANGED <<threadVars, queueVars>>
        /\ rpc' \in Busy => rpc \in Busy \/ ~needCleanUp
    BY <1>2 DEF QueueIsEmpty, UpdateSystems, Destroyed, vars, Goto, Busy
  <2>2. Team' = Team /\ running' = running
    BY <2>1 DEF Team, threadVars
  <2> QED  BY <2>1, <2>2, TeamKept
<1>3. CASE StopWorkers \/ CancelStart \/ CancelStop
  <2>1. /\ wpc' = wpc /\ UNCHANGED queueVars /\ rpc' \notin Busy
        /\ running' => running
    BY <1>3 DEF StopWorkers, CancelStart, CancelStop, threadVars, Goto, Busy
  <2>2. Team' = Team
    BY <2>1 DEF Team
  <2> QED  BY <2>1, <2>2, TeamKept
<1>4. CASE Join
  <2>1. /\ UNCHANGED queueVars /\ ~running' /\ rpc' \notin Busy
    BY <1>4 DEF Join, Goto, Busy, PhaseInv, RunnerIsRight, Stopping
  <2> QED  BY <2>1 DEF TeamInv, queueVars
<1>5. CASE Activate
  BY <1>1, <1>5, ActivateMakesTeam
<1>6. CASE ProcessPendingEntitySystems
  BY <1>1, <1>6, RequestsKeepTeam
<1>7. CASE ResetSystems
  BY <1>1, <1>7, ResetKeepsTeam
<1>8. CASE ProcessRemovedEntities
  BY <1>1, <1>8, RemovalKeepsTeam
<1>9. CASE RunnerInStart \/ RunnerInStop
  <2>1. /\ UNCHANGED <<threadVars, queueVars>> /\ rpc \in Busy
    BY <1>9 DEF RunnerInStart, RunnerInStop, Busy
  <2>2. Team' = Team /\ running' = running
    BY <2>1 DEF Team, threadVars
  <2> QED  BY <2>1, <2>2, TeamKept
<1>10. ASSUME NEW w \in Workers, WorkerStep(w) PROVE TeamInv'
  <2>1. UNCHANGED <<rpc, running, queueVars>>
    BY <1>10 DEF WorkerStep, WorkerLoop, WorkerInStart, WorkerTest, WorkerPostUpdate,
                 WorkerInStop
  <2>2. Team' = Team
    <3>1. CASE WorkerLoop(w) \/ WorkerTest(w) \/ WorkerPostUpdate(w)
      BY <3>1, WorkerLoopInv, WorkerTestInv, WorkerPostUpdateInv
    <3>2. CASE WorkerInStart(w) \/ WorkerInStop(w)
      BY <3>2, WorkerAtStart, WorkerAtStop DEF AtTheStart, AtTheStop
    <3> QED  BY <1>10, <3>1, <3>2 DEF WorkerStep
  <2> QED  BY <2>1, <2>2, TeamKept
<1>11. ASSUME NEW t \in Threads, WakeUp(t) PROVE TeamInv'
  <2>1. UNCHANGED <<rpc, threadVars, queueVars>>
    BY <1>11 DEF WakeUp
  <2>2. Team' = Team /\ running' = running
    BY <2>1 DEF Team, threadVars
  <2> QED  BY <2>1, <2>2, TeamKept
<1>12. ASSUME NEW id \in Ids, EntitySystemAdd(id) \/ AddSystem(id) PROVE TeamInv'
  BY <1>1, <1>12, NewSystemKeepsTeam
<1> QED  BY <1>2, <1>3, <1>4, <1>5, <1>6, <1>7, <1>8, <1>9, <1>10, <1>11, <1>12
         DEF Next, RunnerStep

LEMMA TeamInvInit == Init => TeamInv
<1> SUFFICES ASSUME Init PROVE TeamInv
  OBVIOUS
<1> USE DEF Init
<1>1. Len(requested) = 0 /\ Len(pending) = 0 /\ Len(post) = 0 /\ Len(memory) = 0
  OBVIOUS
<1>2. Cardinality(Ids) \in Nat /\ unused = Ids /\ needCleanUp \in BOOLEAN
  BY PostUpdateAssumption, FS_CardinalityType
<1>3. memory \in Seq(SystemRecord) /\ 1 .. Len(post) = {}
  BY <1>1
<1>4. dropped \in BOOLEAN /\ needCleanUp = FALSE /\ running = FALSE
  OBVIOUS
<1> QED  BY <1>1, <1>2, <1>3, <1>4 DEF TeamInv, Busy

(* The active systems are run, each by one worker, and nothing else is,    *)
(* unless a reset has dropped some: then those that are left are run, and  *)
(* the workers of the others stay (SimulationRunner::ProcessSystemQueue and*)
(* ProcessRemovedEntities, SystemManager::Reset).                          *)
THEOREM EachSystemIsRun == Spec => []EverySystemHasAWorker
<1>1. Init => PhaseInv /\ TeamInv
  BY PhaseInvInit, TeamInvInit
<1>2. PhaseInv /\ TeamInv /\ [Next]_vars => PhaseInv' /\ TeamInv'
  BY PhaseInvNext, TeamInvNext
<1>3. PhaseInv /\ TeamInv => EverySystemHasAWorker
  <2> SUFFICES ASSUME PhaseInv, TeamInv, rpc \in {"waitStart", "waitStop"}
               PROVE  /\ Range(post) \subseteq {memory[w] : w \in Team}
                      /\ \/ dropped
                         \/ /\ Cardinality(Team) = Len(post)
                            /\ {memory[w] : w \in Team} = Range(post)
    BY DEF EverySystemHasAWorker
  <2>1. running /\ ~needCleanUp
    BY DEF PhaseInv, RunnerIsRight, Stopping, TeamInv, Busy
  <2>2. /\ 1 .. Len(post) \subseteq Team /\ (~dropped => Team = 1 .. Len(post))
        /\ \A i \in 1 .. Len(post) : memory[i] = post[i]
    BY <2>1 DEF TeamInv
  <2>3. Len(post) \in Nat /\ DOMAIN post = 1 .. Len(post)
    BY DEF PhaseInv, QueuesOK
  <2>4. Range(post) \subseteq {memory[w] : w \in Team}
    BY <2>2, <2>3 DEF Range
  <2>5. ASSUME ~dropped
        PROVE  /\ Cardinality(Team) = Len(post)
               /\ {memory[w] : w \in Team} = Range(post)
    <3>1. Team = 1 .. Len(post)
      BY <2>2, <2>5
    <3>2. Cardinality(Team) = Len(post)
      BY <2>3, <3>1, FirstNumbers
    <3>3. {memory[w] : w \in Team} = {post[i] : i \in 1 .. Len(post)}
      BY <2>2, <3>1
    <3> QED  BY <2>3, <3>2, <3>3 DEF Range
  <2> QED  BY <2>4, <2>5
<1> QED  BY <1>1, <1>2, <1>3, PTL DEF Spec

-------------------------------------------------------------------------------
(* ServerLifecycle.                                                        *)

(* A Run with a number of iterations is past its wait, and goes on, only   *)
(* with the entities.                                                      *)
AssetsAwaited ==
  \A t \in Runs :
    pc[t] = "loop" /\ iterations[t] > 0 /\ runnerRunning /\ ~overlapped
      => entitiesCreated

ServerInv ==
  ServerTypeOK /\ AssetsAwaited /\ CountedStepsHaveEntities

(* The threads, and the variables that each action leaves alone.          *)
USE DEF Thread, Runs, owner, runThread, handler, stopThread, downloadThread,
        runVars, flagVars, assetVars, boundVars, historyVars

LEMMA ConstructKeeps ==
  ServerInv /\ Construct => ServerInv'
<1> SUFFICES ASSUME ServerInv, Construct PROVE ServerInv'
  OBVIOUS
<1>1. ServerTypeOK'
  <2>1. /\ pc' \in [Thread -> Location]
        /\ \A u \in Thread : runMutex' = u <=> pc'[u] \in {"stopJoin", "destroyJoin"}
    <3>1. /\ pc \in [Thread -> Location] /\ runMutex' = runMutex
          /\ pc[owner] = "construct"
          /\ pc[downloadThread] \notin {"stopJoin", "destroyJoin"}
      BY DEF Construct, ServerInv, ServerTypeOK
    <3>2. PICK to \in {"waitAssets", "ready"}, down \in {pc[downloadThread], "fetch"} :
            pc' = [pc EXCEPT ![owner] = to, ![downloadThread] = down]
      BY <3>1 DEF Construct
    <3>3. pc' \in [Thread -> Location]
      BY <3>1, <3>2 DEF Location
    <3>4. \A u \in Thread :
            pc[u] \in {"stopJoin", "destroyJoin"} <=> pc'[u] \in {"stopJoin", "destroyJoin"}
      BY <3>1, <3>2
    <3>5. QED
      BY <3>1, <3>3, <3>4 DEF ServerInv, ServerTypeOK
  <2>2. createEntities' \in BOOLEAN /\ entitiesCreated' \in BOOLEAN
    BY DEF Construct, ServerInv, ServerTypeOK
  <2>3. iterations' \in [Runs -> Nat] /\ processed' \in [Runs -> Nat]
    BY DEF Construct, ServerInv, ServerTypeOK
  <2>4. toldToStop' \in SUBSET Runs /\ overlapped' \in BOOLEAN /\ runnerRunning' \in BOOLEAN
    BY DEF Construct, ServerInv, ServerTypeOK
  <2>5. QED
    BY <2>1, <2>2, <2>3, <2>4 DEF Construct, ServerInv, ServerTypeOK
<1>2. AssetsAwaited'
  BY DEF Construct, ServerInv, ServerTypeOK, AssetsAwaited
<1>3. CountedStepsHaveEntities'
  BY DEF Construct, ServerInv, CountedStepsHaveEntities
<1>4. QED
  BY <1>1, <1>2, <1>3 DEF ServerInv

LEMMA WakeConstructorKeeps ==
  ServerInv /\ WakeConstructor => ServerInv'
<1> SUFFICES ASSUME ServerInv, WakeConstructor PROVE ServerInv'
  OBVIOUS
<1>1. ServerTypeOK'
  <2>1. /\ pc' \in [Thread -> Location]
        /\ \A u \in Thread : runMutex' = u <=> pc'[u] \in {"stopJoin", "destroyJoin"}
    BY DEF WakeConstructor, Go, ServerInv, ServerTypeOK, Location
  <2>2. createEntities' \in BOOLEAN /\ entitiesCreated' \in BOOLEAN
    BY DEF WakeConstructor, CreateEntities
  <2>3. iterations' \in [Runs -> Nat] /\ processed' \in [Runs -> Nat]
    BY DEF WakeConstructor, ServerInv, ServerTypeOK
  <2>4. toldToStop' \in SUBSET Runs /\ overlapped' \in BOOLEAN /\ runnerRunning' \in BOOLEAN
    BY DEF WakeConstructor, ServerInv, ServerTypeOK
  <2>5. QED
    BY <2>1, <2>2, <2>3, <2>4 DEF WakeConstructor, Go, ServerInv, ServerTypeOK
<1>2. AssetsAwaited'
  BY DEF WakeConstructor, Go, CreateEntities, ServerInv, ServerTypeOK,
         AssetsAwaited
<1>3. CountedStepsHaveEntities'
  BY DEF WakeConstructor, CreateEntities, ServerInv, CountedStepsHaveEntities
<1>4. QED
  BY <1>1, <1>2, <1>3 DEF ServerInv

LEMMA FetchKeeps ==
  ServerInv /\ Fetch => ServerInv'
BY DEF Fetch, Go, ServerInv, ServerTypeOK, AssetsAwaited,
       CountedStepsHaveEntities, Location

LEMMA FailKeeps ==
  ServerInv /\ Fail => ServerInv'
<1> SUFFICES ASSUME ServerInv, Fail PROVE ServerInv'
  OBVIOUS
<1>1. ServerTypeOK'
  <2>1. /\ pc' \in [Thread -> Location]
        /\ \A u \in Thread : runMutex' = u <=> pc'[u] \in {"stopJoin", "destroyJoin"}
    BY DEF Fail, Go, ServerInv, ServerTypeOK, Location
  <2>2. createEntities' \in BOOLEAN /\ entitiesCreated' \in BOOLEAN
    BY DEF Fail, ServerInv, ServerTypeOK
  <2>3. iterations' \in [Runs -> Nat] /\ processed' \in [Runs -> Nat]
    BY DEF Fail, ServerInv, ServerTypeOK
  <2>4. toldToStop' \in SUBSET Runs /\ overlapped' \in BOOLEAN /\ runnerRunning' \in BOOLEAN
    BY DEF Fail, StopRunner, NewlyTold, RunnersAt, ServerInv, ServerTypeOK
  <2>5. QED
    BY <2>1, <2>2, <2>3, <2>4 DEF Fail, Go, ServerInv, ServerTypeOK
<1>2. AssetsAwaited'
  BY DEF Fail, StopRunner, AssetsAwaited
<1>3. CountedStepsHaveEntities'
  BY DEF Fail, ServerInv, CountedStepsHaveEntities
<1>4. QED
  BY <1>1, <1>2, <1>3 DEF ServerInv

LEMMA SetCreateEntitiesKeeps ==
  ServerInv /\ SetCreateEntities => ServerInv'
BY DEF SetCreateEntities, Go, ServerInv, ServerTypeOK, AssetsAwaited,
       CountedStepsHaveEntities, Location

LEMMA NotifyConstructorKeeps ==
  ServerInv /\ NotifyConstructor => ServerInv'
BY DEF NotifyConstructor, Go, ServerInv, ServerTypeOK, AssetsAwaited,
       CountedStepsHaveEntities, Location

LEMMA CallRunKeeps ==
  ServerInv /\ CallRun => ServerInv'
BY ServerAssumption
  DEF CallRun, Go, ServerInv, ServerTypeOK, AssetsAwaited,
      CountedStepsHaveEntities, Location

LEMMA CheckRunningKeeps ==
  ServerInv /\ CheckRunning => ServerInv'
BY DEF CheckRunning, Go, StartRun, ServerInv, ServerTypeOK, AssetsAwaited,
       CountedStepsHaveEntities, Location

LEMMA StartThreadKeeps ==
  ServerInv /\ StartThread => ServerInv'
BY DEF StartThread, Go, StartRun, ServerInv, ServerTypeOK, AssetsAwaited,
       CountedStepsHaveEntities, Location

LEMMA WaitStartedKeeps ==
  ServerInv /\ WaitStarted => ServerInv'
BY DEF WaitStarted, Go, ServerInv, ServerTypeOK, AssetsAwaited,
       CountedStepsHaveEntities, Location

LEMMA CallStopKeeps ==
  ServerInv /\ CallStop => ServerInv'
BY DEF CallStop, Go, ServerInv, ServerTypeOK, AssetsAwaited,
       CountedStepsHaveEntities, Location

LEMMA OnSignalKeeps ==
  ServerInv /\ OnSignal => ServerInv'
BY DEF OnSignal, Go, ServerInv, ServerTypeOK, AssetsAwaited,
       CountedStepsHaveEntities, Location

LEMMA ServerControlServiceKeeps ==
  ServerInv /\ ServerControlService => ServerInv'
BY DEF ServerControlService, ServerInv, ServerTypeOK, AssetsAwaited,
       CountedStepsHaveEntities, Location

LEMMA DestroyKeeps ==
  ServerInv /\ Destroy => ServerInv'
BY DEF Destroy, Go, ServerInv, ServerTypeOK, AssetsAwaited,
       CountedStepsHaveEntities, Location

LEMMA JoinRunKeeps ==
  ServerInv /\ JoinRun => ServerInv'
BY DEF JoinRun, Go, Joined, ServerInv, ServerTypeOK, AssetsAwaited,
       CountedStepsHaveEntities, Location

LEMMA JoinStopKeeps ==
  ServerInv /\ JoinStop => ServerInv'
BY DEF JoinStop, Go, ServerInv, ServerTypeOK, AssetsAwaited,
       CountedStepsHaveEntities, Location

LEMMA JoinDownloadLastKeeps ==
  ServerInv /\ JoinDownloadLast => ServerInv'
BY DEF JoinDownloadLast, Go, Joined, ServerInv, ServerTypeOK, AssetsAwaited,
       CountedStepsHaveEntities, Location

LEMMA TestSignalKeeps ==
  ASSUME NEW t \in Runs
  PROVE  ServerInv /\ TestSignal(t) => ServerInv'
BY DEF TestSignal, Go, Returned, ServerInv, ServerTypeOK, AssetsAwaited,
       CountedStepsHaveEntities, Location

LEMMA BeginRunKeeps ==
  ASSUME NEW t \in Runs
  PROVE  ServerInv /\ BeginRun(t) => ServerInv'
BY DEF BeginRun, Go, ServerInv, ServerTypeOK, AssetsAwaited,
       CountedStepsHaveEntities, Location

LEMMA EnterRunnerKeeps ==
  ASSUME NEW t \in Runs
  PROVE  ServerInv /\ EnterRunner(t) => ServerInv'
BY DEF EnterRunner, Go, ServerInv, ServerTypeOK, AssetsAwaited,
       CountedStepsHaveEntities, Location

LEMMA SetRunnerRunningKeeps ==
  ASSUME NEW t \in Runs
  PROVE  ServerInv /\ SetRunnerRunning(t) => ServerInv'
<1> SUFFICES ASSUME ServerInv, SetRunnerRunning(t) PROVE ServerInv'
  OBVIOUS
<1>1. ServerTypeOK'
  BY DEF SetRunnerRunning, Go, ServerInv, ServerTypeOK, Location, InRunner
<1>2. AssetsAwaited'
  BY DEF SetRunnerRunning, Go, RunnersAt, ServerInv, ServerTypeOK,
         AssetsAwaited, InRunner
<1>3. CountedStepsHaveEntities'
  BY DEF SetRunnerRunning, ServerInv, CountedStepsHaveEntities
<1>4. QED
  BY <1>1, <1>2, <1>3 DEF ServerInv

LEMMA AwaitAssetsKeeps ==
  ASSUME NEW t \in Runs
  PROVE  ServerInv /\ AwaitAssets(t) => ServerInv'
<1> SUFFICES ASSUME ServerInv, AwaitAssets(t) PROVE ServerInv'
  OBVIOUS
<1>1. ServerTypeOK'
  <2>1. /\ pc' \in [Thread -> Location]
        /\ \A u \in Thread : runMutex' = u <=> pc'[u] \in {"stopJoin", "destroyJoin"}
    BY DEF AwaitAssets, Go, ServerInv, ServerTypeOK, Location, InRunner
  <2>2. createEntities' \in BOOLEAN /\ entitiesCreated' \in BOOLEAN
    BY DEF AwaitAssets, CreateEntities, ServerInv, ServerTypeOK
  <2>3. iterations' \in [Runs -> Nat] /\ processed' \in [Runs -> Nat]
    BY DEF AwaitAssets, ServerInv, ServerTypeOK
  <2>4. toldToStop' \in SUBSET Runs /\ overlapped' \in BOOLEAN /\ runnerRunning' \in BOOLEAN
    BY DEF AwaitAssets, ServerInv, ServerTypeOK
  <2>5. QED
    BY <2>1, <2>2, <2>3, <2>4 DEF AwaitAssets, Go, ServerInv, ServerTypeOK
<1>2. AssetsAwaited'
  BY DEF AwaitAssets, AssetsAreThere, ServerInv, AssetsAwaited
<1>3. CountedStepsHaveEntities'
  BY DEF AwaitAssets, CreateEntities, ServerInv, CountedStepsHaveEntities
<1>4. QED
  BY <1>1, <1>2, <1>3 DEF ServerInv

LEMMA IterateKeeps ==
  ASSUME NEW t \in Runs
  PROVE  ServerInv /\ Iterate(t) => ServerInv'
<1> SUFFICES ASSUME ServerInv, Iterate(t) PROVE ServerInv'
  OBVIOUS
<1>1. ServerTypeOK'
  <2>1. /\ pc' \in [Thread -> Location]
        /\ \A u \in Thread : runMutex' = u <=> pc'[u] \in {"stopJoin", "destroyJoin"}
    BY DEF Iterate, ServerInv, ServerTypeOK
  <2>2. createEntities' \in BOOLEAN /\ entitiesCreated' \in BOOLEAN
    BY DEF Iterate, CreateEntities, ServerInv, ServerTypeOK
  <2>3. iterations' \in [Runs -> Nat] /\ processed' \in [Runs -> Nat]
    BY DEF Iterate, ServerInv, ServerTypeOK
  <2>4. toldToStop' \in SUBSET Runs /\ overlapped' \in BOOLEAN /\ runnerRunning' \in BOOLEAN
    BY DEF Iterate, ServerInv, ServerTypeOK
  <2>5. QED
    BY <2>1, <2>2, <2>3, <2>4 DEF Iterate, ServerInv, ServerTypeOK
<1>2. AssetsAwaited'
  BY DEF Iterate, CreateEntities, ServerInv, AssetsAwaited
<1>3. CountedStepsHaveEntities'
  BY DEF Iterate, GoesOn, CreateEntities, ServerInv, ServerTypeOK,
         CountedStepsHaveEntities, AssetsAwaited
<1>4. QED
  BY <1>1, <1>2, <1>3 DEF ServerInv

LEMMA LeaveRunnerKeeps ==
  ASSUME NEW t \in Runs
  PROVE  ServerInv /\ LeaveRunner(t) => ServerInv'
<1> SUFFICES ASSUME ServerInv, LeaveRunner(t) PROVE ServerInv'
  OBVIOUS
<1>1. ServerTypeOK'
  <2>1. /\ pc' \in [Thread -> Location]
        /\ \A u \in Thread : runMutex' = u <=> pc'[u] \in {"stopJoin", "destroyJoin"}
    BY DEF LeaveRunner, Go, ServerInv, ServerTypeOK, Location
  <2>2. createEntities' \in BOOLEAN /\ entitiesCreated' \in BOOLEAN
    BY DEF LeaveRunner, ServerInv, ServerTypeOK
  <2>3. iterations' \in [Runs -> Nat] /\ processed' \in [Runs -> Nat]
    BY DEF LeaveRunner, ServerInv, ServerTypeOK
  <2>4. toldToStop' \in SUBSET Runs /\ overlapped' \in BOOLEAN /\ runnerRunning' \in BOOLEAN
    BY DEF LeaveRunner, ServerInv, ServerTypeOK
  <2>5. QED
    BY <2>1, <2>2, <2>3, <2>4 DEF LeaveRunner, Go, ServerInv, ServerTypeOK
<1>2. AssetsAwaited'
  BY DEF LeaveRunner, AssetsAwaited
<1>3. CountedStepsHaveEntities'
  BY DEF LeaveRunner, ServerInv, CountedStepsHaveEntities
<1>4. QED
  BY <1>1, <1>2, <1>3 DEF ServerInv

LEMMA EndRunKeeps ==
  ASSUME NEW t \in Runs
  PROVE  ServerInv /\ EndRun(t) => ServerInv'
<1> SUFFICES ASSUME ServerInv, EndRun(t) PROVE ServerInv'
  OBVIOUS
<1>1. ServerTypeOK'
  <2>1. /\ pc' \in [Thread -> Location]
        /\ \A u \in Thread : runMutex' = u <=> pc'[u] \in {"stopJoin", "destroyJoin"}
    BY DEF EndRun, Go, Returned, ServerInv, ServerTypeOK, Location
  <2>2. createEntities' \in BOOLEAN /\ entitiesCreated' \in BOOLEAN
    BY DEF EndRun, ServerInv, ServerTypeOK
  <2>3. iterations' \in [Runs -> Nat] /\ processed' \in [Runs -> Nat]
    BY DEF EndRun, ServerInv, ServerTypeOK
  <2>4. toldToStop' \in SUBSET Runs /\ overlapped' \in BOOLEAN /\ runnerRunning' \in BOOLEAN
    BY DEF EndRun, ServerInv, ServerTypeOK
  <2>5. QED
    BY <2>1, <2>2, <2>3, <2>4 DEF EndRun, Go, ServerInv, ServerTypeOK
<1>2. AssetsAwaited'
  BY DEF EndRun, Go, Returned, ServerInv, AssetsAwaited
<1>3. CountedStepsHaveEntities'
  BY DEF EndRun, ServerInv, CountedStepsHaveEntities
<1>4. QED
  BY <1>1, <1>2, <1>3 DEF ServerInv

LEMMA LockAndStopKeeps ==
  ASSUME NEW t \in Thread \ {downloadThread}, NEW from \in {"stop", "destroy"},
         NEW joining \in {"stopJoin", "destroyJoin"}
  PROVE  ServerInv /\ LockAndStop(t, from, joining) => ServerInv'
<1> SUFFICES ASSUME ServerInv, LockAndStop(t, from, joining) PROVE ServerInv'
  OBVIOUS
<1>1. ServerTypeOK'
  <2>1. /\ pc' \in [Thread -> Location]
        /\ \A u \in Thread : runMutex' = u <=> pc'[u] \in {"stopJoin", "destroyJoin"}
    BY NoneAssumption
      DEF LockAndStop, Go, Free, ServerInv, ServerTypeOK, Location
  <2>2. toldToStop' \in SUBSET Runs
    BY DEF LockAndStop, StopRunner, NewlyTold, RunnersAt, ServerInv,
           ServerTypeOK
  <2>3. pc'[downloadThread] = pc[downloadThread]
    BY DEF LockAndStop, Go
  <2>4. runMutex' \in Thread \cup {None} /\ serverRunning' = FALSE /\ runnerRunning' = FALSE
    BY DEF LockAndStop, StopRunner
  <2>5. UNCHANGED <<call, runVars, signalReceived, exitedWithErrors, assetVars, boundVars,
                    overlapped>>
    BY DEF LockAndStop
  <2>6. QED
    BY <2>1, <2>2, <2>3, <2>4, <2>5 DEF ServerInv, ServerTypeOK
<1>2. AssetsAwaited' /\ CountedStepsHaveEntities'
  BY DEF LockAndStop, StopRunner, ServerInv, AssetsAwaited,
         CountedStepsHaveEntities
<1>3. QED
  BY <1>1, <1>2 DEF ServerInv

LEMMA JoinDownloadKeeps ==
  ASSUME NEW t \in Thread \ {downloadThread}, NEW joining \in {"stopJoin", "destroyJoin"},
         NEW to \in {"ready", "done", "joinRun"}
  PROVE  ServerInv /\ JoinDownload(t, joining, to) => ServerInv'
BY NoneAssumption
  DEF JoinDownload, Unlocked, Go, ServerInv, ServerTypeOK, AssetsAwaited,
      CountedStepsHaveEntities, Location

LEMMA RunningKeeps ==
  ASSUME NEW t \in Runs
  PROVE  ServerInv /\ Running(t) => ServerInv'
BY TestSignalKeeps, BeginRunKeeps, EnterRunnerKeeps, SetRunnerRunningKeeps,
   AwaitAssetsKeeps, IterateKeeps, LeaveRunnerKeeps, EndRunKeeps
  DEF Running

LEMMA StopsServerKeeps ==
  ASSUME NEW t \in Thread \ {downloadThread}
  PROVE  ServerInv /\ StopsServer(t) => ServerInv'
BY LockAndStopKeeps, JoinDownloadKeeps DEF StopsServer

LEMMA DestroyingKeeps == ServerInv /\ Destroying => ServerInv'
<1>1. owner \in Thread \ {downloadThread}
  OBVIOUS
<1>2. QED
  BY <1>1, LockAndStopKeeps, JoinDownloadKeeps, JoinRunKeeps, JoinStopKeeps,
     JoinDownloadLastKeeps
    DEF Destroying

LEMMA ServerInitInv == ServerInit => ServerInv
<1> SUFFICES ASSUME ServerInit PROVE ServerInv
  OBVIOUS
<1>1. /\ pc \in [Thread -> {"construct", "none"}]
      /\ pc[downloadThread] = "none" /\ pc[owner] = "construct"
  BY DEF ServerInit
<1>2. /\ iterations \in [Runs -> Nat] /\ processed \in [Runs -> Nat]
      /\ \A t \in Runs : processed[t] = 0
  BY DEF ServerInit
<1>3. ServerTypeOK
  BY <1>1, <1>2, NoneAssumption DEF ServerInit, ServerTypeOK, Location
<1>4. AssetsAwaited /\ CountedStepsHaveEntities
  BY <1>2 DEF ServerInit, AssetsAwaited, CountedStepsHaveEntities
<1>5. QED
  BY <1>3, <1>4 DEF ServerInv

LEMMA ServerNextInv == ServerInv /\ [ServerNext]_serverVars => ServerInv'
<1> SUFFICES ASSUME ServerInv, [ServerNext]_serverVars PROVE ServerInv'
  OBVIOUS
<1>1. /\ owner \in Runs /\ runThread \in Runs
      /\ {owner, handler, stopThread} \subseteq Thread \ {downloadThread}
  OBVIOUS
<1>2. CASE Owner
  BY <1>1, <1>2, ConstructKeeps, WakeConstructorKeeps, CheckRunningKeeps,
     StartThreadKeeps, WaitStartedKeeps, RunningKeeps, StopsServerKeeps,
     DestroyingKeeps
    DEF Owner, AssetsArrived
<1>3. CASE CallRun \/ CallStop \/ Destroy
  BY <1>3, CallRunKeeps, CallStopKeeps, DestroyKeeps
<1>4. CASE SpuriousWakeup
  BY <1>4, WakeConstructorKeeps DEF SpuriousWakeup
<1>5. CASE Running(runThread)
  BY <1>1, <1>5, RunningKeeps
<1>6. CASE OnSignal \/ ServerControlService
  BY <1>6, OnSignalKeeps, ServerControlServiceKeeps
<1>7. CASE StopsServer(handler) \/ StopsServer(stopThread)
  BY <1>1, <1>7, StopsServerKeeps
<1>8. CASE Download
  BY <1>8, FetchKeeps, FailKeeps, SetCreateEntitiesKeeps, NotifyConstructorKeeps
    DEF Download
<1>9. CASE UNCHANGED serverVars
  BY <1>9
    DEF serverVars, ServerInv, ServerTypeOK, AssetsAwaited,
        CountedStepsHaveEntities
<1>10. QED
  BY <1>2, <1>3, <1>4, <1>5, <1>6, <1>7, <1>8, <1>9 DEF ServerNext

LEMMA ServerIsSound == ServerSpec => []ServerInv
<1>1. QED
  BY ServerInitInv, ServerNextInv, PTL DEF ServerSpec

(* Types are kept, and runMutex is held by exactly the thread that awaits  *)
(* the download in ServerPrivate::Stop.                                    *)
THEOREM ServerTypeCorrect == ServerSpec => []ServerTypeOK
<1>1. ServerInv => ServerTypeOK
  BY DEF ServerInv
<1>2. QED
  BY <1>1, ServerIsSound, PTL

(* A Run with a number of iterations makes none before the entities are    *)
(* there, whatever the download, Stop and the signals do meanwhile, unless *)
(* a second Run has got into the same runner (overlapped).                 *)
THEOREM StepsAwaitAssets == ServerSpec => []CountedStepsHaveEntities
<1>1. ServerInv => CountedStepsHaveEntities
  BY DEF ServerInv
<1>2. QED
  BY <1>1, ServerIsSound, PTL

===============================================================================
