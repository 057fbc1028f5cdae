------------------------- MODULE NetworkManagerProofs -------------------------
(***************************************************************************)
(* Proofs about NetworkManager for any secondaries, performers, levels and *)
(* faults, as many as come.                                                *)
(***************************************************************************)
EXTENDS NetworkManager, FiniteSetTheorems, SequenceTheorems, TLAPS

Assignment ==
  IF secondaries = {} THEN NoAffinity ELSE [p \in Performer |-> Affinities(p)]

StepMessage == [no : Nat \ {0}, affinity : {NoAffinity, Assignment}]
StepAck == [from : Secondary, no : Nat, state : SUBSET Performer]

Phase == {"discover", "ready", "handshake", "loop", "publish", "await", "apply",
          "ended", "crashed"}
Earlier == {"discover", "ready", "handshake"}

NothingPublished ==
  /\ iteration = 0 /\ secondaryStates = <<>>
  /\ affinity = NoAffinity /\ outgoing = NoAffinity
  /\ \A s \in Secondary : steps[s] = <<>> /\ acks[s] = <<>>
  /\ \A p \in Peer : stepped[p] = 0
  /\ performers = [s \in Secondary |-> {}] /\ removed = [s \in Secondary |-> {}]
  /\ ~unsent

TypeOK ==
  /\ phase \in [Peer -> Phase]
  /\ running \in BOOLEAN /\ promise \in BOOLEAN /\ unsent \in BOOLEAN
  /\ toRegister \subseteq Secondary /\ secondaries \subseteq Secondary
  /\ iteration \in Nat /\ stepped \in [Peer -> Nat]
  /\ affinity \in {NoAffinity, Assignment} /\ outgoing \in {NoAffinity, Assignment}
  /\ steps \in [Secondary -> Seq(StepMessage)]
  /\ acks \in [Secondary -> Seq(StepAck)]
  /\ secondaryStates \in Seq(StepAck)
  /\ performers \in [Secondary -> SUBSET Performer]
  /\ removed \in [Secondary -> SUBSET Performer]

Answered == {secondaryStates[n].from : n \in DOMAIN secondaryStates}

(* Of a step, a secondary has one message or one acknowledgement, under way*)
(* or received, or it is lost.                                             *)
OneAnswer(s) ==
  /\ stepped[s] >= iteration - 1
  /\ Len(steps[s]) <= 1 /\ Len(acks[s]) <= 1
  /\ steps[s] # <<>> => acks[s] = <<>> /\ s \notin Answered /\ steps[s][1].no = iteration
  /\ acks[s] # <<>> => /\ s \notin Answered /\ stepped[s] = iteration
                       /\ acks[s][1].from = s /\ acks[s][1].no = iteration
  /\ s \in Answered => stepped[s] = iteration

(* The states are of this step, of secondaries and one of each.            *)
StatesAreDistinct ==
  /\ \A n \in DOMAIN secondaryStates :
       secondaryStates[n].from \in secondaries /\ secondaryStates[n].no = iteration
  /\ \A m, n \in DOMAIN secondaryStates :
       secondaryStates[m].from = secondaryStates[n].from => m = n

(* Everybody is done with the step.                                        *)
Quiet ==
  /\ stepped[Primary] = iteration /\ secondaryStates = <<>>
  /\ \A s \in secondaries : stepped[s] = iteration /\ steps[s] = <<>> /\ acks[s] = <<>>

(* Nobody but the secondaries has an acknowledgement under way.            *)
NoStrangers == \A s \in Secondary \ secondaries : acks[s] = <<>>

StepInv ==
  /\ stepped[Primary] >= iteration - 1
  /\ NoStrangers /\ StatesAreDistinct
  /\ \A s \in secondaries : OneAnswer(s)
  /\ \/ phase[Primary] = "publish"
     \/ phase[Primary] = "loop" /\ running
     => Quiet
  /\ \/ phase[Primary] = "apply"
     \/ phase[Primary] = "await" /\ promise
     => Len(secondaryStates) = Cardinality(secondaries)

(* Nothing is published before the handshake is over: it is then that      *)
(* `secondaries`, and with it the assignment, is still changing.           *)
CalmInv ==
  /\ TypeOK
  /\ phase[Primary] \in Earlier => NothingPublished /\ ~running

LockstepInv ==
  /\ CalmInv
  /\ Strangers = {} => StepInv

(* What a secondary does with the assignment: it keeps what is assigned to *)
(* it last, and removes the models that are assigned to another one too.   *)
Kept(s) == {p \in Performer : Assignment[p] # <<>> /\ Last(Assignment[p]) = s}
NotKept(s) ==
  {p \in Performer : \E n \in DOMAIN Assignment[p] : Assignment[p][n] # s}
Simulated(s) == Kept(s) \ NotKept(s)

HasItsPerformers(s) ==
  /\ performers[s] = IF stepped[s] = 0 THEN {} ELSE Kept(s)
  /\ removed[s] = IF stepped[s] = 0 THEN {} ELSE NotKept(s)
  /\ steps[s] # <<>> => steps[s][1].affinity = IF iteration = 1 THEN Assignment
                                                                ELSE NoAffinity
  /\ acks[s] # <<>> => acks[s][1].state = Simulated(s)

(* The first message has the assignment, and the others have none.         *)
PerformerInv ==
  /\ phase[Primary] \in {"await", "apply"} => iteration > 0
  /\ phase[Primary] \in {"publish", "await", "apply"} =>
       secondaries # {} \/ Performer = {}
  /\ phase[Primary] = "publish" =>
       outgoing = IF iteration = 0 THEN Assignment ELSE NoAffinity
  /\ phase[Primary] = "loop" /\ iteration = 0 => affinity = NoAffinity
  /\ phase[Primary] = "publish" \/ iteration > 0 => affinity = Assignment
  /\ \A s \in secondaries : HasItsPerformers(s)
  /\ \A n \in DOMAIN secondaryStates :
       secondaryStates[n].state = Simulated(secondaryStates[n].from)

PerformersInv == LockstepInv /\ (~unsent /\ Strangers = {} => PerformerInv)

-------------------------------------------------------------------------------
LEMMA AssignmentStays ==
  ASSUME UNCHANGED secondaries
  PROVE  Assignment' = Assignment
BY DEF Assignment, Affinities

(* The part of the state that messages and their handlers change.          *)
publishVars == <<secondaries, iteration, stepped, affinity, outgoing, messageVars,
                 secondaryStates, promise, secondaryVars, unsent>>

LEMMA OthersStayCalm ==
  ASSUME CalmInv, UNCHANGED publishVars,
         phase' \in [Peer -> Phase], running' \in BOOLEAN,
         toRegister' \subseteq Secondary,
         phase'[Primary] \in Earlier => phase[Primary] \in Earlier /\ ~running'
  PROVE  CalmInv'
<1>1. Assignment' = Assignment /\ StepMessage' = StepMessage
  BY AssignmentStays DEF publishVars, StepMessage
<1>2. TypeOK'
  BY <1>1 DEF CalmInv, TypeOK, publishVars, messageVars, secondaryVars
<1> QED  BY <1>2 DEF CalmInv, NothingPublished, publishVars, messageVars, secondaryVars

LEMMA CalmStep ==
  ASSUME CalmInv, [Next]_vars
  PROVE  CalmInv'
<1> USE NetworkAssumption DEF CalmInv, Peer
<1> USE DEF processVars, handshakeVars, primaryVars, publishVars, messageVars,
            secondaryVars, historyVars
<1>a. ASSUME UNCHANGED secondaries
      PROVE  Assignment' = Assignment /\ StepMessage' = StepMessage
  BY <1>a, AssignmentStays DEF StepMessage
<1>b. /\ NoAffinity \in {NoAffinity, Assignment}
      /\ \A s \in Secondary : Len(steps[s]) \in Nat /\ Len(acks[s]) \in Nat
  BY DEF TypeOK
<1>1. ASSUME NEW p \in Peer, NEW q \in Peer, OnPeerAdded(p, q)
      PROVE  CalmInv'
  BY <1>1, OthersStayCalm DEF OnPeerAdded, TypeOK
<1>2. ASSUME NEW p \in Peer, NEW q \in Peer, OnPeerLost(p, q)
      PROVE  CalmInv'
  BY <1>2, OthersStayCalm DEF OnPeerLost, EmitStop, TypeOK
<1>3. ASSUME NEW s \in Secondary, Connect(s)
      PROVE  CalmInv'
  BY <1>3, OthersStayCalm DEF Connect, TypeOK
<1>4. ASSUME NEW p \in Peer, Stop(p)
      PROVE  CalmInv'
  BY <1>4, OthersStayCalm DEF Stop, EmitStop, TypeOK
<1>5. ASSUME NEW p \in Peer, Crash(p)
      PROVE  CalmInv'
  BY <1>5, OthersStayCalm DEF Crash, TypeOK, Phase, Earlier
<1>6. ASSUME NEW s \in Secondary, LoseMessage(s)
      PROVE  CalmInv'
  <2>a. /\ steps[s] # <<>> => Tail(steps[s]) \in Seq(StepMessage)
        /\ acks[s] # <<>> => Tail(acks[s]) \in Seq(StepAck)
    BY DEF TypeOK
  <2>1. /\ steps' \in [Secondary -> Seq(StepMessage)]
        /\ acks' \in [Secondary -> Seq(StepAck)]
    <3> DEFINE ss == Tail(steps[s])
               as == Tail(acks[s])
    <3>1. /\ steps \in [Secondary -> Seq(StepMessage)]
          /\ acks \in [Secondary -> Seq(StepAck)]
      BY DEF TypeOK
    <3>2. \/ /\ ss \in Seq(StepMessage)
             /\ steps' = [steps EXCEPT ![s] = ss] /\ acks' = acks
          \/ /\ as \in Seq(StepAck)
             /\ acks' = [acks EXCEPT ![s] = as] /\ steps' = steps
      BY <1>6, <2>a DEF LoseMessage
    <3> HIDE DEF ss, as
    <3> QED  BY <3>1, <3>2
  <2>2. UNCHANGED <<processVars, toRegister, secondaries, primaryVars, stepped,
                    secondaryVars, unsent>>
    BY <1>6 DEF LoseMessage
  <2>3. TypeOK'
    BY <1>a, <2>1, <2>2 DEF TypeOK
  <2>4. NothingPublished => steps[s] = <<>> /\ acks[s] = <<>>
    BY DEF NothingPublished
  <2>5. ~NothingPublished
    BY <1>6, <2>4 DEF LoseMessage
  <2> QED  BY <2>2, <2>3, <2>5
<1>7. ASSUME NEW p \in Peer, AwaitPeers(p)
      PROVE  CalmInv'
  BY <1>7, OthersStayCalm DEF AwaitPeers, Goes, TypeOK, Phase, Earlier
<1>8. CASE Handshake
  BY <1>8, OthersStayCalm DEF Handshake, Goes, TypeOK, Phase, Earlier
<1>9. ASSUME NEW s \in Secondary, Register(s)
      PROVE  CalmInv'
  <2>1. NothingPublished /\ ~running
    BY <1>9 DEF Register, Earlier
  <2>2. NothingPublished'
    BY <1>9, <2>1 DEF Register, NothingPublished
  <2>3. /\ toRegister' \subseteq Secondary /\ secondaries' \subseteq Secondary
        /\ UNCHANGED <<processVars, primaryVars, messageVars, stepped, secondaryVars,
                       unsent>>
    BY <1>9 DEF Register, TypeOK
  <2>4. TypeOK'
    BY <2>1, <2>3 DEF TypeOK, NothingPublished
  <2> QED  BY <2>1, <2>2, <2>3, <2>4
<1>10. CASE EnterRun
  BY <1>10, OthersStayCalm DEF EnterRun, Goes, TypeOK, Phase, Earlier
<1>11. ASSUME NEW p \in Peer, EndRun(p)
       PROVE  CalmInv'
  BY <1>11, OthersStayCalm DEF EndRun, Goes, TypeOK, Phase, Earlier
<1>12. CASE BeginStep
  <2> DEFINE first == FirstAssignment
             msg == IF first THEN [p \in Performer |-> Affinities(p)] ELSE NoAffinity
  <2>1. /\ phase[Primary] = "loop"
        /\ phase' \in [Peer -> Phase] /\ phase'[Primary] \notin Earlier
        /\ UNCHANGED <<running, toRegister, secondaries, iteration, promise, messageVars,
                       stepped, secondaryVars>>
    BY <1>12 DEF BeginStep, Goes, TypeOK, Phase, Earlier
  <2>2. secondaryStates' \in {secondaryStates, <<>>} /\ unsent' \in BOOLEAN
    BY <1>12 DEF BeginStep, ClearStates, FirstAssignment, TypeOK
  <2>3. affinity' \in {NoAffinity, Assignment} /\ outgoing' \in {NoAffinity, Assignment}
    <3>1. ~(first /\ secondaries = {} /\ Performer # {}) =>
             msg \in {NoAffinity, Assignment}
      BY DEF Assignment, NoAffinity
    <3> QED  BY <1>12, <3>1 DEF BeginStep, TypeOK
  <2>4. secondaryStates' \in Seq(StepAck)
    <3>1. secondaryStates \in Seq(StepAck)
      BY DEF TypeOK
    <3>2. <<>> \in Seq(StepAck)
      BY EmptySeq
    <3> QED  BY <2>2, <3>1, <3>2
  <2>5. TypeOK'
    BY <2>1, <2>2, <2>3, <2>4, <1>a DEF TypeOK
  <2> QED  BY <2>1, <2>5
<1>13. CASE Publish
  <2> DEFINE msg == [no |-> iteration + 1, affinity |-> outgoing]
  <2>1. /\ phase' \in [Peer -> Phase] /\ phase'[Primary] \notin Earlier
        /\ promise' = FALSE /\ iteration' = iteration + 1 /\ outgoing' = NoAffinity
        /\ UNCHANGED <<running, toRegister, secondaries, affinity, secondaryStates, acks,
                       stepped, secondaryVars, unsent>>
    BY <1>13 DEF Publish, Goes, TypeOK, Phase, Earlier
  <2>2. msg \in StepMessage
    BY DEF StepMessage, TypeOK
  <2>3. steps' \in [Secondary -> Seq(StepMessage)]
    BY <1>13, <2>2 DEF Publish, TypeOK
  <2>4. iteration' \in Nat /\ promise' \in BOOLEAN
    <3>1. iteration \in Nat
      BY DEF TypeOK
    <3>2. iteration' \in Nat
      BY <3>1, <2>1
    <3>3. promise' \in BOOLEAN
      BY <2>1
    <3> QED  BY <3>2, <3>3
  <2>5. outgoing' \in {NoAffinity, Assignment}
    BY <2>1
  <2> HIDE DEF msg
  <2>6. TypeOK'
    BY <2>1, <2>3, <2>4, <2>5, <1>a DEF TypeOK
  <2> QED  BY <2>1, <2>6
<1>14. ASSUME NEW s \in Secondary, OnStep(s)
       PROVE  CalmInv'
  <2> DEFINE msg == Head(steps[s])
  <2>1. /\ steps[s] # <<>>
        /\ performers' \in [Secondary -> SUBSET Performer]
        /\ removed' \in [Secondary -> SUBSET Performer]
        /\ stepped' = [stepped EXCEPT ![s] = msg.no]
        /\ acks' = [acks EXCEPT ![s] =
             Append(@, [from |-> s, no |-> msg.no,
                        state |-> performers'[s] \ removed'[s]])]
        /\ steps' = [steps EXCEPT ![s] = Tail(@)]
        /\ UNCHANGED <<phase, running, toRegister, secondaries, primaryVars, unsent>>
    BY <1>14 DEF OnStep, TypeOK
  <2>2. msg \in StepMessage /\ Tail(steps[s]) \in Seq(StepMessage)
    BY <2>1 DEF TypeOK
  <2> DEFINE ack == [from |-> s, no |-> msg.no, state |-> performers'[s] \ removed'[s]]
  <2>3. ack \in StepAck
    BY <2>1, <2>2 DEF StepAck, StepMessage
  <2>4. /\ acks' \in [Secondary -> Seq(StepAck)]
        /\ steps' \in [Secondary -> Seq(StepMessage)]
        /\ stepped' \in [Peer -> Nat]
    <3>1. msg.no \in Nat
      BY <2>2 DEF StepMessage
    <3>2. acks' = [acks EXCEPT ![s] = Append(@, ack)]
      BY <2>1
    <3> HIDE DEF ack
    <3>3. Append(acks[s], ack) \in Seq(StepAck)
      BY <2>3 DEF TypeOK
    <3> HIDE DEF msg
    <3> QED  BY <2>1, <2>2, <3>1, <3>2, <3>3 DEF TypeOK
  <2>5. phase[Primary] \notin Earlier
    BY <2>1 DEF NothingPublished
  <2> QED  BY <2>1, <2>4, <2>5, <1>a DEF TypeOK
<1>15. ASSUME NEW s \in Secondary, OnStepAck(s)
       PROVE  CalmInv'
  <2>1. /\ acks[s] # <<>> /\ acks' = [acks EXCEPT ![s] = Tail(@)]
        /\ secondaryStates' = Append(secondaryStates, Head(acks[s]))
        /\ phase' \in {phase, [phase EXCEPT ![Primary] = "crashed"]}
        /\ promise' \in BOOLEAN
        /\ UNCHANGED <<running, toRegister, secondaries, affinity, outgoing, iteration,
                       steps, stepped, secondaryVars, unsent>>
    BY <1>15 DEF OnStepAck, TypeOK, AllAcked
  <2>2. Head(acks[s]) \in StepAck /\ Tail(acks[s]) \in Seq(StepAck)
    BY <2>1 DEF TypeOK
  <2>3. secondaryStates' \in Seq(StepAck) /\ acks' \in [Secondary -> Seq(StepAck)]
    BY <2>1, <2>2 DEF TypeOK
  <2>4. phase[Primary] \notin Earlier
    BY <2>1 DEF NothingPublished
  <2>5. phase' \in [Peer -> Phase] /\ phase'[Primary] \notin Earlier
    BY <2>1, <2>4 DEF TypeOK, Phase, Earlier
  <2> QED  BY <2>1, <2>3, <2>5, <1>a DEF TypeOK
<1>16. CASE Await
  BY <1>16, OthersStayCalm DEF Await, EmitStop, Goes, TypeOK, Phase, Earlier
<1>17. CASE Apply
  <2>1. /\ phase' \in [Peer -> Phase] /\ phase'[Primary] \notin Earlier
        /\ secondaryStates' = <<>> /\ stepped' = [stepped EXCEPT ![Primary] = iteration]
        /\ UNCHANGED <<running, toRegister, secondaries, affinity, outgoing, iteration,
                       promise, messageVars, secondaryVars, unsent>>
    BY <1>17 DEF Apply, ClearStates, Goes, TypeOK, Phase, Earlier
  <2> QED  BY <2>1, <1>a DEF TypeOK
<1>18. CASE UNCHANGED vars
  BY <1>18, OthersStayCalm DEF vars, TypeOK
<1> QED  BY <1>1, <1>2, <1>3, <1>4, <1>5, <1>6, <1>7, <1>8, <1>9, <1>10, <1>11, <1>12,
            <1>13, <1>14, <1>15, <1>16, <1>17, <1>18
         DEF Next, PrimaryThread, SecondaryThread

-------------------------------------------------------------------------------
(* As many states as secondaries, one of each: all have answered.          *)
LEMMA AllAnswered ==
  ASSUME TypeOK, StatesAreDistinct, Len(secondaryStates) = Cardinality(secondaries)
  PROVE  Answered = secondaries
<1> DEFINE D == 1 .. Len(secondaryStates)
           from == [n \in D |-> secondaryStates[n].from]
<1>1. Len(secondaryStates) \in Nat /\ DOMAIN secondaryStates = D
  BY LenProperties DEF TypeOK
<1>2. from \in Injection(D, secondaries)
  BY <1>1 DEF StatesAreDistinct, Injection, IsInjective
<1>3. IsFiniteSet(secondaries)
  BY NetworkAssumption, FS_Subset DEF TypeOK
<1>4. Cardinality(D) = Cardinality(secondaries)
  BY <1>1, FS_Interval
<1>5. from \in Surjection(D, secondaries)
  BY <1>2, <1>3, <1>4, FS_Injection
<1>6. \A s \in secondaries : \E n \in D : secondaryStates[n].from = s
  BY <1>5 DEF Surjection
<1>7. \A n \in D : secondaryStates[n].from \in secondaries
  BY <1>1 DEF StatesAreDistinct
<1> QED  BY <1>1, <1>6, <1>7 DEF Answered

(* Who has stepped without being registered stays so.                      *)
LEMMA StrangersStay ==
  ASSUME CalmInv, [Next]_vars, Strangers' = {}
  PROVE  Strangers = {}
<1> SUFFICES ASSUME NEW s \in Secondary, s \notin secondaries, stepped[s] > 0
             PROVE  s \notin secondaries' /\ stepped'[s] > 0
  BY DEF Strangers
<1> USE NetworkAssumption DEF CalmInv, Peer
<1>1. phase[Primary] \notin Earlier
  BY DEF NothingPublished
<1>2. CASE UNCHANGED <<secondaries, stepped>>
  BY <1>2
<1>3. ASSUME NEW t \in Secondary, OnStep(t)
      PROVE  s \notin secondaries' /\ stepped'[s] > 0
  <2>1. Head(steps[t]) \in StepMessage
    BY <1>3 DEF OnStep, TypeOK
  <2> QED  BY <1>3, <2>1 DEF OnStep, TypeOK, StepMessage, handshakeVars
<1>4. CASE Apply
  BY <1>4 DEF Apply, TypeOK, handshakeVars
<1>5. ASSUME NEW t \in Secondary, Register(t)
      PROVE  FALSE
  BY <1>1, <1>5 DEF Register, Earlier
<1> QED  BY <1>2, <1>3, <1>4, <1>5
         DEF Next, PrimaryThread, SecondaryThread, OnPeerAdded, OnPeerLost, Connect, Stop,
             Crash, LoseMessage, AwaitPeers, Handshake, EnterRun, EndRun, BeginStep,
             Publish, OnStepAck, Await, handshakeVars, vars

(* What a step may change at most if it is not about messages.             *)
paceVars == <<secondaries, iteration, stepped, messageVars, secondaryStates>>

Between == phase[Primary] = "publish" \/ (phase[Primary] = "loop" /\ running)
HasAll == phase[Primary] = "apply" \/ (phase[Primary] = "await" /\ promise)

LEMMA OthersKeepPace ==
  ASSUME StepInv, UNCHANGED paceVars,
         Between' => Quiet,
         HasAll' => Len(secondaryStates) = Cardinality(secondaries)
  PROVE  StepInv'
BY DEF StepInv, paceVars, messageVars, Between, HasAll, Quiet, NoStrangers,
       StatesAreDistinct, OneAnswer, Answered

LEMMA TailOfOne ==
  ASSUME NEW S, NEW q \in Seq(S), q # <<>>, Len(q) <= 1
  PROVE  Tail(q) = <<>> /\ Head(q) = q[1]
BY HeadTailProperties, EmptySeq

LEMMA LockstepStep ==
  ASSUME LockstepInv, [Next]_vars, Strangers' = {}
  PROVE  StepInv'
<1> USE NetworkAssumption DEF Peer
<1>a. CalmInv /\ TypeOK /\ StepInv
  BY StrangersStay DEF LockstepInv, CalmInv
<1>b. /\ Between => Quiet
      /\ HasAll => Len(secondaryStates) = Cardinality(secondaries)
  BY <1>a DEF StepInv, Between, HasAll
<1>1. ASSUME UNCHANGED paceVars, UNCHANGED promise,
             phase'[Primary]
               \in {phase[Primary], "ready", "handshake", "ended", "crashed"},
             running' => running
      PROVE  StepInv'
  BY <1>1, <1>a, <1>b, OthersKeepPace DEF Between, HasAll
<1>2. ASSUME NEW p \in Peer, NEW q \in Peer, OnPeerAdded(p, q) \/ OnPeerLost(p, q)
      PROVE  StepInv'
  BY <1>1, <1>2 DEF OnPeerAdded, OnPeerLost, EmitStop, paceVars, handshakeVars,
                    primaryVars, processVars
<1>3. ASSUME NEW s \in Secondary, Connect(s)
      PROVE  StepInv'
  BY <1>1, <1>3 DEF Connect, paceVars, handshakeVars, primaryVars, processVars
<1>4. ASSUME NEW p \in Peer, Stop(p) \/ Crash(p) \/ AwaitPeers(p) \/ EndRun(p)
      PROVE  StepInv'
  BY <1>1, <1>4, <1>a DEF Stop, Crash, AwaitPeers, EndRun, EmitStop, Goes, CalmInv,
                          TypeOK, paceVars, handshakeVars, primaryVars, processVars
<1>5. ASSUME NEW s \in Secondary, LoseMessage(s)
      PROVE  StepInv'
  <2>1. /\ UNCHANGED <<phase, running, secondaries, iteration, secondaryStates, promise,
                       stepped>>
        /\ \A t \in Secondary \ {s} : steps'[t] = steps[t] /\ acks'[t] = acks[t]
        /\ \/ steps[s] # <<>> /\ steps'[s] = Tail(steps[s]) /\ acks'[s] = acks[s]
           \/ acks[s] # <<>> /\ acks'[s] = Tail(acks[s]) /\ steps'[s] = steps[s]
    BY <1>5, <1>a DEF LoseMessage, TypeOK, handshakeVars, primaryVars, processVars
  <2>2. NoStrangers'
    BY <2>1, <1>a DEF StepInv, NoStrangers
  <2>3. StatesAreDistinct' /\ Answered' = Answered
    BY <2>1, <1>a DEF StepInv, StatesAreDistinct, Answered
  <2>a. stepped[s] \in Nat /\ iteration \in Nat
    BY <1>a DEF TypeOK
  <2>4. ASSUME NEW t \in secondaries
        PROVE  OneAnswer(t)'
    <3>1. OneAnswer(t)
      BY <1>a DEF StepInv
    <3>2. CASE t # s
      BY <2>1, <2>3, <3>1, <3>2, <1>a DEF OneAnswer, TypeOK
    <3>3. CASE t = s
      <4>1. /\ steps[s] # <<>> => Tail(steps[s]) = <<>>
            /\ acks[s] # <<>> => Tail(acks[s]) = <<>>
        BY <3>1, <3>3, <1>a, TailOfOne DEF OneAnswer, TypeOK
      <4>2. /\ steps'[s] = <<>> \/ steps'[s] = steps[s]
            /\ acks'[s] = <<>> \/ acks'[s] = acks[s]
        BY <4>1, <2>1
      <4> QED  BY <2>1, <2>3, <3>1, <3>3, <4>2 DEF OneAnswer
    <3> QED  BY <3>2, <3>3
  <2>5. Between' => Quiet'
    <3>1. Quiet => s \notin secondaries
      BY <2>1 DEF Quiet
    <3> QED  BY <3>1, <2>1, <1>a, <1>b DEF Between, Quiet, TypeOK
  <2> QED  BY <2>1, <2>2, <2>3, <2>4, <2>5, <1>a DEF StepInv, Between
<1>6. CASE Handshake \/ EnterRun
  <2>1. UNCHANGED paceVars /\ UNCHANGED promise
    BY <1>6 DEF Handshake, EnterRun, paceVars, handshakeVars, primaryVars
  <2>2. CASE Handshake
    BY <1>1, <2>1, <2>2, <1>a DEF Handshake, Goes, CalmInv, TypeOK
  <2>3. CASE EnterRun
    <3>1. Quiet /\ phase'[Primary] = "loop"
      BY <2>3, <1>a DEF EnterRun, Goes, CalmInv, TypeOK, Earlier, NothingPublished, Quiet
    <3> QED  BY <2>1, <3>1, <1>a, OthersKeepPace DEF HasAll
  <2> QED  BY <1>6, <2>2, <2>3
<1>7. ASSUME NEW s \in Secondary, Register(s)
      PROVE  StepInv'
  <2>1. NothingPublished /\ phase'[Primary] = "handshake"
    BY <1>7, <1>a DEF Register, CalmInv, Earlier, processVars
  <2>2. UNCHANGED <<iteration, stepped, messageVars, secondaryStates>>
    BY <1>7 DEF Register, primaryVars
  <2>3. /\ iteration' = 0 /\ secondaryStates' = <<>>
        /\ \A t \in Secondary : steps'[t] = <<>> /\ acks'[t] = <<>> /\ stepped'[t] = 0
        /\ stepped'[Primary] = 0 /\ secondaries' \subseteq Secondary
    BY <2>1, <2>2, <1>7, <1>a DEF NothingPublished, messageVars, Register, TypeOK
  <2>4. NoStrangers' /\ StatesAreDistinct'
    BY <2>3 DEF NoStrangers, StatesAreDistinct
  <2>5. ASSUME NEW t \in Secondary
        PROVE  OneAnswer(t)'
    <3>1. Answered' = {}
      BY <2>3 DEF Answered
    <3>2. Len(<<>>) <= 1
      OBVIOUS
    <3>3. Len(steps'[t]) <= 1 /\ Len(acks'[t]) <= 1
      BY <2>3, <3>2
    <3>4. stepped'[t] >= iteration' - 1
      BY <2>3
    <3>5. steps'[t] = <<>> /\ acks'[t] = <<>>
      BY <2>3
    <3> QED  BY <3>1, <3>3, <3>4, <3>5 DEF OneAnswer
  <2>6. stepped'[Primary] >= iteration' - 1
    BY <2>3
  <2> QED  BY <2>1, <2>3, <2>4, <2>5, <2>6 DEF StepInv
<1>8. CASE BeginStep
  <2>1. Quiet /\ UNCHANGED <<secondaries, iteration, stepped, messageVars, promise>>
    BY <1>8, <1>b DEF BeginStep, Between, handshakeVars
  <2>2. /\ secondaryStates' = secondaryStates
        /\ phase'[Primary] \in {"loop", "publish", "crashed"}
    BY <1>8, <2>1, <1>a DEF BeginStep, ClearStates, Goes, Quiet, TypeOK
  <2> QED  BY <2>1, <2>2, <1>a, OthersKeepPace DEF paceVars, HasAll
<1>9. CASE Publish
  <2>1. Quiet /\ phase'[Primary] = "await"
    BY <1>9, <1>a, <1>b DEF Publish, Between, Goes, TypeOK
  <2>2. /\ promise' = FALSE /\ iteration' = iteration + 1
        /\ \A t \in Secondary :
             \/ steps'[t] = Append(steps[t], [no |-> iteration + 1,
                                              affinity |-> outgoing])
             \/ steps'[t] = steps[t]
        /\ UNCHANGED <<secondaries, secondaryStates, acks, stepped>>
    BY <1>9 DEF Publish, handshakeVars
  <2> DEFINE msg == [no |-> iteration + 1, affinity |-> outgoing]
  <2>3. msg.no = iteration + 1
    OBVIOUS
  <2> HIDE DEF msg
  <2>4. iteration \in Nat /\ stepped[Primary] = iteration /\ secondaryStates = <<>>
    BY <2>1, <1>a DEF TypeOK, Quiet
  <2>5. NoStrangers' /\ StatesAreDistinct' /\ Answered' = {}
    BY <2>2, <2>4, <1>a DEF StepInv, NoStrangers, StatesAreDistinct, Answered
  <2>6. ASSUME NEW t \in secondaries
        PROVE  OneAnswer(t)'
    <3>1. stepped[t] = iteration /\ steps[t] = <<>> /\ acks[t] = <<>>
      BY <2>1 DEF Quiet
    <3>a. steps'[t] = Append(steps[t], msg) \/ steps'[t] = steps[t]
      BY <2>2, <1>a DEF TypeOK, msg
    <3>b. Append(<<>>, msg) = <<msg>>
      OBVIOUS
    <3>2. steps'[t] = <<>> \/ steps'[t] = <<msg>>
      BY <3>1, <3>a, <3>b
    <3>3. steps'[t] # <<>> => steps'[t][1].no = iteration'
      BY <3>2, <2>2, <2>3
    <3>4. Len(steps'[t]) <= 1 /\ Len(acks'[t]) <= 1
      <4>1. Len(<<>>) <= 1 /\ Len(<<msg>>) <= 1
        OBVIOUS
      <4>2. Len(acks'[t]) <= 1
        BY <3>1, <2>2, <4>1
      <4>3. Len(steps'[t]) <= 1
        BY <3>2, <4>1
      <4> QED  BY <4>2, <4>3
    <3> QED  BY <3>1, <3>3, <3>4, <2>2, <2>4, <2>5 DEF OneAnswer
  <2> QED  BY <2>1, <2>2, <2>4, <2>5, <2>6 DEF StepInv
<1>10. ASSUME NEW s \in Secondary, OnStep(s)
       PROVE  StepInv'
  <2> DEFINE msg == Head(steps[s])
             ack == [from |-> s, no |-> msg.no, state |-> performers'[s] \ removed'[s]]
  <2>1. /\ steps[s] # <<>> /\ steps' = [steps EXCEPT ![s] = Tail(@)]
        /\ stepped' = [stepped EXCEPT ![s] = msg.no]
        /\ acks' = [acks EXCEPT ![s] = Append(@, ack)]
        /\ UNCHANGED <<phase, running, secondaries, iteration, secondaryStates, promise>>
    BY <1>10 DEF OnStep, processVars, handshakeVars, primaryVars
  <2>2. msg \in StepMessage
    BY <2>1, <1>a DEF TypeOK
  <2>3. msg.no \in Nat \ {0} /\ ack.from = s /\ ack.no = msg.no
    BY <2>2 DEF StepMessage
  <2> HIDE DEF msg, ack
  <2>4. s \in secondaries
    BY <2>1, <2>3, <1>a DEF Strangers, TypeOK
  <2>5. OneAnswer(s)
    BY <2>4, <1>a DEF StepInv
  <2>6. /\ msg.no = iteration /\ acks[s] = <<>> /\ Tail(steps[s]) = <<>>
        /\ s \notin Answered
    BY <2>1, <2>5, <1>a, TailOfOne DEF OneAnswer, TypeOK, msg
  <2>7. /\ steps'[s] = <<>> /\ acks'[s] = <<ack>> /\ stepped'[s] = iteration
        /\ \A t \in Peer \ {s} : stepped'[t] = stepped[t]
        /\ \A t \in Secondary \ {s} : steps'[t] = steps[t] /\ acks'[t] = acks[t]
    BY <2>1, <2>6, <1>a DEF TypeOK
  <2>8. NoStrangers' /\ StatesAreDistinct' /\ Answered' = Answered
    BY <2>1, <2>4, <2>7, <1>a DEF StepInv, NoStrangers, StatesAreDistinct, Answered
  <2>9. ASSUME NEW t \in secondaries
        PROVE  OneAnswer(t)'
    <3>1. OneAnswer(t)
      BY <1>a DEF StepInv
    <3>2. CASE t # s
      BY <2>1, <2>7, <2>8, <3>1, <3>2, <1>a DEF OneAnswer, TypeOK
    <3>3. CASE t = s
      <4>1. Len(acks'[s]) = 1 /\ acks'[s][1] = ack /\ Len(steps'[s]) = 0
        BY <2>7
      <4>2. iteration \in Nat
        BY <1>a DEF TypeOK
      <4> QED  BY <2>1, <2>3, <2>6, <2>7, <2>8, <3>3, <4>1, <4>2 DEF OneAnswer
    <3> QED  BY <3>2, <3>3
  <2>10. ~Between
    BY <2>1, <2>4, <1>b DEF Quiet
  <2>11. stepped'[Primary] = stepped[Primary]
    BY <2>7
  <2> QED  BY <2>1, <2>8, <2>9, <2>10, <2>11, <1>a DEF StepInv, Between
<1>11. ASSUME NEW s \in Secondary, OnStepAck(s)
       PROVE  StepInv'
  <2> DEFINE ack == Head(acks[s])
  <2>1. /\ acks[s] # <<>> /\ acks' = [acks EXCEPT ![s] = Tail(@)]
        /\ secondaryStates' = Append(secondaryStates, ack)
        /\ promise' = (promise \/ Len(secondaryStates') = Cardinality(secondaries))
        /\ phase'[Primary] \in {phase[Primary], "crashed"}
        /\ UNCHANGED <<running, secondaries, iteration, steps, stepped>>
    BY <1>11, <1>a DEF OnStepAck, AllAcked, TypeOK, handshakeVars
  <2>2. s \in secondaries /\ OneAnswer(s)
    BY <2>1, <1>a DEF StepInv, NoStrangers
  <2>3. /\ Tail(acks[s]) = <<>> /\ ack.from = s /\ ack.no = iteration
        /\ s \notin Answered /\ stepped[s] = iteration /\ steps[s] = <<>>
    BY <2>1, <2>2, <1>a, TailOfOne DEF OneAnswer, TypeOK
  <2> HIDE DEF ack
  <2>4. /\ acks'[s] = <<>> /\ \A t \in Secondary \ {s} : acks'[t] = acks[t]
    BY <2>1, <2>3, <1>a DEF TypeOK
  <2> DEFINE n == Len(secondaryStates)
  <2>5. /\ n \in Nat /\ DOMAIN secondaryStates = 1 .. n
        /\ DOMAIN secondaryStates' = 1 .. n + 1 /\ secondaryStates'[n + 1] = ack
        /\ \A m \in 1 .. n : secondaryStates'[m] = secondaryStates[m]
    <3>1. secondaryStates \in Seq(StepAck) /\ ack \in StepAck
      BY <2>1, <1>a DEF TypeOK, ack
    <3> QED  BY <2>1, <3>1
  <2> HIDE DEF n
  <2>6. NoStrangers'
    BY <2>1, <2>4, <1>a DEF StepInv, NoStrangers
  <2>7. StatesAreDistinct' /\ Answered' = Answered \cup {s}
    <3>1. StatesAreDistinct
      BY <1>a DEF StepInv
    <3>2. \A m \in 1 .. n : secondaryStates[m].from # s
      BY <2>3, <2>5 DEF Answered
    <3>3. \A m \in 1 .. n + 1 : m \in 1 .. n \/ m = n + 1
      BY <2>5
    <3>4. StatesAreDistinct'
      BY <2>1, <2>2, <2>3, <2>5, <3>1, <3>2, <3>3 DEF StatesAreDistinct
    <3>5. Answered' = Answered \cup {s}
      BY <2>3, <2>5, <3>3 DEF Answered
    <3> QED  BY <3>4, <3>5
  <2>8. ASSUME NEW t \in secondaries
        PROVE  OneAnswer(t)'
    <3>1. OneAnswer(t)
      BY <1>a DEF StepInv
    <3>2. CASE t # s
      BY <2>1, <2>4, <2>7, <3>1, <3>2, <1>a DEF OneAnswer, TypeOK
    <3>3. CASE t = s
      BY <2>1, <2>3, <2>4, <2>7, <3>1, <3>3 DEF OneAnswer
    <3> QED  BY <3>2, <3>3
  <2>9. ~Between /\ ~HasAll
    <3>1. ~Between
      BY <2>1, <2>2, <1>b DEF Quiet
    <3>2. Answered # secondaries
      BY <2>2, <2>3
    <3> QED  BY <3>1, <3>2, <1>a, <1>b, AllAnswered DEF StepInv
  <2>10. HasAll' => Len(secondaryStates') = Cardinality(secondaries)
    BY <2>1, <2>9 DEF HasAll
  <2> QED  BY <2>1, <2>6, <2>7, <2>8, <2>9, <2>10, <1>a DEF StepInv, Between, HasAll
<1>12. CASE Await
  <2>1. UNCHANGED paceVars /\ UNCHANGED promise
    BY <1>12 DEF Await, paceVars, primaryVars, handshakeVars
  <2>2. \/ promise /\ phase[Primary] = "await" /\ phase'[Primary] = "apply"
        \/ phase'[Primary] = "loop" /\ ~running'
    BY <1>12, <1>a DEF Await, Goes, EmitStop, TypeOK
  <2> QED  BY <2>1, <2>2, <1>a, <1>b, OthersKeepPace DEF Between, HasAll
<1>13. CASE Apply
  <2>1. /\ phase[Primary] = "apply" /\ phase'[Primary] = "loop"
        /\ secondaryStates' = <<>>
        /\ stepped'[Primary] = iteration
        /\ \A s \in Secondary : stepped'[s] = stepped[s]
        /\ UNCHANGED <<secondaries, iteration, steps, acks>>
    BY <1>13, <1>a DEF Apply, ClearStates, Goes, TypeOK, handshakeVars, messageVars
  <2>2. Answered = secondaries
    BY <2>1, <1>a, <1>b, AllAnswered DEF HasAll, StepInv
  <2>3. ASSUME NEW s \in secondaries
        PROVE  stepped'[s] = iteration /\ steps'[s] = <<>> /\ acks'[s] = <<>>
    BY <2>1, <2>2, <1>a DEF StepInv, OneAnswer, TypeOK
  <2>4. iteration \in Nat
    BY <1>a DEF TypeOK
  <2>5. Quiet'
    BY <2>1, <2>3 DEF Quiet
  <2>6. NoStrangers' /\ StatesAreDistinct' /\ Answered' = {}
    BY <2>1, <1>a DEF StepInv, NoStrangers, StatesAreDistinct, Answered
  <2>7. ASSUME NEW s \in secondaries
        PROVE  OneAnswer(s)'
    BY <2>1, <2>3, <2>4, <2>6 DEF OneAnswer
  <2> QED  BY <2>1, <2>4, <2>5, <2>6, <2>7 DEF StepInv
<1>14. CASE UNCHANGED vars
  BY <1>1, <1>14 DEF vars, paceVars, handshakeVars, primaryVars, processVars
<1> QED  BY <1>2, <1>3, <1>4, <1>5, <1>6, <1>7, <1>8, <1>9, <1>10, <1>11, <1>12, <1>13,
            <1>14
         DEF Next, PrimaryThread, SecondaryThread

LEMMA StartsCalm == Init => LockstepInv
<1> SUFFICES ASSUME Init
             PROVE  LockstepInv
  OBVIOUS
<1> USE NetworkAssumption DEF Peer
<1>1. /\ phase[Primary] = "discover" /\ iteration = 0 /\ secondaryStates = <<>>
      /\ secondaries = {} /\ ~running
      /\ \A s \in Secondary : steps[s] = <<>> /\ acks[s] = <<>>
      /\ \A p \in Peer : stepped[p] = 0
  BY DEF Init
<1>2. NothingPublished
  BY DEF Init, NothingPublished
<1>3. TypeOK
  BY EmptySeq DEF Init, TypeOK, Phase
<1>4. StepInv
  <2>1. stepped[Primary] >= iteration - 1
    BY <1>1
  <2> QED  BY <1>1, <2>1 DEF StepInv, NoStrangers, StatesAreDistinct
<1> QED  BY <1>1, <1>2, <1>3, <1>4 DEF LockstepInv, CalmInv

(* All runners step together: none is more than a step behind the others,  *)
(* and the primary goes on with one state of each secondary, all of the    *)
(* same step, whatever is lost, late, cut off or crashed - unless somebody *)
(* steps without being registered.                                         *)
THEOREM RunnersStepTogether == Spec => []Lockstep
<1>1. LockstepInv /\ [Next]_vars => LockstepInv'
  BY CalmStep, LockstepStep DEF LockstepInv
<1>2. LockstepInv => Lockstep
  <2> SUFFICES ASSUME LockstepInv, Strangers = {}
               PROVE  StepsTogether /\ StatesAreComplete
    BY DEF Lockstep
  <2>1. TypeOK /\ StepInv
    BY DEF LockstepInv, CalmInv
  <2>2. StepsTogether
    BY <2>1 DEF StepsTogether, StepInv, OneAnswer
  <2>3. ASSUME phase[Primary] = "apply"
        PROVE  /\ Answered = secondaries
               /\ Len(secondaryStates) = Cardinality(secondaries)
               /\ \A n \in DOMAIN secondaryStates : secondaryStates[n].no = iteration
               /\ \A s \in Secondary : acks[s] = <<>>
    <3>1. Answered = secondaries /\ Len(secondaryStates) = Cardinality(secondaries)
      BY <2>1, <2>3, AllAnswered DEF StepInv
    <3> QED  BY <2>1, <3>1 DEF StepInv, StatesAreDistinct, NoStrangers, OneAnswer
  <2> QED  BY <2>2, <2>3 DEF StatesAreComplete, Answered
<1> QED  BY StartsCalm, <1>1, <1>2, PTL DEF Spec

-------------------------------------------------------------------------------
(* The ranks in a finite set of numbers are the numbers below its size.    *)
LEMMA RankIsBelow ==
  ASSUME NEW S \in SUBSET Nat, IsFiniteSet(S), NEW x \in Nat
  PROVE  /\ Rank(x, S) \in Nat
         /\ x \in S => Rank(x, S) < Cardinality(S)
         /\ \A y \in S : y < x => Rank(y, S) < Rank(x, S)
<1> DEFINE Below(y) == {z \in S : z < y}
<1>1. \A y : IsFiniteSet(Below(y)) /\ Cardinality(Below(y)) \in Nat
  BY FS_Subset, FS_CardinalityType
<1>2. ASSUME NEW T, IsFiniteSet(T), NEW y \in T, y \in Nat, Below(y) \subseteq T
      PROVE  Cardinality(Below(y)) < Cardinality(T)
  <2>1. IsFiniteSet(T \ {y}) /\ Cardinality(T \ {y}) = Cardinality(T) - 1
    BY <1>2, FS_RemoveElement
  <2>2. Below(y) \subseteq T \ {y}
    BY <1>2
  <2>3. Cardinality(Below(y)) <= Cardinality(T \ {y})
    BY <2>1, <2>2, FS_Subset
  <2>4. Cardinality(T) \in Nat
    BY <1>2, FS_CardinalityType
  <2> HIDE DEF Below
  <2> QED  BY <2>1, <2>3, <2>4, <1>1
<1>3. x \in S => Cardinality(Below(x)) < Cardinality(S)
  BY <1>2
<1>4. ASSUME NEW y \in S, y < x
      PROVE  Cardinality(Below(y)) < Cardinality(Below(x))
  <2>1. y \in Below(x)
    BY <1>4
  <2>2. \A z \in Below(y) : z \in Below(x)
    BY <1>4
  <2> QED  BY <2>1, <2>2, <1>1, <1>2
<1> QED  BY <1>1, <1>3, <1>4 DEF Rank

LEMMA RankIsOnto ==
  ASSUME NEW S \in SUBSET Nat, IsFiniteSet(S), NEW k \in 0 .. Cardinality(S) - 1
  PROVE  \E x \in S : Rank(x, S) = k
<1> DEFINE T == 0 .. Cardinality(S) - 1
           rank == [x \in S |-> Rank(x, S)]
<1>1. Cardinality(S) \in Nat
  BY FS_CardinalityType
<1>2. IsFiniteSet(T) /\ Cardinality(T) = Cardinality(S)
  BY <1>1, FS_Interval
<1>3. \A x \in S : Rank(x, S) \in T
  BY <1>1, RankIsBelow
<1>4. ASSUME NEW x \in S, NEW y \in S, Rank(x, S) = Rank(y, S)
      PROVE  x = y
  <2>1. ~(x < y) /\ ~(y < x)
    BY <1>4, RankIsBelow
  <2> QED  BY <2>1
<1>5. rank \in Injection(S, T)
  BY <1>3, <1>4 DEF Injection, IsInjective
<1>6. rank \in Surjection(S, T)
  BY <1>2, <1>5, FS_Injection
<1> QED  BY <1>6 DEF Surjection

LEMMA InOrderOfOne ==
  ASSUME NEW x \in Nat
  PROVE  InOrder({x}) = <<x>>
<1>1. Cardinality({x}) = 1
  BY FS_Singleton
<1>2. {y \in {x} : y < x} = {}
  OBVIOUS
<1>3. Rank(x, {x}) = 0
  BY <1>2, FS_EmptySet DEF Rank
<1>4. ASSUME NEW n \in {1}
      PROVE  (CHOOSE y \in {x} : Rank(y, {x}) = n - 1) = x
  BY <1>3
<1>5. 1 .. Cardinality({x}) = {1}
  BY <1>1
<1>6. InOrder({x}) = [n \in {1} |-> x]
  BY <1>4, <1>5 DEF InOrder
<1> QED  BY <1>6

(* A performer in at most one level has affinity to one of the secondaries.*)
LEMMA SingleAffinity ==
  ASSUME NEW p \in Performer, Cardinality(PerformerLevels[p]) < 2,
         secondaries \subseteq Secondary, secondaries # {}
  PROVE  \E t \in secondaries : Affinities(p) = <<t>>
<1> DEFINE levels == UNION {PerformerLevels[q] : q \in Performer}
           homeless == {q \in Performer : PerformerLevels[q] = {}}
           turns == IF p \in homeless
                      THEN {Cardinality(levels) + Rank(p, homeless)}
                      ELSE {Rank(l, levels) : l \in PerformerLevels[p]}
           secondaryIt(n) == CHOOSE s \in secondaries :
                               Rank(s, secondaries) = n % Cardinality(secondaries)
<1>1. /\ levels \in SUBSET Nat /\ IsFiniteSet(levels) /\ Cardinality(levels) \in Nat
      /\ homeless \in SUBSET Nat /\ IsFiniteSet(homeless)
  <2>1. IsFiniteSet(Performer) /\ \A q \in Performer : IsFiniteSet(PerformerLevels[q])
    BY NetworkAssumption
  <2> DEFINE all == {PerformerLevels[q] : q \in Performer}
  <2>2. IsFiniteSet(all)
    <3>1. PerformerLevels \in Surjection(Performer, all)
      BY NetworkAssumption DEF Surjection
    <3> QED  BY <2>1, <3>1, FS_Surjection
  <2>3. IsFiniteSet(UNION all)
    BY <2>1, <2>2, FS_UNION
  <2>4. IsFiniteSet(homeless)
    BY <2>1, FS_Subset
  <2> QED  BY <2>3, <2>4, NetworkAssumption, FS_CardinalityType
<1>2. \E x \in Nat : turns = {x}
  <2>1. CASE p \in homeless
    <3>1. p \in Nat /\ Rank(p, homeless) \in Nat
      BY <1>1, NetworkAssumption, RankIsBelow
    <3>2. Cardinality(levels) + Rank(p, homeless) \in Nat
      BY <1>1, <3>1
    <3> QED  BY <2>1, <3>2
  <2>2. CASE p \notin homeless
    <3>1. IsFiniteSet(PerformerLevels[p]) /\ PerformerLevels[p] # {}
      BY <2>2, NetworkAssumption
    <3>2. Cardinality(PerformerLevels[p]) = 1
      BY <3>1, FS_CardinalityType, FS_EmptySet
    <3>3. PICK l : PerformerLevels[p] = {l}
      BY <3>1, <3>2, FS_Singleton
    <3>4. l \in Nat /\ turns = {Rank(l, levels)}
      BY <2>2, <3>3, NetworkAssumption
    <3> QED  BY <1>1, <3>4, RankIsBelow
  <2> QED  BY <2>1, <2>2
<1>3. PICK x \in Nat : turns = {x}
  BY <1>2
<1>4. secondaryIt(x) \in secondaries
  <2>1. /\ secondaries \in SUBSET Nat /\ IsFiniteSet(secondaries)
        /\ Cardinality(secondaries) \in Nat \ {0}
    BY NetworkAssumption, FS_Subset, FS_CardinalityType, FS_EmptySet
  <2>2. x % Cardinality(secondaries) \in 0 .. Cardinality(secondaries) - 1
    BY <2>1
  <2> QED  BY <2>1, <2>2, RankIsOnto
<1>5. Affinities(p) = [n \in DOMAIN InOrder(turns) |-> secondaryIt(InOrder(turns)[n])]
  BY DEF Affinities
<1>6. InOrder(turns) = <<x>>
  BY <1>3, InOrderOfOne
<1> HIDE DEF turns, secondaryIt
<1>7. Affinities(p) = <<secondaryIt(x)>>
  BY <1>5, <1>6
<1> QED  BY <1>4, <1>7

-------------------------------------------------------------------------------
LEMMA OthersKeepPerformers ==
  ASSUME PerformerInv, UNCHANGED publishVars,
         phase'[Primary] = "publish" => phase[Primary] = "publish",
         phase'[Primary] \in {"await", "apply"} => phase[Primary] \in {"await", "apply"},
         phase'[Primary] = "loop" /\ iteration = 0 => affinity = NoAffinity
  PROVE  PerformerInv'
<1>1. Assignment' = Assignment
  BY AssignmentStays DEF publishVars
<1>2. \A s : /\ Simulated(s)' = Simulated(s)
             /\ Kept(s)' = Kept(s) /\ NotKept(s)' = NotKept(s)
  BY <1>1 DEF Simulated, Kept, NotKept
<1> QED  BY <1>1, <1>2 DEF PerformerInv, HasItsPerformers, publishVars, messageVars,
                           secondaryVars

LEMMA PerformersStep ==
  ASSUME PerformersInv, [Next]_vars, ~unsent', Strangers' = {}
  PROVE  PerformerInv'
<1> USE NetworkAssumption DEF Peer
<1>a. CalmInv /\ TypeOK /\ StepInv /\ Strangers = {}
  BY StrangersStay DEF PerformersInv, LockstepInv, CalmInv
<1>b. ~unsent
  BY <1>a
     DEF Next, PrimaryThread, SecondaryThread, OnPeerAdded, OnPeerLost, Connect, Stop,
         Crash, LoseMessage, AwaitPeers, Handshake, Register, EnterRun, EndRun, BeginStep,
         Publish, OnStep, OnStepAck, Await, Apply, historyVars, vars, TypeOK
<1>c. PerformerInv
  BY <1>a, <1>b DEF PerformersInv
<1>d. ASSUME UNCHANGED secondaries
      PROVE  /\ Assignment' = Assignment
             /\ \A s : /\ Simulated(s)' = Simulated(s) /\ Kept(s)' = Kept(s)
                       /\ NotKept(s)' = NotKept(s)
  BY <1>d, AssignmentStays DEF Simulated, Kept, NotKept
<1>e. ASSUME UNCHANGED publishVars,
             phase'[Primary]
               \in {phase[Primary], "ready", "handshake", "ended", "crashed"}
      PROVE  PerformerInv'
  BY <1>e, <1>c, OthersKeepPerformers DEF PerformerInv, publishVars
<1> USE DEF publishVars, messageVars, handshakeVars, primaryVars, processVars,
            secondaryVars, historyVars
<1>1. ASSUME NEW p \in Peer, NEW q \in Peer, OnPeerAdded(p, q) \/ OnPeerLost(p, q)
      PROVE  PerformerInv'
  BY <1>e, <1>1 DEF OnPeerAdded, OnPeerLost
<1>2. ASSUME NEW s \in Secondary, Connect(s)
      PROVE  PerformerInv'
  BY <1>e, <1>2 DEF Connect
<1>3. ASSUME NEW p \in Peer, Stop(p) \/ Crash(p) \/ AwaitPeers(p) \/ EndRun(p)
      PROVE  PerformerInv'
  BY <1>e, <1>3, <1>a DEF Stop, Crash, AwaitPeers, EndRun, Goes, TypeOK
<1>4. ASSUME NEW s \in Secondary, LoseMessage(s)
      PROVE  PerformerInv'
  <2>1. /\ UNCHANGED <<phase, secondaries, affinity, outgoing, iteration, secondaryStates,
                       stepped, performers, removed>>
        /\ \A t \in Secondary \ {s} : steps'[t] = steps[t] /\ acks'[t] = acks[t]
        /\ \/ steps[s] # <<>> /\ steps'[s] = Tail(steps[s]) /\ acks'[s] = acks[s]
           \/ acks[s] # <<>> /\ acks'[s] = Tail(acks[s]) /\ steps'[s] = steps[s]
    BY <1>4, <1>a DEF LoseMessage, TypeOK
  <2>2. s \in secondaries => /\ steps'[s] = <<>> \/ steps'[s] = steps[s]
                             /\ acks'[s] = <<>> \/ acks'[s] = acks[s]
    <3> SUFFICES ASSUME s \in secondaries
                 PROVE  /\ steps'[s] = <<>> \/ steps'[s] = steps[s]
                        /\ acks'[s] = <<>> \/ acks'[s] = acks[s]
      OBVIOUS
    <3>1. /\ Len(steps[s]) <= 1 /\ Len(acks[s]) <= 1
          /\ steps[s] \in Seq(StepMessage) /\ acks[s] \in Seq(StepAck)
      BY <1>a DEF StepInv, OneAnswer, TypeOK
    <3>2. /\ steps[s] # <<>> => Tail(steps[s]) = <<>>
          /\ acks[s] # <<>> => Tail(acks[s]) = <<>>
      BY <3>1, TailOfOne
    <3> QED  BY <2>1, <3>2
  <2>3. ASSUME NEW t \in secondaries
        PROVE  HasItsPerformers(t)'
    <3>1. HasItsPerformers(t) /\ t \in Secondary
      BY <1>a, <1>c DEF PerformerInv, TypeOK
    <3>2. /\ steps'[t] = <<>> \/ steps'[t] = steps[t]
          /\ acks'[t] = <<>> \/ acks'[t] = acks[t]
      BY <2>1, <2>2, <3>1
    <3> QED  BY <2>1, <3>1, <3>2, <1>d DEF HasItsPerformers
  <2> QED  BY <2>1, <2>3, <1>c, <1>d DEF PerformerInv
<1>5. CASE Handshake
  BY <1>5, <1>a, <1>c, OthersKeepPerformers DEF Handshake, Goes, TypeOK
<1>6. CASE EnterRun
  <2>1. affinity = NoAffinity /\ phase'[Primary] = "loop" /\ UNCHANGED publishVars
    BY <1>6, <1>a DEF EnterRun, Goes, CalmInv, TypeOK, Earlier, NothingPublished
  <2> QED  BY <2>1, <1>c, OthersKeepPerformers
<1>7. ASSUME NEW s \in Secondary, Register(s)
      PROVE  PerformerInv'
  <2>1. NothingPublished /\ phase'[Primary] = "handshake"
    BY <1>7, <1>a DEF Register, CalmInv, Earlier
  <2>2. UNCHANGED <<primaryVars, messageVars, stepped, secondaryVars>>
    BY <1>7 DEF Register
  <2>3. secondaries' \subseteq Secondary
    BY <1>7, <1>a DEF Register, TypeOK
  <2> QED  BY <2>1, <2>2, <2>3 DEF NothingPublished, PerformerInv, HasItsPerformers
<1>8. CASE BeginStep
  <2>1. /\ phase[Primary] = "loop" /\ phase'[Primary] \in {"loop", "publish", "crashed"}
        /\ UNCHANGED <<secondaries, iteration, messageVars, stepped, secondaryVars>>
        /\ secondaryStates' = <<>>
    BY <1>8, <1>a DEF BeginStep, Goes, ClearStates, StepInv, Quiet, TypeOK
  <2>2. affinity = IF iteration = 0 THEN NoAffinity ELSE Assignment
    BY <2>1, <1>a, <1>c DEF PerformerInv, TypeOK
  <2>3. \A t \in secondaries : HasItsPerformers(t)'
    BY <2>1, <1>c, <1>d DEF PerformerInv, HasItsPerformers
  <2> DEFINE first == FirstAssignment
             msg == IF first THEN [p \in Performer |-> Affinities(p)] ELSE NoAffinity
  <2>4. CASE first /\ secondaries = {} /\ Performer # {}
    <3>1. phase'[Primary] = "crashed" /\ affinity' = affinity
      BY <1>8, <2>4, <1>a DEF BeginStep, TypeOK
    <3> QED  BY <2>1, <2>2, <2>3, <3>1, <1>c, <1>d DEF PerformerInv
  <2>5. CASE ~(first /\ secondaries = {} /\ Performer # {})
    <3>1. msg = IF first THEN Assignment ELSE NoAffinity
      BY <2>5 DEF Assignment, NoAffinity
    <3>2. /\ affinity' = IF first THEN msg ELSE affinity
          /\ \/ subscribers = {} /\ unsent' = (unsent \/ first)
                /\ phase'[Primary] = "loop"
             \/ phase'[Primary] = "publish" /\ outgoing' = msg
      BY <1>8, <2>5, <1>a DEF BeginStep, Goes, TypeOK
    <3>3. secondaries # {} \/ Performer = {}
      BY <2>2, <2>5 DEF Assignment, FirstAssignment
    <3> HIDE DEF msg
    <3>4. first <=> affinity = NoAffinity
      BY DEF FirstAssignment
    <3> HIDE DEF first
    <3>5. affinity' = affinity \/ affinity' = Assignment
      BY <3>1, <3>2
    <3>6. /\ iteration > 0 => affinity' = Assignment
          /\ phase'[Primary] = "loop" /\ iteration = 0 => affinity' = NoAffinity
      BY <2>2, <3>1, <3>2, <3>4, <1>a DEF TypeOK
    <3>7. phase'[Primary] = "publish" =>
            /\ affinity' = Assignment
            /\ outgoing' = IF iteration = 0 THEN Assignment ELSE NoAffinity
      BY <2>2, <3>1, <3>2, <3>4
    <3> QED  BY <2>1, <2>3, <3>2, <3>3, <3>6, <3>7, <1>d DEF PerformerInv
  <2> QED  BY <2>4, <2>5
<1>9. CASE Publish
  <2> DEFINE msg == [no |-> iteration + 1, affinity |-> outgoing]
  <2>1. /\ phase[Primary] = "publish" /\ phase'[Primary] = "await"
        /\ iteration' = iteration + 1 /\ iteration \in Nat
        /\ \A t \in Secondary :
             steps'[t] = Append(steps[t], msg) \/ steps'[t] = steps[t]
        /\ UNCHANGED <<secondaries, affinity, secondaryStates, acks, stepped,
                       secondaryVars>>
    BY <1>9, <1>a DEF Publish, Goes, TypeOK
  <2>2. /\ msg.affinity = outgoing
        /\ outgoing = IF iteration = 0 THEN Assignment ELSE NoAffinity
    BY <2>1, <1>c DEF PerformerInv
  <2> HIDE DEF msg
  <2>3. \A t \in secondaries : HasItsPerformers(t)'
    <3> SUFFICES ASSUME NEW t \in secondaries
                 PROVE  HasItsPerformers(t)'
      OBVIOUS
    <3>1. steps[t] = <<>> /\ acks[t] = <<>>
      BY <2>1, <1>a DEF StepInv, Quiet
    <3>2. Append(<<>>, msg) = <<msg>>
      OBVIOUS
    <3>3. steps'[t] = <<msg>> \/ steps'[t] = <<>>
      BY <2>1, <3>1, <3>2, <1>a DEF TypeOK
    <3>4. steps'[t] # <<>> => steps'[t][1].affinity = outgoing
      BY <3>3, <2>2
    <3>5. iteration' = 1 <=> iteration = 0
      BY <2>1
    <3> QED  BY <2>1, <2>2, <3>1, <3>4, <3>5, <1>c, <1>d
             DEF PerformerInv, HasItsPerformers
  <2>4. iteration' > 0
    BY <2>1
  <2> QED  BY <2>1, <2>3, <2>4, <1>c, <1>d DEF PerformerInv
<1>10. ASSUME NEW s \in Secondary, OnStep(s)
       PROVE  PerformerInv'
  <2> DEFINE msg == Head(steps[s])
             ack == [from |-> s, no |-> msg.no, state |-> performers'[s] \ removed'[s]]
             assigned == {p \in Performer : msg.affinity[p] # <<>>}
             mine == {p \in assigned : Last(msg.affinity[p]) = s}
             notMine == {p \in assigned : \E n \in DOMAIN msg.affinity[p] :
                                            msg.affinity[p][n] # s}
  <2>1. /\ steps[s] # <<>> /\ steps' = [steps EXCEPT ![s] = Tail(@)]
        /\ stepped' = [stepped EXCEPT ![s] = msg.no]
        /\ performers' = [performers EXCEPT ![s] = (@ \ assigned) \cup mine]
        /\ removed' = [removed EXCEPT ![s] = @ \cup notMine]
        /\ acks' = [acks EXCEPT ![s] = Append(@, ack)]
        /\ UNCHANGED <<phase, affinity, outgoing, secondaries, iteration,
                       secondaryStates>>
    BY <1>10 DEF OnStep
  <2>2. msg.no \in Nat \ {0} /\ ack.state = performers'[s] \ removed'[s]
    <3>1. msg \in StepMessage
      BY <2>1, <1>a DEF TypeOK
    <3>2. msg.no \in Nat \ {0}
      <4> HIDE DEF msg
      <4> QED  BY <3>1 DEF StepMessage
    <3>3. ack.state = performers'[s] \ removed'[s]
      OBVIOUS
    <3> QED  BY <3>2, <3>3
  <2>3. s \in secondaries
    <3> HIDE DEF msg
    <3> QED  BY <2>1, <2>2, <1>a DEF Strangers, TypeOK
  <2>4. OneAnswer(s) /\ HasItsPerformers(s)
    BY <2>3, <1>a, <1>c DEF StepInv, PerformerInv
  <2>5. /\ msg.no = iteration /\ acks[s] = <<>> /\ Tail(steps[s]) = <<>>
        /\ msg.affinity = IF iteration = 1 THEN Assignment ELSE NoAffinity
    BY <2>1, <2>4, <1>a, TailOfOne DEF OneAnswer, HasItsPerformers, TypeOK
  <2>6. stepped[s] = 0 => iteration = 1
    BY <2>2, <2>4, <2>5, <1>a DEF OneAnswer, TypeOK
  <2>7. ASSUME iteration = 1
        PROVE  mine = Kept(s) /\ notMine = NotKept(s) /\ mine \subseteq assigned
    <3>1. msg.affinity = Assignment
      BY <2>5, <2>7
    <3> HIDE DEF msg
    <3> QED  BY <3>1 DEF Kept, NotKept
  <2>8. ASSUME iteration # 1
        PROVE  assigned = {}
    BY <2>5, <2>8 DEF NoAffinity
  <2>9. performers'[s] = Kept(s) /\ removed'[s] = NotKept(s)
    <3>1. /\ performers'[s] = (performers[s] \ assigned) \cup mine
          /\ removed'[s] = removed[s] \cup notMine
      BY <2>1, <1>a DEF TypeOK
    <3>2. mine \subseteq assigned /\ notMine \subseteq assigned
      OBVIOUS
    <3> HIDE DEF assigned, mine, notMine
    <3> QED  BY <2>4, <2>6, <2>7, <2>8, <3>1, <3>2 DEF HasItsPerformers
  <2> HIDE DEF msg, ack, assigned, mine, notMine
  <2>10. /\ steps'[s] = <<>> /\ acks'[s] = <<ack>> /\ stepped'[s] # 0
         /\ \A t \in Secondary \ {s} :
              /\ steps'[t] = steps[t] /\ acks'[t] = acks[t] /\ stepped'[t] = stepped[t]
              /\ performers'[t] = performers[t] /\ removed'[t] = removed[t]
    BY <2>1, <2>2, <2>5, <1>a DEF TypeOK
  <2>11. ASSUME NEW t \in secondaries
         PROVE  HasItsPerformers(t)'
    <3>1. HasItsPerformers(t) /\ t \in Secondary
      BY <1>a, <1>c DEF PerformerInv, TypeOK
    <3>2. CASE t # s
      BY <2>1, <2>10, <3>1, <3>2, <1>d DEF HasItsPerformers
    <3>3. CASE t = s
      <4>1. acks'[s][1].state = Simulated(s)
        BY <2>2, <2>9, <2>10 DEF Simulated
      <4> QED  BY <2>1, <2>9, <2>10, <3>3, <4>1, <1>d DEF HasItsPerformers
    <3> QED  BY <3>2, <3>3
  <2> QED  BY <2>1, <2>11, <1>c, <1>d DEF PerformerInv
<1>11. ASSUME NEW s \in Secondary, OnStepAck(s)
       PROVE  PerformerInv'
  <2> DEFINE ack == Head(acks[s])
             n == Len(secondaryStates)
  <2>1. /\ acks[s] # <<>> /\ acks' = [acks EXCEPT ![s] = Tail(@)]
        /\ secondaryStates' = Append(secondaryStates, ack)
        /\ phase'[Primary] \in {phase[Primary], "crashed"}
        /\ UNCHANGED <<affinity, outgoing, secondaries, iteration, steps, stepped,
                       performers, removed>>
    BY <1>11, <1>a DEF OnStepAck, TypeOK
  <2>2. s \in secondaries
    BY <2>1, <1>a DEF StepInv, NoStrangers
  <2>3. OneAnswer(s) /\ HasItsPerformers(s)
    BY <2>2, <1>a, <1>c DEF StepInv, PerformerInv
  <2>4. Tail(acks[s]) = <<>> /\ ack.from = s /\ ack.state = Simulated(s)
    BY <2>1, <2>3, <1>a, TailOfOne DEF OneAnswer, HasItsPerformers, TypeOK
  <2>5. /\ n \in Nat /\ DOMAIN secondaryStates = 1 .. n
        /\ DOMAIN secondaryStates' = 1 .. n + 1 /\ secondaryStates'[n + 1] = ack
        /\ \A m \in 1 .. n : secondaryStates'[m] = secondaryStates[m]
    <3>1. secondaryStates \in Seq(StepAck) /\ ack \in StepAck
      BY <2>1, <1>a DEF TypeOK
    <3> HIDE DEF ack
    <3> QED  BY <2>1, <3>1
  <2> HIDE DEF ack, n
  <2>6. acks'[s] = <<>> /\ \A t \in Secondary \ {s} : acks'[t] = acks[t]
    BY <2>1, <2>4, <1>a DEF TypeOK
  <2>7. ASSUME NEW t \in secondaries
        PROVE  HasItsPerformers(t)'
    <3>1. HasItsPerformers(t) /\ t \in Secondary
      BY <1>a, <1>c DEF PerformerInv, TypeOK
    <3> QED  BY <2>1, <2>6, <3>1, <1>d DEF HasItsPerformers
  <2>8. ASSUME NEW m \in DOMAIN secondaryStates'
        PROVE  secondaryStates'[m].state = Simulated(secondaryStates[m].from)'
    <3>1. \A t : Simulated(t)' = Simulated(t)
      BY <2>1, <1>d
    <3>2. secondaryStates'[m].state = Simulated(secondaryStates'[m].from)
      <4>1. CASE m \in 1 .. n
        BY <2>5, <4>1, <1>c DEF PerformerInv
      <4>2. CASE m = n + 1
        BY <2>4, <2>5, <4>2
      <4> QED  BY <2>5, <2>8, <4>1, <4>2
    <3>3. Assignment' = Assignment
      BY <2>1, <1>d
    <3> QED  BY <3>2, <3>3 DEF Simulated, Kept, NotKept
  <2> QED  BY <2>1, <2>7, <2>8, <1>c, <1>d DEF PerformerInv
<1>12. CASE Await
  <2>1. /\ UNCHANGED publishVars /\ phase[Primary] = "await"
        /\ phase'[Primary] \in {"apply", "loop"}
    BY <1>12, <1>a DEF Await, Goes, TypeOK
  <2> QED  BY <2>1, <1>c, OthersKeepPerformers DEF PerformerInv
<1>13. CASE Apply
  <2>1. /\ phase[Primary] = "apply" /\ phase'[Primary] = "loop" /\ secondaryStates' = <<>>
        /\ \A s \in Secondary : stepped'[s] = stepped[s]
        /\ UNCHANGED <<secondaries, affinity, iteration, messageVars, secondaryVars>>
    BY <1>13, <1>a DEF Apply, ClearStates, Goes, TypeOK
  <2>2. \A s \in secondaries : HasItsPerformers(s)'
    BY <2>1, <1>a, <1>c, <1>d DEF PerformerInv, HasItsPerformers, TypeOK
  <2> QED  BY <2>1, <2>2, <1>a, <1>c, <1>d DEF PerformerInv, TypeOK
<1>14. CASE UNCHANGED vars
  BY <1>e, <1>14 DEF vars
<1> QED  BY <1>1, <1>2, <1>3, <1>4, <1>5, <1>6, <1>7, <1>8, <1>9, <1>10, <1>11, <1>12,
            <1>13, <1>14
         DEF Next, PrimaryThread, SecondaryThread

LEMMA PerformersStart == Init => PerformersInv
<1> SUFFICES ASSUME Init
             PROVE  PerformerInv
  BY StartsCalm DEF PerformersInv
<1>1. /\ phase[Primary] = "discover" /\ iteration = 0 /\ secondaryStates = <<>>
      /\ secondaries = {}
  BY DEF Init, Peer
<1> QED  BY <1>1 DEF PerformerInv

(* The primary goes on with the state of a performer from the secondary    *)
(* that it has affinity to, and from nobody else, whatever is lost, late,  *)
(* cut off or crashed - as long as the affinities were published, nobody   *)
(* steps without being registered and the performer is not in two levels.  *)
THEOREM PerformersHaveOneHome == Spec => []PerformersAreSimulated
<1>1. PerformersInv /\ [Next]_vars => PerformersInv'
  BY CalmStep, LockstepStep, PerformersStep DEF PerformersInv, LockstepInv
<1>2. PerformersInv => PerformersAreSimulated
  <2> SUFFICES ASSUME PerformersInv, phase[Primary] = "apply", ~unsent, Strangers = {},
                      NEW p \in Performer, Cardinality(PerformerLevels[p]) < 2
               PROVE  SimulatedOnce(p)
    BY DEF PerformersAreSimulated
  <2>1. TypeOK /\ StepInv /\ PerformerInv
    BY DEF PerformersInv, LockstepInv, CalmInv
  <2>2. affinity = Assignment /\ secondaries # {} /\ secondaries \subseteq Secondary
    BY <2>1 DEF PerformerInv, TypeOK
  <2>3. PICK t \in secondaries : Assignment[p] = <<t>>
    BY <2>2, SingleAffinity DEF Assignment
  <2>4. Last(Assignment[p]) = t
    BY <2>3 DEF Last
  <2>5. \A u : p \in Simulated(u) <=> u = t
    BY <2>3, <2>4 DEF Simulated, Kept, NotKept
  <2>6. \A n \in DOMAIN secondaryStates :
          p \in secondaryStates[n].state <=> secondaryStates[n].from = t
    BY <2>1, <2>5 DEF PerformerInv
  <2>7. \E n \in DOMAIN secondaryStates : secondaryStates[n].from = t
    BY <2>1, <2>3, AllAnswered DEF StepInv, Answered
  <2>8. affinity[p] # <<>> /\ Last(affinity[p]) = t
    BY <2>2, <2>3, <2>4
  <2> QED  BY <2>6, <2>7, <2>8 DEF SimulatedOnce
<1> QED  BY PerformersStart, <1>1, <1>2, PTL DEF Spec

===============================================================================
