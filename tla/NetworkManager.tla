---------------------------- MODULE NetworkManager ----------------------------
(***************************************************************************)
(* A distributed simulation (src/network): a primary and secondaries, each *)
(* a server of its own with a PeerTracker that finds the others and        *)
(* notices when they leave.  The primary registers the secondaries over a  *)
(* service, then publishes every step, waits for as many acknowledgements  *)
(* as it has secondaries, applies the states in them and steps itself.     *)
(*                                                                         *)
(* An action is a callback, or what a process does between two points at   *)
(* which a callback of its own, in a thread of gz-transport, can come in   *)
(* between.  Messages between two processes keep their order.  Processes   *)
(* crash, are stopped, and may be cut off for longer than a heartbeat, a   *)
(* service request or a message lasts: `faults` counts these.  Timeouts    *)
(* come at any time; the time that passes is left out, and with it pauses  *)
(* and the steps that the primary counts but could not play.               *)
(***************************************************************************)
EXTENDS Integers, FiniteSets, SequencesExt

CONSTANTS
  Primary,
  Secondary,            \* in the order of their prefixes
  numSecondariesExpected,
  Performer,
  PerformerLevels,      \* the levels each performer is in at the start
  MaxSteps, MaxFaults   \* bounds

Peer == {Primary} \cup Secondary

ASSUME NetworkAssumption ==
  /\ Secondary \subseteq Nat /\ IsFiniteSet(Secondary) /\ Primary \notin Secondary
  /\ Performer \subseteq Nat /\ IsFiniteSet(Performer)
  /\ PerformerLevels \in [Performer -> SUBSET Nat]
  /\ \A p \in Performer : IsFiniteSet(PerformerLevels[p])
  /\ numSecondariesExpected \in 1 .. Cardinality(Secondary)
  /\ MaxSteps \in Nat /\ MaxFaults \in Nat

VARIABLES
  phase,             \* what each process does
  peers,             \* PeerTracker: the others that each process knows
  stopReceived,      \* SimulationRunner and NetworkManager
  running,           \* SimulationRunner of the primary
  toRegister,        \* peers that Handshake has yet to ask
  secondaries, ready,   \* SecondaryControl: registered, and initialized
  enableSim,         \* secondaries that OnControl has enabled
  subscribers,       \* secondaries that the publisher of steps is connected to
  affinity,          \* PerformerAffinity of the primary's performers
  outgoing,          \* the affinities in the next step message
  iteration,         \* the last step published
  steps, acks,       \* messages under way to and from each secondary
  secondaryStates, promise,  \* what OnStepAck collected; secondaryStatesPromise
  stepped,           \* the last step each process has played
  performers,        \* those whose state a secondary reports
  removed,           \* performers whose model a secondary has removed
  faults,
  stopLost,          \* history: the primary was stopped before it ran
  unsent             \* history: a message with affinities was not published

processVars == <<phase, stopReceived, running>>
handshakeVars == <<toRegister, secondaries, ready, enableSim>>
primaryVars == <<affinity, outgoing, iteration, secondaryStates, promise>>
messageVars == <<steps, acks>>
secondaryVars == <<performers, removed>>
historyVars == <<stopLost, unsent>>
vars == <<processVars, peers, handshakeVars, subscribers, primaryVars, messageVars,
          stepped, secondaryVars, faults, historyVars>>

NoAffinity == [p \in Performer |-> <<>>]

Init ==
  /\ phase = [p \in Peer |-> "discover"]
  /\ peers = [p \in Peer |-> {}]
  /\ stopReceived = [p \in Peer |-> FALSE] /\ running = FALSE
  /\ toRegister = {} /\ secondaries = {} /\ ready = {} /\ enableSim = {}
  /\ subscribers = {}
  /\ affinity = NoAffinity /\ outgoing = NoAffinity
  /\ iteration = 0 /\ secondaryStates = <<>> /\ promise = FALSE
  /\ steps = [s \in Secondary |-> <<>>] /\ acks = [s \in Secondary |-> <<>>]
  /\ stepped = [p \in Peer |-> 0]
  /\ performers = [s \in Secondary |-> {}] /\ removed = [s \in Secondary |-> {}]
  /\ faults = 0
  /\ stopLost = FALSE /\ unsent = FALSE

Gone(p) == phase[p] \in {"ended", "crashed"}
Up(p) == ~Gone(p)
Goes(p, from, to) == phase[p] = from /\ phase' = [phase EXCEPT ![p] = to]

Fault == faults < MaxFaults /\ faults' = faults + 1

(* The definition that follows a "Slip" is the code's; the slip is a       *)
(* mistake in it that the checks of this module have to notice.            *)

SlipNoStop(p) == UNCHANGED <<stopReceived, running>>

(* eventMgr->Emit<events::Stop>.                                           *)
EmitStop(p) ==
  /\ stopReceived' = [stopReceived EXCEPT ![p] = TRUE]
  /\ running' = (running /\ p # Primary)

-------------------------------------------------------------------------------
(* Processes, and the peers they know.                                     *)

(* An announcement or, if that was missed, a heartbeat.                    *)
OnPeerAdded(p, q) ==
  /\ p # q /\ Up(p) /\ Up(q) /\ q \notin peers[p]
  /\ peers' = [peers EXCEPT ![p] = @ \cup {q}]
  /\ UNCHANGED <<processVars, handshakeVars, subscribers, primaryVars, messageVars,
                 stepped, secondaryVars, faults, historyVars>>

(* An announcement, or heartbeats that stay out - of a peer that is gone,  *)
(* or one that is cut off.                                                 *)
OnPeerLost(p, q) ==
  /\ Up(p) /\ q \in peers[p]
  /\ IF Gone(q) THEN UNCHANGED faults ELSE Fault
  /\ peers' = [peers EXCEPT ![p] = @ \ {q}]
  /\ EmitStop(p)
  /\ UNCHANGED <<phase, handshakeVars, subscribers, primaryVars, messageVars, stepped,
                 secondaryVars, historyVars>>

(* The transport layer finds out about a subscriber to the topic "step".   *)
Connect(s) ==
  /\ Up(s) /\ s \notin subscribers
  /\ subscribers' = subscribers \cup {s}
  /\ UNCHANGED <<processVars, peers, handshakeVars, primaryVars, messageVars, stepped,
                 secondaryVars, faults, historyVars>>

Stop(p) ==
  /\ Up(p) /\ ~stopReceived[p] /\ Fault
  /\ EmitStop(p)
  /\ UNCHANGED <<phase, peers, handshakeVars, subscribers, primaryVars, messageVars,
                 stepped, secondaryVars, historyVars>>

Crash(p) ==
  /\ Up(p) /\ Fault
  /\ phase' = [phase EXCEPT ![p] = "crashed"]
  /\ UNCHANGED <<peers, stopReceived, running, handshakeVars, subscribers, primaryVars,
                 messageVars, stepped, secondaryVars, historyVars>>

LoseMessage(s) ==
  /\ Fault
  /\ \/ steps[s] # <<>> /\ steps' = [steps EXCEPT ![s] = Tail(@)] /\ UNCHANGED acks
     \/ acks[s] # <<>> /\ acks' = [acks EXCEPT ![s] = Tail(@)] /\ UNCHANGED steps
  /\ UNCHANGED <<processVars, peers, handshakeVars, subscribers, primaryVars, stepped,
                 secondaryVars, historyVars>>

-------------------------------------------------------------------------------
(* Before the simulation: ServerPrivate::Run waits for the peers.          *)

Ready(p) ==
  IF p = Primary THEN Cardinality(peers[p] \cap Secondary) = numSecondariesExpected
                 ELSE Primary \in peers[p]

(* A process whose Run returns leaves the network.                         *)
AwaitPeers(p) ==
  /\ \/ stopReceived[p] /\ Goes(p, "discover", "ended")
     \/ /\ ~stopReceived[p] /\ Ready(p)
        /\ Goes(p, "discover", IF p = Primary THEN "ready" ELSE "handshake")
  /\ UNCHANGED <<peers, stopReceived, running, handshakeVars, subscribers, primaryVars,
                 messageVars, stepped, secondaryVars, faults, historyVars>>

(* The peers may no longer be those that made the primary ready.           *)
Handshake ==
  /\ Goes(Primary, "ready", "handshake")
  /\ toRegister' = peers[Primary] \cap Secondary
  /\ UNCHANGED <<peers, stopReceived, running, secondaries, ready, enableSim, subscribers,
                 primaryVars, messageVars, stepped, secondaryVars, faults, historyVars>>

(* The service request of the primary and OnControl of the secondary; the  *)
(* answer may fail to come.                                                *)
Register(s) ==
  /\ phase[Primary] = "handshake" /\ s \in toRegister
  /\ toRegister' = toRegister \ {s}
  /\ secondaries' = secondaries \cup {s}
  /\ \/ Up(s) /\ ready' = ready \cup {s} /\ UNCHANGED faults
     \/ Gone(s) /\ UNCHANGED <<ready, faults>>
     \/ Up(s) /\ Fault /\ UNCHANGED ready
  /\ enableSim' = enableSim \cup (IF Up(s) THEN {s} ELSE {})
  /\ UNCHANGED <<processVars, peers, subscribers, primaryVars, messageVars, stepped,
                 secondaryVars, historyVars>>

(* Run sets running after the handshake, whatever came during it.          *)
EnterRun ==
  /\ Goes(Primary, "handshake", "loop") /\ toRegister = {}
  /\ running' = TRUE
  /\ stopLost' = stopReceived[Primary]
  /\ UNCHANGED <<stopReceived, peers, handshakeVars, subscribers, primaryVars,
                 messageVars, stepped, secondaryVars, faults, unsent>>

-------------------------------------------------------------------------------
(* The primary runs.                                                       *)

(* A secondary waits, until it is enabled and then until it is stopped;    *)
(* its Handshake and its Run end in the same way.                          *)
EndRun(p) ==
  /\ \/ p = Primary /\ ~running /\ Goes(p, "loop", "ended")
     \/ p \in Secondary /\ stopReceived[p] /\ Goes(p, "handshake", "ended")
  /\ UNCHANGED <<peers, stopReceived, running, handshakeVars, subscribers, primaryVars,
                 messageVars, stepped, secondaryVars, faults, historyVars>>

Rank(x, S) == Cardinality({y \in S : y < x})

(* A std::set of numbers is walked in their order.                         *)
InOrder(S) == [n \in 1 .. Cardinality(S) |-> CHOOSE x \in S : Rank(x, S) = n - 1]

(* Levels take turns with the secondaries, with all performers in them,    *)
(* then the performers without a level: those that SetAffinity is called   *)
(* with for a performer, the last call being the one that lasts.           *)
Affinities(p) ==
  LET levels == UNION {PerformerLevels[q] : q \in Performer}
      homeless == {q \in Performer : PerformerLevels[q] = {}}
      turns == IF p \in homeless
                 THEN {Cardinality(levels) + Rank(p, homeless)}
                 ELSE {Rank(l, levels) : l \in PerformerLevels[p]}
      secondaryIt(n) == CHOOSE s \in secondaries :
                          Rank(s, secondaries) = n % Cardinality(secondaries)
      inOrder == InOrder(turns)
  IN  [n \in DOMAIN inOrder |-> secondaryIt(inOrder[n])]

SlipNever == FALSE

FirstAssignment == affinity = NoAffinity

ClearStates == secondaryStates' = <<>>

(* Step, as far as the message with the affinities.  Nothing changes if a  *)
(* secondary is not ready.  Without a connection the message is dropped,   *)
(* and there is no first assignment any more.  The assignment dereferences *)
(* the end of `secondaries` if there are none: the process aborts.         *)
BeginStep ==
  /\ phase[Primary] = "loop" /\ running
  /\ ready = secondaries
  /\ iteration < MaxSteps
  /\ LET first == FirstAssignment
         msg == IF first THEN [p \in Performer |-> Affinities(p)] ELSE NoAffinity
     IN  IF first /\ secondaries = {} /\ Performer # {}
           THEN /\ phase' = [phase EXCEPT ![Primary] = "crashed"]
                /\ UNCHANGED <<affinity, outgoing, secondaryStates, unsent>>
           ELSE /\ affinity' = IF first THEN msg ELSE affinity
                /\ IF subscribers = {}
                     THEN /\ unsent' = (unsent \/ first)
                          /\ UNCHANGED <<phase, outgoing, secondaryStates>>
                     ELSE /\ Goes(Primary, "loop", "publish")
                          /\ outgoing' = msg
                          /\ ClearStates
                          /\ UNCHANGED unsent
  /\ UNCHANGED <<stopReceived, running, peers, handshakeVars, subscribers, iteration,
                 promise, messageVars, stepped, secondaryVars, faults, stopLost>>

(* A new promise, then the message to everybody who is connected.          *)
Publish ==
  /\ Goes(Primary, "publish", "await")
  /\ promise' = FALSE
  /\ iteration' = iteration + 1
  /\ outgoing' = NoAffinity
  /\ steps' = [s \in Secondary |->
       IF s \in subscribers /\ Up(s)
         THEN Append(steps[s], [no |-> iteration + 1, affinity |-> outgoing])
         ELSE steps[s]]
  /\ UNCHANGED <<stopReceived, running, peers, handshakeVars, subscribers, affinity,
                 secondaryStates, acks, stepped, secondaryVars, faults, historyVars>>

(* The secondary keeps the performers that are assigned to it last and     *)
(* removes the model of each that is assigned to another one, in the order *)
(* of the message, so of one assigned to both as well; it plays the step   *)
(* and sends the state of its performers.  It does so before it is enabled *)
(* too.                                                                    *)
OnStep(s) ==
  /\ Up(s) /\ steps[s] # <<>>
  /\ LET msg == Head(steps[s])
         assigned == {p \in Performer : msg.affinity[p] # <<>>}
         mine == {p \in assigned : Last(msg.affinity[p]) = s}
         notMine == {p \in assigned : \E n \in DOMAIN msg.affinity[p] :
                                        msg.affinity[p][n] # s}
     IN  /\ performers' = [performers EXCEPT ![s] = (@ \ assigned) \cup mine]
         /\ removed' = [removed EXCEPT ![s] = @ \cup notMine]
         /\ stepped' = [stepped EXCEPT ![s] = msg.no]
         /\ acks' = [acks EXCEPT ![s] =
              Append(@, [from |-> s, no |-> msg.no,
                         state |-> performers'[s] \ removed'[s]])]
  /\ steps' = [steps EXCEPT ![s] = Tail(@)]
  /\ UNCHANGED <<processVars, peers, handshakeVars, subscribers, primaryVars, faults,
                 historyVars>>

SlipAnyAck(n) == n >= 1

AllAcked(n) == n = Cardinality(secondaries)

(* Acknowledgements are counted, whoever they are from.  A promise that is *)
(* kept twice throws an exception that nobody catches.                     *)
OnStepAck(s) ==
  /\ Up(Primary) /\ acks[s] # <<>>
  /\ acks' = [acks EXCEPT ![s] = Tail(@)]
  /\ secondaryStates' = Append(secondaryStates, Head(acks[s]))
  /\ LET all == AllAcked(Len(secondaryStates'))
     IN  /\ promise' = (promise \/ all)
         /\ phase' = IF promise /\ all THEN [phase EXCEPT ![Primary] = "crashed"]
                                       ELSE phase
  /\ UNCHANGED <<peers, stopReceived, running, handshakeVars, subscribers, affinity,
                 outgoing, iteration, steps, stepped, secondaryVars, faults,
                 historyVars>>

(* The wait ends: all states are there, or it has lasted ten seconds.      *)
Await ==
  /\ \/ promise /\ Goes(Primary, "await", "apply") /\ UNCHANGED <<stopReceived, running>>
     \/ ~promise /\ Goes(Primary, "await", "loop") /\ EmitStop(Primary)
  /\ UNCHANGED <<peers, handshakeVars, subscribers, primaryVars, messageVars, stepped,
                 secondaryVars, faults, historyVars>>

(* The states go into the primary's ECM, and it plays the step.            *)
Apply ==
  /\ Goes(Primary, "apply", "loop")
  /\ ClearStates
  /\ stepped' = [stepped EXCEPT ![Primary] = iteration]
  /\ UNCHANGED <<stopReceived, running, peers, handshakeVars, subscribers, affinity,
                 outgoing, iteration, promise, messageVars, secondaryVars, faults,
                 historyVars>>

-------------------------------------------------------------------------------
(* The main thread of each process.                                        *)
PrimaryThread ==
  \/ AwaitPeers(Primary) \/ Handshake \/ \E s \in Secondary : Register(s)
  \/ EnterRun \/ BeginStep \/ Publish \/ Await \/ Apply \/ EndRun(Primary)

SecondaryThread(s) == AwaitPeers(s) \/ EndRun(s)

NoticeLoss(p) == \E q \in Peer : Gone(q) /\ OnPeerLost(p, q)

Next ==
  \/ PrimaryThread
  \/ \E s \in Secondary : \/ SecondaryThread(s) \/ OnStep(s) \/ OnStepAck(s)
                          \/ Connect(s) \/ LoseMessage(s)
  \/ \E p \in Peer : Stop(p) \/ Crash(p)
  \/ \E p, q \in Peer : OnPeerAdded(p, q) \/ OnPeerLost(p, q)

Spec == Init /\ [][Next]_vars

(* Processes that are up go on, and heartbeats that stay out are noticed.  *)
FairSpec ==
  /\ Spec
  /\ WF_vars(PrimaryThread)
  /\ \A s \in Secondary : WF_vars(SecondaryThread(s))
  /\ \A p \in Peer : WF_vars(NoticeLoss(p))

-------------------------------------------------------------------------------
(* Properties.                                                             *)

(* Who plays steps without being registered: the primary does not tell its *)
(* acknowledgements from those it waits for.                               *)
Strangers == {s \in Secondary \ secondaries : stepped[s] > 0}

(* All runners step at the same time: nobody is more than a step behind.   *)
StepsTogether == \A p \in {Primary} \cup secondaries : stepped[p] >= iteration - 1

(* The primary goes on with one state of each secondary, all of this step, *)
(* and none arrives while it walks them.                                   *)
StatesAreComplete ==
  phase[Primary] = "apply" =>
    /\ {secondaryStates[n].from : n \in DOMAIN secondaryStates} = secondaries
    /\ Len(secondaryStates) = Cardinality(secondaries)
    /\ \A n \in DOMAIN secondaryStates : secondaryStates[n].no = iteration
    /\ \A s \in Secondary : acks[s] = <<>>

(* Distributed lockstep, as long as runners are fixed.                     *)
Lockstep == Strangers = {} => StepsTogether /\ StatesAreComplete

(* Every performer of the state that the primary goes on with comes from   *)
(* one secondary, namely the one that it has affinity to.                  *)
SimulatedOnce(p) ==
  /\ affinity[p] # <<>>
  /\ {secondaryStates[n].from : n \in {m \in DOMAIN secondaryStates :
                                      p \in secondaryStates[m].state}}
       = {Last(affinity[p])}

(* ... unless the affinities got lost, or the performer is in two levels.  *)
PerformersAreSimulated ==
  phase[Primary] = "apply" /\ ~unsent /\ Strangers = {} =>
    \A p \in Performer : Cardinality(PerformerLevels[p]) < 2 => SimulatedOnce(p)

PeerLeft == \E p \in {Primary} \cup secondaries : secondaries # {} /\ Gone(p)
NobodyRuns == \A p \in Peer : phase[p] = "discover" \/ Gone(p)

(* If a process leaves, intentionally or not, the others stop, unless this *)
(* happens during the handshake (distributed_simulation.md promises it     *)
(* without exception).                                                     *)
OthersStop == PeerLeft ~> NobodyRuns \/ stopLost

===============================================================================
