-------------------------------- MODULE Comms --------------------------------
(***************************************************************************)
(* Messages between simulated robots (src/comms/, and the comms systems).   *)
(* Robots send messages to a broker, from transport threads, which keeps   *)
(* them in the outbound queue of the sender's address.  In every step, on  *)
(* the simulation's thread, a comms model moves them to the inbound queue  *)
(* of the address they are for, and the broker hands these to the          *)
(* subscribers.  A mutex protects the broker's registry, but it is free    *)
(* between the model's step and the delivery.                              *)
(*                                                                         *)
(* The CommsEndpoint system of a robot asks the broker for an address,     *)
(* again in every step until it has got it, and gives it back when the     *)
(* robot is removed.  Its requests may take their time; a broker in the    *)
(* same process answers at once, which is the case where nothing happens   *)
(* in between.  An endpoint stands for its topic, too.                     *)
(*                                                                         *)
(* The three comms models differ in what becomes of a message: perfect,    *)
(* radio (which may lose it) and acoustic (which may also keep it for a    *)
(* while, or lose it to a collision).                                      *)
(***************************************************************************)
EXTENDS Naturals, FiniteSets, Sequences, SequencesExt

CONSTANTS
  Address,           \* addresses
  Robot,             \* robots, by name
  Endpoint,          \* endpoints, each with a topic of its own
  AddressOf, ModelOf,\* the address an endpoint asks for, and its robot
  Message, From, To, \* messages, with the addresses they come from and go to
  Medium,            \* what the model may do instead of moving one: "lost", "kept"
  MaxRequests,       \* bound: requests on their way to the broker
  None

ASSUME CommsAssumption ==
  /\ AddressOf \in [Endpoint -> Address] /\ ModelOf \in [Endpoint -> Robot]
  /\ From \in [Message -> Address] /\ To \in [Message -> Address]
  /\ Medium \subseteq {"lost", "kept"}
  /\ IsFiniteSet(Endpoint)
  /\ None \notin Robot

VARIABLES
  pc,                \* ICommsModel: "idle", "stepped" or to "deliver"
  registry,          \* the broker's Registry
  newRegistry,       \* the one that Step fills, while the mutex is held
  alive,             \* robots that exist, with their endpoints
  bound,             \* endpoints that know that they are bound
  requests,          \* to the broker's services, in order
  answers,           \* endpoints whose request was granted, answer on its way
  accepted, lost,    \* history: messages the broker got, and the model lost
  handed             \* history: how often each was handed to the subscribers

modelVars == <<pc, newRegistry>>
endpointVars == <<alive, bound, requests, answers>>
history == <<accepted, lost, handed>>
vars == <<modelVars, registry, endpointVars, history>>

(* An address that the registry does not have is one with nothing in it.   *)
(* `attached` are those whose entity is not kNullEntity.                   *)
EmptyRegistry ==
  [modelName     |-> [a \in Address |-> None],
   subscriptions |-> [a \in Address |-> {}],
   attached      |-> {},
   outboundMsgs  |-> [a \in Address |-> {}],
   inboundMsgs   |-> [a \in Address |-> {}]]

Init ==
  /\ pc = "idle"
  /\ registry = EmptyRegistry /\ newRegistry = EmptyRegistry
  /\ alive = {} /\ bound = {} /\ requests = <<>> /\ answers = {}
  /\ accepted = {} /\ lost = {} /\ handed = [n \in Message |-> 0]

MutexIsFree == pc # "stepped"

-------------------------------------------------------------------------------
(* The broker's services and its topic, on transport threads.              *)

MayBind(a, e) == registry.modelName[a] \in {None, ModelOf[e]}

AddSubscriber(a, e) ==
  registry' = [registry EXCEPT !.modelName[a] = ModelOf[e],
                               !.subscriptions[a] = @ \cup {e}]

OnBind ==
  /\ MutexIsFree /\ requests # <<>> /\ Head(requests).srv # "unbind"
  /\ LET e == Head(requests).endpoint
         a == AddressOf[e]
     IN  IF MayBind(a, e)
           THEN /\ AddSubscriber(a, e)
                /\ answers' = IF Head(requests).srv = "bind" THEN answers \cup {e}
                                                             ELSE answers
           ELSE UNCHANGED <<registry, answers>>
  /\ requests' = Tail(requests)
  /\ UNCHANGED <<modelVars, alive, bound, history>>

(* RemoveSubscriber (the definition that follows a "Slip" is the code's;   *)
(* the slip is a mistake that it could have).                              *)
SlipKeepModel(a, e) ==
  [registry EXCEPT !.subscriptions[a] = @ \ {e}]

RemoveSubscriber(a, e) ==
  [registry EXCEPT
     !.modelName[a] = IF registry.subscriptions[a] \subseteq {e} THEN None ELSE @,
     !.subscriptions[a] = @ \ {e}]

OnUnbind ==
  /\ MutexIsFree /\ requests # <<>> /\ Head(requests).srv = "unbind"
  /\ registry' = RemoveSubscriber(AddressOf[Head(requests).endpoint],
                                  Head(requests).endpoint)
  /\ requests' = Tail(requests)
  /\ UNCHANGED <<modelVars, alive, bound, answers, history>>

AddOutbound(n) ==
  /\ n \notin accepted
  /\ accepted' = accepted \cup {n}
  /\ registry' = [registry EXCEPT !.outboundMsgs[From[n]] = @ \cup {n}]
  /\ UNCHANGED <<modelVars, endpointVars, lost, handed>>

OnMsg(n) == MutexIsFree /\ AddOutbound(n)

-------------------------------------------------------------------------------
(* ICommsModel, on the simulation's thread.                                *)

(* Messages between addresses whose robots are known; the others are lost. *)
Deliverable ==
  {n \in UNION {registry.outboundMsgs[a] : a \in Address} :
     {From[n], To[n]} \subseteq registry.attached}

(* The registry after Step, in which the model moves, loses and keeps      *)
(* messages: the robots of addresses are found in the ECM, and as of the   *)
(* next step, their messages are moved.                                    *)
Step(fate) ==
  [registry EXCEPT
     !.attached = @ \cup {a \in Address : registry.modelName[a] \in alive},
     !.outboundMsgs = [a \in Address |->
        {n \in @[a] : n \in Deliverable /\ fate[n] = "kept"}],
     !.inboundMsgs = [a \in Address |->
        @[a] \cup {n \in Deliverable : To[n] = a /\ fate[n] = "moved"}]]

(* StepImpl, with the mutex locked, up to Set.  There is none in a step    *)
(* that is paused, and there may be several in a row.                      *)
StepImpl ==
  /\ pc = "idle"
  /\ pc' = "stepped"
  /\ \E fate \in [Deliverable -> {"moved"} \cup Medium] :
       /\ newRegistry' = Step(fate)
       /\ lost' = lost \cup
            {n \in UNION {registry.outboundMsgs[a] : a \in Address} :
               n \notin Deliverable \/ fate[n] = "lost"}
  /\ UNCHANGED <<registry, endpointVars, accepted, handed>>

(* Set and Unlock.                                                         *)
SetRegistry ==
  /\ pc = "stepped"
  /\ pc' = "deliver"
  /\ registry' = newRegistry
  /\ newRegistry' = EmptyRegistry
  /\ UNCHANGED <<endpointVars, history>>

DeliverMsgs ==
  /\ pc = "deliver"
  /\ pc' = "idle"
  /\ registry' = [registry EXCEPT !.inboundMsgs = [a \in Address |-> {}]]
  /\ handed' = [n \in Message |->
       handed[n] + Cardinality({a \in Address : n \in registry.inboundMsgs[a]})]
  /\ UNCHANGED <<newRegistry, endpointVars, accepted, lost>>

-------------------------------------------------------------------------------
(* CommsEndpoint, on the simulation's thread but for the answers.          *)

Configure(r) ==
  /\ pc = "idle" /\ r \notin alive
  /\ alive' = alive \cup {r}
  /\ UNCHANGED <<modelVars, registry, bound, requests, answers, history>>

(* bindRequestPeriod is a nanosecond, so that a request is made in every   *)
(* step.                                                                   *)
PreUpdate(e) ==
  /\ pc = "idle" /\ ModelOf[e] \in alive /\ e \notin bound /\ Len(requests) < MaxRequests
  /\ requests' = Append(requests, [srv |-> "bind", endpoint |-> e])
  /\ UNCHANGED <<modelVars, registry, alive, bound, answers, history>>

BindCallback(e) ==
  /\ e \in answers
  /\ answers' = answers \ {e}
  /\ bound' = bound \cup {e}
  /\ UNCHANGED <<modelVars, registry, alive, requests, history>>

(* A robot is removed.  The destructors give back the addresses of bound   *)
(* endpoints, and nobody waits any more for answers to requests that are   *)
(* under way.                                                              *)
Unanswered(r) ==
  [i \in DOMAIN requests |->
     IF requests[i].srv = "bind" /\ ModelOf[requests[i].endpoint] = r
       THEN [requests[i] EXCEPT !.srv = "lateBind"] ELSE requests[i]]

Destroy(r) ==
  LET its == {e \in Endpoint : ModelOf[e] = r} IN
  /\ pc = "idle" /\ r \in alive
  /\ Len(requests) + Cardinality(its \cap bound) <= MaxRequests
  /\ alive' = alive \ {r} /\ bound' = bound \ its /\ answers' = answers \ its
  /\ \E order \in SetToSeqs(its \cap bound) :
       requests' = Unanswered(r) \o
         [i \in DOMAIN order |-> [srv |-> "unbind", endpoint |-> order[i]]]
  /\ UNCHANGED <<modelVars, registry, history>>

Next ==
  \/ OnBind \/ OnUnbind
  \/ \E n \in Message : OnMsg(n)
  \/ StepImpl \/ SetRegistry \/ DeliverMsgs
  \/ \E r \in Robot : Configure(r) \/ Destroy(r)
  \/ \E e \in Endpoint : PreUpdate(e) \/ BindCallback(e)

(* The model's PreUpdate comes to its end, and the runner calls that of    *)
(* every endpoint in every step.  The broker serves requests if the mutex  *)
(* is free again and again.                                                *)
Fairness ==
  /\ WF_vars(SetRegistry \/ DeliverMsgs)
  /\ SF_vars(OnBind \/ OnUnbind)
  /\ \A e \in Endpoint : SF_vars(PreUpdate(e))

Spec == Init /\ [][Next]_vars /\ Fairness

-------------------------------------------------------------------------------
(* A message that the broker got is in exactly one place, whatever arrives *)
(* while the model is at work: it waits at its sender's address, or for    *)
(* delivery at the one it is for, or was handed to the subscribers, once,  *)
(* or was lost by the model.  While the mutex is held, the new registry is *)
(* the one that counts.                                                    *)
MailIsExact ==
  LET r == IF pc = "stepped" THEN newRegistry ELSE registry IN
  \A n \in accepted :
    /\ Cardinality({a \in Address : n \in r.outboundMsgs[a]})
         + Cardinality({a \in Address : n \in r.inboundMsgs[a]})
         + handed[n] + (IF n \in lost THEN 1 ELSE 0) = 1
    /\ \A a \in Address : /\ n \in r.outboundMsgs[a] => a = From[n]
                          /\ n \in r.inboundMsgs[a] => a = To[n]

(* An endpoint does not wait for ever for an address that nobody else has: *)
(* while it exists, it gets its subscription again and again, or there is a*)
(* subscription of another robot.  (Possibly of one that was removed before*)
(* it knew that it was bound: nobody gives that one back.)                 *)
EndpointsGetBound ==
  \A e \in Endpoint : []<>
    \/ ModelOf[e] \notin alive
    \/ e \in registry.subscriptions[AddressOf[e]]
    \/ \E o \in registry.subscriptions[AddressOf[e]] : ModelOf[o] # ModelOf[e]

===============================================================================
