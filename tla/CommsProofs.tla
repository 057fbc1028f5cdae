----------------------------- MODULE CommsProofs -----------------------------
(***************************************************************************)
(* Proofs about Comms for any number of robots, addresses, endpoints and   *)
(* messages, and any number of requests under way.                         *)
(***************************************************************************)
EXTENDS Comms, FiniteSetTheorems, TLAPS

Registry ==
  [modelName : [Address -> Robot \cup {None}],
   subscriptions : [Address -> SUBSET Endpoint],
   attached : SUBSET Address,
   outboundMsgs : [Address -> SUBSET Message],
   inboundMsgs : [Address -> SUBSET Message]]

Request == [srv : {"bind", "lateBind", "unbind"}, endpoint : Endpoint]

TypeOK ==
  /\ pc \in {"idle", "stepped", "deliver"}
  /\ registry \in Registry /\ newRegistry \in Registry
  /\ alive \subseteq Robot /\ bound \subseteq Endpoint
  /\ requests \in Seq(Request) /\ answers \subseteq Endpoint
  /\ accepted \subseteq Message /\ lost \subseteq Message
  /\ handed \in [Message -> Nat]

(* The registry that counts.                                               *)
Current == IF pc = "stepped" THEN newRegistry ELSE registry

WaitsInOutbound(n) == n \in Current.outboundMsgs[From[n]]
WaitsInInbound(n) == n \in Current.inboundMsgs[To[n]]

(* Messages are only where they belong, and only those that the broker got.*)
MailIsInPlace ==
  \A n \in Message, a \in Address :
    /\ n \in Current.outboundMsgs[a] => a = From[n] /\ n \in accepted
    /\ n \in Current.inboundMsgs[a] => a = To[n] /\ n \in accepted

NothingFromNothing ==
  \A n \in Message \ accepted : handed[n] = 0 /\ n \notin lost

(* Of the four places a message can be in, it is in one.                   *)
IsInOnePlace(n) ==
  \/ WaitsInOutbound(n) /\ ~WaitsInInbound(n) /\ handed[n] = 0 /\ n \notin lost
  \/ ~WaitsInOutbound(n) /\ WaitsInInbound(n) /\ handed[n] = 0 /\ n \notin lost
  \/ ~WaitsInOutbound(n) /\ ~WaitsInInbound(n) /\ handed[n] = 1 /\ n \notin lost
  \/ ~WaitsInOutbound(n) /\ ~WaitsInInbound(n) /\ handed[n] = 0 /\ n \in lost

OnePlace == \A n \in accepted : IsInOnePlace(n)

MailInv == TypeOK /\ MailIsInPlace /\ NothingFromNothing /\ OnePlace

(* A message that is at one address at most is counted once or not at all. *)
LEMMA CountPlaces ==
  ASSUME NEW queues \in [Address -> SUBSET Message], NEW n \in Message,
         NEW x \in Address, \A a \in Address : n \in queues[a] => a = x
  PROVE  Cardinality({a \in Address : n \in queues[a]})
           = IF n \in queues[x] THEN 1 ELSE 0
<1>1. CASE n \in queues[x]
  <2>1. {a \in Address : n \in queues[a]} = {x}
    BY <1>1
  <2>2. QED
    BY <1>1, <2>1, FS_Singleton
<1>2. CASE n \notin queues[x]
  <2>1. {a \in Address : n \in queues[a]} = {}
    BY <1>2
  <2>2. QED
    BY <1>2, <2>1, FS_EmptySet
<1>3. QED
  BY <1>1, <1>2

LEMMA EmptyRegistryType == EmptyRegistry \in Registry
BY DEF EmptyRegistry, Registry

LEMMA InitType == Init => TypeOK
<1> SUFFICES ASSUME Init PROVE TypeOK
  OBVIOUS
<1>1. requests \in Seq(Request)
  BY DEF Init
<1>2. QED
  BY <1>1, EmptyRegistryType DEF Init, TypeOK

LEMMA HeadIsRequest ==
  ASSUME TypeOK, requests # <<>>
  PROVE  /\ Head(requests) \in Request
         /\ Head(requests).endpoint \in Endpoint
         /\ Tail(requests) \in Seq(Request)
<1>1. Head(requests) \in Request /\ Tail(requests) \in Seq(Request)
  BY DEF TypeOK
<1>2. QED
  BY <1>1 DEF Request

(* The services change names and subscribers only.                         *)
LEMMA ServiceUpdates ==
  ASSUME TypeOK, OnBind \/ OnUnbind
  PROVE  /\ registry' \in Registry
         /\ registry'.outboundMsgs = registry.outboundMsgs
         /\ registry'.inboundMsgs = registry.inboundMsgs
<1> DEFINE e == Head(requests).endpoint
           a == AddressOf[e]
<1>1. e \in Endpoint /\ a \in Address /\ ModelOf[e] \in Robot
  BY HeadIsRequest, CommsAssumption DEF OnBind, OnUnbind
<1>2. /\ registry \in Registry
      /\ registry.modelName \in [Address -> Robot \cup {None}]
      /\ registry.subscriptions \in [Address -> SUBSET Endpoint]
  BY DEF TypeOK, Registry
<1>3. CASE registry' = registry
  BY <1>2, <1>3
<1>4. CASE AddSubscriber(a, e)
  <2> DEFINE names == [registry.modelName EXCEPT ![a] = ModelOf[e]]
             subscribers == [registry.subscriptions EXCEPT ![a] = @ \cup {e}]
  <2>1. names \in [Address -> Robot \cup {None}]
        /\ subscribers \in [Address -> SUBSET Endpoint]
    BY <1>1, <1>2
  <2>3. registry' = [registry EXCEPT !.modelName = names, !.subscriptions = subscribers]
    BY <1>4, Zenon DEF AddSubscriber
  <2> HIDE DEF names, subscribers
  <2>4. QED
    BY <1>2, <2>1, <2>3 DEF Registry
<1>5. CASE registry' = RemoveSubscriber(a, e)
  <2> DEFINE names == [registry.modelName EXCEPT ![a] =
                         IF registry.subscriptions[a] \subseteq {e} THEN None ELSE @]
             subscribers == [registry.subscriptions EXCEPT ![a] = @ \ {e}]
  <2>1. names \in [Address -> Robot \cup {None}]
        /\ subscribers \in [Address -> SUBSET Endpoint]
    BY <1>1, <1>2
  <2>3. registry' = [registry EXCEPT !.modelName = names, !.subscriptions = subscribers]
    BY <1>5, Zenon DEF RemoveSubscriber
  <2> HIDE DEF names, subscribers
  <2>4. QED
    BY <1>2, <2>1, <2>3 DEF Registry
<1>6. QED
  BY <1>3, <1>4, <1>5 DEF OnBind, OnUnbind

LEMMA AddOutboundUpdates ==
  ASSUME TypeOK, NEW n \in Message, AddOutbound(n)
  PROVE  /\ registry' \in Registry
         /\ registry'.outboundMsgs
              = [registry.outboundMsgs EXCEPT ![From[n]] = @ \cup {n}]
         /\ registry'.inboundMsgs = registry.inboundMsgs
<1> DEFINE queues == [registry.outboundMsgs EXCEPT ![From[n]] = @ \cup {n}]
<1>1. registry \in Registry /\ registry.outboundMsgs \in [Address -> SUBSET Message]
  BY DEF TypeOK, Registry
<1>2. queues \in [Address -> SUBSET Message]
  BY <1>1
<1>3. registry' = [registry EXCEPT !.outboundMsgs = queues]
  BY DEF AddOutbound
<1> HIDE DEF queues
<1>4. registry' \in Registry /\ registry'.outboundMsgs = queues
      /\ registry'.inboundMsgs = registry.inboundMsgs
  BY <1>1, <1>2, <1>3 DEF Registry
<1>5. QED
  BY <1>4 DEF queues

LEMMA StepUpdates ==
  ASSUME TypeOK, NEW fate
  PROVE  /\ Step(fate) \in Registry
         /\ Step(fate).outboundMsgs =
              [a \in Address |-> {n \in registry.outboundMsgs[a] :
                                    n \in Deliverable /\ fate[n] = "kept"}]
         /\ Step(fate).inboundMsgs =
              [a \in Address |-> registry.inboundMsgs[a]
                \cup {n \in Deliverable : To[n] = a /\ fate[n] = "moved"}]
<1> DEFINE as == registry.attached
                   \cup {a \in Address : registry.modelName[a] \in alive}
           out == [a \in Address |-> {n \in registry.outboundMsgs[a] :
                                        n \in Deliverable /\ fate[n] = "kept"}]
           in == [a \in Address |-> registry.inboundMsgs[a]
                    \cup {n \in Deliverable : To[n] = a /\ fate[n] = "moved"}]
<1>1. /\ registry \in Registry
      /\ registry.attached \in SUBSET Address
      /\ registry.outboundMsgs \in [Address -> SUBSET Message]
      /\ registry.inboundMsgs \in [Address -> SUBSET Message]
  BY DEF TypeOK, Registry
<1>2. Deliverable \subseteq Message
  BY <1>1 DEF Deliverable
<1>3. /\ as \in SUBSET Address
      /\ out \in [Address -> SUBSET Message] /\ in \in [Address -> SUBSET Message]
  BY <1>1, <1>2
<1>4. /\ [registry EXCEPT !.attached = as].outboundMsgs = registry.outboundMsgs
      /\ [registry EXCEPT !.attached = as, !.outboundMsgs = out].inboundMsgs
           = registry.inboundMsgs
  BY <1>1 DEF Registry
<1>5. Step(fate) = [registry EXCEPT !.attached = as, !.outboundMsgs = out,
                                    !.inboundMsgs = in]
  BY Zenon DEF Step
<1> HIDE DEF as, out, in
<1>6. /\ Step(fate) \in Registry
      /\ Step(fate).outboundMsgs = out /\ Step(fate).inboundMsgs = in
  BY <1>1, <1>3, <1>5 DEF Registry
<1>7. QED
  BY <1>6 DEF out, in

LEMMA DeliverMsgsUpdates ==
  ASSUME TypeOK, DeliverMsgs
  PROVE  /\ registry' \in Registry
         /\ registry'.outboundMsgs = registry.outboundMsgs
         /\ registry'.inboundMsgs = [a \in Address |-> {}]
<1>1. registry \in Registry /\ [a \in Address |-> {}] \in [Address -> SUBSET Message]
  BY DEF TypeOK
<1>2. QED
  BY <1>1 DEF DeliverMsgs, Registry

LEMMA FunctionIsSeq ==
  ASSUME NEW S, NEW n \in Nat, NEW f \in [1..n -> S]
  PROVE  f \in Seq(S)
OBVIOUS

(* The requests for a robot's endpoints that Destroy leaves are requests.  *)
LEMMA DestroyType ==
  ASSUME TypeOK, NEW r \in Robot, Destroy(r)
  PROVE  requests' \in Seq(Request)
<1> DEFINE its == {e \in Endpoint : ModelOf[e] = r}
           Unbindings(order) ==
             [i \in DOMAIN order |-> [srv |-> "unbind", endpoint |-> order[i]]]
<1>1. PICK order \in SetToSeqs(its \cap bound) :
        requests' = Unanswered(r) \o Unbindings(order)
  BY DEF Destroy
<1>2. Cardinality(its \cap bound) \in Nat
  <2>1. IsFiniteSet(its \cap bound)
    BY FS_Subset, CommsAssumption
  <2>2. QED
    BY <2>1, FS_CardinalityType
<1>3. order \in [1..Cardinality(its \cap bound) -> its \cap bound]
  BY <1>1 DEF SetToSeqs
<1>4. Unbindings(order) \in Seq(Request)
  <2>1. Unbindings(order) \in [1..Cardinality(its \cap bound) -> Request]
    BY <1>3 DEF Request
  <2> HIDE DEF Unbindings
  <2>2. QED
    BY <1>2, <2>1, FunctionIsSeq
<1>5. Unanswered(r) \in Seq(Request)
  <2>1. \A q \in Request : [q EXCEPT !.srv = "lateBind"] \in Request
    BY DEF Request
  <2>2. \A i \in 1..Len(requests) : requests[i] \in Request
    BY DEF TypeOK
  <2>3. \A i \in 1..Len(requests) : [requests[i] EXCEPT !.srv = "lateBind"] \in Request
    BY <2>1, <2>2
  <2>4. DOMAIN requests = 1..Len(requests) /\ Len(requests) \in Nat
    BY DEF TypeOK
  <2>5. Unanswered(r) \in [1..Len(requests) -> Request]
    BY <2>2, <2>3, <2>4 DEF Unanswered
  <2>6. QED
    BY <2>4, <2>5
<1>6. QED
  BY <1>1, <1>4, <1>5

(* Delivery hands over a message once if it waits, and not otherwise.      *)
LEMMA DeliverMsgsCounts ==
  ASSUME TypeOK, MailIsInPlace, DeliverMsgs
  PROVE  /\ handed' \in [Message -> Nat]
         /\ \A n \in Message : handed'[n] =
              handed[n] + (IF WaitsInInbound(n) THEN 1 ELSE 0)
<1>1. Current = registry /\ registry.inboundMsgs \in [Address -> SUBSET Message]
  BY DEF DeliverMsgs, Current, TypeOK, Registry
<1>2. \A n \in Message :
        Cardinality({a \in Address : n \in registry.inboundMsgs[a]})
          = IF WaitsInInbound(n) THEN 1 ELSE 0
  BY <1>1, CountPlaces, CommsAssumption DEF MailIsInPlace, WaitsInInbound
<1>3. handed' = [n \in Message |-> handed[n] + (IF WaitsInInbound(n) THEN 1 ELSE 0)]
  BY <1>2 DEF DeliverMsgs
<1>4. QED
  BY <1>3 DEF TypeOK

LEMMA NextType == TypeOK /\ MailIsInPlace /\ [Next]_vars => TypeOK'
<1> SUFFICES ASSUME TypeOK, MailIsInPlace, [Next]_vars PROVE TypeOK'
  OBVIOUS
<1> USE DEF TypeOK, modelVars, endpointVars, history
<1>1. CASE UNCHANGED vars
  BY <1>1 DEF vars
<1>2. CASE OnBind
  BY <1>2, HeadIsRequest, ServiceUpdates DEF OnBind
<1>3. CASE OnUnbind
  BY <1>3, HeadIsRequest, ServiceUpdates DEF OnUnbind
<1>4. CASE \E n \in Message : OnMsg(n)
  BY <1>4, AddOutboundUpdates DEF OnMsg, AddOutbound
<1>5. CASE StepImpl
  <2>1. newRegistry' \in Registry
    <3>1. PICK fate : newRegistry' = Step(fate)
      BY <1>5 DEF StepImpl
    <3>2. Step(fate) \in Registry
      BY StepUpdates
    <3>3. QED
      BY <3>1, <3>2
  <2>2. lost' \subseteq Message
    BY <1>5 DEF StepImpl, Registry
  <2>3. QED
    BY <1>5, <2>1, <2>2 DEF StepImpl
<1>6. CASE SetRegistry
  BY <1>6, EmptyRegistryType DEF SetRegistry
<1>7. CASE DeliverMsgs
  BY <1>7, DeliverMsgsUpdates, DeliverMsgsCounts DEF DeliverMsgs
<1>8. CASE \E r \in Robot : Configure(r) \/ Destroy(r)
  BY <1>8, DestroyType DEF Configure, Destroy
<1>9. CASE \E e \in Endpoint : PreUpdate(e) \/ BindCallback(e)
  <2> PICK e \in Endpoint : PreUpdate(e) \/ BindCallback(e)
    BY <1>9
  <2>1. [srv |-> "bind", endpoint |-> e] \in Request
    BY DEF Request
  <2>2. Append(requests, [srv |-> "bind", endpoint |-> e]) \in Seq(Request)
    BY <2>1
  <2>3. QED
    BY <2>2 DEF PreUpdate, BindCallback
<1>10. QED
  BY <1>1, <1>2, <1>3, <1>4, <1>5, <1>6, <1>7, <1>8, <1>9 DEF Next

-------------------------------------------------------------------------------
LEMMA InitInv == Init => MailInv
<1> SUFFICES ASSUME Init PROVE MailInv
  OBVIOUS
<1>1. \A a \in Address : Current.outboundMsgs[a] = {} /\ Current.inboundMsgs[a] = {}
  BY DEF Init, Current, EmptyRegistry
<1>2. QED
  BY <1>1, InitType DEF Init, MailInv, MailIsInPlace, NothingFromNothing, OnePlace

(* Steps that leave the mail alone.                                        *)
MailUnchanged ==
  /\ Current'.outboundMsgs = Current.outboundMsgs
  /\ Current'.inboundMsgs = Current.inboundMsgs
  /\ UNCHANGED <<accepted, lost, handed>>

LEMMA UnchangedInv ==
  ASSUME MailInv, MailUnchanged, TypeOK'
  PROVE  MailInv'
BY DEF MailInv, MailUnchanged, MailIsInPlace, NothingFromNothing, OnePlace,
       IsInOnePlace, WaitsInOutbound, WaitsInInbound

LEMMA AddOutboundInv ==
  ASSUME MailInv, NEW n \in Message, OnMsg(n), TypeOK'
  PROVE  MailInv'
<1> USE DEF MailInv
<1>1. /\ Current = registry /\ Current' = registry'
      /\ registry.outboundMsgs \in [Address -> SUBSET Message]
      /\ From[n] \in Address /\ To[n] \in Address
  BY CommsAssumption
     DEF OnMsg, AddOutbound, MutexIsFree, Current, modelVars, TypeOK, Registry
<1>2. /\ Current'.outboundMsgs = [Current.outboundMsgs EXCEPT ![From[n]] = @ \cup {n}]
      /\ Current'.inboundMsgs = Current.inboundMsgs
  BY <1>1, AddOutboundUpdates DEF OnMsg
<1>3. /\ n \notin accepted /\ accepted' = accepted \cup {n}
      /\ UNCHANGED <<lost, handed>>
  BY DEF OnMsg, AddOutbound
<1>4. MailIsInPlace'
  BY <1>1, <1>2, <1>3 DEF MailIsInPlace
<1>5. NothingFromNothing'
  BY <1>3 DEF NothingFromNothing
<1>6. OnePlace'
  <2> SUFFICES ASSUME NEW m \in accepted' PROVE IsInOnePlace(m)'
    BY DEF OnePlace
  <2> USE DEF IsInOnePlace, WaitsInOutbound, WaitsInInbound
  <2>1. CASE m = n
    <3>1. handed[n] = 0 /\ n \notin lost
      BY <1>3 DEF NothingFromNothing
    <3>2. ~WaitsInInbound(n)
      BY <1>1, <1>3 DEF MailIsInPlace
    <3>3. QED
      BY <1>1, <1>2, <1>3, <2>1, <3>1, <3>2
  <2>2. CASE m # n
    <3>1. m \in accepted /\ m \in Message
      BY <1>3, <2>2 DEF TypeOK
    <3>2. From[m] \in Address
      BY <3>1, CommsAssumption
    <3>3. WaitsInOutbound(m)' <=> WaitsInOutbound(m)
      BY <1>1, <1>2, <2>2, <3>2
    <3>4. IsInOnePlace(m)
      BY <3>1 DEF OnePlace
    <3>5. QED
      BY <1>2, <1>3, <3>3, <3>4
  <2>3. QED
    BY <2>1, <2>2
<1>7. QED
  BY <1>4, <1>5, <1>6

(* The model moves, keeps or loses a message, one of them; those that are  *)
(* not between known robots are lost.                                      *)
LEMMA StepInv ==
  ASSUME MailInv, StepImpl, TypeOK'
  PROVE  MailInv'
<1> USE DEF MailInv
<1>1. PICK fate \in [Deliverable -> {"moved"} \cup Medium] :
        /\ newRegistry' = Step(fate)
        /\ lost' = lost \cup {n \in UNION {registry.outboundMsgs[a] : a \in Address} :
                                n \notin Deliverable \/ fate[n] = "lost"}
  BY DEF StepImpl
<1>2. /\ Current = registry /\ Current' = Step(fate)
      /\ UNCHANGED <<accepted, handed>>
  BY <1>1 DEF StepImpl, Current
<1>3. /\ Current'.outboundMsgs =
           [a \in Address |-> {n \in Current.outboundMsgs[a] :
                                 n \in Deliverable /\ fate[n] = "kept"}]
      /\ Current'.inboundMsgs =
           [a \in Address |-> Current.inboundMsgs[a]
                \cup {n \in Deliverable : To[n] = a /\ fate[n] = "moved"}]
  BY <1>2, StepUpdates
<1>4. \A n \in Message : From[n] \in Address /\ To[n] \in Address
  BY CommsAssumption
<1>5. \A n \in UNION {registry.outboundMsgs[a] : a \in Address} :
        n \in Message /\ n \in accepted /\ WaitsInOutbound(n)
  BY <1>2 DEF TypeOK, Registry, MailIsInPlace, WaitsInOutbound
<1>6. \A n \in Deliverable : n \in Message /\ n \in accepted /\ WaitsInOutbound(n)
  BY <1>5 DEF Deliverable
<1>7. \A n \in Deliverable : fate[n] \in {"moved", "kept", "lost"}
  BY CommsAssumption
<1>8. MailIsInPlace'
  BY <1>2, <1>3, <1>6 DEF MailIsInPlace
<1>9. NothingFromNothing'
  BY <1>1, <1>2, <1>5 DEF NothingFromNothing
<1>10. OnePlace'
  <2> SUFFICES ASSUME NEW n \in accepted PROVE IsInOnePlace(n)'
    BY <1>2 DEF OnePlace
  <2>1. n \in Message /\ IsInOnePlace(n) /\ From[n] \in Address /\ To[n] \in Address
    BY <1>4 DEF OnePlace, TypeOK
  <2>2. WaitsInOutbound(n)' <=>
          WaitsInOutbound(n) /\ n \in Deliverable /\ fate[n] = "kept"
    BY <1>3, <2>1 DEF WaitsInOutbound
  <2>3. WaitsInInbound(n)' <=>
          WaitsInInbound(n) \/ (n \in Deliverable /\ fate[n] = "moved")
    BY <1>3, <2>1 DEF WaitsInInbound
  <2>4. n \in lost' <=>
          n \in lost \/ (WaitsInOutbound(n) /\ (n \notin Deliverable \/ fate[n] = "lost"))
    BY <1>1, <1>2, <1>5, <2>1 DEF WaitsInOutbound
  <2>5. handed'[n] = handed[n]
    BY <1>2
  <2>6. QED
    BY <1>6, <1>7, <2>1, <2>2, <2>3, <2>4, <2>5 DEF IsInOnePlace
<1>11. QED
  BY <1>8, <1>9, <1>10

LEMMA DeliverMsgsInv ==
  ASSUME MailInv, DeliverMsgs, TypeOK'
  PROVE  MailInv'
<1> USE DEF MailInv
<1>1. /\ Current = registry /\ Current' = registry'
      /\ UNCHANGED <<accepted, lost>>
  BY DEF DeliverMsgs, Current
<1>2. /\ Current'.outboundMsgs = Current.outboundMsgs
      /\ Current'.inboundMsgs = [a \in Address |-> {}]
  BY <1>1, DeliverMsgsUpdates
<1>3. \A n \in Message :
        handed'[n] = handed[n] + (IF WaitsInInbound(n) THEN 1 ELSE 0)
  BY DeliverMsgsCounts
<1>4. MailIsInPlace'
  BY <1>1, <1>2 DEF MailIsInPlace
<1>5. NothingFromNothing'
  <2> SUFFICES ASSUME NEW n \in Message, n \notin accepted
               PROVE  handed'[n] = 0 /\ n \notin lost
    BY <1>1 DEF NothingFromNothing
  <2>1. ~WaitsInInbound(n)
    BY CommsAssumption DEF MailIsInPlace, WaitsInInbound
  <2>2. QED
    BY <1>3, <2>1 DEF NothingFromNothing
<1>6. OnePlace'
  <2> SUFFICES ASSUME NEW n \in accepted PROVE IsInOnePlace(n)'
    BY <1>1 DEF OnePlace
  <2>1. n \in Message /\ IsInOnePlace(n) /\ To[n] \in Address
    BY CommsAssumption DEF OnePlace, TypeOK
  <2>2. (WaitsInOutbound(n)' <=> WaitsInOutbound(n)) /\ ~WaitsInInbound(n)'
    BY <1>2, <2>1 DEF WaitsInOutbound, WaitsInInbound
  <2>3. QED
    BY <1>1, <1>3, <2>1, <2>2 DEF IsInOnePlace
<1>7. QED
  BY <1>4, <1>5, <1>6

LEMMA NextInv == MailInv /\ [Next]_vars => MailInv'
<1> SUFFICES ASSUME MailInv, [Next]_vars PROVE MailInv'
  OBVIOUS
<1>1. TypeOK'
  BY NextType DEF MailInv
<1> USE DEF modelVars, endpointVars, history
<1>2. CASE UNCHANGED vars
  BY <1>1, <1>2, UnchangedInv DEF vars, MailUnchanged, Current
<1>3. CASE OnBind \/ OnUnbind
  <2>1. Current = registry /\ Current' = registry'
    BY <1>3 DEF OnBind, OnUnbind, MutexIsFree, Current
  <2>2. MailUnchanged
    BY <1>3, <2>1, ServiceUpdates DEF MailInv, MailUnchanged, OnBind, OnUnbind
  <2>3. QED
    BY <1>1, <2>2, UnchangedInv
<1>4. CASE \E n \in Message : OnMsg(n)
  BY <1>1, <1>4, AddOutboundInv
<1>5. CASE StepImpl
  BY <1>1, <1>5, StepInv
<1>6. CASE SetRegistry
  BY <1>1, <1>6, UnchangedInv DEF SetRegistry, MailUnchanged, Current
<1>7. CASE DeliverMsgs
  BY <1>1, <1>7, DeliverMsgsInv
<1>8. CASE \E r \in Robot : Configure(r) \/ Destroy(r)
  BY <1>1, <1>8, UnchangedInv DEF Configure, Destroy, MailUnchanged, Current
<1>9. CASE \E e \in Endpoint : PreUpdate(e) \/ BindCallback(e)
  BY <1>1, <1>9, UnchangedInv DEF PreUpdate, BindCallback, MailUnchanged, Current
<1>10. QED
  BY <1>2, <1>3, <1>4, <1>5, <1>6, <1>7, <1>8, <1>9 DEF Next

(* Types, and where a message can be, whatever arrives during a step.      *)
THEOREM MailIsSound == Spec => []MailInv
BY InitInv, NextInv, PTL DEF Spec

(* A message that the broker got waits in one queue, the right one, or was *)
(* handed over once, or was lost by the model.                             *)
THEOREM MailIsNeverLostOrDoubled == Spec => []MailIsExact
<1>1. MailInv => MailIsExact
  <2> SUFFICES ASSUME MailInv, NEW n \in accepted
               PROVE
      /\ Cardinality({a \in Address : n \in Current.outboundMsgs[a]})
           + Cardinality({a \in Address : n \in Current.inboundMsgs[a]})
           + handed[n] + (IF n \in lost THEN 1 ELSE 0) = 1
      /\ \A a \in Address : /\ n \in Current.outboundMsgs[a] => a = From[n]
                            /\ n \in Current.inboundMsgs[a] => a = To[n]
    BY DEF MailIsExact, Current
  <2> USE DEF MailInv
  <2>1. n \in Message /\ From[n] \in Address /\ To[n] \in Address
    BY CommsAssumption DEF TypeOK
  <2>2. /\ Current.outboundMsgs \in [Address -> SUBSET Message]
        /\ Current.inboundMsgs \in [Address -> SUBSET Message]
    BY DEF Current, TypeOK, Registry
  <2>3. \A a \in Address : /\ n \in Current.outboundMsgs[a] => a = From[n]
                           /\ n \in Current.inboundMsgs[a] => a = To[n]
    BY <2>1 DEF MailIsInPlace
  <2>4. /\ Cardinality({a \in Address : n \in Current.outboundMsgs[a]})
             = IF WaitsInOutbound(n) THEN 1 ELSE 0
        /\ Cardinality({a \in Address : n \in Current.inboundMsgs[a]})
             = IF WaitsInInbound(n) THEN 1 ELSE 0
    BY <2>1, <2>2, <2>3, CountPlaces DEF WaitsInOutbound, WaitsInInbound
  <2>5. IsInOnePlace(n)
    BY DEF OnePlace
  <2>6. QED
    BY <2>3, <2>4, <2>5 DEF IsInOnePlace
<1>2. QED
  BY <1>1, MailIsSound, PTL

===============================================================================
