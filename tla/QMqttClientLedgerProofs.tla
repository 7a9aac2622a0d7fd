----------------------- MODULE QMqttClientLedgerProofs -----------------------
(***************************************************************************)
(* The callbacks of requests, for every value of the constants:            *)
(* QMqttClient implements RequestLedger; as long as packet identifiers are *)
(* not used again no callback is lost, and each is told the truth.         *)
(***************************************************************************)
EXTENDS QMqttClientLedger, QMqttClientFlow, FiniteSetTheorems

USE DEF vars, clientVars, connectVars, linkVars, brokerVars, requestVars, countVars

CallbacksOK == TypeOK /\ OnePlacePerCallback

-----------------------------------------------------------------------------
(* The mapping, case by case: the places of a callback exclude each other *)

PhaseIs(r) ==
    /\ Phase(r) = "unmade" <=> r > made
    /\ Phase(r) = "waiting" <=> Waiting(r)
    /\ Phase(r) = "due" <=> Due(r)
    /\ Phase(r) = "called" <=> Called(r)
    /\ Phase(r) = "forgotten" <=> (r <= made /\ ~ Waiting(r) /\ ~ Due(r) /\ ~ Called(r))

MappingOK == \A r \in Requests : PhaseIs(r)

LEMMA PhaseByPlace == CallbacksOK => MappingOK
<1> SUFFICES ASSUME CallbacksOK, NEW r \in Requests
             PROVE  PhaseIs(r)
  BY DEF MappingOK
<1>1. r \in Nat \ {0} /\ made \in Nat
  BY BoundsAssumption DEF CallbacksOK, TypeOK, RequestTypeOK, Requests
<1>2. Waiting(r) => r <= made /\ ~ Due(r) /\ ~ Called(r)
  BY <1>1 DEF CallbacksOK, OnePlacePerCallback, Waiting, Due, Called, NoRequest
<1>3. Due(r) => r <= made /\ ~ Called(r)
  BY <1>1 DEF CallbacksOK, OnePlacePerCallback, Due, Called
<1>4. Called(r) => r <= made
  BY <1>1 DEF CallbacksOK, OnePlacePerCallback, Called
<1>5. QED
  BY <1>1, <1>2, <1>3, <1>4 DEF PhaseIs, Phase

LEMMA PhaseByPlaceNext == CallbacksOK' => MappingOK'
BY PhaseByPlace, PTL

-----------------------------------------------------------------------------
(* Each step of the client is a step of the ledger, or leaves it alone *)

LEMMA LedgerInitial == Init => Ledger!LedgerInit
<1> SUFFICES ASSUME Init PROVE Ledger!LedgerInit
  OBVIOUS
<1>1. ASSUME NEW r \in Requests
      PROVE  r > made /\ ~ Waiting(r) /\ ~ Due(r) /\ ~ Called(r)
  BY BoundsAssumption DEF Init, Requests, Waiting, Due, Called, NoRequest
<1>2. \A r \in Requests : Phase(r) = "unmade" /\ Outcome(r) = "none"
  BY <1>1 DEF Phase, Outcome
<1>3. QED
  BY <1>2 DEF Ledger!LedgerInit

\* The steps that touch no callback.
LEMMA LedgerUnchanged ==
    ASSUME UNCHANGED <<requestVars, subscribeCallbacks>>
    PROVE  UNCHANGED Ledger!ledger
<1>1. ASSUME NEW q \in Requests
      PROVE  /\ Waiting(q)' <=> Waiting(q)
             /\ Due(q)' <=> Due(q)
             /\ Called(q)' <=> Called(q)
             /\ (q > made)' <=> q > made
  BY DEF Waiting, Due, Called
<1>2. ASSUME NEW q \in Requests
      PROVE  Phase(q)' = Phase(q)
  BY <1>1 DEF Phase
<1>3. ASSUME NEW q \in Requests
      PROVE  Outcome(q)' = Outcome(q)
  BY <1>1 DEF Outcome
<1>4. QED
  BY <1>2, <1>3 DEF Ledger!ledger

\* A request is asked, in the place of the one that had its identifier, if any.
LEMMA RequestLedger ==
    ASSUME CallbacksOK, CallbacksOK', NEW type, Request(type)
    PROVE  Ledger!LedgerNext
<1> USE DEF NoRequest
<1>1. MappingOK /\ MappingOK'
  BY PhaseByPlace, PhaseByPlaceNext
<1>2. PICK r \in Requests, id \in Ids, old \in Requests \cup {NoRequest} :
         /\ r = made + 1 /\ made' = r /\ made \in Nat
         /\ old = subscribeCallbacks[id]
         /\ subscribeCallbacks' = [subscribeCallbacks EXCEPT ![id] = r]
         /\ UNCHANGED <<immediates, results>>
  <2>1. made + 1 \in Requests /\ NextId \in Ids /\ made \in Nat
    BY NextIdType, BoundsAssumption
       DEF Request, CallbacksOK, TypeOK, ClientTypeOK, RequestTypeOK, Requests
  <2>2. subscribeCallbacks[NextId] \in Requests \cup {NoRequest}
    BY <2>1 DEF CallbacksOK, TypeOK, ClientTypeOK
  <2>3. QED
    BY <2>1, <2>2 DEF Request
<1>3. UNCHANGED [q \in Requests |-> Outcome(q)]
  BY <1>2 DEF Outcome, Due, Called
<1>4. /\ Phase(r) = "unmade" /\ Phase(r)' = "waiting"
  <2>1. Waiting(r)'
    BY <1>2 DEF Waiting, CallbacksOK, TypeOK, ClientTypeOK
  <2>2. QED
    BY <1>1, <1>2, <2>1 DEF MappingOK, PhaseIs
<1>5. ASSUME NEW q \in Requests, q # r, q # old
      PROVE  Phase(q)' = Phase(q)
  <2>1. Waiting(q)' <=> Waiting(q)
    BY <1>2, <1>5 DEF Waiting, CallbacksOK, TypeOK, ClientTypeOK
  <2>2. q > made' <=> q > made
    BY <1>2, <1>5 DEF Requests
  <2>3. QED
    BY <1>2, <2>1, <2>2 DEF Phase, Due, Called
<1>6. CASE old = NoRequest
  <2>1. \A q \in Requests : q # r => Phase(q)' = Phase(q)
    BY <1>5, <1>6 DEF Requests
  <2>2. Ledger!Ask(r)
    BY <1>2, <1>3, <1>4, <2>1 DEF Ledger!Ask
  <2>3. QED
    BY <1>2, <1>4, <2>2 DEF Ledger!LedgerNext
<1>7. CASE old # NoRequest
  <2>1. Waiting(old) /\ old # r /\ old <= made
    BY <1>2, <1>7 DEF Waiting, CallbacksOK, OnePlacePerCallback
  <2>2. ~ Waiting(old)'
    BY <1>2, <1>7, <2>1 DEF Waiting, CallbacksOK, OnePlacePerCallback, TypeOK, ClientTypeOK
  <2>3. ~ Due(old) /\ ~ Called(old)
    BY <1>2, <1>7 DEF Due, Called, CallbacksOK, OnePlacePerCallback
  <2>4. Phase(old) = "waiting" /\ Phase(old)' = "forgotten"
    <3>1. ~ Due(old)' /\ ~ Called(old)' /\ old <= made'
      BY <1>2, <1>7, <2>1, <2>3 DEF Due, Called, Requests
    <3>2. QED
      BY <1>1, <1>2, <1>7, <2>1, <2>2, <3>1 DEF MappingOK, PhaseIs
  <2>5. Ledger!Replace(r, old)
    <3>1. [q \in Requests |-> Phase(q)]'
             = [[q \in Requests |-> Phase(q)] EXCEPT ![r] = "waiting", ![old] = "forgotten"]
      BY <1>2, <1>4, <1>5, <2>1, <2>4
    <3>2. QED
      BY <1>2, <1>3, <1>4, <1>7, <2>4, <3>1 DEF Ledger!Replace
  <2>6. QED
    BY <1>2, <1>4, <1>7, <2>5 DEF Ledger!LedgerNext
<1>8. QED
  BY <1>6, <1>7

\* A request with a bad topic is turned down before it is sent.
LEMMA RejectLedger ==
    ASSUME CallbacksOK, CallbacksOK', RejectTopic
    PROVE  Ledger!LedgerNext
<1>1. MappingOK /\ MappingOK'
  BY PhaseByPlace, PhaseByPlaceNext
<1>2. PICK r \in Requests :
         /\ r = made + 1 /\ made' = r /\ made \in Nat
         /\ immediates' = immediates \cup {[request |-> r, result |-> FALSE]}
         /\ UNCHANGED <<subscribeCallbacks, results>>
  <2>1. made + 1 \in Requests /\ made \in Nat
    BY BoundsAssumption DEF RejectTopic, CallbacksOK, TypeOK, RequestTypeOK, Requests
  <2>2. QED
    BY <2>1 DEF RejectTopic, SetImmediate
<1>3. ~ Due(r) /\ Due(r)' /\ ~ Called(r) /\ ~ Called(r)'
  <2>1. ~ Due(r) /\ ~ Called(r)
    BY <1>1, <1>2 DEF MappingOK, PhaseIs
  <2>2. [request |-> r, result |-> FALSE] \in immediates'
    BY <1>2
  <2>3. Due(r)'
    BY <2>2 DEF Due
  <2>4. QED
    BY <1>2, <2>1, <2>3 DEF Called
<1>4. Phase(r) = "unmade" /\ Phase(r)' = "due"
  BY <1>1, <1>2, <1>3 DEF MappingOK, PhaseIs
<1>5. Outcome(r)' = "failure"
  <2>1. [request |-> r, result |-> TRUE] \notin immediates'
    BY <1>2, <1>3 DEF Due
  <2>2. QED
    BY <1>3, <2>1 DEF Outcome
<1>6. ASSUME NEW q \in Requests, q # r
      PROVE  Phase(q)' = Phase(q) /\ Outcome(q)' = Outcome(q)
  <2>1. /\ Waiting(q)' <=> Waiting(q)
        /\ Due(q)' <=> Due(q)
        /\ Called(q)' <=> Called(q)
        /\ (q > made)' <=> q > made
    BY <1>2, <1>6 DEF Waiting, Due, Called, Requests
  <2>2. [request |-> q, result |-> TRUE] \in immediates'
           <=> [request |-> q, result |-> TRUE] \in immediates
    BY <1>2, <1>6
  <2>3. results' = results
    BY <1>2
  <2>4. QED
    BY <2>1, <2>2, <2>3 DEF Phase, Outcome
<1>7. Ledger!Reject(r)
  BY <1>2, <1>4, <1>5, <1>6 DEF Ledger!Reject
<1>8. QED
  BY <1>2, <1>4, <1>7 DEF Ledger!LedgerNext

\* An acknowledgement decides the request in the map under its identifier, if any.
LEMMA CompleteLedger ==
    ASSUME CallbacksOK, CallbacksOK', Arg.id \in Ids,
           NEW result \in BOOLEAN, Complete(result)
    PROVE  [Ledger!LedgerNext]_(Ledger!ledger)
<1> USE DEF NoRequest
<1>1. MappingOK /\ MappingOK'
  BY PhaseByPlace, PhaseByPlaceNext
<1>2. CASE UNCHANGED <<immediates, subscribeCallbacks>>
  BY <1>2, LedgerUnchanged DEF Complete
<1>3. CASE subscribeCallbacks[Arg.id] # NoRequest
  <2>1. PICK r \in Requests, id \in Ids :
           /\ r = subscribeCallbacks[id]
           /\ immediates' = immediates \cup {[request |-> r, result |-> result]}
           /\ subscribeCallbacks' = [subscribeCallbacks EXCEPT ![id] = NoRequest]
           /\ UNCHANGED <<made, results>>
    <3>1. subscribeCallbacks[Arg.id] \in Requests
      BY <1>3 DEF CallbacksOK, TypeOK, ClientTypeOK
    <3>2. QED
      BY <1>3, <3>1 DEF Complete, SetImmediate, RemoveCallback
  <2>2. Waiting(r) /\ ~ Due(r) /\ ~ Called(r) /\ Due(r)' /\ ~ Called(r)'
    <3>1. r # NoRequest
      BY DEF Requests
    <3>2. Waiting(r) /\ ~ Due(r) /\ ~ Called(r)
      BY <2>1, <3>1 DEF Waiting, Due, Called, CallbacksOK, OnePlacePerCallback
    <3>3. [request |-> r, result |-> result] \in immediates'
      BY <2>1
    <3>4. Due(r)'
      BY <3>3 DEF Due
    <3>5. QED
      BY <2>1, <3>2, <3>4 DEF Called
  <2>3. Phase(r) = "waiting" /\ Phase(r)' = "due"
    BY <1>1, <2>2 DEF MappingOK, PhaseIs
  <2>4. Outcome(r)' = IF result THEN "success" ELSE "failure"
    <3>1. \A i \in immediates : i # [request |-> r, result |-> TRUE]
      BY <2>2 DEF Due
    <3>2. [request |-> r, result |-> TRUE] \in immediates' <=> result = TRUE
      BY <2>1, <3>1
    <3>3. QED
      BY <2>2, <3>2 DEF Outcome
  <2>5. ASSUME NEW q \in Requests, q # r
        PROVE  Phase(q)' = Phase(q) /\ Outcome(q)' = Outcome(q)
    <3>1. Waiting(q)' <=> Waiting(q)
      BY <2>1, <2>5 DEF Waiting, Requests, CallbacksOK, TypeOK, ClientTypeOK
    <3>2. /\ Due(q)' <=> Due(q)
          /\ Called(q)' <=> Called(q)
          /\ (q > made)' <=> q > made
      BY <2>1, <2>5 DEF Due, Called
    <3>3. [request |-> q, result |-> TRUE] \in immediates'
             <=> [request |-> q, result |-> TRUE] \in immediates
      BY <2>1, <2>5
    <3>4. results' = results
      BY <2>1
    <3>5. QED
      BY <3>1, <3>2, <3>3, <3>4 DEF Phase, Outcome
  <2>6. Ledger!Decide(r)
    BY <2>1, <2>3, <2>4, <2>5 DEF Ledger!Decide
  <2>7. QED
    BY <2>1, <2>3, <2>6 DEF Ledger!LedgerNext
<1>4. QED
  BY <1>2, <1>3 DEF Complete

\* The event loop calls a callback with the value it was scheduled with.
LEMMA RunLedger ==
    ASSUME CallbacksOK, CallbacksOK', RunImmediate
    PROVE  Ledger!LedgerNext
<1>1. MappingOK /\ MappingOK'
  BY PhaseByPlace, PhaseByPlaceNext
<1>2. PICK i \in immediates :
         /\ immediates' = immediates \ {i}
         /\ results' = [results EXCEPT ![i.request] = Append(results[i.request], i.result)]
         /\ UNCHANGED <<made, subscribeCallbacks>>
  BY DEF RunImmediate
<1> DEFINE r == i.request
<1>3. /\ r \in Requests /\ i.result \in BOOLEAN
      /\ i = [request |-> r, result |-> i.result]
      /\ results[r] = <<>> /\ results \in [Requests -> Seq(BOOLEAN)]
      /\ \A n \in immediates : n.request = r => n = i
  BY DEF CallbacksOK, OnePlacePerCallback, TypeOK, RequestTypeOK
<1>4. results'[r] # <<>> /\ results'[r][1] = i.result
  BY <1>2, <1>3
<1>5. Due(r) /\ ~ Called(r) /\ ~ Due(r)' /\ Called(r)'
  BY <1>2, <1>3, <1>4 DEF Due, Called
<1>6. Phase(r) = "due" /\ Phase(r)' = "called"
  BY <1>1, <1>3, <1>5 DEF MappingOK, PhaseIs
<1>7. Outcome(r)' = Outcome(r)
  <2>1. CASE i.result = TRUE
    BY <1>3, <1>4, <1>5, <2>1 DEF Outcome
  <2>2. CASE i.result = FALSE
    <3>1. [request |-> r, result |-> TRUE] \notin immediates
      BY <1>3, <2>2
    <3>2. QED
      BY <1>3, <1>4, <1>5, <2>2, <3>1 DEF Outcome
  <2>3. QED
    BY <1>3, <2>1, <2>2
<1>8. ASSUME NEW q \in Requests, q # r
      PROVE  Phase(q)' = Phase(q) /\ Outcome(q)' = Outcome(q)
  <2>1. results'[q] = results[q]
    BY <1>2, <1>3, <1>8
  <2>2. /\ Waiting(q)' <=> Waiting(q)
        /\ Due(q)' <=> Due(q)
        /\ Called(q)' <=> Called(q)
        /\ (q > made)' <=> q > made
    BY <1>2, <1>8, <2>1 DEF Waiting, Due, Called
  <2>3. [request |-> q, result |-> TRUE] \in immediates'
           <=> [request |-> q, result |-> TRUE] \in immediates
    BY <1>2, <1>8
  <2>4. QED
    BY <2>1, <2>2, <2>3 DEF Phase, Outcome
<1>9. Ledger!Call(r)
  BY <1>3, <1>6, <1>7, <1>8 DEF Ledger!Call
<1>10. QED
  BY <1>3, <1>6, <1>9 DEF Ledger!LedgerNext

LEMMA LedgerStep ==
    CallbacksOK /\ CallbacksOK' /\ [Next]_vars => [Ledger!LedgerNext]_(Ledger!ledger)
<1> SUFFICES ASSUME CallbacksOK, CallbacksOK', [Next]_vars
             PROVE  [Ledger!LedgerNext]_(Ledger!ledger)
  OBVIOUS
<1>1. CASE UserCall
  <2>1. CASE Subscribe \/ Unsubscribe \/ PublishQoS1
    BY <2>1, RequestLedger DEF Subscribe, Unsubscribe, PublishQoS1
  <2>2. CASE RejectTopic
    BY <2>2, RejectLedger
  <2>3. CASE Connect \/ Disconnect \/ PublishQoS0
    BY <2>3, LedgerUnchanged DEF Connect, Disconnect, PublishQoS0
  <2>4. QED
    BY <1>1, <2>1, <2>2, <2>3 DEF UserCall
<1>2. CASE EventLoop
  <2>1. CASE OnSubackReceived \/ OnUnsubackReceived \/ OnPubAckReceived
    <3>1. PICK result \in BOOLEAN : Complete(result)
      BY <2>1 DEF OnSubackReceived, OnUnsubackReceived, OnPubAckReceived
    <3>2. Arg.id \in Ids
      BY <2>1, ArgType
         DEF OnSubackReceived, OnUnsubackReceived, OnPubAckReceived, CallbacksOK, TypeOK,
             Packets
    <3>3. QED
      BY <3>1, <3>2, CompleteLedger
  <2>2. CASE RunImmediate
    BY <2>2, RunLedger
  <2>3. CASE OnSocketConnected \/ Parse \/ ForwardError \/ OnConnackReceived
             \/ OnPublishReceived \/ OnPubRelReceived \/ OnPongReceived \/ SendPing
             \/ TimerTimeout
    BY <2>3, LedgerUnchanged
       DEF OnSocketConnected, Parse, ForwardError, OnConnackReceived, OnPublishReceived,
           OnPubRelReceived, OnPongReceived, SendPing, TimerTimeout
  <2>4. QED
    BY <1>2, <2>1, <2>2, <2>3 DEF EventLoop, RunSlot
<1>3. CASE Network \/ Broker
  BY <1>3, LedgerUnchanged
     DEF Network, SocketConnected, SocketError, SslErrors, SocketDisconnected,
         TextMessageReceived, BinaryMessageReceived, Broker, BrokerConnack, BrokerAnswers,
         BrokerPong, BrokerPubRel, Reply, BrokerIgnores, BrokerPublishes, BrokerBadFrame
<1>4. CASE UNCHANGED vars
  BY <1>4, LedgerUnchanged
<1>5. QED
  BY <1>1, <1>2, <1>3, <1>4 DEF Next

\* Whatever the user, the broker and the network do, and even when identifiers are used
\* again, the callbacks follow the ledger: a request that is asked is decided at most
\* once, by an acknowledgement that carries its identifier, and then called at most once
\* with that outcome; it is forgotten only when a newer request takes its identifier.
\* (subscribe, unsubscribe, publish, the three on...Received and setImmediate)
THEOREM ClientImplementsLedger == Spec => ImplementsLedger
<1>1. Spec => []CallbacksOK
  BY TypeCorrect, CallbackPlaces, PTL DEF CallbacksOK
<1>2. QED
  BY LedgerInitial, LedgerStep, <1>1, PTL DEF Spec, ImplementsLedger, Ledger!LedgerSpec

-----------------------------------------------------------------------------
(* Before identifiers are used again no callback is lost *)

\* The identifiers handed out so far are 1 .. packetIdentifier, and no other has a callback.
IdentifiersFresh ==
    made < IdSpace =>
        /\ packetIdentifier <= made
        /\ \A i \in Ids : subscribeCallbacks[i] # NoRequest => i \in 1 .. packetIdentifier

\* The callback of every request made is somewhere.
NoneForgotten ==
    made <= IdSpace => \A r \in 1 .. made : Waiting(r) \/ Due(r) \/ Called(r)

\* The only request with this identifier (which may be zero: the last one before the wrap).
LEMMA NextIdFresh ==
    ASSUME TypeOK, IdentifiersFresh, made < IdSpace
    PROVE  /\ NextId \in Ids /\ NextId \notin 1 .. packetIdentifier
           /\ subscribeCallbacks[NextId] = NoRequest
           /\ made + 1 < IdSpace => NextId = packetIdentifier + 1
<1>1. /\ packetIdentifier \in Nat /\ made \in Nat /\ IdSpace \in Nat \ {0}
      /\ packetIdentifier <= made /\ packetIdentifier + 1 <= IdSpace
  BY IdSpaceAssumption, BoundsAssumption
     DEF IdentifiersFresh, TypeOK, ClientTypeOK, RequestTypeOK, Ids
<1>2. NextId \in Ids
  BY NextIdType DEF TypeOK, ClientTypeOK
<1>3. CASE packetIdentifier + 1 < IdSpace
  <2>1. NextId = packetIdentifier + 1
    BY <1>1, <1>3 DEF NextId
  <2>2. QED
    BY <1>1, <1>2, <2>1 DEF IdentifiersFresh
<1>4. CASE packetIdentifier + 1 = IdSpace
  <2>1. NextId = 0
    BY <1>1, <1>4 DEF NextId
  <2>2. QED
    BY <1>1, <1>2, <1>4, <2>1 DEF IdentifiersFresh
<1>5. QED
  BY <1>1, <1>3, <1>4

AccountInv == IdentifiersFresh /\ NoneForgotten

LEMMA AccountInit == Init => AccountInv
<1> SUFFICES ASSUME Init PROVE AccountInv
  OBVIOUS
<1>1. IdentifiersFresh
  BY DEF Init, IdentifiersFresh
<1>2. NoneForgotten
  BY DEF Init, NoneForgotten
<1>3. QED
  BY <1>1, <1>2 DEF AccountInv

LEMMA AccountUnchanged ==
    ASSUME AccountInv, UNCHANGED <<requestVars, packetIdentifier, subscribeCallbacks>>
    PROVE  AccountInv'
BY DEF AccountInv, IdentifiersFresh, NoneForgotten, Waiting, Due, Called

LEMMA RequestAccount ==
    ASSUME TypeOK, AccountInv, NEW type, Request(type)
    PROVE  AccountInv'
<1>1. CASE made >= IdSpace
  <2>1. made' = made + 1 /\ made \in Nat /\ IdSpace \in Nat
    BY BoundsAssumption, IdSpaceAssumption DEF Request, TypeOK, RequestTypeOK
  <2>2. QED
    BY <1>1, <2>1 DEF AccountInv, IdentifiersFresh, NoneForgotten
<1>2. CASE made < IdSpace
  <2>1. PICK id \in Ids :
           /\ packetIdentifier' = id /\ id \notin 1 .. packetIdentifier
           /\ subscribeCallbacks[id] = NoRequest
           /\ made + 1 < IdSpace => id = packetIdentifier + 1
           /\ subscribeCallbacks' = [subscribeCallbacks EXCEPT ![id] = made + 1]
           /\ made' = made + 1 /\ made \in Nat
           /\ UNCHANGED <<immediates, results>>
    <3>1. /\ NextId \in Ids /\ NextId \notin 1 .. packetIdentifier
          /\ subscribeCallbacks[NextId] = NoRequest
          /\ made + 1 < IdSpace => NextId = packetIdentifier + 1
      BY <1>2, NextIdFresh DEF AccountInv
    <3>2. made \in Nat
      BY BoundsAssumption DEF TypeOK, RequestTypeOK
    <3>3. QED
      BY <3>1, <3>2 DEF Request
  <2>2. IdentifiersFresh'
    BY <1>2, <2>1, IdSpaceAssumption
       DEF AccountInv, IdentifiersFresh, TypeOK, ClientTypeOK, Ids
  <2>3. ASSUME NEW r \in 1 .. made', made' <= IdSpace
        PROVE  Waiting(r)' \/ Due(r)' \/ Called(r)'
    <3>1. CASE r = made + 1
      BY <2>1, <3>1 DEF Waiting, TypeOK, ClientTypeOK
    <3>2. CASE r \in 1 .. made
      <4>1. Waiting(r) \/ Due(r) \/ Called(r)
        BY <1>2, <2>1, <3>2, IdSpaceAssumption DEF AccountInv, NoneForgotten
      <4>2. Waiting(r) => Waiting(r)'
        BY <2>1, <3>2 DEF Waiting, TypeOK, ClientTypeOK, NoRequest
      <4>3. QED
        BY <2>1, <4>1, <4>2 DEF Due, Called
    <3>3. QED
      BY <2>1, <3>1, <3>2
  <2>4. QED
    BY <2>2, <2>3 DEF AccountInv, NoneForgotten
<1>3. QED
  BY <1>1, <1>2, BoundsAssumption, IdSpaceAssumption DEF TypeOK, RequestTypeOK

LEMMA RejectAccount ==
    ASSUME TypeOK, AccountInv, RejectTopic
    PROVE  AccountInv'
<1>1. /\ made' = made + 1 /\ made \in Nat
      /\ [request |-> made + 1, result |-> FALSE] \in immediates'
      /\ immediates \subseteq immediates'
      /\ UNCHANGED <<packetIdentifier, subscribeCallbacks, results>>
  BY BoundsAssumption DEF RejectTopic, SetImmediate, TypeOK, RequestTypeOK
<1>2. IdentifiersFresh'
  BY <1>1, IdSpaceAssumption DEF AccountInv, IdentifiersFresh, TypeOK, ClientTypeOK, Ids
<1>3. ASSUME NEW r \in 1 .. made', made' <= IdSpace
      PROVE  Waiting(r)' \/ Due(r)' \/ Called(r)'
  <2>1. CASE r = made + 1
    <3>1. [request |-> r, result |-> FALSE] \in immediates'
      BY <1>1, <2>1
    <3>2. QED
      BY <3>1 DEF Due
  <2>2. CASE r \in 1 .. made
    <3>1. Waiting(r) \/ Due(r) \/ Called(r)
      BY <1>1, <1>3, <2>2, IdSpaceAssumption DEF AccountInv, NoneForgotten
    <3>2. QED
      BY <1>1, <3>1 DEF Waiting, Due, Called
  <2>3. QED
    BY <1>1, <2>1, <2>2
<1>4. QED
  BY <1>2, <1>3 DEF AccountInv, NoneForgotten

LEMMA CompleteAccount ==
    ASSUME TypeOK, AccountInv, Arg.id \in Ids, NEW result, Complete(result)
    PROVE  AccountInv'
<1>1. CASE UNCHANGED <<immediates, subscribeCallbacks>>
  BY <1>1, AccountUnchanged DEF Complete
<1>2. CASE subscribeCallbacks[Arg.id] # NoRequest
  <2>1. PICK id \in Ids, r \in Requests \cup {NoRequest} :
           /\ r = subscribeCallbacks[id]
           /\ immediates' = immediates \cup {[request |-> r, result |-> result]}
           /\ subscribeCallbacks' = [subscribeCallbacks EXCEPT ![id] = NoRequest]
           /\ UNCHANGED <<made, packetIdentifier, results>>
    BY <1>2 DEF Complete, SetImmediate, RemoveCallback, TypeOK, ClientTypeOK
  <2>2. IdentifiersFresh'
    BY <2>1 DEF AccountInv, IdentifiersFresh, TypeOK, ClientTypeOK
  <2>3. ASSUME NEW q \in 1 .. made', made' <= IdSpace
        PROVE  Waiting(q)' \/ Due(q)' \/ Called(q)'
    <3>1. Waiting(q) \/ Due(q) \/ Called(q)
      BY <2>1, <2>3 DEF AccountInv, NoneForgotten
    <3>2. [request |-> r, result |-> result] \in immediates'
      BY <2>1
    <3>3. Waiting(q) => Waiting(q)' \/ Due(q)'
      <4>1. CASE q = r
        BY <3>2, <4>1 DEF Due
      <4>2. CASE q # r
        BY <2>1, <4>2 DEF Waiting, TypeOK, ClientTypeOK
      <4>3. QED
        BY <4>1, <4>2
    <3>4. QED
      BY <2>1, <3>1, <3>3 DEF Due, Called
  <2>4. QED
    BY <2>2, <2>3 DEF AccountInv, NoneForgotten
<1>3. QED
  BY <1>1, <1>2 DEF Complete

LEMMA RunAccount ==
    ASSUME TypeOK, AccountInv, RunImmediate
    PROVE  AccountInv'
<1>1. PICK i \in immediates :
         /\ immediates' = immediates \ {i}
         /\ results' = [results EXCEPT ![i.request] = Append(results[i.request], i.result)]
         /\ UNCHANGED <<made, packetIdentifier, subscribeCallbacks>>
  BY DEF RunImmediate
<1>2. IdentifiersFresh'
  BY <1>1 DEF AccountInv, IdentifiersFresh
<1>3. i.request \in Requests /\ i.result \in BOOLEAN /\ results \in [Requests -> Seq(BOOLEAN)]
  BY DEF TypeOK, RequestTypeOK
<1>4. ASSUME NEW q \in 1 .. made', made' <= IdSpace
      PROVE  Waiting(q)' \/ Due(q)' \/ Called(q)'
  <2>1. Waiting(q) \/ Due(q) \/ Called(q)
    BY <1>1, <1>4 DEF AccountInv, NoneForgotten
  <2>2. CASE q = i.request
    <3>1. results'[q] # <<>>
      BY <1>1, <1>3, <2>2, AppendProperties
    <3>2. QED
      BY <3>1 DEF Called
  <2>3. CASE q # i.request
    <3>1. q \in Requests
      BY <1>1, BoundsAssumption DEF Requests, TypeOK, RequestTypeOK
    <3>2. results'[q] = results[q]
      BY <1>1, <1>3, <2>3, <3>1
    <3>3. Due(q) => Due(q)'
      BY <1>1, <2>3 DEF Due
    <3>4. QED
      BY <1>1, <2>1, <3>2, <3>3 DEF Waiting, Called
  <2>4. QED
    BY <2>2, <2>3
<1>5. QED
  BY <1>2, <1>4 DEF AccountInv, NoneForgotten

LEMMA AccountStep == TypeOK /\ AccountInv /\ [Next]_vars => AccountInv'
<1> SUFFICES ASSUME TypeOK, AccountInv, [Next]_vars
             PROVE  AccountInv'
  OBVIOUS
<1>1. CASE UserCall
  <2>1. CASE Subscribe \/ Unsubscribe \/ PublishQoS1
    BY <2>1, RequestAccount DEF Subscribe, Unsubscribe, PublishQoS1
  <2>2. CASE RejectTopic
    BY <2>2, RejectAccount
  <2>3. CASE Connect \/ Disconnect \/ PublishQoS0
    BY <2>3, AccountUnchanged DEF Connect, Disconnect, PublishQoS0
  <2>4. QED
    BY <1>1, <2>1, <2>2, <2>3 DEF UserCall
<1>2. CASE EventLoop
  <2>1. CASE OnSubackReceived \/ OnUnsubackReceived \/ OnPubAckReceived
    <3>1. PICK result : Complete(result)
      BY <2>1 DEF OnSubackReceived, OnUnsubackReceived, OnPubAckReceived
    <3>2. Arg.id \in Ids
      BY <2>1, ArgType
         DEF OnSubackReceived, OnUnsubackReceived, OnPubAckReceived, TypeOK, Packets
    <3>3. QED
      BY <3>1, <3>2, CompleteAccount
  <2>2. CASE RunImmediate
    BY <2>2, RunAccount
  <2>3. CASE OnSocketConnected \/ Parse \/ ForwardError \/ OnConnackReceived
             \/ OnPublishReceived \/ OnPubRelReceived \/ OnPongReceived \/ SendPing
             \/ TimerTimeout
    BY <2>3, AccountUnchanged
       DEF OnSocketConnected, Parse, ForwardError, OnConnackReceived, OnPublishReceived,
           OnPubRelReceived, OnPongReceived, SendPing, TimerTimeout
  <2>4. QED
    BY <1>2, <2>1, <2>2, <2>3 DEF EventLoop, RunSlot
<1>3. CASE Network \/ Broker
  BY <1>3, AccountUnchanged
     DEF Network, SocketConnected, SocketError, SslErrors, SocketDisconnected,
         TextMessageReceived, BinaryMessageReceived, Broker, BrokerConnack, BrokerAnswers,
         BrokerPong, BrokerPubRel, Reply, BrokerIgnores, BrokerPublishes, BrokerBadFrame
<1>4. CASE UNCHANGED vars
  BY <1>4, AccountUnchanged
<1>5. QED
  BY <1>1, <1>2, <1>3, <1>4 DEF Next

LEMMA AtMostOne ==
    ASSUME NEW S, \A x, y \in S : x = y
    PROVE  /\ S = {} => Cardinality(S) = 0
           /\ S # {} => Cardinality(S) = 1
<1>1. CASE S = {}
  BY <1>1, FS_EmptySet
<1>2. CASE S # {}
  <2>1. PICK x : S = {x}
    BY <1>2
  <2>2. QED
    BY <1>2, <2>1, FS_Singleton
<1>3. QED
  BY <1>1, <1>2

LEMMA ShortSequence ==
    ASSUME NEW S, NEW s \in Seq(S), Len(s) <= 1
    PROVE  /\ s = <<>> => Len(s) = 0
           /\ s # <<>> => Len(s) = 1
<1>1. s = <<>> => Len(s) = 0
  BY EmptySeq, Zenon
<1>2. s # <<>> => Len(s) # 0
  BY EmptySeq, Zenon
<1>3. Len(s) = 0 \/ Len(s) = 1
  <2>1. \A k \in Nat : k <= 1 => k = 0 \/ k = 1
    OBVIOUS
  <2>2. Len(s) \in Nat
    BY LenProperties
  <2>3. QED
    BY <2>1, <2>2, Zenon
<1>4. QED
  BY <1>1, <1>2, <1>3, Zenon

LEMMA ExactlyOne ==
    ASSUME NEW w \in {0, 1}, NEW d \in {0, 1}, NEW n \in {0, 1},
           w = 1 => d = 0 /\ n = 0,
           d = 1 => n = 0,
           w = 1 \/ d = 1 \/ n = 1
    PROVE  w + d + n = 1
OBVIOUS

\* The callback of every request made is in exactly one place, until identifiers are used
\* again: no disconnect, reconnect, refused or repeated answer loses or duplicates one.
THEOREM CallbacksAccountedFor == Spec => []EveryCallbackAccountedFor
<1>1. ASSUME CallbacksOK, AccountInv, made <= IdSpace, NEW r \in 1 .. made
      PROVE  Places(r) = 1
  <2> DEFINE W == {i \in Ids : subscribeCallbacks[i] = r}
             D == {i \in immediates : i.request = r}
  <2>1. r \in Requests /\ r # NoRequest /\ results[r] \in Seq(BOOLEAN)
    <3>1. made \in 0 .. MaxRequests /\ MaxRequests \in Nat /\ results \in [Requests -> Seq(BOOLEAN)]
      BY <1>1, BoundsAssumption DEF CallbacksOK, TypeOK, RequestTypeOK
    <3>2. r \in Requests /\ r # NoRequest
      BY <3>1 DEF Requests, NoRequest
    <3>3. QED
      BY <3>1, <3>2
  <2>2. /\ \A x, y \in W : x = y
        /\ \A x, y \in D : x = y
        /\ W # {} => D = {} /\ results[r] = <<>>
        /\ D # {} => results[r] = <<>>
    BY <1>1, <2>1 DEF CallbacksOK, OnePlacePerCallback
  <2>3. /\ W = {} => Cardinality(W) = 0
        /\ W # {} => Cardinality(W) = 1
        /\ D = {} => Cardinality(D) = 0
        /\ D # {} => Cardinality(D) = 1
    BY <2>2, AtMostOne
  <2>4. /\ results[r] = <<>> => Len(results[r]) = 0
        /\ results[r] # <<>> => Len(results[r]) = 1
    <3>1. Len(results[r]) <= 1
      BY <1>1, <2>1 DEF CallbacksOK, OnePlacePerCallback, CallbackAtMostOnce
    <3>2. QED
      BY <2>1, <3>1, ShortSequence
  <2>5. W # {} \/ D # {} \/ results[r] # <<>>
    <3>1. Waiting(r) \/ Due(r) \/ Called(r)
      BY <1>1 DEF AccountInv, NoneForgotten
    <3>2. QED
      BY <3>1 DEF Waiting, Due, Called
  <2>6. Places(r) = Cardinality(W) + Cardinality(D) + Len(results[r])
    BY DEF Places
  <2> HIDE DEF W, D
  <2>7. /\ Cardinality(W) \in {0, 1} /\ (Cardinality(W) = 1 <=> W # {})
        /\ Cardinality(D) \in {0, 1} /\ (Cardinality(D) = 1 <=> D # {})
        /\ Len(results[r]) \in {0, 1} /\ (Len(results[r]) = 1 <=> results[r] # <<>>)
    <3>1. results[r] = <<>> \/ results[r] # <<>>
      OBVIOUS
    <3>2. \A k \in {0, 1} : k = 0 \/ k = 1
      OBVIOUS
    <3>3. 0 # 1 /\ 0 \in {0, 1} /\ 1 \in {0, 1}
      OBVIOUS
    <3>4. /\ Cardinality(W) \in {0, 1} /\ (Cardinality(W) = 1 <=> W # {})
          /\ Cardinality(D) \in {0, 1} /\ (Cardinality(D) = 1 <=> D # {})
      BY <2>3
    <3>5. Len(results[r]) \in {0, 1} /\ (Len(results[r]) = 1 <=> results[r] # <<>>)
      BY <2>4, <3>1, <3>3, Zenon
    <3>6. QED
      BY <3>4, <3>5
  <2>8. /\ Cardinality(W) = 1 => Cardinality(D) = 0 /\ Len(results[r]) = 0
        /\ Cardinality(D) = 1 => Len(results[r]) = 0
        /\ Cardinality(W) = 1 \/ Cardinality(D) = 1 \/ Len(results[r]) = 1
    BY <2>2, <2>3, <2>4, <2>5, <2>7
  <2>9. Cardinality(W) + Cardinality(D) + Len(results[r]) = 1
    BY <2>7, <2>8, ExactlyOne
  <2>10. QED
    BY <2>6, <2>9
<1>2. CallbacksOK /\ AccountInv => EveryCallbackAccountedFor
  BY <1>1 DEF EveryCallbackAccountedFor
<1>3. Spec => [](CallbacksOK /\ AccountInv)
  <2>1. Spec => []CallbacksOK
    BY TypeCorrect, CallbackPlaces, PTL DEF CallbacksOK
  <2>2. CallbacksOK => TypeOK
    BY DEF CallbacksOK
  <2>3. QED
    BY AccountInit, AccountStep, <2>1, <2>2, PTL DEF Spec
<1>4. QED
  BY <1>2, <1>3, PTL

-----------------------------------------------------------------------------
(* Each callback is told what the broker, or the topic check, decided about *)
(* its request                                                              *)

AnswerTypes == {AnswerTo[t] : t \in DOMAIN AnswerTo}
IsAsk(p) == p.type \in DOMAIN AnswerTo /\ p.ref # NoRequest
Asks == {p \in Range(toBroker) : IsAsk(p)}
AnswersUnderWay == {p \in Arriving : p.type \in AnswerTypes}

\* The identifier of the packet leads to the callback of its own request, or to none.
Identified(p) ==
    /\ p.ref \in 1 .. made
    /\ subscribeCallbacks[p.id] \in {p.ref, NoRequest}
    /\ made < IdSpace => p.id \in 1 .. packetIdentifier

AskedOnceIn(s) ==
    \A i, j \in 1 .. Len(s) : IsAsk(s[i]) /\ IsAsk(s[j]) /\ s[i].ref = s[j].ref => i = j

Verdict(result) == IF result THEN "granted" ELSE "failed"

AsksPending == \A p \in Asks : Identified(p) /\ answers[p.ref] = "none"
AnswersTrue ==
    \A p \in AnswersUnderWay :
        /\ Identified(p) /\ p.code = answers[p.ref]
        /\ p.code = "granted" \/ (p.type = "SUBACK" /\ p.code = "failed")
VerdictsTrue == \A m \in immediates : answers[m.request] = Verdict(m.result)
ResultsTrue ==
    \A r \in Requests : \A n \in DOMAIN results[r] : answers[r] = Verdict(results[r][n])
UnmadeUndecided == \A r \in Requests : r > made => answers[r] = "none"

AnswersOK ==
    /\ AskedOnceIn(toBroker) /\ AsksPending /\ AnswersTrue
    /\ VerdictsTrue /\ ResultsTrue /\ UnmadeUndecided

AnswersInv == made <= IdSpace => AnswersOK

LEMMA AskedOnceTail ==
    ASSUME NEW S, NEW s \in Seq(S), s # <<>>, AskedOnceIn(s)
    PROVE  /\ AskedOnceIn(Tail(s))
           /\ IsAsk(Head(s)) =>
                 \A p \in Range(Tail(s)) : IsAsk(p) => p.ref # Head(s).ref
<1>1. /\ Tail(s) \in Seq(S) /\ Len(s) \in Nat \ {0} /\ Len(Tail(s)) = Len(s) - 1
      /\ \A i \in 1 .. Len(Tail(s)) : Tail(s)[i] = s[i + 1]
  BY HeadTailProperties, EmptySeq
<1>2. Head(s) = s[1]
  OBVIOUS
<1>3. AskedOnceIn(Tail(s))
  <2> SUFFICES ASSUME NEW i \in 1 .. Len(Tail(s)), NEW j \in 1 .. Len(Tail(s)),
                      IsAsk(Tail(s)[i]), IsAsk(Tail(s)[j]), Tail(s)[i].ref = Tail(s)[j].ref
               PROVE  i = j
    BY DEF AskedOnceIn
  <2>1. i + 1 \in 1 .. Len(s) /\ j + 1 \in 1 .. Len(s)
    BY <1>1
  <2>2. i + 1 = j + 1
    BY <1>1, <2>1 DEF AskedOnceIn
  <2>3. QED
    BY <2>2
<1>4. ASSUME IsAsk(Head(s)), NEW p \in Range(Tail(s)), IsAsk(p)
      PROVE  p.ref # Head(s).ref
  <2>1. PICK i \in 1 .. Len(Tail(s)) : Tail(s)[i] = p
    BY <1>1, RangeMember
  <2>2. i + 1 \in 1 .. Len(s) /\ 1 \in 1 .. Len(s) /\ i + 1 # 1 /\ s[i + 1] = p
    BY <1>1, <2>1
  <2>3. QED
    BY <1>2, <1>4, <2>2 DEF AskedOnceIn
<1>5. QED
  BY <1>3, <1>4

LEMMA AskedOnceAppend ==
    ASSUME NEW S, NEW s \in Seq(S), NEW x \in S, AskedOnceIn(s),
           IsAsk(x) => \A p \in Range(s) : IsAsk(p) => p.ref # x.ref
    PROVE  AskedOnceIn(Append(s, x))
<1>1. /\ Append(s, x) \in Seq(S) /\ Len(s) \in Nat /\ Len(Append(s, x)) = Len(s) + 1
      /\ \A i \in 1 .. Len(s) : Append(s, x)[i] = s[i]
      /\ Append(s, x)[Len(s) + 1] = x
  BY AppendProperties, LenProperties
<1>2. \A i \in 1 .. Len(s) : s[i] \in Range(s)
  BY RangeMember
<1> SUFFICES ASSUME NEW i \in 1 .. Len(s) + 1, NEW j \in 1 .. Len(s) + 1,
                    IsAsk(Append(s, x)[i]), IsAsk(Append(s, x)[j]),
                    Append(s, x)[i].ref = Append(s, x)[j].ref
             PROVE  i = j
  BY <1>1 DEF AskedOnceIn
<1>3. CASE i \in 1 .. Len(s) /\ j \in 1 .. Len(s)
  BY <1>1, <1>3 DEF AskedOnceIn
<1>4. CASE i \in 1 .. Len(s) /\ j = Len(s) + 1
  BY <1>1, <1>2, <1>4
<1>5. CASE j \in 1 .. Len(s) /\ i = Len(s) + 1
  BY <1>1, <1>2, <1>5
<1>6. QED
  BY <1>1, <1>3, <1>4, <1>5

LEMMA AskedOnceEmpty == AskedOnceIn(<<>>)
BY EmptySeq DEF AskedOnceIn

\* The packets under way have the types of packets.
LEMMA UnderWayTypes ==
    ASSUME TypeOK
    PROVE  /\ \A p \in Asks : p \in Packets
           /\ \A p \in Arriving : p \in Packets
<1>1. /\ toBroker \in Seq(Packets) /\ toClient \in Seq(BrokerPackets)
      /\ queue \in Seq(Events)
  BY DEF TypeOK, LinkTypeOK
<1>2. \A p \in Range(toBroker) : p \in Packets
  BY <1>1, ElementOfSeq, RangeMember
<1>3. \A p \in Range(toClient) : p \in Packets
  BY <1>1, ElementOfSeq, RangeMember, BrokerPacketsArePackets
<1>4. \A e \in Range(queue) : e \in Events
  BY <1>1, ElementOfSeq, RangeMember
<1>5. \A e \in Range(queue) : e.packet \in Packets
  BY <1>4, BrokerPacketsArePackets DEF Events
<1>6. QED
  BY <1>2, <1>3, <1>5 DEF Asks, Arriving

\* Only a call of the user asks, only the broker answers.
LEMMA AsksStep ==
    ASSUME TypeOK, Next, NEW p \in Asks'
    PROVE  \/ p \in Asks
           \/ \E type \in DOMAIN AnswerTo :
                 Request(type) /\ p = Packet(type, NextId, "none", made + 1)
<1>1. IsAsk(p) /\ p \in Range(toBroker')
  BY DEF Asks, IsAsk
<1>2. p \in Range(toBroker) \/ NewOutgoing(p)
  BY <1>1, OutgoingStep
<1>3. ~ IsPlain(p)
  BY <1>1 DEF IsPlain, IsAsk, AnswerTo
<1>4. p.type \notin {"PUBACK", "PUBREC", "PUBCOMP"}
  BY <1>1 DEF IsAsk, AnswerTo
<1>5. QED
  BY <1>1, <1>2, <1>3, <1>4 DEF NewOutgoing, Asks, IsAsk, AnswerTo, Bare, Packet, AckFor

LEMMA AnswersStep ==
    ASSUME TypeOK, Next, NEW p \in AnswersUnderWay'
    PROVE  p \in AnswersUnderWay \/ NewAnswer(p)
<1>1. p.type \in AnswerTypes /\ p \in Arriving'
  BY DEF AnswersUnderWay
<1>2. p \in Arriving \/ NewArriving(p)
  BY <1>1, ArrivingStep
<1>3. p.type \in {"SUBACK", "UNSUBACK", "PUBACK"}
  BY <1>1 DEF AnswerTypes, AnswerTo
<1>4. QED
  BY <1>1, <1>2, <1>3, NewArrivingByType DEF AnswersUnderWay

LEMMA AnswersInit == Init => AnswersInv
<1> SUFFICES ASSUME Init PROVE AnswersOK
  BY DEF AnswersInv
<1>1. Asks = {} /\ Range(queue) = {} /\ Range(toClient) = {}
  BY RangeEmpty DEF Init, Asks
<1>2. AnswersUnderWay = {}
  BY <1>1 DEF AnswersUnderWay, Arriving
<1>3. AskedOnceIn(toBroker)
  BY AskedOnceEmpty DEF Init
<1>4. AsksPending /\ AnswersTrue
  BY <1>1, <1>2 DEF AsksPending, AnswersTrue
<1>5. VerdictsTrue /\ UnmadeUndecided
  BY DEF Init, VerdictsTrue, UnmadeUndecided
<1>6. ResultsTrue
  <2>1. \A r \in Requests : results[r] = <<>>
    BY DEF Init
  <2>2. DOMAIN <<>> = {}
    OBVIOUS
  <2>3. QED
    BY <2>1, <2>2 DEF ResultsTrue
<1>7. QED
  BY <1>3, <1>4, <1>5, <1>6 DEF AnswersOK

\* The steps that make no request, take no answer and decide none.
LEMMA AnswersQuiet ==
    ASSUME AnswersOK, AskedOnceIn(toBroker'), Asks' \subseteq Asks,
           AnswersUnderWay' \subseteq AnswersUnderWay,
           UNCHANGED <<made, packetIdentifier, subscribeCallbacks, immediates, results, answers>>
    PROVE  AnswersOK'
<1>1. \A p : Identified(p)' <=> Identified(p)
  BY DEF Identified
<1>2. AsksPending'
  BY <1>1 DEF AnswersOK, AsksPending
<1>3. AnswersTrue'
  BY <1>1 DEF AnswersOK, AnswersTrue
<1>4. VerdictsTrue' /\ ResultsTrue' /\ UnmadeUndecided'
  BY DEF AnswersOK, VerdictsTrue, ResultsTrue, UnmadeUndecided
<1>5. AskedOnceIn(toBroker)'
  BY DEF AskedOnceIn, IsAsk
<1>6. QED
  BY <1>2, <1>3, <1>4, <1>5 DEF AnswersOK

\* A new request gets an identifier that no packet under way has.
LEMMA RequestAnswers ==
    ASSUME CallbacksOK, CallbacksOK', IdentifiersFresh, AnswersOK, made' <= IdSpace, Next,
           NEW type \in DOMAIN AnswerTo, Request(type)
    PROVE  AnswersOK'
<1> USE DEF NoRequest
<1>1. PICK id \in Ids, r \in Requests :
         /\ id = NextId /\ r = made + 1 /\ made' = r /\ made \in Nat /\ made < IdSpace
         /\ id \notin 1 .. packetIdentifier
         /\ made' < IdSpace => packetIdentifier' = packetIdentifier + 1
         /\ packetIdentifier \in Nat /\ packetIdentifier' = id
         /\ subscribeCallbacks' = [subscribeCallbacks EXCEPT ![id] = r]
         /\ UNCHANGED <<immediates, results, answers, toClient, queue>>
  <2>1. made' = made + 1 /\ made \in Nat /\ made + 1 \in Requests /\ packetIdentifier \in Nat
    BY BoundsAssumption DEF Request, CallbacksOK, TypeOK, RequestTypeOK, ClientTypeOK, Requests, Ids
  <2>2. made < IdSpace
    BY <2>1, IdSpaceAssumption
  <2>3. /\ NextId \in Ids /\ NextId \notin 1 .. packetIdentifier
        /\ made + 1 < IdSpace => NextId = packetIdentifier + 1
    BY <2>2, NextIdFresh DEF CallbacksOK
  <2>4. QED
    BY <2>1, <2>2, <2>3 DEF Request
<1>2. ASSUME NEW p \in Packets, Identified(p)
      PROVE  Identified(p)' /\ p.ref # r
  <2>1. p.ref \in 1 .. made /\ p.id \in 1 .. packetIdentifier
    BY <1>1, <1>2 DEF Identified
  <2>2. p.id # id
    BY <1>1, <2>1
  <2>3. subscribeCallbacks'[p.id] = subscribeCallbacks[p.id]
    BY <1>1, <1>2, <2>2 DEF Packets, CallbacksOK, TypeOK, ClientTypeOK
  <2>4. made' < IdSpace => p.id \in 1 .. packetIdentifier'
    BY <1>1, <2>1
  <2>5. p.ref \in 1 .. made' /\ p.ref # r
    BY <1>1, <2>1
  <2>6. QED
    BY <1>2, <2>3, <2>4, <2>5 DEF Identified
<1>3. ASSUME NEW t, NEW p, p = Packet(t, id, "none", r)
      PROVE  Identified(p)' /\ answers[p.ref] = "none" /\ p.ref = r
  <2>1. p.id = id /\ p.ref = r
    BY <1>3 DEF Packet
  <2>2. subscribeCallbacks'[id] = r
    BY <1>1 DEF CallbacksOK, TypeOK, ClientTypeOK
  <2>3. made' < IdSpace => id \in 1 .. packetIdentifier'
    BY <1>1 DEF Ids
  <2>4. answers[r] = "none"
    BY <1>1 DEF AnswersOK, UnmadeUndecided
  <2>5. QED
    BY <1>1, <2>1, <2>2, <2>3, <2>4 DEF Identified
<1>4. AsksPending'
  <2> SUFFICES ASSUME NEW p \in Asks' PROVE Identified(p)' /\ answers'[p.ref] = "none"
    BY DEF AsksPending
  <2>1. p \in Asks \/ \E t \in DOMAIN AnswerTo : p = Packet(t, id, "none", r)
    BY <1>1, AsksStep DEF CallbacksOK
  <2>2. CASE p \in Asks
    BY <1>1, <1>2, <2>2, UnderWayTypes DEF CallbacksOK, AnswersOK, AsksPending
  <2>3. QED
    BY <1>1, <1>3, <2>1, <2>2
<1>5. AnswersTrue'
  <2> SUFFICES ASSUME NEW p \in AnswersUnderWay
               PROVE  Identified(p)'
    BY <1>1 DEF AnswersOK, AnswersTrue, AnswersUnderWay, Arriving
  <2>1. p \in Packets /\ Identified(p)
    BY UnderWayTypes DEF CallbacksOK, AnswersOK, AnswersTrue, AnswersUnderWay
  <2>2. QED
    BY <1>2, <2>1
<1>6. AskedOnceIn(toBroker)'
  <2>1. toBroker \in Seq(Packets) /\ Packet(type, NextId, "none", made + 1) \in Packets
    BY RequestType DEF CallbacksOK, TypeOK, LinkTypeOK
  <2>2. Packet(type, NextId, "none", made + 1).ref = r
    BY <1>1 DEF Packet
  <2>3. \A p \in Range(toBroker) : IsAsk(p) => p.ref # r
    BY <1>2, UnderWayTypes DEF Asks, CallbacksOK, AnswersOK, AsksPending
  <2>4. AskedOnceIn(Append(toBroker, Packet(type, NextId, "none", made + 1)))
    BY <2>1, <2>2, <2>3, AskedOnceAppend DEF AnswersOK
  <2>5. AskedOnceIn(toBroker')
    BY <2>4 DEF Request, SendData, SendBinaryMessage, AnswersOK
  <2>6. QED
    BY <2>5 DEF AskedOnceIn, IsAsk
<1>7. VerdictsTrue' /\ ResultsTrue'
  BY <1>1 DEF AnswersOK, VerdictsTrue, ResultsTrue
<1>8. UnmadeUndecided'
  BY <1>1 DEF AnswersOK, UnmadeUndecided, Requests
<1>9. QED
  BY <1>4, <1>5, <1>6, <1>7, <1>8 DEF AnswersOK

\* The topic check turns the new request down, and no other.
LEMMA RejectAnswers ==
    ASSUME CallbacksOK, AnswersOK, made' <= IdSpace, RejectTopic
    PROVE  AnswersOK'
<1>1. PICK r \in Requests :
         /\ r = made + 1 /\ made' = r /\ made \in Nat
         /\ answers' = [answers EXCEPT ![r] = "failed"]
         /\ immediates' = immediates \cup {[request |-> r, result |-> FALSE]}
         /\ UNCHANGED <<packetIdentifier, subscribeCallbacks, results, toBroker, toClient, queue>>
  <2>1. made \in Nat /\ made + 1 \in Requests
    BY BoundsAssumption DEF RejectTopic, CallbacksOK, TypeOK, RequestTypeOK, Requests
  <2>2. QED
    BY <2>1 DEF RejectTopic, SetImmediate
<1>2. answers \in [Requests -> {"none", "granted", "failed"}] /\ IdSpace \in Nat
  BY IdSpaceAssumption DEF CallbacksOK, TypeOK, BrokerTypeOK
<1>3. ASSUME NEW p, Identified(p)
      PROVE  Identified(p)' /\ answers'[p.ref] = answers[p.ref]
  <2>1. p.ref \in 1 .. made /\ p.ref \in 1 .. made' /\ p.ref # r
    BY <1>1, <1>3 DEF Identified
  <2>2. made' < IdSpace => made < IdSpace
    BY <1>1, <1>2
  <2>3. answers'[p.ref] = answers[p.ref]
    BY <1>1, <1>2, <2>1
  <2>4. QED
    BY <1>1, <1>3, <2>1, <2>2, <2>3 DEF Identified
<1>4. AsksPending'
  BY <1>1, <1>3 DEF AnswersOK, AsksPending, Asks
<1>5. AnswersTrue'
  <2>1. AnswersUnderWay' = AnswersUnderWay
    BY <1>1 DEF AnswersUnderWay, Arriving
  <2>2. QED
    BY <2>1, <1>3 DEF AnswersOK, AnswersTrue
<1>6. VerdictsTrue'
  <2> SUFFICES ASSUME NEW m \in immediates' PROVE answers'[m.request] = Verdict(m.result)
    BY DEF VerdictsTrue
  <2>1. CASE m \in immediates
    <3>1. m.request <= made /\ m.request \in Requests
      BY <2>1 DEF CallbacksOK, OnePlacePerCallback, TypeOK, RequestTypeOK
    <3>2. m.request # r
      BY <1>1, <3>1 DEF Requests
    <3>3. answers'[m.request] = answers[m.request]
      BY <1>1, <1>2, <3>1, <3>2
    <3>4. QED
      BY <2>1, <3>3 DEF AnswersOK, VerdictsTrue
  <2>2. CASE m = [request |-> r, result |-> FALSE]
    BY <1>1, <1>2, <2>2 DEF Verdict
  <2>3. QED
    BY <1>1, <2>1, <2>2
<1>7. ResultsTrue'
  <2> SUFFICES ASSUME NEW q \in Requests, NEW n \in DOMAIN results[q]
               PROVE  answers'[q] = Verdict(results[q][n])
    BY <1>1 DEF ResultsTrue
  <2>1. results[r] = <<>>
    BY <1>1 DEF CallbacksOK, OnePlacePerCallback
  <2>2. DOMAIN <<>> = {}
    OBVIOUS
  <2>3. q # r
    BY <2>1, <2>2
  <2>4. answers'[q] = answers[q]
    BY <1>1, <1>2, <2>3
  <2>5. QED
    BY <2>4 DEF AnswersOK, ResultsTrue
<1>8. UnmadeUndecided'
  <2> SUFFICES ASSUME NEW q \in Requests, q > made' PROVE answers'[q] = "none"
    BY DEF UnmadeUndecided
  <2>1. q > made /\ q # r
    BY <1>1 DEF Requests
  <2>2. QED
    BY <1>1, <1>2, <2>1 DEF AnswersOK, UnmadeUndecided
<1>9. AskedOnceIn(toBroker)'
  BY <1>1 DEF AnswersOK, AskedOnceIn, IsAsk
<1>10. QED
  BY <1>4, <1>5, <1>6, <1>7, <1>8, <1>9 DEF AnswersOK

\* The callback found under the identifier of an acknowledgement is the one of the
\* request it answers, and is due with the verdict of that answer.
LEMMA CompleteAnswers ==
    ASSUME CallbacksOK, AnswersOK, queue # <<>>, NEW result \in BOOLEAN, Complete(result),
           Arg.type \in AnswerTypes, Arg \in Arriving,
           Arg.type = "SUBACK" => (result <=> Arg.code = "granted"),
           Arg.type # "SUBACK" => result
    PROVE  AnswersOK'
<1> USE DEF NoRequest
<1>1. /\ Arg \in AnswersUnderWay /\ Arg \in Packets
      /\ Identified(Arg) /\ Arg.code = answers[Arg.ref]
      /\ Arg.code = Verdict(result)
  <2>1. Arg \in AnswersUnderWay /\ Arg \in Packets
    BY UnderWayTypes DEF AnswersUnderWay, CallbacksOK
  <2>2. QED
    BY <2>1 DEF AnswersOK, AnswersTrue, Verdict
<1>2. PICK id \in Ids, r \in 1 .. made :
         /\ id = Arg.id /\ r = Arg.ref
         /\ subscribeCallbacks[id] \in {r, 0}
         /\ answers[r] = Verdict(result)
  BY <1>1 DEF Identified, Packets
<1>3. /\ UNCHANGED <<made, packetIdentifier, results, answers, toBroker, toClient>>
      /\ queue' = Tail(queue)
      /\ \A m \in immediates' : m \in immediates \/ m = [request |-> r, result |-> result]
      /\ \A i \in Ids : subscribeCallbacks'[i] \in {subscribeCallbacks[i], 0}
  <2>1. CASE UNCHANGED <<immediates, subscribeCallbacks>>
    BY <2>1 DEF Complete
  <2>2. CASE subscribeCallbacks[id] # NoRequest
    BY <1>2, <2>2 DEF Complete, SetImmediate, RemoveCallback, CallbacksOK, TypeOK, ClientTypeOK
  <2>3. QED
    BY <1>2, <2>1, <2>2 DEF Complete
<1>4. ASSUME NEW p \in Packets, Identified(p)
      PROVE  Identified(p)'
  BY <1>3, <1>4 DEF Identified, Packets
<1>5. Asks' = Asks /\ AskedOnceIn(toBroker)'
  BY <1>3 DEF Asks, AnswersOK, AskedOnceIn, IsAsk
<1>6. AnswersUnderWay' \subseteq AnswersUnderWay
  <2>1. queue \in Seq(Events)
    BY DEF CallbacksOK, TypeOK, LinkTypeOK
  <2>2. Range(queue') \subseteq Range(queue)
    BY <1>3, <2>1, RangeTail
  <2>3. QED
    BY <1>3, <2>2 DEF AnswersUnderWay, Arriving
<1>7. AsksPending'
  BY <1>3, <1>4, <1>5, UnderWayTypes DEF CallbacksOK, AnswersOK, AsksPending
<1>8. AnswersTrue'
  <2> SUFFICES ASSUME NEW p \in AnswersUnderWay'
               PROVE  /\ Identified(p)' /\ p.code = answers'[p.ref]
                      /\ p.code = "granted" \/ (p.type = "SUBACK" /\ p.code = "failed")
    BY DEF AnswersTrue
  <2>1. p \in AnswersUnderWay /\ p \in Packets
    BY <1>6, UnderWayTypes DEF CallbacksOK, AnswersUnderWay
  <2>2. QED
    BY <1>3, <1>4, <2>1 DEF AnswersOK, AnswersTrue
<1>9. VerdictsTrue'
  BY <1>2, <1>3 DEF AnswersOK, VerdictsTrue
<1>10. ResultsTrue' /\ UnmadeUndecided'
  BY <1>3 DEF AnswersOK, ResultsTrue, UnmadeUndecided
<1>11. QED
  BY <1>5, <1>7, <1>8, <1>9, <1>10 DEF AnswersOK

\* A callback that was due is called with the verdict it was due with.
LEMMA RunAnswers ==
    ASSUME CallbacksOK, AnswersOK, RunImmediate
    PROVE  AnswersOK'
<1>1. PICK m \in immediates :
         /\ immediates' = immediates \ {m}
         /\ results' = [results EXCEPT ![m.request] = Append(@, m.result)]
  BY DEF RunImmediate
<1>2. UNCHANGED <<made, packetIdentifier, subscribeCallbacks, answers, toBroker, toClient, queue>>
  BY DEF RunImmediate
<1>3. PICK r \in Requests, b \in BOOLEAN :
         /\ m = [request |-> r, result |-> b]
         /\ results' = [results EXCEPT ![r] = Append(results[r], b)]
         /\ results[r] \in Seq(BOOLEAN) /\ answers[r] = Verdict(b)
  <2>1. m \in [request : Requests, result : BOOLEAN]
    BY <1>1 DEF CallbacksOK, TypeOK, RequestTypeOK
  <2>2. results[m.request] \in Seq(BOOLEAN) /\ answers[m.request] = Verdict(m.result)
    BY <1>1, <2>1 DEF CallbacksOK, TypeOK, RequestTypeOK, AnswersOK, VerdictsTrue
  <2>3. QED
    BY <1>1, <2>1, <2>2
<1>4. Asks' = Asks /\ AnswersUnderWay' = AnswersUnderWay /\ AskedOnceIn(toBroker)'
  BY <1>2 DEF Asks, AnswersUnderWay, Arriving, AnswersOK, AskedOnceIn, IsAsk
<1>5. AsksPending' /\ AnswersTrue'
  <2>1. \A p : Identified(p)' <=> Identified(p)
    BY <1>2 DEF Identified
  <2>2. QED
    BY <1>2, <1>4, <2>1 DEF AnswersOK, AsksPending, AnswersTrue
<1>6. VerdictsTrue' /\ UnmadeUndecided'
  BY <1>1, <1>2 DEF AnswersOK, VerdictsTrue, UnmadeUndecided
<1>7. ResultsTrue'
  <2> SUFFICES ASSUME NEW q \in Requests, NEW n \in DOMAIN results'[q]
               PROVE  answers[q] = Verdict(results'[q][n])
    BY <1>2 DEF ResultsTrue
  <2>1. CASE q # r
    BY <1>3, <2>1 DEF AnswersOK, ResultsTrue, CallbacksOK, TypeOK, RequestTypeOK
  <2>2. CASE q = r
    <3>1. results'[q] = Append(results[r], b)
      BY <1>3, <2>2 DEF CallbacksOK, TypeOK, RequestTypeOK
    <3>2. n \in 1 .. Len(results[r]) + 1 /\ Len(results[r]) \in Nat
      BY <1>3, <3>1, AppendProperties, LenProperties
    <3>3. CASE n \in 1 .. Len(results[r])
      <4>1. n \in DOMAIN results[r] /\ results'[q][n] = results[r][n]
        BY <1>3, <3>1, <3>3, AppendProperties, LenProperties
      <4>2. QED
        BY <2>2, <4>1 DEF AnswersOK, ResultsTrue
    <3>4. CASE n = Len(results[r]) + 1
      <4>1. results'[q][n] = b
        BY <1>3, <3>1, <3>4, AppendProperties
      <4>2. QED
        BY <1>3, <2>2, <4>1
    <3>5. QED
      BY <3>2, <3>3, <3>4
  <2>3. QED
    BY <2>1, <2>2
<1>8. QED
  BY <1>4, <1>5, <1>6, <1>7 DEF AnswersOK

\* The broker decides a request that nobody has decided yet, and answers with that.
LEMMA BrokerDecides ==
    ASSUME CallbacksOK, AnswersOK, Next, BrokerAnswers
    PROVE  AnswersOK'
<1>1. PICK type \in DOMAIN AnswerTo, code \in {"granted", "failed"} :
         /\ BrokerReads(type) /\ Asked.ref # NoRequest
         /\ code = "failed" => type = "SUBSCRIBE"
         /\ answers' = [answers EXCEPT ![Asked.ref] = code]
         /\ Reply(Packet(AnswerTo[type], Asked.id, code, Asked.ref))
  BY DEF BrokerAnswers
<1>2. /\ toBroker \in Seq(Packets) /\ toBroker # <<>> /\ toBroker' = Tail(toBroker)
      /\ UNCHANGED <<made, packetIdentifier, subscribeCallbacks, immediates, results>>
  BY <1>1 DEF BrokerReads, Reply, CallbacksOK, TypeOK, LinkTypeOK
<1>3. Asked \in Asks
  BY <1>1, <1>2, RangeTail DEF Asks, IsAsk, Asked, BrokerReads
<1>4. PICK r \in Requests, id \in Ids :
         /\ r = Asked.ref /\ id = Asked.id /\ Identified(Asked) /\ answers[r] = "none"
         /\ answers' = [answers EXCEPT ![r] = code]
  <2>1. Asked \in Packets /\ Identified(Asked) /\ answers[Asked.ref] = "none"
    BY <1>3, UnderWayTypes DEF CallbacksOK, AnswersOK, AsksPending
  <2>2. Asked.ref \in Requests /\ Asked.id \in Ids
    BY <2>1, BoundsAssumption
       DEF Identified, CallbacksOK, TypeOK, RequestTypeOK, Requests, Packets
  <2>3. QED
    BY <1>1, <2>1, <2>2
<1>5. answers \in [Requests -> {"none", "granted", "failed"}]
  BY DEF CallbacksOK, TypeOK, BrokerTypeOK
<1>6. ASSUME NEW q \in Requests, answers[q] # "none"
      PROVE  answers'[q] = answers[q]
  BY <1>4, <1>5, <1>6
<1>7. \A p : Identified(p)' <=> Identified(p)
  BY <1>2 DEF Identified
<1>8. AskedOnceIn(Tail(toBroker)) /\ \A p \in Range(Tail(toBroker)) : IsAsk(p) => p.ref # r
  BY <1>2, <1>3, <1>4, AskedOnceTail DEF AnswersOK, Asks, Asked
<1>9. AsksPending'
  <2> SUFFICES ASSUME NEW p \in Asks' PROVE Identified(p)' /\ answers'[p.ref] = "none"
    BY DEF AsksPending
  <2>1. p \in Range(Tail(toBroker)) /\ IsAsk(p) /\ p \in Asks
    BY <1>2, RangeTail DEF Asks, IsAsk
  <2>2. Identified(p) /\ answers[p.ref] = "none" /\ p.ref # r
    BY <1>8, <2>1 DEF AnswersOK, AsksPending
  <2>3. p.ref \in Requests
    BY <2>2, BoundsAssumption DEF Identified, CallbacksOK, TypeOK, RequestTypeOK, Requests
  <2>4. answers'[p.ref] = "none"
    BY <1>4, <1>5, <2>2, <2>3
  <2>5. QED
    BY <1>7, <2>2, <2>4
<1>10. AnswersTrue'
  <2> SUFFICES ASSUME NEW p \in AnswersUnderWay'
               PROVE  /\ Identified(p)' /\ p.code = answers'[p.ref]
                      /\ p.code = "granted" \/ (p.type = "SUBACK" /\ p.code = "failed")
    BY DEF AnswersTrue
  <2>1. CASE p \in AnswersUnderWay
    <3>1. /\ Identified(p) /\ p.code = answers[p.ref]
          /\ p.code = "granted" \/ (p.type = "SUBACK" /\ p.code = "failed")
      BY <2>1 DEF AnswersOK, AnswersTrue
    <3>2. p.ref \in Requests
      BY <3>1, BoundsAssumption DEF Identified, CallbacksOK, TypeOK, RequestTypeOK, Requests
    <3>3. QED
      BY <1>6, <1>7, <3>1, <3>2
  <2>2. CASE p \notin AnswersUnderWay
    <3>1. PICK t \in DOMAIN AnswerTo, c \in {"granted", "failed"} :
             /\ c = "failed" => t = "SUBSCRIBE"
             /\ answers' = [answers EXCEPT ![Asked.ref] = c]
             /\ p = Packet(AnswerTo[t], Asked.id, c, Asked.ref)
      BY <2>2, AnswersStep DEF CallbacksOK, NewAnswer
    <3>2. p.type = AnswerTo[t] /\ p.id = id /\ p.code = c /\ p.ref = r
      BY <1>4, <3>1 DEF Packet
    <3>3. answers'[r] = c
      BY <1>4, <1>5, <3>1
    <3>4. c = "failed" => p.type = "SUBACK"
      BY <3>1, <3>2 DEF AnswerTo
    <3>5. Identified(p)'
      BY <1>4, <1>7, <3>2 DEF Identified
    <3>6. QED
      BY <3>2, <3>3, <3>4, <3>5
  <2>3. QED
    BY <2>1, <2>2
<1>11. VerdictsTrue'
  <2> SUFFICES ASSUME NEW m \in immediates PROVE answers'[m.request] = Verdict(m.result)
    BY <1>2 DEF VerdictsTrue
  <2>1. m.request \in Requests /\ answers[m.request] = Verdict(m.result)
    BY DEF CallbacksOK, TypeOK, RequestTypeOK, AnswersOK, VerdictsTrue
  <2>2. QED
    BY <1>6, <2>1 DEF Verdict
<1>12. ResultsTrue'
  BY <1>2, <1>6 DEF AnswersOK, ResultsTrue, Verdict
<1>13. UnmadeUndecided'
  <2>1. r <= made
    BY <1>4, BoundsAssumption DEF Identified, CallbacksOK, TypeOK, RequestTypeOK
  <2>2. QED
    BY <1>2, <1>4, <1>5, <2>1, BoundsAssumption
       DEF AnswersOK, UnmadeUndecided, Requests, CallbacksOK, TypeOK, RequestTypeOK
<1>14. AskedOnceIn(toBroker)'
  BY <1>2, <1>8 DEF AskedOnceIn, IsAsk
<1>15. QED
  BY <1>9, <1>10, <1>11, <1>12, <1>13, <1>14 DEF AnswersOK

\* No step but a request adds an ask, so none is added twice.
LEMMA AskedOnceStep ==
    ASSUME TypeOK, Next, AskedOnceIn(toBroker), ~ \E type \in DOMAIN AnswerTo : Request(type)
    PROVE  AskedOnceIn(toBroker')
<1>1. toBroker \in Seq(Packets)
  BY DEF TypeOK, LinkTypeOK
<1>2. CASE toBroker' \in {toBroker, <<>>}
  BY <1>2, AskedOnceEmpty
<1>3. CASE toBroker # <<>> /\ toBroker' = Tail(toBroker)
  BY <1>1, <1>3, AskedOnceTail
<1>4. CASE \E q \in Packets : NewOutgoing(q) /\ toBroker' = Append(toBroker, q)
  <2>1. PICK q \in Packets : NewOutgoing(q) /\ toBroker' = Append(toBroker, q)
    BY <1>4
  <2>2. ~ IsAsk(q)
    BY <2>1 DEF NewOutgoing, IsPlain, IsAsk, AnswerTo, Bare, Packet, AckFor
  <2>3. QED
    BY <1>1, <2>1, <2>2, AskedOnceAppend
<1>5. QED
  BY <1>2, <1>3, <1>4, OutgoingSequence

LEMMA TakeAnswer ==
    ASSUME CallbacksOK, EventsDispatched, AnswersOK,
           OnSubackReceived \/ OnUnsubackReceived \/ OnPubAckReceived
    PROVE  AnswersOK'
<1>1. ASSUME NEW t \in {"SUBACK", "UNSUBACK", "PUBACK"}, Runs(SlotOf[t])
      PROVE  queue # <<>> /\ Arg.type = t /\ Arg \in Arriving /\ Arg.type \in AnswerTypes
  <2>1. t \in DOMAIN SlotOf /\ t \in AnswerTypes
    BY DEF SlotOf, AnswerTypes, AnswerTo
  <2>2. Arg.type = t
    BY <1>1, <2>1, ArgOfSlot DEF CallbacksOK
  <2>3. Head(queue) \in Range(queue) /\ Head(queue).packet = Arg
    BY <1>1, RunningEvent DEF CallbacksOK
  <2>4. QED
    BY <1>1, <2>1, <2>2, <2>3 DEF Arriving, Runs
<1>2. CASE OnSubackReceived
  <2>1. Runs(SlotOf["SUBACK"]) /\ Complete(Arg.code = "granted")
    BY <1>2 DEF OnSubackReceived, SlotOf
  <2>2. QED
    BY <1>1, <2>1, CompleteAnswers
<1>3. CASE OnUnsubackReceived
  <2>1. Runs(SlotOf["UNSUBACK"]) /\ Complete(TRUE)
    BY <1>3 DEF OnUnsubackReceived, SlotOf
  <2>2. QED
    BY <1>1, <2>1, CompleteAnswers
<1>4. CASE OnPubAckReceived
  <2>1. Runs(SlotOf["PUBACK"]) /\ Complete(TRUE)
    BY <1>4 DEF OnPubAckReceived, SlotOf
  <2>2. QED
    BY <1>1, <2>1, CompleteAnswers
<1>5. QED
  BY <1>2, <1>3, <1>4

LEMMA AnswersPreserved ==
    CallbacksOK /\ CallbacksOK' /\ EventsDispatched /\ AccountInv /\ AnswersInv /\ [Next]_vars
        => AnswersInv'
<1> SUFFICES ASSUME CallbacksOK, CallbacksOK', EventsDispatched, AccountInv, AnswersInv,
                    [Next]_vars, made' <= IdSpace
             PROVE  AnswersOK'
  BY DEF AnswersInv
<1>1. ASSUME UNCHANGED made PROVE AnswersOK
  BY <1>1 DEF AnswersInv
<1>2. CASE UNCHANGED vars
  <2>1. Asks' = Asks /\ AnswersUnderWay' = AnswersUnderWay
    BY <1>2 DEF Asks, AnswersUnderWay, Arriving
  <2>2. AnswersOK /\ AskedOnceIn(toBroker')
    BY <1>1, <1>2 DEF AnswersOK
  <2>3. QED
    BY <1>2, <2>1, <2>2, AnswersQuiet
<1>3. CASE Next
  <2>1. CASE \E type \in DOMAIN AnswerTo : Request(type)
    <3>1. made' = made + 1 /\ made \in Nat
      BY <2>1, BoundsAssumption DEF Request, CallbacksOK, TypeOK, RequestTypeOK
    <3>2. AnswersOK
      BY <3>1, IdSpaceAssumption DEF AnswersInv
    <3>3. QED
      BY <1>3, <2>1, <3>2, RequestAnswers DEF AccountInv
  <2>2. CASE RejectTopic
    <3>1. made' = made + 1 /\ made \in Nat
      BY <2>2, BoundsAssumption DEF RejectTopic, CallbacksOK, TypeOK, RequestTypeOK
    <3>2. AnswersOK
      BY <3>1, IdSpaceAssumption DEF AnswersInv
    <3>3. QED
      BY <2>2, <3>2, RejectAnswers
  <2>3. CASE OnSubackReceived \/ OnUnsubackReceived \/ OnPubAckReceived
    <3>1. UNCHANGED made
      BY <2>3 DEF OnSubackReceived, OnUnsubackReceived, OnPubAckReceived, Complete
    <3>2. QED
      BY <1>1, <2>3, <3>1, TakeAnswer
  <2>4. CASE RunImmediate
    BY <1>1, <2>4, RunAnswers DEF RunImmediate
  <2>5. CASE BrokerAnswers
    <3>1. UNCHANGED made
      BY <2>5 DEF BrokerAnswers, Reply
    <3>2. QED
      BY <1>1, <1>3, <2>5, <3>1, BrokerDecides
  <2>6. ASSUME UNCHANGED <<made, packetIdentifier, subscribeCallbacks, immediates, results,
                           answers>>,
               ~ (\E type \in DOMAIN AnswerTo : Request(type)), ~ BrokerAnswers
        PROVE  AnswersOK'
    <3>1. Asks' \subseteq Asks
      BY <1>3, <2>6, AsksStep DEF CallbacksOK
    <3>2. AnswersUnderWay' \subseteq AnswersUnderWay
      BY <1>3, <2>6, AnswersStep DEF CallbacksOK, NewAnswer
    <3>3. AnswersOK
      BY <1>1, <2>6
    <3>4. AskedOnceIn(toBroker')
      BY <1>3, <2>6, <3>3, AskedOnceStep DEF CallbacksOK, AnswersOK
    <3>5. QED
      BY <2>6, <3>1, <3>2, <3>3, <3>4, AnswersQuiet
  <2>7. CASE UserCall
    <3>1. CASE Connect \/ Disconnect \/ PublishQoS0
      BY <2>1, <2>5, <2>6, <3>1 DEF Connect, Disconnect, PublishQoS0
    <3>2. CASE Subscribe \/ Unsubscribe \/ PublishQoS1
      BY <2>1, <3>2 DEF Subscribe, Unsubscribe, PublishQoS1, AnswerTo
    <3>3. QED
      BY <2>2, <2>7, <3>1, <3>2 DEF UserCall
  <2>8. CASE EventLoop
    <3>1. CASE OnSocketConnected \/ Parse \/ ForwardError \/ OnConnackReceived
               \/ OnPublishReceived \/ OnPubRelReceived \/ OnPongReceived \/ SendPing
               \/ TimerTimeout
      BY <2>1, <2>5, <2>6, <3>1
         DEF OnSocketConnected, Parse, ForwardError, OnConnackReceived, OnPublishReceived,
             OnPubRelReceived, OnPongReceived, SendPing, TimerTimeout
    <3>2. QED
      BY <2>3, <2>4, <2>8, <3>1 DEF EventLoop, RunSlot
  <2>9. CASE Network
    BY <2>1, <2>5, <2>6, <2>9
       DEF Network, SocketConnected, SocketError, SslErrors, SocketDisconnected,
           TextMessageReceived, BinaryMessageReceived
  <2>10. CASE Broker
    <3>1. CASE BrokerConnack \/ BrokerPong \/ BrokerPubRel \/ BrokerIgnores
               \/ BrokerPublishes \/ BrokerBadFrame
      BY <2>1, <2>5, <2>6, <3>1
         DEF BrokerConnack, BrokerPong, BrokerPubRel, Reply, BrokerIgnores,
             BrokerPublishes, BrokerBadFrame
    <3>2. QED
      BY <2>5, <2>10, <3>1 DEF Broker
  <2>11. QED
    BY <1>3, <2>7, <2>8, <2>9, <2>10 DEF Next
<1>4. QED
  BY <1>2, <1>3

\* A callback is told the verdict on its own request, until identifiers are used again:
\* an acknowledgement under way, of this connection or of a former one, never finds the
\* callback of another request under its identifier.
THEOREM CallbacksTellTheTruth == Spec => []HonestCallbacks
<1>1. CallbacksOK /\ AnswersInv => HonestCallbacks
  BY DEF AnswersInv, AnswersOK, ResultsTrue, HonestCallbacks, Verdict
<1>2. Spec => []CallbacksOK
  BY TypeCorrect, CallbackPlaces, PTL DEF CallbacksOK
<1>3. CallbacksOK => TypeOK
  BY DEF CallbacksOK
<1>4. Spec => [](EventsDispatched /\ AccountInv /\ AnswersInv)
  BY DispatchInit, DispatchStep, AccountInit, AccountStep, AnswersInit, AnswersPreserved,
     <1>2, <1>3, PTL DEF Spec
<1>5. QED
  BY <1>1, <1>2, <1>4, PTL

=============================================================================
