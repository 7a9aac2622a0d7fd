--------------------------- MODULE QMqttClientProofs ---------------------------
(***************************************************************************)
(* Proofs about QMqttClient for every value of its constants.              *)
(***************************************************************************)
EXTENDS QMqttClient, SequenceTheorems, TLAPS

USE DEF vars, clientVars, connectVars, linkVars, brokerVars, requestVars, countVars

-----------------------------------------------------------------------------
(* The state shown to the user agrees with the socket *)

SessionInv == state \in States /\ socket \in Sockets /\ SessionAgreesWithSocket

LEMMA SessionInit == Init => SessionInv
BY DEF Init, SessionInv, SessionAgreesWithSocket, States, Sockets

\* Whatever makes the socket unconnected also shows OFFLINE.
LEMMA UnconnectSession ==
    ASSUME NEW earlier, Unconnect(earlier)
    PROVE  SessionInv'
BY DEF Unconnect, OnDisconnected, SessionInv, SessionAgreesWithSocket, States, Sockets

LEMMA AbortSession ==
    ASSUME SessionInv, NEW earlier, Abort(earlier)
    PROVE  SessionInv'
<1>1. CASE Unconnect(earlier)
  BY <1>1, UnconnectSession
<1>2. CASE UNCHANGED linkVars
  BY <1>2 DEF SessionInv, SessionAgreesWithSocket
<1>3. QED
  BY <1>1, <1>2 DEF Abort

LEMMA CloseSession ==
    ASSUME SessionInv, state # "OFFLINE", NEW earlier, CloseOrderly(earlier)
    PROVE  SessionInv'
<1>1. CASE Unconnect(earlier)
  BY <1>1, UnconnectSession
<1>2. CASE /\ state' = "DISCONNECTING"
           /\ socket' = IF socket = "unconnected" THEN socket ELSE "closing"
  <2>1. socket # "unconnected"
    BY DEF SessionInv, SessionAgreesWithSocket, States
  <2>2. QED
    BY <1>2, <2>1 DEF SessionInv, SessionAgreesWithSocket, States, Sockets
<1>3. QED
  BY <1>1, <1>2 DEF CloseOrderly

\* The actions that leave the state and the socket alone.
LEMMA SessionUnchanged ==
    ASSUME SessionInv, UNCHANGED <<state, socket>>
    PROVE  SessionInv'
BY DEF SessionInv, SessionAgreesWithSocket

LEMMA SessionStep == SessionInv /\ [Next]_vars => SessionInv'
<1> SUFFICES ASSUME SessionInv, [Next]_vars
             PROVE  SessionInv'
  OBVIOUS
<1>1. CASE UserCall
  <2>1. CASE Connect
    BY <2>1 DEF Connect, SessionInv, SessionAgreesWithSocket, States, Sockets
  <2>2. CASE Disconnect
    BY <2>2, CloseSession DEF Disconnect
  <2>3. CASE Subscribe \/ Unsubscribe \/ PublishQoS1 \/ RejectTopic \/ PublishQoS0
    BY <2>3, SessionUnchanged
       DEF Subscribe, Unsubscribe, PublishQoS1, Request, RejectTopic, PublishQoS0
  <2>4. QED
    BY <1>1, <2>1, <2>2, <2>3 DEF UserCall
<1>2. CASE EventLoop
  <2>1. CASE OnConnackReceived
    BY <2>1, AbortSession, SessionUnchanged DEF OnConnackReceived
  <2>2. CASE SendPing
    BY <2>2, CloseSession, SessionUnchanged DEF SendPing
  <2>3. CASE OnSocketConnected \/ Parse \/ ForwardError \/ OnSubackReceived
             \/ OnUnsubackReceived \/ OnPubAckReceived
    BY <2>3, SessionUnchanged
       DEF OnSocketConnected, Parse, ForwardError, OnSubackReceived, OnUnsubackReceived,
           OnPubAckReceived, Complete
  <2>4. CASE OnPublishReceived \/ OnPubRelReceived \/ OnPongReceived
             \/ RunImmediate \/ TimerTimeout
    BY <2>4, SessionUnchanged
       DEF OnPublishReceived, OnPubRelReceived, OnPongReceived, RunImmediate, TimerTimeout
  <2>5. QED
    BY <1>2, <2>1, <2>2, <2>3, <2>4 DEF EventLoop, RunSlot
<1>3. CASE Network
  <2>1. CASE SocketConnected
    BY <2>1 DEF SocketConnected, SessionInv, SessionAgreesWithSocket, Sockets
  <2>2. CASE SocketError
    BY <2>2 DEF SocketError, OnFailed, SessionInv, SessionAgreesWithSocket, States, Sockets
  <2>3. CASE SslErrors
    BY <2>3 DEF SslErrors, OnFailed, SessionInv, SessionAgreesWithSocket, States, Sockets
  <2>4. CASE SocketDisconnected
    BY <2>4, UnconnectSession DEF SocketDisconnected
  <2>5. CASE TextMessageReceived \/ BinaryMessageReceived
    BY <2>5, SessionUnchanged DEF TextMessageReceived, BinaryMessageReceived
  <2>6. QED
    BY <1>3, <2>1, <2>2, <2>3, <2>4, <2>5 DEF Network
<1>4. CASE Broker
  BY <1>4, SessionUnchanged
     DEF Broker, BrokerConnack, BrokerAnswers, BrokerPong, BrokerPubRel, Reply,
         BrokerIgnores, BrokerPublishes, BrokerBadFrame
<1>5. CASE UNCHANGED vars
  BY <1>5, SessionUnchanged
<1>6. QED
  BY <1>1, <1>2, <1>3, <1>4, <1>5 DEF Next

\* The client that is not OFFLINE always has a socket whose end brings it back to
\* OFFLINE, and OFFLINE is never shown over a socket that still carries a session.
THEOREM SessionAgreement == Spec => []SessionAgreesWithSocket
<1>1. SessionInv => SessionAgreesWithSocket
  BY DEF SessionInv
<1>2. QED
  BY SessionInit, SessionStep, <1>1, PTL DEF Spec

-----------------------------------------------------------------------------
(* Type correctness *)

LEMMA TimesType ==
    ASSUME NEW S, NEW n \in Nat, NEW x \in S
    PROVE  Times(n, x) \in Seq(S)
BY IsASeq DEF Times

LEMMA SlotNamesOfPackets ==
    /\ DOMAIN SlotOf \subseteq PacketTypes
    /\ \A t \in DOMAIN SlotOf : SlotOf[t] \in SlotNames \ {"parse"}
BY DEF SlotOf, SlotNames, PacketTypes

LEMMA BarePackets ==
    /\ \A t \in PacketTypes : Bare(t) \in Packets
    /\ \A t \in DOMAIN SlotOf : Bare(t) \in BrokerPackets
BY IdSpaceAssumption DEF Bare, Packet, Packets, BrokerPackets, Codes, Ids

LEMMA BrokerPacketsArePackets == BrokerPackets \subseteq Packets
BY SlotNamesOfPackets DEF BrokerPackets, Packets

LEMMA NextIdType ==
    ASSUME packetIdentifier \in Ids
    PROVE  NextId \in Ids
BY IdSpaceAssumption DEF NextId, Ids

LEMMA TypeInit == Init => TypeOK
<1> SUFFICES ASSUME Init PROVE TypeOK
  OBVIOUS
<1>1. ClientTypeOK
  BY IdSpaceAssumption DEF Init, ClientTypeOK, TimerIntervals, Ids, NoRequest
<1>2. LinkTypeOK
  BY EmptySeq DEF Init, LinkTypeOK, States, Sockets
<1>3. BrokerTypeOK
  BY EmptySeq DEF Init, BrokerTypeOK
<1>4. RequestTypeOK
  <2>1. made \in 0 .. MaxRequests
    BY BoundsAssumption DEF Init
  <2>2. results \in [Requests -> Seq(BOOLEAN)]
    BY EmptySeq DEF Init
  <2>3. QED
    BY <2>1, <2>2 DEF Init, RequestTypeOK
<1>5. HistoryTypeOK
  BY EmptySeq DEF Init, HistoryTypeOK
<1>6. QED
  BY <1>1, <1>2, <1>3, <1>4, <1>5 DEF TypeOK

\* The packets a slot sends.
LEMMA SentType ==
    ASSUME toBroker \in Seq(Packets), NEW p \in Packets, SendBinaryMessage(p)
    PROVE  toBroker' \in Seq(Packets)
BY AppendProperties DEF SendBinaryMessage

\* The packet of the event at the head of the queue.
LEMMA ArgType ==
    ASSUME LinkTypeOK, NEW slot, Runs(slot)
    PROVE  /\ Arg \in Packets
           /\ slot = "parse" => Arg \in BrokerPackets
           /\ Tail(queue) \in Seq(Events)
<1>1. Head(queue) \in Events /\ Tail(queue) \in Seq(Events)
  BY HeadTailProperties DEF LinkTypeOK, Runs
<1>2. QED
  BY <1>1, BrokerPacketsArePackets DEF Events, Runs, Arg

\* The events a signal posts.
LEMMA PostType ==
    ASSUME NEW q \in Seq(Events), NEW slot, NEW p,
           [slot |-> slot, packet |-> p] \in Events, slots \in Nat
    PROVE  q \o Times(slots, [slot |-> slot, packet |-> p]) \in Seq(Events)
BY TimesType, ConcatProperties

LEMMA NextClientType ==
    ASSUME TypeOK, Next PROVE ClientTypeOK'
<1> USE DEF TypeOK
<1>1. CASE UserCall
  <2>1. CASE Connect
    BY <2>1 DEF Connect, MakeSignalSlotConnections, ClientTypeOK
  <2>2. CASE Disconnect
    BY <2>2 DEF Disconnect, CloseOrderly, ClientTypeOK
  <2>3. CASE Subscribe \/ Unsubscribe \/ PublishQoS1
    <3>1. PICK type : Request(type)
      BY <2>3 DEF Subscribe, Unsubscribe, PublishQoS1
    <3>2. made + 1 \in Requests
      BY <3>1, BoundsAssumption DEF Request, RequestTypeOK, Requests
    <3>3. QED
      BY <3>1, <3>2, NextIdType DEF Request, SendData, ClientTypeOK
  <2>4. CASE RejectTopic
    BY <2>4 DEF RejectTopic, ClientTypeOK
  <2>5. CASE PublishQoS0
    BY <2>5 DEF PublishQoS0, SendData, ClientTypeOK
  <2>6. QED
    BY <1>1, <2>1, <2>2, <2>3, <2>4, <2>5 DEF UserCall
<1>2. CASE EventLoop
  <2>1. CASE OnConnackReceived
    <3>1. CASE StartKeepAlive
      BY <2>1, <3>1 DEF OnConnackReceived, StartKeepAlive, ClientTypeOK, TimerIntervals
    <3>2. CASE UNCHANGED <<pongReceived, pingTimer>>
      BY <2>1, <3>2 DEF OnConnackReceived, ClientTypeOK
    <3>3. QED
      BY <2>1, <3>1, <3>2 DEF OnConnackReceived
  <2>2. CASE OnSubackReceived \/ OnUnsubackReceived \/ OnPubAckReceived
    <3>1. PICK result : Complete(result)
      BY <2>2 DEF OnSubackReceived, OnUnsubackReceived, OnPubAckReceived
    <3>2. subscribeCallbacks' \in [Ids -> Requests \cup {NoRequest}]
      BY <3>1 DEF Complete, RemoveCallback, ClientTypeOK
    <3>3. QED
      BY <3>1, <3>2 DEF Complete, ClientTypeOK
  <2>3. CASE OnPublishReceived \/ OnPubRelReceived
    BY <2>3 DEF OnPublishReceived, OnPubRelReceived, SendData, ClientTypeOK
  <2>4. CASE OnPongReceived \/ SendPing
    <3>1. pongReceived' \in BOOLEAN
      BY <2>4 DEF OnPongReceived, SendPing, ExpectPong, ClientTypeOK
    <3>2. pingTimer' \in [active : BOOLEAN, interval : TimerIntervals]
      BY <2>4 DEF OnPongReceived, SendPing, CloseOrderly, ClientTypeOK
    <3>3. QED
      BY <2>4, <3>1, <3>2 DEF OnPongReceived, SendPing, ClientTypeOK
  <2>5. CASE OnSocketConnected \/ Parse \/ ForwardError \/ RunImmediate \/ TimerTimeout
    BY <2>5 DEF OnSocketConnected, Parse, ForwardError, RunImmediate, TimerTimeout,
                ClientTypeOK
  <2>6. QED
    BY <1>2, <2>1, <2>2, <2>3, <2>4, <2>5 DEF EventLoop, RunSlot
<1>3. CASE Network \/ Broker
  <2>1. UNCHANGED <<clientVars, connectVars>>
    BY <1>3 DEF Network, SocketConnected, SocketError, SslErrors, SocketDisconnected,
         TextMessageReceived, BinaryMessageReceived, Broker, BrokerConnack,
         BrokerAnswers, BrokerPong, BrokerPubRel, Reply, BrokerIgnores,
         BrokerPublishes, BrokerBadFrame
  <2>2. QED
    BY <2>1 DEF ClientTypeOK
<1>4. QED
  BY <1>1, <1>2, <1>3 DEF Next

\* A broker packet that answers the packet being read.
LEMMA BrokerSideType ==
    ASSUME toBroker \in Seq(Packets), toBroker # <<>>
    PROVE  Asked \in Packets /\ Tail(toBroker) \in Seq(Packets)
BY HeadTailProperties DEF Asked

LEMMA ReplyType ==
    ASSUME LinkTypeOK, NEW p \in BrokerPackets, Reply(p), toBroker # <<>>
    PROVE  LinkTypeOK'
<1>1. toBroker' \in Seq(Packets)
  BY BrokerSideType DEF Reply, LinkTypeOK
<1>2. <<p, p>> \in Seq(BrokerPackets)
  OBVIOUS
<1>3. toClient' \in Seq(BrokerPackets)
  <2>1. Append(toClient, p) \in Seq(BrokerPackets)
    BY AppendProperties DEF LinkTypeOK
  <2>2. toClient \o <<p, p>> \in Seq(BrokerPackets)
    BY <1>2, ConcatProperties DEF LinkTypeOK
  <2>3. QED
    BY <2>1, <2>2 DEF Reply
<1>4. QED
  BY <1>1, <1>3 DEF Reply, LinkTypeOK

\* Client-built packets.
LEMMA PacketType ==
    ASSUME NEW t \in PacketTypes, NEW i \in Ids, NEW c \in Codes, NEW r \in Nat
    PROVE  /\ Packet(t, i, c, r) \in Packets
           /\ t \in DOMAIN SlotOf => Packet(t, i, c, r) \in BrokerPackets
BY DEF Packet, Packets, BrokerPackets

LEMMA ZeroId == 0 \in Ids
BY IdSpaceAssumption DEF Ids

\* The socket goes down or stays as it is.
LEMMA UnconnectType ==
    ASSUME LinkTypeOK, NEW earlier, Unconnect(earlier), queue' \in Seq(Events)
    PROVE  LinkTypeOK'
BY EmptySeq DEF Unconnect, OnDisconnected, LinkTypeOK, States, Sockets

LEMMA CloseType ==
    ASSUME LinkTypeOK, NEW earlier, CloseOrderly(earlier), queue' \in Seq(Events)
    PROVE  LinkTypeOK'
<1>1. CASE Unconnect(earlier)
  BY <1>1, UnconnectType
<1>2. CASE /\ state' = "DISCONNECTING"
           /\ socket' = IF socket = "unconnected" THEN socket ELSE "closing"
           /\ SendBinaryMessage(Bare("DISCONNECT"))
           /\ UNCHANGED toClient
  <2>1. toBroker' \in Seq(Packets)
    BY <1>2, SentType, BarePackets DEF LinkTypeOK, PacketTypes
  <2>2. QED
    BY <1>2, <2>1 DEF LinkTypeOK, States, Sockets
<1>3. QED
  BY <1>1, <1>2 DEF CloseOrderly

\* A slot that sends at most one packet.
LEMMA SendType ==
    ASSUME LinkTypeOK, NEW p \in Packets, SendBinaryMessage(p) \/ UNCHANGED toBroker,
           UNCHANGED <<state, socket, toClient>>, queue' \in Seq(Events)
    PROVE  LinkTypeOK'
BY SentType DEF LinkTypeOK

LEMMA UserLinkType ==
    ASSUME TypeOK, UserCall PROVE LinkTypeOK'
<1> USE DEF TypeOK
<1>1. CASE Connect
  BY <1>1, EmptySeq DEF Connect, LinkTypeOK, States, Sockets
<1>2. CASE Disconnect
  BY <1>2, CloseType DEF Disconnect, LinkTypeOK
<1>3. CASE Subscribe \/ Unsubscribe \/ PublishQoS1
  <2>1. PICK type \in PacketTypes : Request(type)
    BY <1>3 DEF Subscribe, Unsubscribe, PublishQoS1, PacketTypes, AnswerTo
  <2>2. Packet(type, NextId, "none", made + 1) \in Packets
    BY NextIdType, PacketType DEF ClientTypeOK, RequestTypeOK, Codes
  <2>3. QED
    BY <2>1, <2>2, SendType DEF Request, SendData, LinkTypeOK
<1>4. CASE RejectTopic
  BY <1>4 DEF RejectTopic, LinkTypeOK
<1>5. CASE PublishQoS0
  <2>1. Packet("PUBLISH", 0, "AT_MOST_ONCE", 0) \in Packets
    BY ZeroId, PacketType DEF PacketTypes, AnswerTo, Codes, QoSs
  <2>2. QED
    BY <1>5, <2>1, SendType DEF PublishQoS0, SendData, LinkTypeOK
<1>6. QED
  BY <1>1, <1>2, <1>3, <1>4, <1>5 DEF UserCall

LEMMA EventLinkType ==
    ASSUME TypeOK, EventLoop PROVE LinkTypeOK'
<1> USE DEF TypeOK
<1>1. CASE OnSocketConnected
  <2>1. Bare("CONNECT") \in Packets
    BY BarePackets DEF PacketTypes
  <2>2. QED
    BY <1>1, <2>1, SendType, ArgType DEF OnSocketConnected
<1>2. CASE Parse
  <2>1. Arg \in BrokerPackets /\ Tail(queue) \in Seq(Events)
    BY <1>2, ArgType DEF Parse
  <2>2. [slot |-> SlotOf[Arg.type], packet |-> Arg] \in Events
    BY <2>1, SlotNamesOfPackets, BrokerPacketsArePackets DEF Events, BrokerPackets
  <2>3. queue' \in Seq(Events)
    BY <1>2, <2>1, <2>2, PostType DEF Parse, ClientTypeOK
  <2>4. QED
    BY <1>2, <2>3 DEF Parse, LinkTypeOK
<1>3. CASE OnConnackReceived
  <2>1. queue' \in Seq(Events)
    BY <1>3, ArgType DEF OnConnackReceived
  <2>2. CASE UNCHANGED linkVars
    BY <2>1, <2>2 DEF LinkTypeOK
  <2>3. CASE \E earlier : Unconnect(earlier)
    BY <2>1, <2>3, UnconnectType
  <2>4. QED
    BY <1>3, <2>2, <2>3 DEF OnConnackReceived, Abort
<1>4. CASE OnSubackReceived \/ OnUnsubackReceived \/ OnPubAckReceived
  <2>1. queue' \in Seq(Events)
    BY <1>4, ArgType DEF OnSubackReceived, OnUnsubackReceived, OnPubAckReceived, Complete
  <2>2. QED
    BY <1>4, <2>1 DEF OnSubackReceived, OnUnsubackReceived, OnPubAckReceived, Complete,
                      LinkTypeOK
<1>5. CASE OnPublishReceived
  <2>1. Arg \in Packets /\ Tail(queue) \in Seq(Events)
    BY <1>5, ArgType DEF OnPublishReceived
  <2>2. \A c \in DOMAIN AckFor : Packet(AckFor[c], Arg.id, "none", Arg.ref) \in Packets
    <3>1. \A c \in DOMAIN AckFor : AckFor[c] \in PacketTypes
      BY DEF AckFor, PacketTypes, SlotOf
    <3>2. Arg.id \in Ids /\ Arg.ref \in Nat /\ "none" \in Codes
      BY <2>1 DEF Packets, Codes
    <3>3. QED
      BY <3>1, <3>2, PacketType
  <2>3. \/ \E p \in Packets : SendBinaryMessage(p)
        \/ UNCHANGED toBroker
    BY <1>5, <2>2 DEF OnPublishReceived, SendData
  <2>4. QED
    BY <1>5, <2>1, <2>3, SendType DEF OnPublishReceived
<1>6. CASE OnPubRelReceived
  <2>1. Arg \in Packets /\ Tail(queue) \in Seq(Events)
    BY <1>6, ArgType DEF OnPubRelReceived
  <2>2. Packet("PUBCOMP", Arg.id, "none", Arg.ref) \in Packets
    BY <2>1, PacketType DEF Packets, Codes, PacketTypes
  <2>3. QED
    BY <1>6, <2>1, <2>2, SendType DEF OnPubRelReceived, SendData
<1>7. CASE OnPongReceived \/ ForwardError \/ RunImmediate
  <2>1. queue' \in Seq(Events)
    BY <1>7, ArgType DEF OnPongReceived, ForwardError, RunImmediate, LinkTypeOK
  <2>2. QED
    BY <1>7, <2>1 DEF OnPongReceived, ForwardError, RunImmediate, LinkTypeOK
<1>8. CASE SendPing
  <2>1. queue' \in Seq(Events)
    BY <1>8, ArgType DEF SendPing
  <2>2. CASE \E earlier : CloseOrderly(earlier)
    BY <2>1, <2>2, CloseType
  <2>3. CASE SendBinaryMessage(Bare("PINGREQ")) /\ UNCHANGED <<state, socket, toClient>>
    <3>1. Bare("PINGREQ") \in Packets
      BY BarePackets DEF PacketTypes
    <3>2. QED
      BY <2>1, <2>3, <3>1, SendType
  <2>4. CASE UNCHANGED linkVars
    BY <2>1, <2>4 DEF LinkTypeOK
  <2>5. QED
    BY <1>8, <2>2, <2>3, <2>4 DEF SendPing
<1>9. CASE TimerTimeout
  <2>1. [slot |-> "sendPing", packet |-> Bare("NONE")] \in Events
    BY BarePackets DEF Events, SlotNames, PacketTypes
  <2>2. queue' \in Seq(Events)
    BY <1>9, <2>1, PostType DEF TimerTimeout, Post, LinkTypeOK, ClientTypeOK
  <2>3. QED
    BY <1>9, <2>2 DEF TimerTimeout, LinkTypeOK
<1>10. QED
  BY <1>1, <1>2, <1>3, <1>4, <1>5, <1>6, <1>7, <1>8, <1>9 DEF EventLoop, RunSlot

LEMMA NetworkLinkType ==
    ASSUME TypeOK, Network PROVE LinkTypeOK'
<1> USE DEF TypeOK
<1>1. CASE SocketConnected
  <2>1. [slot |-> "onSocketConnected", packet |-> Bare("NONE")] \in Events
    BY BarePackets DEF Events, SlotNames, PacketTypes
  <2>2. queue' \in Seq(Events)
    BY <1>1, <2>1, PostType DEF SocketConnected, Post, LinkTypeOK, ClientTypeOK
  <2>3. QED
    BY <1>1, <2>2 DEF SocketConnected, LinkTypeOK, Sockets
<1>2. CASE SocketError
  BY <1>2 DEF SocketError, OnFailed, LinkTypeOK, States, Sockets
<1>3. CASE SslErrors
  BY <1>3 DEF SslErrors, OnFailed, LinkTypeOK, States, Sockets
<1>4. CASE SocketDisconnected
  BY <1>4, UnconnectType DEF SocketDisconnected, LinkTypeOK
<1>5. CASE TextMessageReceived
  BY <1>5 DEF TextMessageReceived, LinkTypeOK
<1>6. CASE BinaryMessageReceived
  <2>1. Head(toClient) \in BrokerPackets /\ Tail(toClient) \in Seq(BrokerPackets)
    BY <1>6, HeadTailProperties DEF BinaryMessageReceived, LinkTypeOK
  <2>2. [slot |-> "parse", packet |-> Head(toClient)] \in Events
    BY <2>1 DEF Events
  <2>3. queue' \in Seq(Events)
    BY <1>6, <2>2, PostType DEF BinaryMessageReceived, Post, LinkTypeOK, ClientTypeOK
  <2>4. QED
    BY <1>6, <2>1, <2>3 DEF BinaryMessageReceived, LinkTypeOK
<1>7. QED
  BY <1>1, <1>2, <1>3, <1>4, <1>5, <1>6 DEF Network

LEMMA BrokerLinkType ==
    ASSUME TypeOK, Broker PROVE LinkTypeOK'
<1> USE DEF TypeOK
<1>1. CASE BrokerConnack
  <2>1. PICK code \in {"accepted", "refused"} : Reply(Packet("CONNACK", 0, code, 0))
    BY <1>1 DEF BrokerConnack
  <2>2. Packet("CONNACK", 0, code, 0) \in BrokerPackets
    BY ZeroId, PacketType DEF PacketTypes, SlotOf, Codes
  <2>3. QED
    BY <1>1, <2>1, <2>2, ReplyType DEF BrokerConnack, BrokerReads
<1>2. CASE BrokerAnswers
  <2>1. PICK type \in DOMAIN AnswerTo, code \in {"granted", "failed"} :
           BrokerReads(type) /\ Reply(Packet(AnswerTo[type], Asked.id, code, Asked.ref))
    BY <1>2 DEF BrokerAnswers
  <2>2. Asked \in Packets
    BY <2>1, BrokerSideType DEF BrokerReads, LinkTypeOK
  <2>3. AnswerTo[type] \in DOMAIN SlotOf
    BY <2>1 DEF AnswerTo, SlotOf
  <2>4. Packet(AnswerTo[type], Asked.id, code, Asked.ref) \in BrokerPackets
    BY <2>2, <2>3, PacketType, SlotNamesOfPackets DEF Packets, Codes
  <2>5. QED
    BY <2>1, <2>4, ReplyType DEF BrokerReads
<1>3. CASE BrokerPong
  <2>1. Bare("PINGRESP") \in BrokerPackets
    BY BarePackets DEF SlotOf
  <2>2. QED
    BY <1>3, <2>1, ReplyType DEF BrokerPong, BrokerReads
<1>4. CASE BrokerPubRel
  <2>1. Asked \in Packets
    BY <1>4, BrokerSideType DEF BrokerPubRel, BrokerReads, LinkTypeOK
  <2>2. Packet("PUBREL", Asked.id, "none", Asked.ref) \in BrokerPackets
    BY <2>1, PacketType DEF Packets, Codes, PacketTypes, SlotOf
  <2>3. QED
    BY <1>4, <2>2, ReplyType DEF BrokerPubRel, BrokerReads
<1>5. CASE BrokerIgnores
  BY <1>5, BrokerSideType DEF BrokerIgnores, LinkTypeOK
<1>6. CASE BrokerPublishes
  <2>1. PICK qos \in QoSs, id \in Ids, m \in Nat :
           toClient' = Append(toClient, Packet("PUBLISH", id, qos, m))
    <3>1. \A m \in Nat : m % IdSpace \in Ids
      BY IdSpaceAssumption DEF Ids
    <3>2. Len(published) + 1 \in Nat
      BY LenProperties DEF BrokerTypeOK
    <3>3. QED
      BY <1>6, <3>1, <3>2, ZeroId DEF BrokerPublishes
  <2>2. Packet("PUBLISH", id, qos, m) \in BrokerPackets
    BY PacketType DEF PacketTypes, SlotOf, Codes
  <2>3. toClient' \in Seq(BrokerPackets)
    BY <2>1, <2>2, AppendProperties DEF LinkTypeOK
  <2>4. QED
    BY <1>6, <2>3 DEF BrokerPublishes, LinkTypeOK
<1>7. CASE BrokerBadFrame
  <2>1. Bare("MALFORMED") \in BrokerPackets
    BY BarePackets DEF SlotOf
  <2>2. toClient' \in Seq(BrokerPackets)
    BY <1>7, <2>1, AppendProperties DEF BrokerBadFrame, LinkTypeOK
  <2>3. QED
    BY <1>7, <2>2 DEF BrokerBadFrame, LinkTypeOK
<1>8. QED
  BY <1>1, <1>2, <1>3, <1>4, <1>5, <1>6, <1>7 DEF Broker

LEMMA NextBrokerType ==
    ASSUME TypeOK, Next PROVE BrokerTypeOK'
<1> USE DEF TypeOK
<1>1. CASE UserCall
  BY <1>1 DEF UserCall, Connect, Disconnect, Subscribe, Unsubscribe, PublishQoS1, Request,
              RejectTopic, PublishQoS0, BrokerTypeOK
<1>2. CASE EventLoop
  BY <1>2 DEF EventLoop, RunSlot, OnSocketConnected, Parse, ForwardError, OnConnackReceived,
       OnSubackReceived, OnUnsubackReceived, OnPubAckReceived, Complete, OnPublishReceived,
       OnPubRelReceived, OnPongReceived, SendPing, RunImmediate, TimerTimeout, BrokerTypeOK
<1>3. CASE Network
  BY <1>3 DEF Network, SocketConnected, SocketError, SslErrors, SocketDisconnected,
       TextMessageReceived, BinaryMessageReceived, BrokerTypeOK
<1>4. CASE BrokerConnack \/ BrokerPong \/ BrokerPubRel \/ BrokerIgnores \/ BrokerBadFrame
  BY <1>4 DEF BrokerConnack, BrokerPong, BrokerPubRel, Reply, BrokerIgnores,
       BrokerBadFrame, BrokerTypeOK
<1>5. CASE BrokerAnswers
  <2>1. PICK code \in {"granted", "failed"} : answers' = [answers EXCEPT ![Asked.ref] = code]
    BY <1>5 DEF BrokerAnswers
  <2>2. answers' \in [Requests -> {"none", "granted", "failed"}]
    BY <2>1 DEF BrokerTypeOK
  <2>3. QED
    BY <1>5, <2>2 DEF BrokerAnswers, Reply, BrokerTypeOK
<1>6. CASE BrokerPublishes
  <2>1. PICK qos \in QoSs : published' = Append(published, [qos |-> qos, conn |-> conn])
    BY <1>6 DEF BrokerPublishes
  <2>2. published' \in Seq([qos : QoSs, conn : Nat])
    BY <2>1, AppendProperties DEF BrokerTypeOK, ClientTypeOK
  <2>3. QED
    BY <1>6, <2>2 DEF BrokerPublishes, BrokerTypeOK
<1>7. QED
  BY <1>1, <1>2, <1>3, <1>4, <1>5, <1>6 DEF Next, Broker

LEMMA NextRequestType ==
    ASSUME TypeOK, Next PROVE RequestTypeOK'
<1> USE DEF TypeOK
<1>1. CASE Subscribe \/ Unsubscribe \/ PublishQoS1
  BY <1>1, BoundsAssumption DEF Subscribe, Unsubscribe, PublishQoS1, Request, RequestTypeOK
<1>2. CASE RejectTopic
  <2>1. made + 1 \in Requests /\ made' \in 0 .. MaxRequests
    BY <1>2, BoundsAssumption DEF RejectTopic, RequestTypeOK, Requests
  <2>2. immediates' \subseteq [request : Requests, result : BOOLEAN]
    <3>1. [request |-> made + 1, result |-> FALSE] \in [request : Requests, result : BOOLEAN]
      BY <2>1
    <3>2. immediates' = immediates \cup {[request |-> made + 1, result |-> FALSE]}
      BY <1>2 DEF RejectTopic, SetImmediate
    <3>3. QED
      BY <3>1, <3>2 DEF RequestTypeOK
  <2>3. QED
    BY <1>2, <2>1, <2>2 DEF RejectTopic, RequestTypeOK
<1>3. CASE \E result \in BOOLEAN : Complete(result) /\ Arg \in Packets
  <2>1. PICK result \in BOOLEAN : Complete(result) /\ Arg \in Packets
    BY <1>3
  <2>2. CASE subscribeCallbacks[Arg.id] # NoRequest
    <3>1. subscribeCallbacks[Arg.id] \in Requests
      BY <2>1, <2>2 DEF ClientTypeOK, Packets
    <3>2. immediates' = immediates \cup {[request |-> subscribeCallbacks[Arg.id], result |-> result]}
      BY <2>1, <2>2 DEF Complete, SetImmediate
    <3>3. QED
      BY <2>1, <3>1, <3>2 DEF Complete, RequestTypeOK
  <2>3. CASE subscribeCallbacks[Arg.id] = NoRequest
    BY <2>1, <2>3 DEF Complete, RequestTypeOK
  <2>4. QED
    BY <2>2, <2>3
<1>4. CASE OnSubackReceived \/ OnUnsubackReceived \/ OnPubAckReceived
  <2>1. Arg \in Packets
    BY <1>4, ArgType DEF OnSubackReceived, OnUnsubackReceived, OnPubAckReceived
  <2>2. QED
    BY <1>3, <1>4, <2>1 DEF OnSubackReceived, OnUnsubackReceived, OnPubAckReceived
<1>5. CASE RunImmediate
  <2>1. PICK i \in immediates :
           /\ immediates' = immediates \ {i}
           /\ results' = [results EXCEPT ![i.request] = Append(results[i.request], i.result)]
           /\ made' = made
    BY <1>5 DEF RunImmediate
  <2>2. i.request \in Requests /\ i.result \in BOOLEAN
    BY DEF RequestTypeOK
  <2>3. Append(results[i.request], i.result) \in Seq(BOOLEAN)
    BY <2>2, AppendProperties DEF RequestTypeOK
  <2>4. QED
    BY <2>1, <2>2, <2>3 DEF RequestTypeOK
<1>6. CASE UNCHANGED requestVars
  BY <1>6 DEF RequestTypeOK
<1>7. CASE Connect \/ Disconnect \/ PublishQoS0
  BY <1>6, <1>7 DEF Connect, Disconnect, PublishQoS0
<1>8. CASE OnSocketConnected \/ Parse \/ ForwardError \/ OnConnackReceived
           \/ OnPublishReceived \/ OnPubRelReceived \/ OnPongReceived \/ SendPing \/ TimerTimeout
  BY <1>6, <1>8 DEF OnSocketConnected, Parse, ForwardError, OnConnackReceived,
       OnPublishReceived, OnPubRelReceived, OnPongReceived, SendPing, TimerTimeout
<1>9. CASE Network \/ Broker
  BY <1>6, <1>9 DEF Network, SocketConnected, SocketError, SslErrors, SocketDisconnected,
       TextMessageReceived, BinaryMessageReceived, Broker, BrokerConnack, BrokerAnswers,
       BrokerPong, BrokerPubRel, Reply, BrokerIgnores, BrokerPublishes, BrokerBadFrame
<1>10. QED
  BY <1>1, <1>2, <1>4, <1>5, <1>7, <1>8, <1>9 DEF Next, UserCall, EventLoop, RunSlot

\* What the lambdas and the slots emit.
LEMMA EmittedType ==
    ASSUME TypeOK, Next PROVE emitted' \in Seq(Signals)
<1> USE DEF TypeOK, Signals
<1>1. /\ <<>> \in Seq(Signals)
      /\ \A s \in Signals : <<s>> \in Seq(Signals) /\ Signal(s) \in Seq(Signals)
  <2>1. ASSUME NEW s \in Signals PROVE Signal(s) \in Seq(Signals)
    BY TimesType DEF Signal, ClientTypeOK
  <2>2. QED
    BY <2>1, EmptySeq
<1>2. ASSUME NEW earlier \in Seq(Signals), Unconnect(earlier)
      PROVE  emitted' \in Seq(Signals)
  BY <1>1, <1>2, ConcatProperties DEF Unconnect, OnDisconnected
<1>3. CASE UserCall
  <2>1. CASE Connect
    <3>1. slots' \in Nat
      BY <2>1 DEF Connect, MakeSignalSlotConnections, ClientTypeOK
    <3>2. Times(slots', "CONNECTION_FAILED") \in Seq(Signals)
      BY <3>1, TimesType
    <3>3. QED
      BY <2>1, <1>1, <3>2 DEF Connect
  <2>2. CASE Disconnect
    BY <2>2, <1>1, <1>2 DEF Disconnect, CloseOrderly
  <2>3. CASE Subscribe \/ Unsubscribe \/ PublishQoS1 \/ RejectTopic \/ PublishQoS0
    BY <2>3, <1>1 DEF Subscribe, Unsubscribe, PublishQoS1, Request, RejectTopic, PublishQoS0
  <2>4. QED
    BY <1>3, <2>1, <2>2, <2>3 DEF UserCall
<1>4. CASE EventLoop
  <2>1. CASE OnConnackReceived
    BY <2>1, <1>1, <1>2 DEF OnConnackReceived, Abort, AnnounceConnected
  <2>2. CASE SendPing
    BY <2>2, <1>1, <1>2 DEF SendPing, CloseOrderly
  <2>3. CASE OnSocketConnected \/ Parse \/ ForwardError \/ OnSubackReceived
             \/ OnUnsubackReceived \/ OnPubAckReceived
    BY <2>3, <1>1 DEF OnSocketConnected, Parse, ForwardError, OnSubackReceived,
         OnUnsubackReceived, OnPubAckReceived, Complete
  <2>4. CASE OnPublishReceived \/ OnPubRelReceived \/ OnPongReceived
             \/ RunImmediate \/ TimerTimeout
    BY <2>4, <1>1 DEF OnPublishReceived, OnPubRelReceived, OnPongReceived, RunImmediate,
         TimerTimeout
  <2>5. QED
    BY <1>4, <2>1, <2>2, <2>3, <2>4 DEF EventLoop, RunSlot
<1>5. CASE Network
  BY <1>5, <1>1, <1>2 DEF Network, SocketConnected, SocketError, SslErrors, OnFailed,
       SocketDisconnected, TextMessageReceived, BinaryMessageReceived
<1>6. CASE Broker
  BY <1>6, <1>1 DEF Broker, BrokerConnack, BrokerAnswers, BrokerPong, BrokerPubRel, Reply,
       BrokerIgnores, BrokerPublishes, BrokerBadFrame
<1>7. QED
  BY <1>3, <1>4, <1>5, <1>6 DEF Next

LEMMA NextHistoryType ==
    ASSUME TypeOK, Next PROVE HistoryTypeOK'
<1> USE DEF TypeOK
<1>1. announced' \in Nat /\ unanswered' \in Nat
  <2>1. CASE Connect \/ OnConnackReceived \/ OnPongReceived \/ SendPing
    BY <2>1 DEF Connect, OnConnackReceived, AnnounceConnected, OnPongReceived, SendPing,
         HistoryTypeOK
  <2>2. CASE UNCHANGED countVars
    BY <2>2 DEF HistoryTypeOK
  <2>3. CASE UserCall
    BY <2>1, <2>2, <2>3 DEF UserCall, Disconnect, Subscribe, Unsubscribe, PublishQoS1,
         Request, RejectTopic, PublishQoS0
  <2>4. CASE EventLoop
    BY <2>1, <2>2, <2>4 DEF EventLoop, RunSlot, OnSocketConnected, Parse, ForwardError,
         OnSubackReceived, OnUnsubackReceived, OnPubAckReceived, Complete,
         OnPublishReceived, OnPubRelReceived, RunImmediate, TimerTimeout
  <2>5. CASE Network \/ Broker
    BY <2>2, <2>5 DEF Network, SocketConnected, SocketError, SslErrors,
         SocketDisconnected, TextMessageReceived, BinaryMessageReceived, Broker,
         BrokerConnack, BrokerAnswers, BrokerPong, BrokerPubRel, Reply, BrokerIgnores,
         BrokerPublishes, BrokerBadFrame
  <2>6. QED
    BY <2>3, <2>4, <2>5 DEF Next
<1>2. delivered' \in Seq(Nat)
  <2>1. CASE OnPublishReceived
    <3>1. Arg.ref \in Nat
      BY <2>1, ArgType DEF OnPublishReceived, Packets
    <3>2. QED
      BY <2>1, <3>1, AppendProperties DEF OnPublishReceived, HistoryTypeOK
  <2>2. CASE ~ OnPublishReceived
    BY <2>2 DEF Next, UserCall, Connect, Disconnect, Subscribe, Unsubscribe, PublishQoS1,
         Request, RejectTopic, PublishQoS0, EventLoop, RunSlot, OnSocketConnected, Parse,
         ForwardError, OnConnackReceived, OnSubackReceived, OnUnsubackReceived,
         OnPubAckReceived, Complete, OnPubRelReceived, OnPongReceived, SendPing,
         RunImmediate, TimerTimeout, Network, SocketConnected, SocketError, SslErrors,
         SocketDisconnected, TextMessageReceived, BinaryMessageReceived, Broker,
         BrokerConnack, BrokerAnswers, BrokerPong, BrokerPubRel, Reply, BrokerIgnores,
         BrokerPublishes, BrokerBadFrame, HistoryTypeOK
  <2>3. QED
    BY <2>1, <2>2
<1>3. QED
  BY <1>1, <1>2, EmittedType DEF HistoryTypeOK

LEMMA TypeStep == TypeOK /\ [Next]_vars => TypeOK'
<1>1. CASE TypeOK /\ Next
  <2>1. LinkTypeOK'
    BY <1>1, UserLinkType, EventLinkType, NetworkLinkType, BrokerLinkType DEF Next
  <2>2. QED
    BY <1>1, <2>1, NextClientType, NextBrokerType, NextRequestType, NextHistoryType DEF TypeOK
<1>2. CASE TypeOK /\ UNCHANGED vars
  BY <1>2 DEF TypeOK, ClientTypeOK, LinkTypeOK, BrokerTypeOK, RequestTypeOK, HistoryTypeOK
<1>3. QED
  BY <1>1, <1>2

\* Every variable keeps its type: identifiers stay within the uint16_t, the parser
\* only ever sees frames it dispatches, and every callback names a request.
THEOREM TypeCorrect == Spec => []TypeOK
BY TypeInit, TypeStep, PTL DEF Spec

-----------------------------------------------------------------------------
(* A callback is called at most once *)

\* OnePlacePerCallback is inductive relative to the types: CallbackAtMostOnce alone is
\* not, for it says nothing of a callback that is both in the map and on the event loop.

LEMMA PlacesInit == Init => OnePlacePerCallback
<1> SUFFICES ASSUME Init PROVE OnePlacePerCallback
  OBVIOUS
<1>1. \A r \in Requests : results[r] = <<>>
  BY DEF Init
<1>2. \A i \in Ids : subscribeCallbacks[i] = NoRequest
  BY DEF Init
<1>3. immediates = {}
  BY DEF Init
<1>4. CallbackAtMostOnce
  BY <1>1, EmptySeq DEF CallbackAtMostOnce
<1>5. QED
  BY <1>1, <1>2, <1>3, <1>4 DEF OnePlacePerCallback

\* A new request takes an identifier, and the place of whatever request had it.
LEMMA RequestPlaces ==
    ASSUME TypeOK, OnePlacePerCallback, NEW type, Request(type)
    PROVE  OnePlacePerCallback'
<1> DEFINE r == made + 1
<1>1. r \in Requests /\ NextId \in Ids /\ r # NoRequest
  BY NextIdType, BoundsAssumption
     DEF Request, TypeOK, ClientTypeOK, RequestTypeOK, Requests, NoRequest
<1>2. /\ subscribeCallbacks' = [subscribeCallbacks EXCEPT ![NextId] = r]
      /\ subscribeCallbacks \in [Ids -> Requests \cup {NoRequest}]
      /\ made' = r /\ made \in Nat /\ UNCHANGED <<immediates, results>>
  BY BoundsAssumption DEF Request, TypeOK, ClientTypeOK, RequestTypeOK
<1>3. /\ results[r] = <<>>
      /\ \A m \in immediates : m.request # r
      /\ \A i \in Ids : subscribeCallbacks[i] # r
  <2>1. r > made
    BY <1>2
  <2>2. QED
    BY <1>1, <1>2, <2>1 DEF OnePlacePerCallback, TypeOK, RequestTypeOK, Requests, NoRequest
<1>4. ASSUME NEW i \in Ids, subscribeCallbacks'[i] # NoRequest
      PROVE  /\ subscribeCallbacks'[i] <= made'
             /\ results'[subscribeCallbacks'[i]] = <<>>
             /\ \A m \in immediates' : m.request # subscribeCallbacks'[i]
             /\ \A j \in Ids : subscribeCallbacks'[j] = subscribeCallbacks'[i] => j = i
  <2>1. CASE i = NextId
    BY <1>1, <1>2, <1>3, <2>1
  <2>2. CASE i # NextId
    BY <1>1, <1>2, <1>3, <1>4, <2>2 DEF OnePlacePerCallback, Requests, NoRequest
  <2>3. QED
    BY <2>1, <2>2
<1>5. /\ \A m \in immediates' :
            /\ m.request <= made'
            /\ results'[m.request] = <<>>
            /\ \A n \in immediates' : n.request = m.request => n = m
      /\ \A q \in Requests : q > made' => results'[q] = <<>>
  BY <1>2 DEF OnePlacePerCallback, TypeOK, RequestTypeOK, Requests
<1>6. CallbackAtMostOnce'
  BY <1>2 DEF OnePlacePerCallback, CallbackAtMostOnce
<1>7. QED
  BY <1>4, <1>5, <1>6 DEF OnePlacePerCallback

\* A rejected topic schedules the callback of a new request.
LEMMA RejectPlaces ==
    ASSUME TypeOK, OnePlacePerCallback, RejectTopic
    PROVE  OnePlacePerCallback'
<1> DEFINE r == made + 1
           new == [request |-> r, result |-> FALSE]
<1>1. r \in Requests /\ made \in Nat
  BY BoundsAssumption DEF RejectTopic, TypeOK, RequestTypeOK, Requests
<1>2. /\ immediates' = immediates \cup {new}
      /\ made' = r /\ UNCHANGED <<subscribeCallbacks, results>>
  BY DEF RejectTopic, SetImmediate
<1>3. /\ results[r] = <<>>
      /\ \A m \in immediates : m.request # r
      /\ \A i \in Ids : subscribeCallbacks[i] # r
  <2>1. r > made
    BY <1>1
  <2>2. QED
    BY <1>1, <2>1 DEF OnePlacePerCallback, TypeOK, RequestTypeOK, Requests, NoRequest
<1>4. ASSUME NEW i \in Ids, subscribeCallbacks'[i] # NoRequest
      PROVE  /\ subscribeCallbacks'[i] <= made'
             /\ results'[subscribeCallbacks'[i]] = <<>>
             /\ \A m \in immediates' : m.request # subscribeCallbacks'[i]
             /\ \A j \in Ids : subscribeCallbacks'[j] = subscribeCallbacks'[i] => j = i
  <2>1. subscribeCallbacks[i] \in Nat
    BY <1>2, <1>4 DEF TypeOK, ClientTypeOK, Requests, NoRequest
  <2>2. QED
    BY <1>1, <1>2, <1>3, <1>4, <2>1 DEF OnePlacePerCallback
<1>5. ASSUME NEW m \in immediates'
      PROVE  /\ m.request <= made'
             /\ results'[m.request] = <<>>
             /\ \A n \in immediates' : n.request = m.request => n = m
  <2>1. CASE m = new
    BY <1>1, <1>2, <1>3, <2>1
  <2>2. CASE m \in immediates
    <3>1. m.request <= made /\ m.request \in Nat /\ m.request # r
      BY <1>3, <2>2 DEF OnePlacePerCallback, TypeOK, RequestTypeOK, Requests
    <3>2. QED
      BY <1>1, <1>2, <2>2, <3>1 DEF OnePlacePerCallback
  <2>3. QED
    BY <1>2, <1>5, <2>1, <2>2
<1>6. \A q \in Requests : q > made' => results'[q] = <<>>
  BY <1>1, <1>2 DEF OnePlacePerCallback, Requests
<1>7. CallbackAtMostOnce'
  BY <1>2 DEF OnePlacePerCallback, CallbackAtMostOnce
<1>8. QED
  BY <1>4, <1>5, <1>6, <1>7 DEF OnePlacePerCallback

\* An acknowledgement moves a callback from the map to the event loop.
LEMMA CompletePlaces ==
    ASSUME TypeOK, OnePlacePerCallback, NEW result, Complete(result), Arg.id \in Ids
    PROVE  OnePlacePerCallback'
<1> DEFINE r == subscribeCallbacks[Arg.id]
           new == [request |-> r, result |-> result]
<1>1. CASE UNCHANGED <<subscribeCallbacks, immediates>>
  BY <1>1 DEF Complete, OnePlacePerCallback, CallbackAtMostOnce
<1>2. CASE /\ r # NoRequest
           /\ immediates' = immediates \cup {new}
           /\ subscribeCallbacks' = [subscribeCallbacks EXCEPT ![Arg.id] = NoRequest]
  <2>1. UNCHANGED <<results, made>>
    BY DEF Complete
  <2>2. /\ r <= made /\ results[r] = <<>>
        /\ \A m \in immediates : m.request # r
        /\ \A j \in Ids : subscribeCallbacks[j] = r => j = Arg.id
    BY <1>2 DEF OnePlacePerCallback
  <2>3. \A i \in Ids : subscribeCallbacks'[i] # NoRequest =>
           /\ i # Arg.id /\ subscribeCallbacks'[i] = subscribeCallbacks[i]
           /\ subscribeCallbacks[i] # r
    BY <1>2, <2>2 DEF TypeOK, ClientTypeOK
  <2>4. ASSUME NEW i \in Ids, subscribeCallbacks'[i] # NoRequest
        PROVE  /\ subscribeCallbacks'[i] <= made'
               /\ results'[subscribeCallbacks'[i]] = <<>>
               /\ \A m \in immediates' : m.request # subscribeCallbacks'[i]
               /\ \A j \in Ids : subscribeCallbacks'[j] = subscribeCallbacks'[i] => j = i
    BY <1>2, <2>1, <2>3, <2>4 DEF OnePlacePerCallback
  <2>5. ASSUME NEW m \in immediates'
        PROVE  /\ m.request <= made'
               /\ results'[m.request] = <<>>
               /\ \A n \in immediates' : n.request = m.request => n = m
    BY <1>2, <2>1, <2>2 DEF OnePlacePerCallback
  <2>6. QED
    BY <2>1, <2>4, <2>5 DEF OnePlacePerCallback, CallbackAtMostOnce
<1>3. QED
  BY <1>1, <1>2 DEF Complete, SetImmediate, RemoveCallback

\* The event loop calls a callback that was due.
LEMMA RunPlaces ==
    ASSUME TypeOK, OnePlacePerCallback, RunImmediate
    PROVE  OnePlacePerCallback'
<1>1. PICK i \in immediates :
         /\ immediates' = immediates \ {i}
         /\ results' = [results EXCEPT ![i.request] = Append(results[i.request], i.result)]
         /\ UNCHANGED <<made, subscribeCallbacks>>
  BY DEF RunImmediate
<1>2. /\ i.request \in Requests /\ i.result \in BOOLEAN /\ i.request <= made
      /\ results[i.request] = <<>>
      /\ \A m \in immediates' : m \in immediates /\ m.request # i.request
  BY <1>1 DEF OnePlacePerCallback, TypeOK, RequestTypeOK
<1>3. \A r \in Requests : r # i.request => results'[r] = results[r]
  BY <1>1 DEF TypeOK, RequestTypeOK
<1>4. Len(results'[i.request]) <= 1
  BY <1>1, <1>2, EmptySeq, AppendProperties DEF TypeOK, RequestTypeOK
<1>5. ASSUME NEW j \in Ids, subscribeCallbacks'[j] # NoRequest
      PROVE  /\ subscribeCallbacks'[j] <= made'
             /\ results'[subscribeCallbacks'[j]] = <<>>
             /\ \A m \in immediates' : m.request # subscribeCallbacks'[j]
             /\ \A k \in Ids : subscribeCallbacks'[k] = subscribeCallbacks'[j] => k = j
  <2>1. subscribeCallbacks[j] \in Requests /\ subscribeCallbacks[j] # i.request
    BY <1>1, <1>5 DEF OnePlacePerCallback, TypeOK, ClientTypeOK
  <2>2. QED
    BY <1>1, <1>2, <1>3, <1>5, <2>1 DEF OnePlacePerCallback
<1>6. ASSUME NEW m \in immediates'
      PROVE  /\ m.request <= made'
             /\ results'[m.request] = <<>>
             /\ \A n \in immediates' : n.request = m.request => n = m
  <2>1. m.request \in Requests
    BY <1>2 DEF TypeOK, RequestTypeOK
  <2>2. QED
    BY <1>1, <1>2, <1>3, <2>1 DEF OnePlacePerCallback
<1>7. \A r \in Requests : r > made' => results'[r] = <<>>
  <2>1. made \in Nat /\ i.request \in Nat
    BY <1>2, BoundsAssumption DEF TypeOK, RequestTypeOK, Requests
  <2>2. QED
    BY <1>1, <1>2, <1>3, <2>1 DEF OnePlacePerCallback, Requests
<1>8. CallbackAtMostOnce'
  BY <1>3, <1>4 DEF OnePlacePerCallback, CallbackAtMostOnce
<1>9. QED
  BY <1>5, <1>6, <1>7, <1>8 DEF OnePlacePerCallback

LEMMA PlacesUnchanged ==
    ASSUME OnePlacePerCallback, UNCHANGED <<requestVars, subscribeCallbacks>>
    PROVE  OnePlacePerCallback'
BY DEF OnePlacePerCallback, CallbackAtMostOnce

LEMMA PlacesStep == TypeOK /\ OnePlacePerCallback /\ [Next]_vars => OnePlacePerCallback'
<1> SUFFICES ASSUME TypeOK, OnePlacePerCallback, [Next]_vars
             PROVE  OnePlacePerCallback'
  OBVIOUS
<1>1. CASE UserCall
  <2>1. CASE Subscribe \/ Unsubscribe \/ PublishQoS1
    BY <2>1, RequestPlaces DEF Subscribe, Unsubscribe, PublishQoS1
  <2>2. CASE RejectTopic
    BY <2>2, RejectPlaces
  <2>3. CASE Connect \/ Disconnect \/ PublishQoS0
    BY <2>3, PlacesUnchanged DEF Connect, Disconnect, PublishQoS0
  <2>4. QED
    BY <1>1, <2>1, <2>2, <2>3 DEF UserCall
<1>2. CASE EventLoop
  <2>1. CASE OnSubackReceived \/ OnUnsubackReceived \/ OnPubAckReceived
    <3>1. PICK result : Complete(result)
      BY <2>1 DEF OnSubackReceived, OnUnsubackReceived, OnPubAckReceived
    <3>2. Arg.id \in Ids
      BY <2>1, ArgType
         DEF OnSubackReceived, OnUnsubackReceived, OnPubAckReceived, TypeOK, Packets
    <3>3. QED
      BY <3>1, <3>2, CompletePlaces
  <2>2. CASE RunImmediate
    BY <2>2, RunPlaces
  <2>3. CASE OnSocketConnected \/ Parse \/ ForwardError \/ OnConnackReceived
             \/ OnPublishReceived \/ OnPubRelReceived \/ OnPongReceived \/ SendPing
             \/ TimerTimeout
    BY <2>3, PlacesUnchanged
       DEF OnSocketConnected, Parse, ForwardError, OnConnackReceived, OnPublishReceived,
           OnPubRelReceived, OnPongReceived, SendPing, TimerTimeout
  <2>4. QED
    BY <1>2, <2>1, <2>2, <2>3 DEF EventLoop, RunSlot
<1>3. CASE Network
  BY <1>3, PlacesUnchanged
     DEF Network, SocketConnected, SocketError, SslErrors, SocketDisconnected,
         TextMessageReceived, BinaryMessageReceived
<1>4. CASE Broker
  BY <1>4, PlacesUnchanged
     DEF Broker, BrokerConnack, BrokerAnswers, BrokerPong, BrokerPubRel, Reply,
         BrokerIgnores, BrokerPublishes, BrokerBadFrame
<1>5. CASE UNCHANGED vars
  BY <1>5, PlacesUnchanged
<1>6. QED
  BY <1>1, <1>2, <1>3, <1>4, <1>5 DEF Next

\* No callback is ever in two places, whatever the broker answers, however often the
\* connection is replaced, and even when packet identifiers wrap around.
THEOREM CallbackPlaces == Spec => []OnePlacePerCallback
BY TypeInit, TypeStep, PlacesInit, PlacesStep, PTL DEF Spec

=============================================================================
