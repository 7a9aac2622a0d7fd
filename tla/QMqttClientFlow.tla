---------------------------- MODULE QMqttClientFlow ----------------------------
(***************************************************************************)
(* What each step of QMqttClient does to the packets under way: between    *)
(* client and broker, and in the events posted to the thread.  The proofs  *)
(* about answers, sessions and messages rest on these lemmas.              *)
(***************************************************************************)
EXTENDS QMqttClientProofs

USE DEF vars, clientVars, connectVars, linkVars, brokerVars, requestVars, countVars

-----------------------------------------------------------------------------
(* The elements of a sequence *)

LEMMA RangeMember ==
    ASSUME NEW S, NEW s \in Seq(S), NEW x
    PROVE  x \in Range(s) <=> \E i \in 1 .. Len(s) : s[i] = x
BY LenProperties DEF Range

LEMMA RangeEmpty == Range(<<>>) = {}
BY DEF Range

LEMMA RangeTail ==
    ASSUME NEW S, NEW s \in Seq(S), s # <<>>
    PROVE  /\ Head(s) \in Range(s)
           /\ Range(Tail(s)) \subseteq Range(s)
           /\ Range(s) = {Head(s)} \cup Range(Tail(s))
<1>1. /\ Tail(s) \in Seq(S) /\ Len(s) \in Nat \ {0} /\ Len(Tail(s)) = Len(s) - 1
      /\ \A i \in 1 .. Len(Tail(s)) : Tail(s)[i] = s[i + 1]
  BY HeadTailProperties, EmptySeq
<1>2. Head(s) = s[1]
  OBVIOUS
<1>3. Head(s) \in Range(s)
  BY <1>1, <1>2, RangeMember
<1>4. ASSUME NEW x \in Range(Tail(s)) PROVE x \in Range(s)
  <2>1. PICK i \in 1 .. Len(Tail(s)) : Tail(s)[i] = x
    BY <1>1, RangeMember
  <2>2. i + 1 \in 1 .. Len(s) /\ s[i + 1] = x
    BY <1>1, <2>1
  <2>3. QED
    BY <2>2, RangeMember
<1>5. ASSUME NEW x \in Range(s), x # Head(s) PROVE x \in Range(Tail(s))
  <2>1. PICK i \in 1 .. Len(s) : s[i] = x
    BY RangeMember
  <2>2. i - 1 \in 1 .. Len(Tail(s)) /\ Tail(s)[i - 1] = x
    BY <1>1, <1>2, <1>5, <2>1
  <2>3. QED
    BY <1>1, <2>2, RangeMember
<1>6. QED
  BY <1>3, <1>4, <1>5

LEMMA RangeConcat ==
    ASSUME NEW S, NEW s \in Seq(S), NEW t \in Seq(S)
    PROVE  Range(s \o t) = Range(s) \cup Range(t)
<1>1. /\ s \o t \in Seq(S) /\ Len(s) \in Nat /\ Len(t) \in Nat
      /\ Len(s \o t) = Len(s) + Len(t)
      /\ \A i \in 1 .. Len(s) + Len(t) :
            (s \o t)[i] = IF i <= Len(s) THEN s[i] ELSE t[i - Len(s)]
  BY ConcatProperties, LenProperties
<1>2. ASSUME NEW x \in Range(s \o t) PROVE x \in Range(s) \cup Range(t)
  <2>1. PICK i \in 1 .. Len(s) + Len(t) : (s \o t)[i] = x
    BY <1>1, RangeMember
  <2>2. CASE i <= Len(s)
    BY <1>1, <2>1, <2>2, RangeMember
  <2>3. CASE i > Len(s)
    <3>1. i - Len(s) \in 1 .. Len(t) /\ t[i - Len(s)] = x
      BY <1>1, <2>1, <2>3
    <3>2. QED
      BY <3>1, RangeMember
  <2>4. QED
    BY <1>1, <2>1, <2>2, <2>3
<1>3. ASSUME NEW x \in Range(s) PROVE x \in Range(s \o t)
  <2>1. PICK i \in 1 .. Len(s) : s[i] = x
    BY RangeMember
  <2>2. i \in 1 .. Len(s \o t) /\ (s \o t)[i] = x
    BY <1>1, <2>1
  <2>3. QED
    BY <1>1, <2>2, RangeMember
<1>4. ASSUME NEW x \in Range(t) PROVE x \in Range(s \o t)
  <2>1. PICK i \in 1 .. Len(t) : t[i] = x
    BY RangeMember
  <2>2. i + Len(s) \in 1 .. Len(s \o t) /\ (s \o t)[i + Len(s)] = x
    BY <1>1, <2>1
  <2>3. QED
    BY <1>1, <2>2, RangeMember
<1>5. QED
  BY <1>2, <1>3, <1>4

LEMMA RangeSingle ==
    ASSUME NEW x
    PROVE  Range(<<x>>) = {x}
<1>1. <<x>> \in Seq({x}) /\ Len(<<x>>) = 1 /\ <<x>>[1] = x
  OBVIOUS
<1>2. \A y : y \in Range(<<x>>) <=> \E i \in 1 .. 1 : <<x>>[i] = y
  BY <1>1, RangeMember
<1>3. QED
  BY <1>1, <1>2

LEMMA RangeAppend ==
    ASSUME NEW S, NEW s \in Seq(S), NEW x \in S
    PROVE  Range(Append(s, x)) = Range(s) \cup {x}
<1>1. Append(s, x) = s \o <<x>> /\ <<x>> \in Seq(S)
  BY AppendIsConcat
<1>2. Range(<<x>>) = {x}
  BY RangeSingle
<1>3. Range(s \o <<x>>) = Range(s) \cup Range(<<x>>)
  BY <1>1, RangeConcat
<1>4. QED
  BY <1>1, <1>2, <1>3, Zenon

LEMMA RangeTimes ==
    ASSUME NEW n \in Nat, NEW x
    PROVE  Range(Times(n, x)) \subseteq {x}
BY DEF Range, Times

-----------------------------------------------------------------------------
(* The queue of posted events *)

\* The event whose slot is running.
LEMMA RunningEvent ==
    ASSUME TypeOK, NEW slot, Runs(slot)
    PROVE  /\ Head(queue) \in Range(queue)
           /\ Head(queue).slot = slot /\ Head(queue).packet = Arg
           /\ Range(Tail(queue)) \subseteq Range(queue)
           /\ Range(queue) = {Head(queue)} \cup Range(Tail(queue))
BY RangeTail DEF TypeOK, LinkTypeOK, Runs, Arg

LEMMA PostedEvents ==
    ASSUME NEW q \in Seq(Events), NEW e \in Events, slots \in Nat
    PROVE  Range(q \o Times(slots, e)) \subseteq Range(q) \cup {e}
BY TimesType, RangeConcat, RangeTimes

\* Where a posted event comes from.
NewEvent(e) ==
    \/ e = [slot |-> "onSocketConnected", packet |-> Bare("NONE")]
    \/ e = [slot |-> "sendPing", packet |-> Bare("NONE")]
    \/ BinaryMessageReceived /\ e = [slot |-> "parse", packet |-> Head(toClient)]
    \/ Parse /\ e = [slot |-> SlotOf[Arg.type], packet |-> Arg]

LEMMA QueueStep ==
    ASSUME TypeOK, Next, NEW e \in Range(queue')
    PROVE  e \in Range(queue) \/ NewEvent(e)
<1> USE DEF NewEvent
<1>1. queue \in Seq(Events) /\ slots \in Nat
  BY DEF TypeOK, LinkTypeOK, ClientTypeOK
<1>2. CASE UNCHANGED queue
  BY <1>2
<1>3. CASE UserCall
  BY <1>2, <1>3
     DEF UserCall, Connect, Disconnect, Subscribe, Unsubscribe, PublishQoS1, Request,
         RejectTopic, PublishQoS0
<1>4. CASE EventLoop
  <2>1. CASE \E slot : Runs(slot) /\ queue' = Tail(queue)
    BY <2>1, RunningEvent
  <2>2. CASE OnSocketConnected \/ ForwardError \/ OnConnackReceived
    BY <2>1, <2>2 DEF OnSocketConnected, ForwardError, OnConnackReceived
  <2>3. CASE OnSubackReceived \/ OnUnsubackReceived \/ OnPubAckReceived
    BY <2>1, <2>3 DEF OnSubackReceived, OnUnsubackReceived, OnPubAckReceived, Complete
  <2>4. CASE OnPublishReceived \/ OnPubRelReceived \/ OnPongReceived \/ SendPing
    BY <2>1, <2>4 DEF OnPublishReceived, OnPubRelReceived, OnPongReceived, SendPing
  <2>5. CASE Parse
    <3>1. Tail(queue) \in Seq(Events) /\ Arg \in BrokerPackets
      BY <2>5, ArgType DEF Parse, TypeOK
    <3>2. [slot |-> SlotOf[Arg.type], packet |-> Arg] \in Events
      BY <3>1, SlotNamesOfPackets, BrokerPacketsArePackets DEF Events, BrokerPackets
    <3>3. e \in Range(Tail(queue)) \/ e = [slot |-> SlotOf[Arg.type], packet |-> Arg]
      BY <1>1, <2>5, <3>1, <3>2, PostedEvents DEF Parse
    <3>4. Range(Tail(queue)) \subseteq Range(queue)
      BY <2>5, RunningEvent DEF Parse
    <3>5. QED
      BY <2>5, <3>3, <3>4
  <2>6. CASE RunImmediate
    BY <1>2, <2>6 DEF RunImmediate
  <2>7. CASE TimerTimeout
    <3>1. [slot |-> "sendPing", packet |-> Bare("NONE")] \in Events
      BY BarePackets DEF Events, SlotNames, PacketTypes
    <3>2. QED
      BY <1>1, <2>7, <3>1, PostedEvents DEF TimerTimeout, Post
  <2>8. QED
    BY <1>4, <2>2, <2>3, <2>4, <2>5, <2>6, <2>7 DEF EventLoop, RunSlot
<1>5. CASE Network
  <2>1. CASE SocketConnected
    <3>1. [slot |-> "onSocketConnected", packet |-> Bare("NONE")] \in Events
      BY BarePackets DEF Events, SlotNames, PacketTypes
    <3>2. QED
      BY <1>1, <2>1, <3>1, PostedEvents DEF SocketConnected, Post
  <2>2. CASE BinaryMessageReceived
    <3>1. Head(toClient) \in BrokerPackets
      BY <2>2, HeadTailProperties DEF BinaryMessageReceived, TypeOK, LinkTypeOK
    <3>2. [slot |-> "parse", packet |-> Head(toClient)] \in Events
      BY <3>1 DEF Events
    <3>3. queue' = queue \o Times(slots, [slot |-> "parse", packet |-> Head(toClient)])
      BY <2>2 DEF BinaryMessageReceived, Post
    <3>4. QED
      BY <1>1, <2>2, <3>2, <3>3, PostedEvents
  <2>3. CASE SocketError \/ SslErrors \/ SocketDisconnected \/ TextMessageReceived
    BY <1>2, <2>3 DEF SocketError, SslErrors, SocketDisconnected, TextMessageReceived
  <2>4. QED
    BY <1>5, <2>1, <2>2, <2>3 DEF Network
<1>6. CASE Broker
  BY <1>2, <1>6
     DEF Broker, BrokerConnack, BrokerAnswers, BrokerPong, BrokerPubRel, Reply,
         BrokerIgnores, BrokerPublishes, BrokerBadFrame
<1>7. QED
  BY <1>3, <1>4, <1>5, <1>6 DEF Next

\* A slot only ever gets the packet it is written for.
EventsDispatched ==
    \A e \in Range(queue) :
        \/ e.slot = "parse" /\ e.packet.type \in DOMAIN SlotOf
        \/ e.packet.type \in DOMAIN SlotOf /\ e.slot = SlotOf[e.packet.type]
        \/ e.slot \in {"onSocketConnected", "sendPing"} /\ e.packet.type = "NONE"

LEMMA DispatchInit == Init => EventsDispatched
BY RangeEmpty DEF Init, EventsDispatched

LEMMA DispatchStep == TypeOK /\ EventsDispatched /\ [Next]_vars => EventsDispatched'
<1>1. CASE TypeOK /\ EventsDispatched /\ UNCHANGED vars
  BY <1>1 DEF EventsDispatched
<1>2. ASSUME TypeOK, EventsDispatched, Next, NEW e \in Range(queue')
      PROVE  \/ e.slot = "parse" /\ e.packet.type \in DOMAIN SlotOf
             \/ e.packet.type \in DOMAIN SlotOf /\ e.slot = SlotOf[e.packet.type]
             \/ e.slot \in {"onSocketConnected", "sendPing"} /\ e.packet.type = "NONE"
  <2>1. CASE e \in Range(queue)
    BY <1>2, <2>1 DEF EventsDispatched
  <2>2. CASE \E slot : e = [slot |-> slot, packet |-> Bare("NONE")]
                       /\ slot \in {"onSocketConnected", "sendPing"}
    BY <2>2 DEF Bare, Packet
  <2>3. CASE BinaryMessageReceived /\ e = [slot |-> "parse", packet |-> Head(toClient)]
    <3>1. Head(toClient) \in BrokerPackets
      BY <1>2, <2>3, HeadTailProperties DEF BinaryMessageReceived, TypeOK, LinkTypeOK
    <3>2. QED
      BY <2>3, <3>1 DEF BrokerPackets
  <2>4. CASE Parse /\ e = [slot |-> SlotOf[Arg.type], packet |-> Arg]
    <3>1. Arg \in BrokerPackets
      BY <1>2, <2>4, ArgType DEF Parse, TypeOK
    <3>2. QED
      BY <2>4, <3>1 DEF BrokerPackets
  <2>5. QED
    BY <1>2, <2>1, <2>2, <2>3, <2>4, QueueStep DEF NewEvent
<1>3. QED
  BY <1>1, <1>2 DEF EventsDispatched

\* Hence the packet a slot runs with.
LEMMA ArgOfSlot ==
    ASSUME TypeOK, EventsDispatched, NEW t \in DOMAIN SlotOf, Runs(SlotOf[t])
    PROVE  Arg.type = t
<1>1. Head(queue) \in Range(queue) /\ Head(queue).slot = SlotOf[t] /\ Head(queue).packet = Arg
  BY RunningEvent
<1>2. /\ SlotOf[t] \notin {"parse", "onSocketConnected", "sendPing"}
      /\ \A u \in DOMAIN SlotOf : SlotOf[u] = SlotOf[t] => u = t
  BY DEF SlotOf
<1>3. QED
  BY <1>1, <1>2 DEF EventsDispatched

-----------------------------------------------------------------------------
(* Packets under way to the broker *)

LEMMA RequestType ==
    ASSUME TypeOK, NEW type \in DOMAIN AnswerTo, Request(type)
    PROVE  Packet(type, NextId, "none", made + 1) \in Packets
BY NextIdType, PacketType
   DEF TypeOK, ClientTypeOK, RequestTypeOK, Codes, PacketTypes

LEMMA AcknowledgementType ==
    ASSUME TypeOK, OnPublishReceived, Arg.code \in DOMAIN AckFor
    PROVE  Packet(AckFor[Arg.code], Arg.id, "none", Arg.ref) \in Packets
<1>1. Arg \in Packets
  BY ArgType DEF OnPublishReceived, TypeOK
<1>2. AckFor[Arg.code] \in PacketTypes
  BY DEF AckFor, PacketTypes, SlotOf
<1>3. QED
  BY <1>1, <1>2, PacketType DEF Packets, Codes

LEMMA CompletionType ==
    ASSUME TypeOK, OnPubRelReceived
    PROVE  Packet("PUBCOMP", Arg.id, "none", Arg.ref) \in Packets
BY ArgType, PacketType DEF OnPubRelReceived, TypeOK, Packets, Codes, PacketTypes

\* A packet that is neither a ping, nor a request, nor about a message.
IsPlain(p) ==
    \/ p.type \in {"CONNECT", "DISCONNECT"}
    \/ p.type = "PUBLISH" /\ p.ref = NoRequest

\* Where a packet under way to the broker comes from.
NewOutgoing(p) ==
    \/ IsPlain(p)
    \/ SendPing /\ pongReceived /\ p = Bare("PINGREQ")
    \/ \E type \in DOMAIN AnswerTo :
          Request(type) /\ p = Packet(type, NextId, "none", made + 1)
    \/ /\ OnPublishReceived /\ Arg.code \in DOMAIN AckFor
       /\ p = Packet(AckFor[Arg.code], Arg.id, "none", Arg.ref)
    \/ OnPubRelReceived /\ p = Packet("PUBCOMP", Arg.id, "none", Arg.ref)

LEMMA CloseOutgoing ==
    ASSUME NEW earlier, CloseOrderly(earlier)
    PROVE  \/ toBroker' \in {toBroker, <<>>}
           \/ \E q \in Packets : IsPlain(q) /\ toBroker' = Append(toBroker, q)
<1>1. Bare("DISCONNECT") \in Packets /\ IsPlain(Bare("DISCONNECT"))
  BY BarePackets DEF IsPlain, Bare, Packet, PacketTypes
<1>2. QED
  BY <1>1 DEF CloseOrderly, Unconnect, SendBinaryMessage

\* A step leaves the packets under way, drops them all, has the broker read the oldest,
\* or adds one.
LEMMA OutgoingSequence ==
    ASSUME TypeOK, Next
    PROVE  \/ toBroker' \in {toBroker, <<>>}
           \/ toBroker # <<>> /\ toBroker' = Tail(toBroker) /\ Broker
           \/ \E q \in Packets : NewOutgoing(q) /\ toBroker' = Append(toBroker, q)
<1> USE DEF NewOutgoing
<1>1. CASE UserCall
  <2>1. CASE Connect
    BY <2>1 DEF Connect
  <2>2. CASE Disconnect
    BY <2>2, CloseOutgoing DEF Disconnect
  <2>3. CASE Subscribe \/ Unsubscribe \/ PublishQoS1
    <3>1. PICK type \in DOMAIN AnswerTo : Request(type)
      BY <2>3 DEF Subscribe, Unsubscribe, PublishQoS1, AnswerTo
    <3>2. SendBinaryMessage(Packet(type, NextId, "none", made + 1))
      BY <3>1 DEF Request, SendData
    <3>3. QED
      BY <3>1, <3>2, RequestType DEF SendBinaryMessage
  <2>4. CASE RejectTopic
    BY <2>4 DEF RejectTopic
  <2>5. CASE PublishQoS0
    <3>1. Packet("PUBLISH", 0, "AT_MOST_ONCE", 0) \in Packets
      BY ZeroId, PacketType DEF PacketTypes, AnswerTo, Codes, QoSs
    <3>2. IsPlain(Packet("PUBLISH", 0, "AT_MOST_ONCE", 0))
      BY DEF IsPlain, Packet, NoRequest
    <3>3. QED
      BY <2>5, <3>1, <3>2 DEF PublishQoS0, SendData, SendBinaryMessage
  <2>6. QED
    BY <1>1, <2>1, <2>2, <2>3, <2>4, <2>5 DEF UserCall
<1>2. CASE EventLoop
  <2>1. CASE OnSocketConnected
    <3>1. Bare("CONNECT") \in Packets /\ IsPlain(Bare("CONNECT"))
      BY BarePackets DEF PacketTypes, IsPlain, Bare, Packet
    <3>2. QED
      BY <2>1, <3>1 DEF OnSocketConnected, SendBinaryMessage
  <2>2. CASE OnConnackReceived
    BY <2>2 DEF OnConnackReceived, Abort, Unconnect
  <2>3. CASE OnPublishReceived
    BY <2>3, AcknowledgementType DEF OnPublishReceived, SendData, SendBinaryMessage
  <2>4. CASE OnPubRelReceived
    BY <2>4, CompletionType DEF OnPubRelReceived, SendData, SendBinaryMessage
  <2>5. CASE SendPing
    <3>1. Bare("PINGREQ") \in Packets
      BY BarePackets DEF PacketTypes
    <3>2. CASE pongReceived /\ SendBinaryMessage(Bare("PINGREQ"))
      BY <2>5, <3>1, <3>2 DEF SendBinaryMessage
    <3>3. CASE \E earlier : CloseOrderly(earlier)
      BY <3>3, CloseOutgoing
    <3>4. QED
      BY <2>5, <3>2, <3>3 DEF SendPing
  <2>6. CASE Parse \/ ForwardError \/ OnSubackReceived \/ OnUnsubackReceived
             \/ OnPubAckReceived \/ OnPongReceived \/ RunImmediate \/ TimerTimeout
    BY <2>6
       DEF Parse, ForwardError, OnSubackReceived, OnUnsubackReceived, OnPubAckReceived,
           Complete, OnPongReceived, RunImmediate, TimerTimeout
  <2>7. QED
    BY <1>2, <2>1, <2>2, <2>3, <2>4, <2>5, <2>6 DEF EventLoop, RunSlot
<1>3. CASE Network
  BY <1>3
     DEF Network, SocketConnected, SocketError, SslErrors, SocketDisconnected, Unconnect,
         TextMessageReceived, BinaryMessageReceived
<1>4. CASE Broker
  BY <1>4
     DEF Broker, BrokerReads, BrokerConnack, BrokerAnswers, BrokerPong, BrokerPubRel,
         Reply, BrokerIgnores, BrokerPublishes, BrokerBadFrame
<1>5. QED
  BY <1>1, <1>2, <1>3, <1>4 DEF Next

LEMMA OutgoingStep ==
    ASSUME TypeOK, Next, NEW p \in Range(toBroker')
    PROVE  p \in Range(toBroker) \/ NewOutgoing(p)
<1>1. toBroker \in Seq(Packets)
  BY DEF TypeOK, LinkTypeOK
<1>2. CASE toBroker' \in {toBroker, <<>>}
  BY <1>2, RangeEmpty
<1>3. CASE toBroker # <<>> /\ toBroker' = Tail(toBroker)
  BY <1>1, <1>3, RangeTail
<1>4. CASE \E q \in Packets : NewOutgoing(q) /\ toBroker' = Append(toBroker, q)
  BY <1>1, <1>4, RangeAppend
<1>5. QED
  BY <1>2, <1>3, <1>4, OutgoingSequence

-----------------------------------------------------------------------------
(* Packets under way from the broker: on the socket, or in a posted event *)

Arriving == Range(toClient) \cup {e.packet : e \in Range(queue)}

\* Where a packet under way from the broker comes from.
NewAnswer(p) ==
    \E type \in DOMAIN AnswerTo, code \in {"granted", "failed"} :
        /\ BrokerAnswers /\ BrokerReads(type) /\ Asked.ref # NoRequest
        /\ code = "failed" => type = "SUBSCRIBE"
        /\ answers' = [answers EXCEPT ![Asked.ref] = code]
        /\ p = Packet(AnswerTo[type], Asked.id, code, Asked.ref)

NewMessage(p) ==
    \E qos \in QoSs, id \in Ids :
        /\ BrokerPublishes
        /\ published' = Append(published, [qos |-> qos, conn |-> conn])
        /\ p = Packet("PUBLISH", id, qos, Len(published) + 1)

NewArriving(p) ==
    \/ p.type \in {"NONE", "MALFORMED"}
    \/ BrokerPong /\ p = Bare("PINGRESP")
    \/ BrokerConnack /\ p = Packet("CONNACK", 0, session', 0)
    \/ NewAnswer(p)
    \/ BrokerPubRel /\ p = Packet("PUBREL", Asked.id, "none", Asked.ref)
    \/ NewMessage(p)

\* Its type tells who sent it.
LEMMA NewArrivingByType ==
    ASSUME NEW p, NewArriving(p)
    PROVE  /\ p.type = "CONNACK" => BrokerConnack /\ p.code = session'
           /\ p.type = "PINGRESP" => BrokerPong
           /\ p.type \in {"SUBACK", "UNSUBACK", "PUBACK"} => NewAnswer(p)
           /\ p.type = "PUBREL" =>
                 BrokerPubRel /\ p = Packet("PUBREL", Asked.id, "none", Asked.ref)
           /\ p.type = "PUBLISH" => NewMessage(p)
<1>1. ASSUME NEW type, NEW id, NEW code, NEW ref, p = Packet(type, id, code, ref)
      PROVE  p.type = type /\ p.code = code
  BY <1>1 DEF Packet
<1>2. CASE p.type \in {"NONE", "MALFORMED"}
  BY <1>2
<1>3. CASE BrokerPong /\ p = Bare("PINGRESP")
  BY <1>3 DEF Bare, Packet
<1>4. CASE BrokerConnack /\ p = Packet("CONNACK", 0, session', 0)
  BY <1>1, <1>4
<1>5. CASE NewAnswer(p)
  <2>1. p.type \in {"SUBACK", "UNSUBACK", "PUBACK"}
    BY <1>1, <1>5 DEF NewAnswer, AnswerTo
  <2>2. QED
    BY <1>5, <2>1
<1>6. CASE BrokerPubRel /\ p = Packet("PUBREL", Asked.id, "none", Asked.ref)
  <2>1. p.type = "PUBREL"
    BY <1>1, <1>6
  <2>2. QED
    BY <1>6, <2>1
<1>7. CASE NewMessage(p)
  <2>1. p.type = "PUBLISH"
    BY <1>1, <1>7 DEF NewMessage
  <2>2. QED
    BY <1>7, <2>1
<1>8. QED
  BY <1>2, <1>3, <1>4, <1>5, <1>6, <1>7 DEF NewArriving

\* The broker adds one packet, or the same packet twice when it is faulty.
LEMMA BrokerSequence ==
    ASSUME TypeOK, Broker
    PROVE  /\ queue' = queue
           /\ \/ toClient' = toClient
              \/ \E p \in BrokerPackets :
                    /\ NewArriving(p)
                    /\ \/ toClient' = Append(toClient, p)
                       \/ /\ "answersTwice" \in BrokerFaults /\ p.type # "PUBLISH"
                          /\ toClient' = Append(Append(toClient, p), p)
<1> DEFINE Added(p) ==
              \/ toClient' = Append(toClient, p)
              \/ /\ "answersTwice" \in BrokerFaults /\ p.type # "PUBLISH"
                 /\ toClient' = Append(Append(toClient, p), p)
<1>1. toClient \in Seq(BrokerPackets) /\ toBroker \in Seq(Packets)
  BY DEF TypeOK, LinkTypeOK
<1>2. ASSUME NEW p \in BrokerPackets, Reply(p), p.type # "PUBLISH"
      PROVE  Added(p) /\ queue' = queue
  <2>1. toClient \o <<p, p>> = Append(Append(toClient, p), p)
    <3>1. Append(toClient, p) \in Seq(BrokerPackets)
      BY <1>1, AppendProperties
    <3>2. /\ Append(toClient, p) = toClient \o <<p>>
          /\ Append(Append(toClient, p), p) = Append(toClient, p) \o <<p>>
      BY <1>1, <3>1, AppendIsConcat
    <3>3. <<p>> \in Seq(BrokerPackets)
      OBVIOUS
    <3>5. <<p>> \o <<p>> = <<p, p>>
      <4>1. <<p, p>> \in Seq(BrokerPackets) /\ Len(<<p, p>>) = 2 /\ Len(<<p>>) = 1
        OBVIOUS
      <4>2. <<p>>[1] = p /\ <<p, p>>[1] = p /\ <<p, p>>[2] = p
        OBVIOUS
      <4>3. /\ <<p>> \o <<p>> \in Seq(BrokerPackets) /\ Len(<<p>> \o <<p>>) = 2
            /\ (<<p>> \o <<p>>)[1] = p /\ (<<p>> \o <<p>>)[2] = p
        BY <3>3, <4>1, <4>2, ConcatProperties
      <4>4. \A i \in 1 .. 2 : (<<p>> \o <<p>>)[i] = <<p, p>>[i]
        BY <4>2, <4>3
      <4>5. QED
        BY <4>1, <4>3, <4>4, SeqEqual
    <3>4. (toClient \o <<p>>) \o <<p>> = toClient \o (<<p>> \o <<p>>)
      BY <1>1, <3>3, ConcatAssociative
    <3>6. QED
      BY <3>2, <3>4, <3>5, Zenon
  <2>2. QED
    BY <1>2, <2>1 DEF Reply
<1>3. CASE BrokerConnack
  <2>1. PICK code \in {"accepted", "refused"} :
           session' = code /\ Reply(Packet("CONNACK", 0, code, 0))
    BY <1>3 DEF BrokerConnack
  <2>2. Packet("CONNACK", 0, code, 0) \in BrokerPackets
    BY ZeroId, PacketType DEF PacketTypes, SlotOf, Codes
  <2>3. Packet("CONNACK", 0, code, 0).type # "PUBLISH"
    BY DEF Packet
  <2>4. NewArriving(Packet("CONNACK", 0, code, 0))
    BY <1>3, <2>1 DEF NewArriving
  <2>5. QED
    BY <1>2, <2>1, <2>2, <2>3, <2>4
<1>4. CASE BrokerAnswers
  <2>1. PICK type \in DOMAIN AnswerTo, code \in {"granted", "failed"} :
           /\ BrokerReads(type) /\ Asked.ref # NoRequest
           /\ code = "failed" => type = "SUBSCRIBE"
           /\ answers' = [answers EXCEPT ![Asked.ref] = code]
           /\ Reply(Packet(AnswerTo[type], Asked.id, code, Asked.ref))
    BY <1>4 DEF BrokerAnswers
  <2>2. /\ Asked \in Packets /\ AnswerTo[type] \in DOMAIN SlotOf
        /\ AnswerTo[type] # "PUBLISH"
    BY <1>1, <2>1, BrokerSideType DEF BrokerReads, AnswerTo, SlotOf
  <2>3. Packet(AnswerTo[type], Asked.id, code, Asked.ref) \in BrokerPackets
    BY <2>2, PacketType, SlotNamesOfPackets DEF Packets, Codes
  <2>4. Packet(AnswerTo[type], Asked.id, code, Asked.ref).type # "PUBLISH"
    BY <2>2 DEF Packet
  <2>5. NewArriving(Packet(AnswerTo[type], Asked.id, code, Asked.ref))
    BY <1>4, <2>1 DEF NewArriving, NewAnswer
  <2>6. QED
    BY <1>2, <2>1, <2>3, <2>4, <2>5
<1>5. CASE BrokerPong
  <2>1. Bare("PINGRESP") \in BrokerPackets /\ Bare("PINGRESP").type = "PINGRESP"
    BY BarePackets DEF SlotOf, Bare, Packet
  <2>2. Reply(Bare("PINGRESP")) /\ NewArriving(Bare("PINGRESP"))
    BY <1>5, <2>1 DEF BrokerPong, NewArriving
  <2>3. QED
    BY <1>2, <2>1, <2>2
<1>6. CASE BrokerPubRel
  <2>1. Asked \in Packets
    BY <1>1, <1>6, BrokerSideType DEF BrokerPubRel, BrokerReads
  <2>2. /\ Packet("PUBREL", Asked.id, "none", Asked.ref) \in BrokerPackets
        /\ Packet("PUBREL", Asked.id, "none", Asked.ref).type # "PUBLISH"
    BY <2>1, PacketType DEF Packets, Codes, PacketTypes, SlotOf, Packet
  <2>3. /\ Reply(Packet("PUBREL", Asked.id, "none", Asked.ref))
        /\ NewArriving(Packet("PUBREL", Asked.id, "none", Asked.ref))
    BY <1>6 DEF BrokerPubRel, NewArriving
  <2>4. QED
    BY <1>2, <2>2, <2>3
<1>7. CASE BrokerPublishes
  <2>1. Len(published) + 1 \in Nat /\ \A m \in Nat : m % IdSpace \in Ids
    BY LenProperties, IdSpaceAssumption DEF TypeOK, BrokerTypeOK, Ids
  <2>2. PICK qos \in QoSs, id \in Ids :
           /\ published' = Append(published, [qos |-> qos, conn |-> conn])
           /\ toClient' = Append(toClient, Packet("PUBLISH", id, qos, Len(published) + 1))
    BY <1>7, <2>1, ZeroId DEF BrokerPublishes
  <2>3. Packet("PUBLISH", id, qos, Len(published) + 1) \in BrokerPackets
    BY <2>1, PacketType DEF PacketTypes, SlotOf, Codes
  <2>4. NewArriving(Packet("PUBLISH", id, qos, Len(published) + 1))
    BY <1>7, <2>2 DEF NewArriving, NewMessage
  <2>5. QED
    BY <1>7, <2>2, <2>3, <2>4 DEF BrokerPublishes
<1>8. CASE BrokerBadFrame
  <2>1. Bare("MALFORMED") \in BrokerPackets /\ NewArriving(Bare("MALFORMED"))
    BY BarePackets DEF SlotOf, NewArriving, Bare, Packet
  <2>2. QED
    BY <1>8, <2>1 DEF BrokerBadFrame
<1>9. CASE BrokerIgnores
  BY <1>9 DEF BrokerIgnores
<1>10. QED
  BY <1>3, <1>4, <1>5, <1>6, <1>7, <1>8, <1>9 DEF Broker

LEMMA ArrivingStep ==
    ASSUME TypeOK, Next, NEW p \in Arriving'
    PROVE  p \in Arriving \/ NewArriving(p)
<1>1. toClient \in Seq(BrokerPackets) /\ toBroker \in Seq(Packets)
  BY DEF TypeOK, LinkTypeOK
<1>2. CASE p \in {e.packet : e \in Range(queue')}
  <2>1. PICK e \in Range(queue') : p = e.packet
    BY <1>2
  <2>2. CASE e \in Range(queue)
    BY <2>1, <2>2 DEF Arriving
  <2>3. CASE e.packet = Bare("NONE")
    BY <2>1, <2>3 DEF NewArriving, Bare, Packet
  <2>4. CASE BinaryMessageReceived /\ e = [slot |-> "parse", packet |-> Head(toClient)]
    <3>1. Head(toClient) \in Range(toClient)
      BY <1>1, <2>4, RangeTail DEF BinaryMessageReceived
    <3>2. QED
      BY <2>1, <2>4, <3>1 DEF Arriving
  <2>5. CASE Parse /\ e = [slot |-> SlotOf[Arg.type], packet |-> Arg]
    <3>1. Head(queue) \in Range(queue) /\ Head(queue).packet = Arg
      BY <2>5, RunningEvent DEF Parse
    <3>2. QED
      BY <2>1, <2>5, <3>1 DEF Arriving
  <2>6. QED
    BY <2>2, <2>3, <2>4, <2>5, QueueStep DEF NewEvent
<1>3. CASE p \in Range(toClient')
  <2>1. CASE UNCHANGED toClient
    BY <1>3, <2>1 DEF Arriving
  <2>2. CASE toClient' = <<>>
    BY <1>3, <2>2, RangeEmpty
  <2>3. CASE UserCall
    BY <2>1, <2>2, <2>3
       DEF UserCall, Connect, Disconnect, CloseOrderly, Unconnect, Subscribe, Unsubscribe,
           PublishQoS1, Request, RejectTopic, PublishQoS0
  <2>4. CASE EventLoop
    BY <2>1, <2>2, <2>4
       DEF EventLoop, RunSlot, OnSocketConnected, Parse, ForwardError, OnConnackReceived,
           Abort, Unconnect, OnSubackReceived, OnUnsubackReceived, OnPubAckReceived,
           Complete, OnPublishReceived, OnPubRelReceived, OnPongReceived, SendPing,
           CloseOrderly, RunImmediate, TimerTimeout
  <2>5. CASE Network
    <3>1. CASE BinaryMessageReceived
      <4>1. Range(toClient') \subseteq Range(toClient)
        BY <1>1, <3>1, RangeTail DEF BinaryMessageReceived
      <4>2. QED
        BY <1>3, <4>1 DEF Arriving
    <3>2. QED
      BY <2>1, <2>2, <2>5, <3>1
         DEF Network, SocketConnected, SocketError, SslErrors, SocketDisconnected, Unconnect,
             TextMessageReceived
  <2>6. CASE Broker
    <3>1. ASSUME NEW q \in BrokerPackets, NewArriving(q),
                 \/ toClient' = Append(toClient, q)
                 \/ toClient' = Append(Append(toClient, q), q)
          PROVE  p \in Range(toClient) \/ p = q
      <4>1. Append(toClient, q) \in Seq(BrokerPackets)
        BY <1>1, AppendProperties
      <4>2. Range(Append(toClient, q)) = Range(toClient) \cup {q}
        BY <1>1, RangeAppend
      <4>3. Range(Append(Append(toClient, q), q)) = Range(Append(toClient, q)) \cup {q}
        <5>1. \A t \in Seq(BrokerPackets) : Range(Append(t, q)) = Range(t) \cup {q}
          BY RangeAppend
        <5>2. QED
          BY <4>1, <5>1, Zenon
      <4>4. Range(toClient') \subseteq Range(toClient) \cup {q}
        <5>1. CASE toClient' = Append(toClient, q)
          BY <4>2, <5>1, Zenon
        <5>2. CASE toClient' = Append(Append(toClient, q), q)
          BY <4>2, <4>3, <5>2, Zenon
        <5>3. QED
          BY <3>1, <5>1, <5>2
      <4>5. QED
        BY <1>3, <4>4
    <3>2. QED
      BY <2>1, <2>6, <3>1, BrokerSequence DEF Arriving
  <2>7. QED
    BY <2>3, <2>4, <2>5, <2>6 DEF Next
<1>4. QED
  BY <1>2, <1>3 DEF Arriving

-----------------------------------------------------------------------------
(* The connections between signals and slots are made once, with the first   *)
(* connect(): before it nothing can be posted, after it everything is posted *)
(* once.                                                                     *)

SlotsOnce ==
    \/ slots = 1 /\ signalSlotConnected
    \/ slots = 0 /\ ~ signalSlotConnected /\ queue = <<>> /\ socket = "unconnected"

LEMMA PostOnce ==
    ASSUME NEW q \in Seq(Events), NEW e \in Events
    PROVE  q \o Times(1, e) = Append(q, e) /\ q \o Times(0, e) = q
<1>1. Times(1, e) = <<e>>
  BY DEF Times
<1>2. Times(0, e) = <<>>
  BY DEF Times
<1>3. q \o <<e>> = Append(q, e) /\ q \o <<>> = q
  BY AppendIsConcat, ConcatEmptySeq
<1>4. QED
  BY <1>1, <1>2, <1>3, Zenon

LEMMA SlotsInit == Init => SlotsOnce
BY DEF Init, SlotsOnce

LEMMA SlotsStep == TypeOK /\ SlotsOnce /\ [Next]_vars => SlotsOnce'
<1> SUFFICES ASSUME TypeOK, SlotsOnce, [Next]_vars PROVE SlotsOnce'
  OBVIOUS
<1>1. queue \in Seq(Events)
  BY DEF TypeOK, LinkTypeOK
<1>2. ASSUME UNCHANGED connectVars, slots = 1 PROVE SlotsOnce'
  BY <1>2 DEF SlotsOnce
<1>3. CASE UNCHANGED vars
  BY <1>3 DEF SlotsOnce
<1>4. CASE Connect
  BY <1>4 DEF Connect, MakeSignalSlotConnections, SlotsOnce
<1>5. CASE UserCall /\ ~ Connect
  <2>1. UNCHANGED <<connectVars, queue>> /\ (socket = "unconnected" => socket' = "unconnected")
    BY <1>5
       DEF UserCall, Disconnect, CloseOrderly, Unconnect, Subscribe, Unsubscribe, PublishQoS1,
           Request, RejectTopic, PublishQoS0
  <2>2. QED
    BY <2>1 DEF SlotsOnce
<1>6. CASE RunSlot
  <2>1. queue # <<>>
    BY <1>6
       DEF RunSlot, Runs, OnSocketConnected, Parse, ForwardError, OnConnackReceived,
           OnSubackReceived, OnUnsubackReceived, OnPubAckReceived, OnPublishReceived,
           OnPubRelReceived, OnPongReceived, SendPing
  <2>2. UNCHANGED connectVars
    BY <1>6
       DEF RunSlot, OnSocketConnected, Parse, ForwardError, OnConnackReceived,
           OnSubackReceived, OnUnsubackReceived, OnPubAckReceived, Complete,
           OnPublishReceived, OnPubRelReceived, OnPongReceived, SendPing
  <2>3. QED
    BY <1>2, <2>1, <2>2 DEF SlotsOnce
<1>7. CASE RunImmediate
  BY <1>7 DEF RunImmediate, SlotsOnce
<1>8. CASE TimerTimeout
  <2>1. [slot |-> "sendPing", packet |-> Bare("NONE")] \in Events
    BY BarePackets DEF Events, SlotNames, PacketTypes
  <2>2. slots = 0 => queue' = queue
    BY <1>1, <1>8, <2>1, PostOnce DEF TimerTimeout, Post
  <2>3. UNCHANGED <<connectVars, socket>>
    BY <1>8 DEF TimerTimeout
  <2>4. QED
    BY <2>2, <2>3 DEF SlotsOnce
<1>9. CASE Network \/ Broker
  <2>1. socket # "unconnected" /\ UNCHANGED connectVars
    BY <1>9
       DEF Network, SocketConnected, SocketError, SslErrors, SocketDisconnected,
           TextMessageReceived, BinaryMessageReceived, Broker, BrokerReads, BrokerConnack,
           BrokerAnswers, BrokerPong, BrokerPubRel, Reply, BrokerIgnores, BrokerPublishes,
           BrokerBadFrame
  <2>2. QED
    BY <1>2, <2>1 DEF SlotsOnce
<1>10. QED
  BY <1>3, <1>4, <1>5, <1>6, <1>7, <1>8, <1>9 DEF Next, EventLoop

-----------------------------------------------------------------------------
(* What a step does to the sequences of packets and events *)

\* The events that carry no packet of the broker.
Notices == {[slot |-> s, packet |-> Bare("NONE")] : s \in {"onSocketConnected", "sendPing"}}
Arrived(p) == [slot |-> "parse", packet |-> p]
Parsed(p) == [slot |-> SlotOf[p.type], packet |-> p]

LEMMA PostedTypes ==
    /\ Notices \subseteq Events
    /\ \A p \in BrokerPackets : Arrived(p) \in Events /\ Parsed(p) \in Events
<1>1. Notices \subseteq Events
  BY BarePackets DEF Notices, Events, SlotNames, PacketTypes
<1>2. ASSUME NEW p \in BrokerPackets PROVE Arrived(p) \in Events /\ Parsed(p) \in Events
  BY SlotNamesOfPackets, BrokerPacketsArePackets DEF Events, BrokerPackets, Arrived, Parsed
<1>3. QED
  BY <1>1, <1>2


\* The slots but the parser's, which only take an event.
Handle ==
    \/ OnSocketConnected \/ ForwardError \/ OnConnackReceived
    \/ OnSubackReceived \/ OnUnsubackReceived \/ OnPubAckReceived
    \/ OnPublishReceived \/ OnPubRelReceived \/ OnPongReceived \/ SendPing

LEMMA HandleSequence ==
    ASSUME Handle
    PROVE  /\ queue # <<>> /\ queue' = Tail(queue) /\ toClient' \in {toClient, <<>>}
           /\ \E slot \in SlotNames \ {"parse"} : Runs(slot)
<1>1. {"onSocketConnected", "sendPing"} \subseteq SlotNames \ {"parse"}
  BY DEF SlotNames, SlotOf
<1>2. {"error", "onConnackReceived", "onSubackReceived", "onUnsubackReceived",
       "onPubAckReceived", "onPublishReceived", "onPubRelReceived", "onPongReceived"}
         \subseteq SlotNames \ {"parse"}
  BY SlotNamesOfPackets DEF SlotOf
<1>3. CASE OnSocketConnected \/ ForwardError \/ OnPublishReceived \/ OnPubRelReceived
             \/ OnPongReceived
  BY <1>1, <1>2, <1>3
     DEF Runs, OnSocketConnected, ForwardError, OnPublishReceived, OnPubRelReceived,
         OnPongReceived
<1>4. CASE OnSubackReceived \/ OnUnsubackReceived \/ OnPubAckReceived
  BY <1>2, <1>4
     DEF Runs, OnSubackReceived, OnUnsubackReceived, OnPubAckReceived, Complete
<1>5. CASE OnConnackReceived
  BY <1>2, <1>5 DEF Runs, OnConnackReceived, Abort, Unconnect
<1>6. CASE SendPing
  BY <1>1, <1>6 DEF Runs, SendPing, CloseOrderly, Unconnect
<1>7. QED
  BY <1>3, <1>4, <1>5, <1>6 DEF Handle

LEMMA ParseSequence ==
    ASSUME TypeOK, SlotsOnce, Parse
    PROVE  /\ queue # <<>> /\ Head(queue) = Arrived(Arg) /\ Arg \in BrokerPackets
           /\ queue' = Append(Tail(queue), Parsed(Arg)) /\ toClient' = toClient
<1>1. queue \in Seq(Events) /\ queue # <<>> /\ Head(queue).slot = "parse"
  BY DEF Parse, Runs, TypeOK, LinkTypeOK
<1>2. Arg \in BrokerPackets /\ Tail(queue) \in Seq(Events)
  BY ArgType DEF Parse, TypeOK
<1>3. Head(queue) \in Events
  BY <1>1, HeadTailProperties
<1>4. Head(queue) = Arrived(Arg)
  BY <1>1, <1>3 DEF Events, Arg, Arrived
<1>5. slots = 1
  BY <1>1 DEF SlotsOnce
<1>6. queue' = Tail(queue) \o Times(1, Parsed(Arg))
  BY <1>5 DEF Parse, Parsed
<1>7. queue' = Append(Tail(queue), Parsed(Arg))
  BY <1>2, <1>6, PostOnce, PostedTypes
<1>8. QED
  BY <1>1, <1>2, <1>4, <1>7 DEF Parse

LEMMA FrameSequence ==
    ASSUME TypeOK, SlotsOnce, BinaryMessageReceived
    PROVE  /\ toClient # <<>> /\ toClient' = Tail(toClient) /\ Head(toClient) \in BrokerPackets
           /\ queue' = Append(queue, Arrived(Head(toClient)))
<1>1. /\ queue \in Seq(Events) /\ slots = 1 /\ toClient # <<>>
      /\ Head(toClient) \in BrokerPackets
  BY HeadTailProperties DEF BinaryMessageReceived, TypeOK, LinkTypeOK, SlotsOnce
<1>2. queue' = queue \o Times(1, Arrived(Head(toClient)))
  BY <1>1 DEF BinaryMessageReceived, Post, Arrived
<1>3. queue' = Append(queue, Arrived(Head(toClient)))
  BY <1>1, <1>2, PostOnce, PostedTypes
<1>4. QED
  BY <1>1, <1>3 DEF BinaryMessageReceived

LEMMA NoticeSequence ==
    ASSUME TypeOK, SlotsOnce, TimerTimeout \/ SocketConnected
    PROVE  /\ queue' = queue \/ \E e \in Notices : queue' = Append(queue, e)
           /\ toClient' = toClient
<1>1. queue \in Seq(Events) /\ slots \in {0, 1}
  BY DEF TypeOK, LinkTypeOK, SlotsOnce
<1>2. PICK e \in Notices : queue' = queue \o Times(slots, e)
  BY DEF TimerTimeout, SocketConnected, Post, Notices
<1>3. queue' = queue \/ queue' = Append(queue, e)
  BY <1>1, <1>2, PostOnce, PostedTypes
<1>4. QED
  BY <1>3 DEF TimerTimeout, SocketConnected

\* The steps that only the user, the network and the timers take.
Quiet ==
    \/ UserCall \/ RunImmediate
    \/ SocketError \/ SslErrors \/ SocketDisconnected \/ TextMessageReceived

LEMMA QuietSequence ==
    ASSUME Quiet
    PROVE  queue' = queue /\ toClient' \in {toClient, <<>>}
BY DEF Quiet, UserCall, Connect, Disconnect, CloseOrderly, Unconnect, Subscribe, Unsubscribe,
       PublishQoS1, Request, RejectTopic, PublishQoS0, RunImmediate, SocketError, SslErrors,
       SocketDisconnected, TextMessageReceived

LEMMA StepKinds ==
    Next <=> \/ Quiet \/ Handle \/ Parse \/ BinaryMessageReceived \/ Broker
             \/ TimerTimeout \/ SocketConnected
BY DEF Next, Quiet, Handle, EventLoop, RunSlot, Network

=============================================================================
