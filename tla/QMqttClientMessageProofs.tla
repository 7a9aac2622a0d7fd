----------------------- MODULE QMqttClientMessageProofs -----------------------
(***************************************************************************)
(* The messages of the broker on their way to the user of QMqttClient, for *)
(* every value of the constants: what is acknowledged, and in which order  *)
(* messageReceived() announces them.                                       *)
(***************************************************************************)
EXTENDS QMqttClientSessionProofs

USE DEF vars, clientVars, connectVars, linkVars, brokerVars, requestVars, countVars

-----------------------------------------------------------------------------
(* What a step does to the messages *)

\* The broker numbers its messages one after the other; the client announces the
\* message it takes from the queue.
LEMMA MessageStep ==
    ASSUME Next
    PROVE  /\ \/ published' = published
              \/ /\ BrokerPublishes
                 /\ \E qos \in QoSs : published' = Append(published, [qos |-> qos, conn |-> conn])
           /\ \/ delivered' = delivered /\ ~ OnPublishReceived
              \/ OnPublishReceived /\ delivered' = Append(delivered, Arg.ref)
<1>1. CASE UserCall
  BY <1>1
     DEF UserCall, Connect, Disconnect, CloseOrderly, Unconnect, OnDisconnected, Subscribe,
         Unsubscribe, PublishQoS1, Request, RejectTopic, PublishQoS0, OnPublishReceived
<1>2. CASE OnPublishReceived
  BY <1>2 DEF OnPublishReceived
<1>3. CASE EventLoop /\ ~ OnPublishReceived
  BY <1>3
     DEF EventLoop, RunSlot, OnSocketConnected, Parse, ForwardError, OnConnackReceived,
         OnSubackReceived, OnUnsubackReceived, OnPubAckReceived, Complete, OnPubRelReceived,
         OnPongReceived, SendPing, RunImmediate, TimerTimeout
<1>4. CASE Network
  BY <1>4
     DEF Network, SocketConnected, SocketError, SslErrors, SocketDisconnected,
         TextMessageReceived, BinaryMessageReceived, OnPublishReceived
<1>5. CASE Broker
  BY <1>5
     DEF Broker, BrokerConnack, BrokerAnswers, BrokerPong, BrokerPubRel, Reply,
         BrokerIgnores, BrokerPublishes, BrokerBadFrame, OnPublishReceived
<1>6. QED
  BY <1>1, <1>2, <1>3, <1>4, <1>5 DEF Next, EventLoop

\* Published messages and announced messages stay.
LEMMA MessagesStay ==
    ASSUME TypeOK, Next
    PROVE  /\ \A m \in 1 .. Len(published) :
                 m \in 1 .. Len(published') /\ published'[m] = published[m]
           /\ Range(delivered) \subseteq Range(delivered')
           /\ OnPublishReceived => Arg.ref \in Range(delivered')
<1>1. published \in Seq([qos : QoSs, conn : Nat]) /\ conn \in Nat /\ delivered \in Seq(Nat)
  BY DEF TypeOK, BrokerTypeOK, ClientTypeOK, HistoryTypeOK
<1>2. \A m \in 1 .. Len(published) :
         m \in 1 .. Len(published') /\ published'[m] = published[m]
  <2>1. CASE published' = published
    BY <2>1
  <2>2. ASSUME NEW qos \in QoSs, published' = Append(published, [qos |-> qos, conn |-> conn])
        PROVE  \A m \in 1 .. Len(published) :
                  m \in 1 .. Len(published') /\ published'[m] = published[m]
    <3>1. [qos |-> qos, conn |-> conn] \in [qos : QoSs, conn : Nat]
      BY <1>1
    <3>2. /\ Len(published) \in Nat /\ Len(published') = Len(published) + 1
          /\ \A m \in 1 .. Len(published) : published'[m] = published[m]
      BY <1>1, <2>2, <3>1, AppendProperties, LenProperties
    <3>3. QED
      BY <3>2
  <2>3. QED
    BY <2>1, <2>2, MessageStep
<1>3. CASE delivered' = delivered /\ ~ OnPublishReceived
  BY <1>2, <1>3
<1>4. CASE OnPublishReceived /\ delivered' = Append(delivered, Arg.ref)
  <2>1. Arg.ref \in Nat
    BY <1>4, ArgType DEF OnPublishReceived, TypeOK, Packets
  <2>2. Range(delivered') = Range(delivered) \cup {Arg.ref}
    BY <1>1, <1>4, <2>1, RangeAppend
  <2>3. QED
    BY <1>2, <2>2
<1>5. QED
  BY <1>3, <1>4, MessageStep

-----------------------------------------------------------------------------
(* What the client acknowledges *)

Acknowledgements == {"PUBACK", "PUBREC", "PUBCOMP"}
QosOfAck(type) == IF type = "PUBACK" THEN "AT_LEAST_ONCE" ELSE "EXACTLY_ONCE"

\* A message under way is one the broker published, with its QoS; a PUBREL under way
\* releases a QoS 2 message the user got; so does every acknowledgement.
AckInv ==
    /\ Range(delivered) \subseteq 1 .. Len(published)
    /\ \A p \in Arriving : p.type = "PUBLISH" =>
          p.ref \in 1 .. Len(published) /\ published[p.ref].qos = p.code
    /\ \A p \in Arriving : p.type = "PUBREL" =>
          p.ref \in Range(delivered) /\ published[p.ref].qos = "EXACTLY_ONCE"
    /\ \A p \in Range(toBroker) : p.type \in Acknowledgements =>
          p.ref \in Range(delivered) /\ published[p.ref].qos = QosOfAck(p.type)

LEMMA AckInit == Init => AckInv
BY RangeEmpty DEF Init, AckInv, Arriving

LEMMA MessageTaken ==
    ASSUME TypeOK, EventsDispatched
    PROVE  /\ OnPublishReceived => Arg \in Arriving /\ Arg.type = "PUBLISH"
           /\ OnPubRelReceived => Arg \in Arriving /\ Arg.type = "PUBREL"
<1>1. \A slot : Runs(slot) => Arg \in Arriving
  BY RunningEvent DEF Arriving
<1>2. Runs(SlotOf["PUBLISH"]) => Arg.type = "PUBLISH"
  BY ArgOfSlot DEF SlotOf
<1>3. Runs(SlotOf["PUBREL"]) => Arg.type = "PUBREL"
  BY ArgOfSlot DEF SlotOf
<1>4. QED
  BY <1>1, <1>2, <1>3 DEF OnPublishReceived, OnPubRelReceived, SlotOf

\* The message the broker adds is the one it just published.
LEMMA NewestMessage ==
    ASSUME TypeOK, NEW p, NewMessage(p)
    PROVE  /\ p.type = "PUBLISH" /\ p.ref = Len(published) + 1
           /\ p.ref \in 1 .. Len(published') /\ published'[p.ref].qos = p.code
           /\ published'[p.ref].conn = conn
<1>1. PICK qos \in QoSs, id \in Ids :
         /\ published' = Append(published, [qos |-> qos, conn |-> conn])
         /\ p = Packet("PUBLISH", id, qos, Len(published) + 1)
  BY DEF NewMessage
<1>2. published \in Seq([qos : QoSs, conn : Nat]) /\ [qos |-> qos, conn |-> conn] \in [qos : QoSs, conn : Nat]
  BY DEF TypeOK, BrokerTypeOK, ClientTypeOK
<1>3. /\ Len(published) \in Nat /\ Len(published') = Len(published) + 1
      /\ published'[Len(published) + 1] = [qos |-> qos, conn |-> conn]
  BY <1>1, <1>2, AppendProperties, LenProperties
<1>4. p.type = "PUBLISH" /\ p.ref = Len(published) + 1 /\ p.code = qos
  BY <1>1 DEF Packet
<1>5. QED
  BY <1>3, <1>4

LEMMA AckStep == TypeOK /\ EventsDispatched /\ AckInv /\ [Next]_vars => AckInv'
<1> SUFFICES ASSUME TypeOK, EventsDispatched, AckInv, [Next]_vars PROVE AckInv'
  OBVIOUS
<1>1. CASE UNCHANGED vars
  BY <1>1 DEF AckInv, Arriving
<1>2. CASE Next
  <2>1. /\ \A m \in 1 .. Len(published) :
              m \in 1 .. Len(published') /\ published'[m] = published[m]
        /\ Range(delivered) \subseteq Range(delivered')
        /\ OnPublishReceived => Arg.ref \in Range(delivered')
    BY <1>2, MessagesStay
  <2>2. Range(delivered) \subseteq 1 .. Len(published)
    BY DEF AckInv
  <2>3. OnPublishReceived => Arg.ref \in 1 .. Len(published) /\ published[Arg.ref].qos = Arg.code
    BY MessageTaken DEF AckInv
  <2>4. Range(delivered') \subseteq 1 .. Len(published')
    <3>1. CASE delivered' = delivered
      BY <2>1, <2>2, <3>1
    <3>2. CASE OnPublishReceived /\ delivered' = Append(delivered, Arg.ref)
      <4>1. delivered \in Seq(Nat) /\ Arg.ref \in Nat
        BY <3>2, ArgType DEF OnPublishReceived, TypeOK, Packets, HistoryTypeOK
      <4>2. Range(delivered') = Range(delivered) \cup {Arg.ref}
        BY <3>2, <4>1, RangeAppend
      <4>3. QED
        BY <2>1, <2>2, <2>3, <3>2, <4>2
    <3>3. QED
      BY <1>2, <3>1, <3>2, MessageStep
  <2>5. ASSUME NEW p \in Arriving', p.type = "PUBLISH"
        PROVE  p.ref \in 1 .. Len(published') /\ published'[p.ref].qos = p.code
    <3>1. p \in Arriving \/ NewMessage(p)
      BY <1>2, <2>5, ArrivingStep, NewArrivingByType
    <3>2. QED
      BY <2>1, <2>5, <3>1, NewestMessage DEF AckInv
  <2>6. ASSUME NEW p \in Range(toBroker'), p.type \in Acknowledgements
        PROVE  p.ref \in Range(delivered') /\ published'[p.ref].qos = QosOfAck(p.type)
    <3>1. CASE p \in Range(toBroker)
      BY <2>1, <2>2, <2>6, <3>1 DEF AckInv
    <3>2. CASE /\ OnPublishReceived /\ Arg.code \in DOMAIN AckFor
               /\ p = Packet(AckFor[Arg.code], Arg.id, "none", Arg.ref)
      <4>1. p.type = AckFor[Arg.code] /\ p.ref = Arg.ref
        BY <3>2 DEF Packet
      <4>2. QosOfAck(AckFor[Arg.code]) = Arg.code
        BY <3>2 DEF QosOfAck, AckFor
      <4>3. QED
        BY <2>1, <2>3, <3>2, <4>1, <4>2
    <3>3. CASE OnPubRelReceived /\ p = Packet("PUBCOMP", Arg.id, "none", Arg.ref)
      <4>1. p.type = "PUBCOMP" /\ p.ref = Arg.ref
        BY <3>3 DEF Packet
      <4>2. Arg.ref \in Range(delivered) /\ published[Arg.ref].qos = "EXACTLY_ONCE"
        BY <3>3, MessageTaken DEF AckInv
      <4>3. QED
        BY <2>1, <2>2, <4>1, <4>2 DEF QosOfAck
    <3>4. p \in Range(toBroker) \/ NewOutgoing(p)
      BY <1>2, OutgoingStep
    <3>5. ~ IsPlain(p) /\ p # Bare("PINGREQ")
      BY <2>6 DEF IsPlain, Bare, Packet, Acknowledgements
    <3>6. ASSUME NEW type \in DOMAIN AnswerTo, p = Packet(type, NextId, "none", made + 1)
          PROVE  FALSE
      BY <2>6, <3>6 DEF Packet, AnswerTo, Acknowledgements
    <3>7. QED
      BY <3>1, <3>2, <3>3, <3>4, <3>5, <3>6 DEF NewOutgoing
  <2>7. ASSUME NEW p \in Arriving', p.type = "PUBREL"
        PROVE  p.ref \in Range(delivered') /\ published'[p.ref].qos = "EXACTLY_ONCE"
    <3>1. CASE p \in Arriving
      BY <2>1, <2>2, <2>7, <3>1 DEF AckInv
    <3>2. CASE BrokerPubRel /\ p = Packet("PUBREL", Asked.id, "none", Asked.ref)
      <4>1. toBroker \in Seq(Packets) /\ toBroker # <<>> /\ Asked.type = "PUBREC" /\ p.ref = Asked.ref
        BY <3>2 DEF BrokerPubRel, BrokerReads, Asked, Packet, TypeOK, LinkTypeOK
      <4>2. Asked \in Range(toBroker)
        BY <4>1, RangeTail DEF Asked
      <4>3. Asked.ref \in Range(delivered) /\ published[Asked.ref].qos = "EXACTLY_ONCE"
        BY <4>1, <4>2 DEF AckInv, Acknowledgements, QosOfAck
      <4>4. QED
        BY <2>1, <2>2, <4>1, <4>3
    <3>3. QED
      BY <1>2, <2>7, <3>1, <3>2, ArrivingStep, NewArrivingByType
  <2>8. QED
    BY <2>4, <2>5, <2>6, <2>7 DEF AckInv, Arriving
<1>3. QED
  BY <1>1, <1>2

\* The client acknowledges a message only after the user got it, with the packet its QoS
\* asks for, however often the broker answers a PUBREC and over any reconnection.
THEOREM AcknowledgesWhatWasDelivered == Spec => []AcknowledgedAsDelivered
<1>1. TypeOK /\ AckInv => AcknowledgedAsDelivered
  <2> SUFFICES ASSUME TypeOK, AckInv, NEW i \in DOMAIN toBroker,
                      toBroker[i].type \in {"PUBACK", "PUBREC", "PUBCOMP"}
               PROVE  /\ \E j \in DOMAIN delivered : delivered[j] = toBroker[i].ref
                      /\ published[toBroker[i].ref].qos =
                            IF toBroker[i].type = "PUBACK" THEN "AT_LEAST_ONCE"
                            ELSE "EXACTLY_ONCE"
    BY DEF AcknowledgedAsDelivered
  <2>1. /\ toBroker \in Seq(Packets) /\ DOMAIN toBroker = 1 .. Len(toBroker)
        /\ delivered \in Seq(Nat) /\ DOMAIN delivered = 1 .. Len(delivered)
    BY LenProperties DEF TypeOK, LinkTypeOK, HistoryTypeOK
  <2>2. toBroker[i] \in Range(toBroker)
    BY <2>1, RangeMember
  <2>3. toBroker[i].ref \in Range(delivered)
        /\ published[toBroker[i].ref].qos = QosOfAck(toBroker[i].type)
    BY <2>2 DEF AckInv, Acknowledgements
  <2>4. \A x \in Range(delivered) : \E j \in 1 .. Len(delivered) : delivered[j] = x
    BY <2>1, RangeMember
  <2>5. \E j \in DOMAIN delivered : delivered[j] = toBroker[i].ref
    BY <2>1, <2>3, <2>4, Zenon
  <2>6. QED
    BY <2>3, <2>5 DEF QosOfAck
<1>2. Spec => [](TypeOK /\ EventsDispatched /\ AckInv)
  BY TypeCorrect, DispatchInit, DispatchStep, AckInit, AckStep, PTL DEF Spec
<1>3. QED
  BY <1>1, <1>2, PTL

-----------------------------------------------------------------------------
(* Sequences whose elements in C carry rising numbers *)

Rising(s, C, number) ==
    \A i, j \in 1 .. Len(s) :
        i < j /\ s[i] \in C /\ s[j] \in C => number[s[i]] < number[s[j]]
Numbers(s, C, number) == {number[x] : x \in Range(s) \cap C}

LEMMA RisingEmpty ==
    ASSUME NEW C, NEW number
    PROVE  Rising(<<>>, C, number) /\ Numbers(<<>>, C, number) = {}
<1>1. Len(<<>>) = 0
  BY EmptySeq
<1>2. QED
  BY <1>1, RangeEmpty DEF Rising, Numbers

\* Taking the head of a rising sequence takes its smallest number.
LEMMA RisingTail ==
    ASSUME NEW S, NEW s \in Seq(S), s # <<>>, NEW C, NEW number, Rising(s, C, number)
    PROVE  /\ Rising(Tail(s), C, number)
           /\ Head(s) \notin C => Numbers(s, C, number) = Numbers(Tail(s), C, number)
           /\ Head(s) \in C =>
                 /\ Numbers(s, C, number) = Numbers(Tail(s), C, number) \cup {number[Head(s)]}
                 /\ \A n \in Numbers(Tail(s), C, number) : number[Head(s)] < n
<1>1. /\ Tail(s) \in Seq(S) /\ Len(s) \in Nat \ {0} /\ Len(Tail(s)) = Len(s) - 1
      /\ \A i \in 1 .. Len(Tail(s)) : Tail(s)[i] = s[i + 1]
  BY HeadTailProperties, EmptySeq
<1>2. Head(s) = s[1]
  OBVIOUS
<1>3. Rising(Tail(s), C, number)
  <2> SUFFICES ASSUME NEW i \in 1 .. Len(Tail(s)), NEW j \in 1 .. Len(Tail(s)), i < j,
                      Tail(s)[i] \in C, Tail(s)[j] \in C
               PROVE  number[Tail(s)[i]] < number[Tail(s)[j]]
    BY DEF Rising
  <2>1. i + 1 \in 1 .. Len(s) /\ j + 1 \in 1 .. Len(s) /\ i + 1 < j + 1
    BY <1>1
  <2>2. s[i + 1] = Tail(s)[i] /\ s[j + 1] = Tail(s)[j]
    BY <1>1
  <2>3. QED
    BY <2>1, <2>2 DEF Rising
<1>4. Range(s) = {Head(s)} \cup Range(Tail(s))
  BY RangeTail
<1>5. ASSUME Head(s) \in C, NEW x \in Range(Tail(s)) \cap C PROVE number[Head(s)] < number[x]
  <2>1. PICK i \in 1 .. Len(Tail(s)) : Tail(s)[i] = x
    BY <1>1, RangeMember
  <2>2. i + 1 \in 1 .. Len(s) /\ 1 \in 1 .. Len(s) /\ 1 < i + 1 /\ s[i + 1] = x
    BY <1>1, <2>1
  <2>3. QED
    BY <1>2, <1>5, <2>2 DEF Rising
<1>6. QED
  BY <1>3, <1>4, <1>5 DEF Numbers

\* Appending a larger number keeps the sequence rising.
LEMMA RisingAppend ==
    ASSUME NEW S, NEW s \in Seq(S), NEW x \in S, NEW C, NEW number, Rising(s, C, number)
    PROVE  /\ x \notin C =>
                 /\ Rising(Append(s, x), C, number)
                 /\ Numbers(Append(s, x), C, number) = Numbers(s, C, number)
           /\ x \in C =>
                 /\ Numbers(Append(s, x), C, number) = Numbers(s, C, number) \cup {number[x]}
                 /\ (\A n \in Numbers(s, C, number) : n < number[x])
                       => Rising(Append(s, x), C, number)
<1>1. /\ Len(s) \in Nat /\ Len(Append(s, x)) = Len(s) + 1
      /\ \A i \in 1 .. Len(s) : Append(s, x)[i] = s[i]
      /\ Append(s, x)[Len(s) + 1] = x
  BY LenProperties, AppendProperties
<1>2. Range(Append(s, x)) = Range(s) \cup {x}
  BY RangeAppend
<1>3. ASSUME x \in C => \A n \in Numbers(s, C, number) : n < number[x]
      PROVE  Rising(Append(s, x), C, number)
  <2> SUFFICES ASSUME NEW i \in 1 .. Len(Append(s, x)), NEW j \in 1 .. Len(Append(s, x)), i < j,
                      Append(s, x)[i] \in C, Append(s, x)[j] \in C
               PROVE  number[Append(s, x)[i]] < number[Append(s, x)[j]]
    BY DEF Rising
  <2>1. i \in 1 .. Len(s) /\ (j \in 1 .. Len(s) \/ j = Len(s) + 1)
    BY <1>1
  <2>2. CASE j \in 1 .. Len(s)
    BY <1>1, <2>1, <2>2 DEF Rising
  <2>3. CASE j = Len(s) + 1
    <3>1. x \in C /\ Append(s, x)[j] = x /\ Append(s, x)[i] = s[i]
      BY <1>1, <2>1, <2>3
    <3>2. s[i] \in Range(s)
      BY <2>1, RangeMember
    <3>3. number[s[i]] \in Numbers(s, C, number)
      BY <3>1, <3>2 DEF Numbers
    <3>4. QED
      BY <1>3, <3>1, <3>3
  <2>4. QED
    BY <2>1, <2>2, <2>3
<1>4. QED
  BY <1>2, <1>3 DEF Numbers

-----------------------------------------------------------------------------
(* The way of a message: sent on the socket, framed in the queue of the parser, parsed *)
(* in the queue of its slot, heard by the user                                        *)

Itself == [m \in Nat |-> m]
PacketRef == [p \in BrokerPackets |-> p.ref]
EventRef == [e \in Events |-> e.packet.ref]
MessagePackets == {p \in BrokerPackets : p.type = "PUBLISH"}
MessageFrames == {e \in Events : e.slot = "parse" /\ e.packet.type = "PUBLISH"}
MessageEvents == {e \in Events : e.slot = "onPublishReceived"}

Heard == Numbers(delivered, Nat, Itself)
ParsedMessages == Numbers(queue, MessageEvents, EventRef)
Framed == Numbers(queue, MessageFrames, EventRef)
Sent == Numbers(toClient, MessagePackets, PacketRef)
Seen == Heard \cup ParsedMessages \cup Framed

InLine ==
    /\ Rising(delivered, Nat, Itself)
    /\ Rising(queue, MessageEvents, EventRef) /\ Rising(queue, MessageFrames, EventRef)
    /\ Rising(toClient, MessagePackets, PacketRef)

Before(A, B) == \A a \in A, b \in B : a < b

\* The messages heard are older than those parsed, these than those framed, and these than
\* those on the socket.
StagesInLine ==
    /\ Before(Heard, ParsedMessages \cup Framed \cup Sent)
    /\ Before(ParsedMessages, Framed \cup Sent)
    /\ Before(Framed, Sent)
    /\ Seen \cup Sent \subseteq 1 .. Len(published)

OrderInv == InLine /\ StagesInLine

\* Every message of an open socket is somewhere on its way, and what has left the socket
\* has no gap: a frame leaves it only when it is the oldest.
GapInv ==
    /\ \A m \in 1 .. Len(published) : published[m].conn <= conn
    /\ \A m \in Sent : published[m].conn = conn
    /\ \A x \in Seen : \A m \in 1 .. x : published[m].conn = published[x].conn => m \in Seen
    /\ socket \in {"connecting", "connected"} =>
          \A m \in 1 .. Len(published) : published[m].conn = conn => m \in Seen \cup Sent

\* The classes of packets and events do not change.
LEMMA StagesNext ==
    /\ Heard' = Numbers(delivered', Nat, Itself)
    /\ ParsedMessages' = Numbers(queue', MessageEvents, EventRef)
    /\ Framed' = Numbers(queue', MessageFrames, EventRef)
    /\ Sent' = Numbers(toClient', MessagePackets, PacketRef)
    /\ Seen' = Heard' \cup ParsedMessages' \cup Framed'
    /\ InLine' <=>
          /\ Rising(delivered', Nat, Itself)
          /\ Rising(queue', MessageEvents, EventRef) /\ Rising(queue', MessageFrames, EventRef)
          /\ Rising(toClient', MessagePackets, PacketRef)
BY DEF Heard, ParsedMessages, Framed, Sent, Seen, InLine, Numbers, Rising, Itself, EventRef,
       PacketRef, MessageEvents, MessageFrames, MessagePackets

LEMMA OrderInit == Init => OrderInv /\ GapInv
<1> SUFFICES ASSUME Init PROVE OrderInv /\ GapInv
  OBVIOUS
<1>1. InLine /\ Seen = {} /\ Sent = {}
  BY RisingEmpty DEF Init, InLine, Seen, Sent, Heard, ParsedMessages, Framed
<1>2. Len(published) = 0
  BY EmptySeq DEF Init
<1>3. StagesInLine
  BY <1>1 DEF StagesInLine, Before, Seen
<1>4. GapInv
  BY <1>1, <1>2 DEF GapInv
<1>5. QED
  BY <1>1, <1>3, <1>4 DEF OrderInv

\* The oldest message of a stage moves on to the next one.
Advance(from, fromNext, to, toNext) ==
    \E m : /\ from = fromNext \cup {m} /\ toNext = to \cup {m}
           /\ \A n \in fromNext : m < n

Stays ==
    /\ Heard' = Heard /\ ParsedMessages' = ParsedMessages /\ Framed' = Framed
    /\ published' = published
    /\ \/ Sent' = Sent
       \/ Sent' = {} /\ (socket' = "unconnected" \/ conn' = conn + 1)
Hears ==
    /\ Advance(ParsedMessages, ParsedMessages', Heard, Heard')
    /\ Framed' = Framed /\ Sent' = Sent /\ published' = published
Parses ==
    /\ Advance(Framed, Framed', ParsedMessages, ParsedMessages')
    /\ Heard' = Heard /\ Sent' = Sent /\ published' = published
Receives ==
    /\ socket = "connected"
    /\ Advance(Sent, Sent', Framed, Framed')
    /\ Heard' = Heard /\ ParsedMessages' = ParsedMessages /\ published' = published
Publishes ==
    /\ socket = "connected"
    /\ Sent' = Sent \cup {Len(published) + 1}
    /\ Heard' = Heard /\ ParsedMessages' = ParsedMessages /\ Framed' = Framed
    /\ Len(published') = Len(published) + 1
    /\ \A m \in 1 .. Len(published) : published'[m] = published[m]
    /\ published'[Len(published) + 1].conn = conn

\* What the messages of a user's call, of the network and of a timer do: they stay, or
\* go down with the socket.
LEMMA SocketLosesMessages ==
    ASSUME Quiet \/ Handle
    PROVE  \/ toClient' = toClient
           \/ toClient' = <<>> /\ (socket' = "unconnected" \/ conn' = conn + 1)
<1>1. CASE Quiet
  BY <1>1
     DEF Quiet, UserCall, Connect, Disconnect, CloseOrderly, Unconnect, Subscribe,
         Unsubscribe, PublishQoS1, Request, RejectTopic, PublishQoS0, RunImmediate,
         SocketError, SslErrors, SocketDisconnected, TextMessageReceived
<1>2. CASE Handle
  BY <1>2
     DEF Handle, OnSocketConnected, ForwardError, OnConnackReceived, Abort, Unconnect,
         OnSubackReceived, OnUnsubackReceived, OnPubAckReceived, Complete,
         OnPublishReceived, OnPubRelReceived, OnPongReceived, SendPing, CloseOrderly
<1>3. QED
  BY <1>1, <1>2

LEMMA SentAfterLoss ==
    ASSUME OrderInv, Quiet \/ Handle
    PROVE  /\ Rising(toClient', MessagePackets, PacketRef)
           /\ \/ Sent' = Sent
              \/ Sent' = {} /\ (socket' = "unconnected" \/ conn' = conn + 1)
<1>1. CASE toClient' = toClient
  BY <1>1, StagesNext DEF OrderInv, InLine, Sent
<1>2. CASE toClient' = <<>> /\ (socket' = "unconnected" \/ conn' = conn + 1)
  BY <1>2, StagesNext, RisingEmpty, Zenon
<1>3. QED
  BY <1>1, <1>2, SocketLosesMessages

LEMMA QuietStays ==
    ASSUME Next, OrderInv, Quiet
    PROVE  Stays /\ InLine'
<1>1. queue' = queue /\ delivered' = delivered /\ published' = published
  BY DEF Quiet, UserCall, Connect, Disconnect, Subscribe, Unsubscribe, PublishQoS1, Request,
         RejectTopic, PublishQoS0, RunImmediate, SocketError, SslErrors, SocketDisconnected,
         TextMessageReceived
<1>2. Heard' = Heard /\ ParsedMessages' = ParsedMessages /\ Framed' = Framed
  BY <1>1, StagesNext DEF Heard, ParsedMessages, Framed
<1>3. InLine'
  BY <1>1, StagesNext, SentAfterLoss DEF OrderInv, InLine
<1>4. QED
  BY <1>1, <1>2, <1>3, SentAfterLoss DEF Stays

\* onPublishReceived takes the oldest parsed message; the other slots take none.
LEMMA HandleAdvances ==
    ASSUME TypeOK, EventsDispatched, OrderInv, Next, Handle
    PROVE  (Stays \/ Hears) /\ InLine'
<1>1. /\ queue \in Seq(Events) /\ delivered \in Seq(Nat)
      /\ queue # <<>> /\ queue' = Tail(queue) /\ Head(queue) \in Events
      /\ Head(queue).slot # "parse"
  BY HandleSequence, HeadTailProperties DEF Runs, TypeOK, LinkTypeOK, HistoryTypeOK
<1>2. /\ Rising(queue, MessageEvents, EventRef) /\ Rising(queue, MessageFrames, EventRef)
      /\ Rising(delivered, Nat, Itself)
  BY DEF OrderInv, InLine
<1>3. Rising(queue', MessageEvents, EventRef) /\ Rising(queue', MessageFrames, EventRef)
  BY <1>1, <1>2, RisingTail
<1>4. Framed' = Framed
  <2>1. Head(queue) \notin MessageFrames
    BY <1>1 DEF MessageFrames
  <2>2. Numbers(queue, MessageFrames, EventRef) = Numbers(Tail(queue), MessageFrames, EventRef)
    BY <1>1, <1>2, <2>1, RisingTail
  <2>3. QED
    BY <1>1, <2>2, StagesNext DEF Framed
<1>5. published' = published
  <2>1. CASE OnSocketConnected \/ ForwardError \/ OnConnackReceived \/ SendPing
    BY <2>1 DEF OnSocketConnected, ForwardError, OnConnackReceived, SendPing
  <2>2. CASE OnSubackReceived \/ OnUnsubackReceived \/ OnPubAckReceived
    BY <2>2 DEF OnSubackReceived, OnUnsubackReceived, OnPubAckReceived, Complete
  <2>3. CASE OnPublishReceived \/ OnPubRelReceived \/ OnPongReceived
    BY <2>3 DEF OnPublishReceived, OnPubRelReceived, OnPongReceived
  <2>4. QED
    BY <2>1, <2>2, <2>3 DEF Handle
<1>6. CASE OnPublishReceived
  <2>1. Head(queue) \in MessageEvents /\ EventRef[Head(queue)] = Arg.ref /\ Arg.ref \in Nat
    BY <1>1, <1>6, ArgType
       DEF OnPublishReceived, Runs, MessageEvents, EventRef, Arg, TypeOK, Packets
  <2>2. delivered' = Append(delivered, Arg.ref) /\ toClient' = toClient
    BY <1>6 DEF OnPublishReceived
  <2>3. /\ ParsedMessages = ParsedMessages' \cup {Arg.ref}
        /\ \A n \in ParsedMessages' : Arg.ref < n
    BY <1>1, <1>2, <2>1, RisingTail, StagesNext DEF ParsedMessages
  <2>4. /\ Heard' = Heard \cup {Arg.ref}
        /\ Rising(delivered', Nat, Itself)
    <3>1. PICK m \in Nat : m = Arg.ref
      BY <2>1
    <3>2. Itself[m] = m
      BY DEF Itself
    <3>3. \A n \in Numbers(delivered, Nat, Itself) : n < Itself[m]
      BY <2>3, <3>1, <3>2 DEF OrderInv, StagesInLine, Before, Heard
    <3>4. /\ Numbers(Append(delivered, m), Nat, Itself)
                = Numbers(delivered, Nat, Itself) \cup {Itself[m]}
          /\ Rising(Append(delivered, m), Nat, Itself)
      BY <1>1, <1>2, <3>3, RisingAppend
    <3>5. QED
      BY <2>2, <3>1, <3>2, <3>4, StagesNext DEF Heard
  <2>5. Sent' = Sent /\ Rising(toClient', MessagePackets, PacketRef)
    BY <2>2, StagesNext DEF Sent, OrderInv, InLine
  <2>6. InLine'
    BY <1>3, <2>4, <2>5, StagesNext
  <2>7. QED
    BY <1>4, <1>5, <2>3, <2>4, <2>5, <2>6 DEF Hears, Advance
<1>7. CASE ~ OnPublishReceived
  <2>1. Head(queue).slot # "onPublishReceived"
    BY <1>7
       DEF Handle, Runs, OnSocketConnected, ForwardError, OnConnackReceived, OnSubackReceived,
           OnUnsubackReceived, OnPubAckReceived, OnPubRelReceived, OnPongReceived, SendPing
  <2>2. Head(queue) \notin MessageEvents
    BY <2>1 DEF MessageEvents
  <2>3. Numbers(queue, MessageEvents, EventRef) = Numbers(Tail(queue), MessageEvents, EventRef)
    BY <1>1, <1>2, <2>2, RisingTail
  <2>4. ParsedMessages' = ParsedMessages
    BY <1>1, <2>3, StagesNext DEF ParsedMessages
  <2>5. delivered' = delivered
    BY <1>7, MessageStep
  <2>6. Heard' = Heard
    BY <2>5, StagesNext DEF Heard
  <2>7. InLine'
    BY <1>2, <1>3, <2>5, StagesNext, SentAfterLoss
  <2>8. QED
    BY <1>4, <1>5, <2>4, <2>6, <2>7, SentAfterLoss DEF Stays
<1>8. QED
  BY <1>6, <1>7

\* The parser turns the oldest framed message into a parsed one.
LEMMA ParseAdvances ==
    ASSUME TypeOK, SlotsOnce, OrderInv, Next, Parse
    PROVE  (Stays \/ Parses) /\ InLine'
<1>1. /\ queue \in Seq(Events) /\ queue # <<>> /\ Head(queue) = Arrived(Arg)
      /\ Arg \in BrokerPackets /\ Arg \in Packets
      /\ Arrived(Arg) \in Events /\ Parsed(Arg) \in Events
  BY ParseSequence, PostedTypes, BrokerPacketsArePackets DEF TypeOK, LinkTypeOK
<1>2. PICK q \in Seq(Events) :
         q = Tail(queue) /\ queue' = Append(q, Parsed(Arg)) /\ toClient' = toClient
  BY <1>1, ParseSequence, HeadTailProperties
<1>3. /\ Rising(queue, MessageEvents, EventRef) /\ Rising(queue, MessageFrames, EventRef)
  BY DEF OrderInv, InLine
<1>4. /\ Arrived(Arg) \notin MessageEvents /\ Parsed(Arg) \notin MessageFrames
      /\ Arrived(Arg) \in MessageFrames <=> Arg.type = "PUBLISH"
      /\ Parsed(Arg) \in MessageEvents <=> Arg.type = "PUBLISH"
      /\ EventRef[Arrived(Arg)] = Arg.ref /\ EventRef[Parsed(Arg)] = Arg.ref
  <2>1. /\ Arg.type \in DOMAIN SlotOf /\ SlotOf[Arg.type] # "parse"
        /\ SlotOf[Arg.type] = "onPublishReceived" <=> Arg.type = "PUBLISH"
    BY <1>1 DEF BrokerPackets, SlotOf
  <2>2. /\ Arrived(Arg).slot = "parse" /\ Arrived(Arg).packet = Arg
        /\ Parsed(Arg).slot = SlotOf[Arg.type] /\ Parsed(Arg).packet = Arg
    BY DEF Arrived, Parsed
  <2>3. QED
    BY <1>1, <2>1, <2>2 DEF MessageEvents, MessageFrames, EventRef
<1>5. /\ Rising(q, MessageEvents, EventRef) /\ Rising(q, MessageFrames, EventRef)
      /\ ParsedMessages = Numbers(q, MessageEvents, EventRef)
      /\ Arg.type # "PUBLISH" => Framed = Numbers(q, MessageFrames, EventRef)
      /\ Arg.type = "PUBLISH" =>
            /\ Framed = Numbers(q, MessageFrames, EventRef) \cup {Arg.ref}
            /\ \A n \in Numbers(q, MessageFrames, EventRef) : Arg.ref < n
  BY <1>1, <1>2, <1>3, <1>4, RisingTail DEF ParsedMessages, Framed
<1>6. Framed' = Numbers(q, MessageFrames, EventRef) /\ Rising(queue', MessageFrames, EventRef)
  <2>1. /\ Numbers(Append(q, Parsed(Arg)), MessageFrames, EventRef)
              = Numbers(q, MessageFrames, EventRef)
        /\ Rising(Append(q, Parsed(Arg)), MessageFrames, EventRef)
    BY <1>1, <1>4, <1>5, RisingAppend
  <2>2. QED
    BY <1>2, <2>1, StagesNext
<1>7. /\ Rising(queue', MessageEvents, EventRef)
      /\ Arg.type # "PUBLISH" => ParsedMessages' = ParsedMessages
      /\ Arg.type = "PUBLISH" => ParsedMessages' = ParsedMessages \cup {Arg.ref}
  <2>1. Arg.type = "PUBLISH" =>
           \A n \in Numbers(q, MessageEvents, EventRef) : n < EventRef[Parsed(Arg)]
    BY <1>4, <1>5 DEF OrderInv, StagesInLine, Before
  <2>2. Rising(Append(q, Parsed(Arg)), MessageEvents, EventRef)
    BY <1>1, <1>4, <1>5, <2>1, RisingAppend
  <2>3. /\ Arg.type # "PUBLISH" =>
              Numbers(Append(q, Parsed(Arg)), MessageEvents, EventRef)
                 = Numbers(q, MessageEvents, EventRef)
        /\ Arg.type = "PUBLISH" =>
              Numbers(Append(q, Parsed(Arg)), MessageEvents, EventRef)
                 = Numbers(q, MessageEvents, EventRef) \cup {EventRef[Parsed(Arg)]}
    BY <1>1, <1>4, <1>5, RisingAppend
  <2>4. QED
    BY <1>2, <1>4, <1>5, <2>2, <2>3, StagesNext
<1>8. delivered' = delivered /\ published' = published
  BY DEF Parse
<1>9. Heard' = Heard /\ Sent' = Sent
  BY <1>2, <1>8, StagesNext DEF Heard, Sent
<1>10. InLine'
  BY <1>2, <1>6, <1>7, <1>8, StagesNext DEF OrderInv, InLine
<1>11. QED
  BY <1>5, <1>6, <1>7, <1>8, <1>9, <1>10 DEF Stays, Parses, Advance

\* A frame takes the oldest packet from the socket.
LEMMA FrameAdvances ==
    ASSUME TypeOK, SlotsOnce, OrderInv, Next, BinaryMessageReceived
    PROVE  (Stays \/ Receives) /\ InLine'
<1>1. PICK p \in BrokerPackets : p = Head(toClient)
  BY FrameSequence
<1>2. /\ queue \in Seq(Events) /\ toClient \in Seq(BrokerPackets) /\ toClient # <<>>
      /\ toClient' = Tail(toClient) /\ queue' = Append(queue, Arrived(p))
      /\ Arrived(p) \in Events /\ p \in Packets
  BY <1>1, FrameSequence, PostedTypes, BrokerPacketsArePackets DEF TypeOK, LinkTypeOK
<1>3. /\ Rising(queue, MessageEvents, EventRef) /\ Rising(queue, MessageFrames, EventRef)
      /\ Rising(toClient, MessagePackets, PacketRef)
  BY DEF OrderInv, InLine
<1>4. /\ Arrived(p) \notin MessageEvents
      /\ Arrived(p) \in MessageFrames <=> p.type = "PUBLISH"
      /\ p \in MessagePackets <=> p.type = "PUBLISH"
      /\ EventRef[Arrived(p)] = p.ref /\ PacketRef[p] = p.ref
  <2>1. Arrived(p).slot = "parse" /\ Arrived(p).packet = p
    BY DEF Arrived
  <2>2. QED
    BY <1>2, <2>1 DEF MessageEvents, MessageFrames, MessagePackets, EventRef, PacketRef
<1>5. /\ Rising(toClient', MessagePackets, PacketRef)
      /\ p.type # "PUBLISH" => Sent' = Sent
      /\ p.type = "PUBLISH" => Sent = Sent' \cup {p.ref} /\ \A n \in Sent' : p.ref < n
  BY <1>1, <1>2, <1>3, <1>4, RisingTail, StagesNext DEF Sent
<1>6. ParsedMessages' = ParsedMessages /\ Rising(queue', MessageEvents, EventRef)
  BY <1>2, <1>3, <1>4, RisingAppend, StagesNext DEF ParsedMessages
<1>7. /\ Rising(queue', MessageFrames, EventRef)
      /\ p.type # "PUBLISH" => Framed' = Framed
      /\ p.type = "PUBLISH" => Framed' = Framed \cup {p.ref}
  <2>1. p.type = "PUBLISH" =>
           \A n \in Numbers(queue, MessageFrames, EventRef) : n < EventRef[Arrived(p)]
    BY <1>4, <1>5 DEF OrderInv, StagesInLine, Before, Framed
  <2>2. Rising(queue', MessageFrames, EventRef)
    BY <1>2, <1>3, <1>4, <2>1, RisingAppend
  <2>3. QED
    BY <1>2, <1>3, <1>4, <2>2, RisingAppend, StagesNext DEF Framed
<1>8. delivered' = delivered /\ published' = published /\ socket = "connected"
  BY DEF BinaryMessageReceived
<1>9. Heard' = Heard
  BY <1>8, StagesNext DEF Heard
<1>10. InLine'
  BY <1>5, <1>6, <1>7, <1>8, StagesNext DEF OrderInv, InLine
<1>11. QED
  BY <1>5, <1>6, <1>7, <1>8, <1>9, <1>10 DEF Stays, Receives, Advance

LEMMA NoticeStays ==
    ASSUME TypeOK, SlotsOnce, OrderInv, Next, TimerTimeout \/ SocketConnected
    PROVE  Stays /\ InLine'
<1>1. /\ delivered' = delivered /\ published' = published /\ toClient' = toClient
      /\ queue \in Seq(Events)
  BY DEF TimerTimeout, SocketConnected, TypeOK, LinkTypeOK
<1>2. Heard' = Heard /\ Sent' = Sent
  BY <1>1, StagesNext DEF Heard, Sent
<1>3. CASE queue' = queue
  <2>1. ParsedMessages' = ParsedMessages /\ Framed' = Framed /\ InLine'
    BY <1>1, <1>3, StagesNext DEF ParsedMessages, Framed, OrderInv, InLine
  <2>2. QED
    BY <1>1, <1>2, <2>1 DEF Stays
<1>4. ASSUME NEW e \in Notices, queue' = Append(queue, e)
      PROVE  Stays /\ InLine'
  <2>1. e \in Events /\ e \notin MessageEvents /\ e \notin MessageFrames
    BY PostedTypes DEF Notices, MessageEvents, MessageFrames
  <2>2. /\ Rising(queue, MessageEvents, EventRef) /\ Rising(queue, MessageFrames, EventRef)
    BY DEF OrderInv, InLine
  <2>3. /\ Rising(queue', MessageEvents, EventRef) /\ Rising(queue', MessageFrames, EventRef)
        /\ ParsedMessages' = ParsedMessages /\ Framed' = Framed
    BY <1>1, <1>4, <2>1, <2>2, RisingAppend, StagesNext DEF ParsedMessages, Framed
  <2>4. InLine'
    BY <1>1, <2>3, StagesNext DEF OrderInv, InLine
  <2>5. QED
    BY <1>1, <1>2, <2>3, <2>4 DEF Stays
<1>5. QED
  BY <1>3, <1>4, NoticeSequence

\* The broker publishes its messages one after the other; what it answers is no message.
LEMMA PublishAdvances ==
    ASSUME TypeOK, OrderInv, BrokerPublishes
    PROVE  Publishes /\ InLine'
<1>1. /\ Len(published) \in Nat /\ IdSpace \in Nat \ {0} /\ toClient \in Seq(BrokerPackets)
      /\ published \in Seq([qos : QoSs, conn : Nat]) /\ conn \in Nat
  BY LenProperties, IdSpaceAssumption DEF TypeOK, LinkTypeOK, BrokerTypeOK, ClientTypeOK
<1>2. PICK qos \in QoSs, id \in Ids :
         /\ published' = Append(published, [qos |-> qos, conn |-> conn])
         /\ toClient' = Append(toClient, Packet("PUBLISH", id, qos, Len(published) + 1))
  BY <1>1, ZeroId DEF BrokerPublishes, Ids
<1>3. PICK p \in BrokerPackets :
         p = Packet("PUBLISH", id, qos, Len(published) + 1) /\ toClient' = Append(toClient, p)
  <2>1. Packet("PUBLISH", id, qos, Len(published) + 1) \in BrokerPackets
    <3>1. Len(published) + 1 \in Nat /\ qos \in Codes
      BY <1>1 DEF Codes
    <3>2. "PUBLISH" \in PacketTypes /\ "PUBLISH" \in DOMAIN SlotOf
      BY DEF PacketTypes, SlotOf
    <3>3. QED
      BY <3>1, <3>2, PacketType
  <2>2. QED
    BY <1>2, <2>1
<1>4. p \in MessagePackets /\ PacketRef[p] = Len(published) + 1
  BY <1>3 DEF MessagePackets, PacketRef, Packet
<1>5. /\ Len(published') = Len(published) + 1
      /\ \A m \in 1 .. Len(published) : published'[m] = published[m]
      /\ published'[Len(published) + 1].conn = conn
  <2>1. [qos |-> qos, conn |-> conn] \in [qos : QoSs, conn : Nat]
    BY <1>1
  <2>2. /\ Len(published') = Len(published) + 1
        /\ \A m \in 1 .. Len(published) : published'[m] = published[m]
        /\ published'[Len(published) + 1] = [qos |-> qos, conn |-> conn]
    BY <1>1, <1>2, <2>1, AppendProperties
  <2>3. QED
    BY <2>2
<1>6. Sent' = Sent \cup {Len(published) + 1} /\ Rising(toClient', MessagePackets, PacketRef)
  <2>1. \A n \in Numbers(toClient, MessagePackets, PacketRef) : n < PacketRef[p]
    BY <1>1, <1>4 DEF OrderInv, StagesInLine, Sent
  <2>2. Rising(toClient, MessagePackets, PacketRef)
    BY DEF OrderInv, InLine
  <2>3. QED
    BY <1>1, <1>3, <1>4, <2>1, <2>2, RisingAppend, StagesNext DEF Sent
<1>7. queue' = queue /\ delivered' = delivered /\ socket = "connected"
  BY DEF BrokerPublishes
<1>8. /\ Heard' = Heard /\ ParsedMessages' = ParsedMessages /\ Framed' = Framed
      /\ InLine'
  BY <1>6, <1>7, StagesNext DEF Heard, ParsedMessages, Framed, OrderInv, InLine
<1>9. QED
  BY <1>5, <1>6, <1>7, <1>8 DEF Publishes

LEMMA BrokerStays ==
    ASSUME TypeOK, OrderInv, Next, Broker, ~ BrokerPublishes
    PROVE  Stays /\ InLine'
<1>1. delivered' = delivered /\ published' = published /\ queue' = queue
  BY BrokerSequence
     DEF Broker, BrokerConnack, BrokerAnswers, BrokerPong, BrokerPubRel, Reply,
         BrokerIgnores, BrokerBadFrame
<1>2. /\ toClient \in Seq(BrokerPackets) /\ Rising(toClient, MessagePackets, PacketRef)
  BY DEF OrderInv, InLine, TypeOK, LinkTypeOK
<1>3. ASSUME NEW p \in BrokerPackets, p \notin MessagePackets,
             NEW s \in Seq(BrokerPackets), Rising(s, MessagePackets, PacketRef)
      PROVE  /\ Append(s, p) \in Seq(BrokerPackets)
             /\ Rising(Append(s, p), MessagePackets, PacketRef)
             /\ Numbers(Append(s, p), MessagePackets, PacketRef)
                   = Numbers(s, MessagePackets, PacketRef)
  BY <1>3, RisingAppend, AppendProperties
<1>4. Sent' = Sent /\ Rising(toClient', MessagePackets, PacketRef)
  <2>1. CASE toClient' = toClient
    BY <1>2, <2>1, StagesNext DEF Sent
  <2>2. ASSUME NEW p \in BrokerPackets, NewArriving(p),
               \/ toClient' = Append(toClient, p)
               \/ toClient' = Append(Append(toClient, p), p)
        PROVE  Sent' = Sent /\ Rising(toClient', MessagePackets, PacketRef)
    <3>1. p \notin MessagePackets
      BY <2>2, NewArrivingByType DEF MessagePackets, NewMessage
    <3>2. PICK s \in Seq(BrokerPackets) :
             /\ s = Append(toClient, p)
             /\ Rising(s, MessagePackets, PacketRef)
             /\ Numbers(s, MessagePackets, PacketRef)
                   = Numbers(toClient, MessagePackets, PacketRef)
      BY <1>2, <1>3, <3>1
    <3>3. /\ Rising(Append(s, p), MessagePackets, PacketRef)
          /\ Numbers(Append(s, p), MessagePackets, PacketRef)
                = Numbers(s, MessagePackets, PacketRef)
      BY <1>3, <3>1, <3>2
    <3>4. toClient' = s \/ toClient' = Append(s, p)
      BY <2>2, <3>2
    <3>5. QED
      BY <3>2, <3>3, <3>4, StagesNext DEF Sent
  <2>3. QED
    BY <2>1, <2>2, BrokerSequence
<1>5. /\ Heard' = Heard /\ ParsedMessages' = ParsedMessages /\ Framed' = Framed
      /\ InLine'
  BY <1>1, <1>4, StagesNext DEF Heard, ParsedMessages, Framed, OrderInv, InLine
<1>6. QED
  BY <1>1, <1>4, <1>5 DEF Stays

LEMMA StagesStep ==
    ASSUME TypeOK, SlotsOnce, EventsDispatched, OrderInv, Next
    PROVE  (Stays \/ Hears \/ Parses \/ Receives \/ Publishes) /\ InLine'
BY QuietStays, HandleAdvances, ParseAdvances, FrameAdvances, NoticeStays, PublishAdvances,
   BrokerStays, StepKinds

LEMMA StagesInLineStep ==
    ASSUME TypeOK, StagesInLine, Stays \/ Hears \/ Parses \/ Receives \/ Publishes
    PROVE  StagesInLine'
<1> USE StagesNext DEF StagesInLine, Before, Seen
<1>1. Len(published) \in Nat
  BY LenProperties DEF TypeOK, BrokerTypeOK
<1>2. StagesInLine' <=>
         /\ Before(Heard', ParsedMessages' \cup Framed' \cup Sent')
         /\ Before(ParsedMessages', Framed' \cup Sent')
         /\ Before(Framed', Sent')
         /\ Heard' \cup ParsedMessages' \cup Framed' \cup Sent' \subseteq 1 .. Len(published')
  OBVIOUS
<1>3. CASE Stays
  BY <1>2, <1>3 DEF Stays
<1>4. CASE Hears
  BY <1>2, <1>4 DEF Hears, Advance
<1>5. CASE Parses
  BY <1>2, <1>5 DEF Parses, Advance
<1>6. CASE Receives
  BY <1>2, <1>6 DEF Receives, Advance
<1>7. CASE Publishes
  BY <1>1, <1>2, <1>7 DEF Publishes
<1>8. QED
  BY <1>3, <1>4, <1>5, <1>6, <1>7

LEMMA OrderStep ==
    TypeOK /\ SlotsOnce /\ EventsDispatched /\ OrderInv /\ [Next]_vars => OrderInv'
<1>1. CASE UNCHANGED vars
  BY <1>1, StagesNext
     DEF OrderInv, InLine, StagesInLine, Before, Seen, Heard, ParsedMessages, Framed, Sent
<1>2. ASSUME TypeOK, SlotsOnce, EventsDispatched, OrderInv, Next PROVE OrderInv'
  BY <1>2, StagesStep, StagesInLineStep DEF OrderInv
<1>3. QED
  BY <1>1, <1>2

LEMMA GapStep ==
    /\ TypeOK /\ SlotsOnce /\ EventsDispatched /\ OrderInv /\ GapInv /\ [Next]_vars
    => GapInv'
<1> SUFFICES ASSUME TypeOK, SlotsOnce, EventsDispatched, OrderInv, GapInv, [Next]_vars
             PROVE  GapInv'
  OBVIOUS
<1>1. /\ conn \in Nat /\ Len(published) \in Nat
      /\ \A m \in 1 .. Len(published) : published[m].conn \in Nat
      /\ Seen \cup Sent \subseteq 1 .. Len(published)
  <2>1. conn \in Nat /\ published \in Seq([qos : QoSs, conn : Nat])
    BY DEF TypeOK, ClientTypeOK, BrokerTypeOK
  <2>2. Seen \cup Sent \subseteq 1 .. Len(published)
    BY DEF OrderInv, StagesInLine
  <2>3. \A m \in 1 .. Len(published) : published[m] \in [qos : QoSs, conn : Nat]
    BY <2>1, ElementOfSeq
  <2>4. QED
    BY <2>1, <2>2, <2>3, LenProperties
<1>2. CASE UNCHANGED vars
  BY <1>2, StagesNext DEF GapInv, Seen, Heard, ParsedMessages, Framed, Sent
<1>3. CASE Next
  <2>1. Stays \/ Hears \/ Parses \/ Receives \/ Publishes
    BY <1>3, StagesStep
  <2>2. \/ conn' = conn + 1 /\ Sent' = {}
        \/ /\ conn' = conn
           /\ socket' \in {"connecting", "connected"} => socket \in {"connecting", "connected"}
    <3>1. Opens => Sent' = {}
      BY StagesNext, RisingEmpty DEF Opens
    <3>2. QED
      BY <1>3, <3>1, ConnectionStep DEF Opens, KeepsSocket
  <2>3. CASE Publishes
    <3>1. /\ Sent' = Sent \cup {Len(published) + 1} /\ Seen' = Seen
          /\ socket = "connected" /\ Len(published') = Len(published) + 1
          /\ \A m \in 1 .. Len(published) : published'[m] = published[m]
          /\ published'[Len(published) + 1].conn = conn
      BY <2>3, StagesNext DEF Publishes, Seen
    <3>2. conn' = conn
      BY <2>2, <3>1
    <3>3. \A m \in 1 .. Len(published') : m \in 1 .. Len(published) \/ m = Len(published) + 1
      BY <1>1, <3>1
    <3>4. \A x \in Seen' : \A m \in 1 .. x : m \in 1 .. Len(published)
      BY <1>1, <3>1
    <3>5. \A m \in 1 .. Len(published') : published'[m].conn <= conn'
      BY <1>1, <3>1, <3>2, <3>3 DEF GapInv
    <3>6. \A m \in Sent' : published'[m].conn = conn'
      BY <1>1, <3>1, <3>2 DEF GapInv
    <3>7. \A x \in Seen' : \A m \in 1 .. x : published'[m].conn = published'[x].conn => m \in Seen'
      BY <1>1, <3>1, <3>4 DEF GapInv
    <3>8. \A m \in 1 .. Len(published') : published'[m].conn = conn' => m \in Seen' \cup Sent'
      BY <1>1, <3>1, <3>2, <3>3 DEF GapInv
    <3>9. QED
      BY <3>5, <3>6, <3>7, <3>8 DEF GapInv
  <2>4. CASE Receives
    <3>1. PICK r : /\ Sent = Sent' \cup {r} /\ Framed' = Framed \cup {r}
                   /\ \A n \in Sent' : r < n
      BY <2>4 DEF Receives, Advance
    <3>2. Seen' = Seen \cup {r} /\ published' = published /\ socket = "connected"
      BY <2>4, <3>1, StagesNext DEF Receives, Seen
    <3>3. r \in 1 .. Len(published) /\ published[r].conn = conn
      BY <1>1, <3>1 DEF GapInv
    <3>4. ASSUME NEW m \in 1 .. r, published[m].conn = conn PROVE m \in Seen'
      <4>1. m \in Seen \cup Sent
        BY <1>1, <3>2, <3>3, <3>4 DEF GapInv
      <4>2. m \notin Sent'
        BY <3>1, <3>3
      <4>3. QED
        BY <3>1, <3>2, <4>1, <4>2
    <3>5. \A x \in Seen' : \A m \in 1 .. x : published'[m].conn = published'[x].conn => m \in Seen'
      BY <3>2, <3>3, <3>4 DEF GapInv
    <3>6. /\ \A m \in 1 .. Len(published') : published'[m].conn <= conn'
          /\ \A m \in Sent' : published'[m].conn = conn'
      BY <1>1, <2>2, <3>1, <3>2 DEF GapInv
    <3>7. socket' \in {"connecting", "connected"} =>
             \A m \in 1 .. Len(published') : published'[m].conn = conn' => m \in Seen' \cup Sent'
      BY <1>1, <2>2, <3>1, <3>2 DEF GapInv
    <3>8. QED
      BY <3>5, <3>6, <3>7 DEF GapInv
  <2>5. CASE Stays \/ Hears \/ Parses
    <3>1. /\ Seen' = Seen /\ published' = published
          /\ \/ Sent' = Sent
             \/ Sent' = {} /\ (socket' = "unconnected" \/ conn' = conn + 1)
      BY <2>5, StagesNext DEF Stays, Hears, Parses, Advance, Seen
    <3>2. /\ \A m \in 1 .. Len(published') : published'[m].conn <= conn'
          /\ \A m \in Sent' : published'[m].conn = conn'
      BY <1>1, <2>2, <3>1 DEF GapInv
    <3>3. \A x \in Seen' : \A m \in 1 .. x : published'[m].conn = published'[x].conn => m \in Seen'
      BY <3>1 DEF GapInv
    <3>4. socket' \in {"connecting", "connected"} =>
             \A m \in 1 .. Len(published') : published'[m].conn = conn' => m \in Seen' \cup Sent'
      <4>1. CASE conn' = conn + 1
        BY <1>1, <3>1, <4>1 DEF GapInv
      <4>2. CASE conn' = conn
        BY <1>1, <2>2, <3>1, <4>2 DEF GapInv
      <4>3. QED
        BY <2>2, <4>1, <4>2
    <3>5. QED
      BY <3>2, <3>3, <3>4 DEF GapInv
  <2>6. QED
    BY <2>1, <2>3, <2>4, <2>5
<1>4. QED
  BY <1>2, <1>3

\* Messages reach the user in the order of the broker, none twice and without a gap within
\* a connection, although each takes two hops through the queue and a lost connection may
\* leave messages in either: the signals are connected to their slots once.
THEOREM MessagesInOrder == Spec => []DeliveredInOrder
<1>1. TypeOK /\ OrderInv /\ GapInv => DeliveredInOrder
  <2> SUFFICES ASSUME TypeOK, OrderInv, GapInv PROVE DeliveredInOrder
    OBVIOUS
  <2>1. /\ delivered \in Seq(Nat) /\ Len(delivered) \in Nat
        /\ DOMAIN delivered = 1 .. Len(delivered)
        /\ \A i \in 1 .. Len(delivered) : delivered[i] \in Nat
    BY LenProperties, ElementOfSeq DEF TypeOK, HistoryTypeOK
  <2>2. \A i, j \in DOMAIN delivered : i < j => delivered[i] < delivered[j]
    <3>1. \A m \in Nat : Itself[m] = m
      BY DEF Itself
    <3>2. QED
      BY <2>1, <3>1 DEF OrderInv, InLine, Rising
  <2>3. Heard = Range(delivered)
    <3>1. Range(delivered) \cap Nat = Range(delivered)
      BY <2>1, RangeMember
    <3>2. Heard = {Itself[m] : m \in Range(delivered)}
      BY <3>1 DEF Heard, Numbers
    <3>3. \A m \in Range(delivered) : Itself[m] = m
      BY <3>1 DEF Itself
    <3>4. QED
      BY <3>2, <3>3
  <2>4. ASSUME NEW x \in Heard, NEW m \in 1 .. x, published[m].conn = published[x].conn
        PROVE  m \in Heard
    <3>1. m \in Seen
      BY <2>4 DEF GapInv, Seen
    <3>2. m \notin ParsedMessages /\ m \notin Framed
      BY <2>4 DEF OrderInv, StagesInLine, Before, Seen
    <3>3. QED
      BY <3>1, <3>2 DEF Seen
  <2>5. ASSUME NEW i \in DOMAIN delivered, NEW m \in 1 .. delivered[i],
               published[m].conn = published[delivered[i]].conn
        PROVE  \E j \in DOMAIN delivered : delivered[j] = m
    <3>1. delivered[i] \in Heard
      BY <2>1, <2>3, RangeMember
    <3>2. m \in Range(delivered)
      BY <2>3, <2>4, <2>5, <3>1
    <3>3. QED
      BY <2>1, <3>2, RangeMember
  <2>6. QED
    BY <2>2, <2>5 DEF DeliveredInOrder
<1>2. Spec => [](TypeOK /\ SlotsOnce /\ EventsDispatched /\ OrderInv /\ GapInv)
  BY TypeCorrect, SlotsInit, SlotsStep, DispatchInit, DispatchStep, OrderInit, OrderStep,
     GapStep, PTL DEF Spec
<1>3. QED
  BY <1>1, <1>2, PTL

=============================================================================
