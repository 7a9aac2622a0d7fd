----------------------------- MODULE PacketExchange -----------------------------
(***************************************************************************)
(* One packet at a time between the client and the broker, as the bytes of *)
(* WebSocket frames: what the client's classes write is read by a broker   *)
(* that follows the MQTT 3.1.1 layout, and what such a broker writes is    *)
(* read by the client's parser.  The module QMqttClient exchanges records; *)
(* this one shows which of them survive the trip.                          *)
(***************************************************************************)
EXTENDS QMqttPacketParser, TopicName

CONSTANTS
    Characters,     \* code points the texts are made of, all below 65536
    MaxTextLength,  \* bound: characters in a text
    MessageSizes,   \* sizes of messages, in bytes
    FieldSizes,     \* sizes of long fields, in bytes
    Cuts,           \* sizes of the beginnings of packets that come as frames
    Identifiers,    \* packet identifiers, some of 0 .. 65535
    Lengths,        \* remaining lengths tried for the head of a packet
    UserNames,      \* user names handed to connect(), as bytes
    Passwords,      \* passwords: <<>> is null, <<p>> is p, which may be empty
    FormerWills     \* wills the client may hold from an earlier connect()

ASSUME CharactersAssumption == Characters \subseteq Uint16
ASSUME MaxTextLengthAssumption == MaxTextLength \in Nat /\ 3 * MaxTextLength < 65535
ASSUME MessageSizesAssumption == MessageSizes \subseteq Uint16
ASSUME FieldSizesAssumption == \A n \in FieldSizes : n \in Nat /\ n < 65535
ASSUME IdentifiersAssumption == Identifiers \subseteq Uint16
ASSUME LengthsAssumption == Lengths \subseteq 0 .. MAXIMUM_CONTROL_PACKET_SIZE
ASSUME UserNamesAssumption == \A u \in UserNames : u \in Seq(Byte) /\ Len(u) < 65535
ASSUME PasswordsAssumption ==
    \A p \in Passwords : /\ p \in Seq(Seq(Byte)) /\ Len(p) <= 1
                         /\ \A i \in DOMAIN p : Len(p[i]) < 65535
ASSUME FormerWillsAssumption ==
    FormerWills \subseteq [valid : BOOLEAN, topic : Seq(Byte), message : Seq(Byte),
                           retain : BOOLEAN, qos : 0 .. 2]

VARIABLES
    step,    \* where the exchange is
    sent,    \* the packet the client, or its user, meant to write
    answer,  \* the packet the broker meant to write
    frame,   \* the bytes under way
    seen     \* what the reader made of them

vars == <<step, sent, answer, frame, seen>>

-----------------------------------------------------------------------------
(* Inputs *)

\* QString::toUtf8 of one character
Utf8(c) ==
    CASE c < 128  -> <<c>>
      [] 128 <= c /\ c < 2048 -> <<192 + (c \div 64), 128 + (c % 64)>>
      [] OTHER    -> <<224 + (c \div 4096), 128 + ((c \div 64) % 64), 128 + (c % 64)>>

Texts == {FlattenSeq([i \in DOMAIN s |-> Utf8(s[i])]) : s \in BoundedSeq(Characters, MaxTextLength)}
Ascii(text) == \A i \in DOMAIN text : text[i] < 128
TopicNames == {t \in Texts : t # <<>> /\ ~Contains(t, Hash) /\ ~Contains(t, Plus)}
Messages == {[i \in 1 .. n |-> i % 256] : n \in MessageSizes}

Wills == {NoWill} \cup {Will(t, m, r, q) : t \in TopicNames, m \in Messages,
                                           r \in BOOLEAN, q \in 0 .. 2}

\* publish() uses QoS 0 and 1, without retain; a message with QoS 0 has
\* identifier 0.
PublishPackets(topics, qoss) ==
    {p \in [type : {"PUBLISH"}, topic : topics, message : Messages, qos : qoss,
            retain : {FALSE}, id : Identifiers \cup {0}] : p.qos = 0 <=> p.id = 0}

\* encodeData leaves longer texts out; a message of a will may have one byte more.
Long(n) == [i \in 1 .. n |-> 97]
LongWills == {Will(Long(n), Long(n + 1), FALSE, 0) : n \in FieldSizes}
LongPublications == [type : {"PUBLISH"}, topic : {Long(n) : n \in FieldSizes}, message : {<<>>},
                     qos : {1}, retain : {FALSE}, id : {1}]

\* What a user hands to connect(): the will itself or, when it is valid, a copy.
HandedOver(w) == {w} \cup (IF w.valid THEN {CopyOf(w)} ELSE {})

ClientPackets ==
    PublishPackets(TopicNames, 0 .. 1)
    \cup LongPublications
    \cup [type : {"PUBACK", "PUBREC", "PUBCOMP"}, id : Identifiers]
    \cup [type : {"PINGREQ", "DISCONNECT"}]

-----------------------------------------------------------------------------
(* The broker: reads and writes the layout of MQTT 3.1.1 *)

Nothing   == [type |-> "NONE"]
Malformed == [type |-> "MALFORMED"]

\* The length-prefixed field of b at i, and the index after it.
Field(b, i) == SubSeq(b, i + 2, i + 1 + Number(b[i], b[i + 1]))
After(b, i) == i + 2 + Number(b[i], b[i + 1])

\* The optional fields follow the client identifier in the order of the flags.
ReadConnect(body) ==
    LET flag(n) == (body[8] \div n) % 2 = 1
        Skip(n, i) == IF flag(n) THEN After(body, i) ELSE i
        willTopic   == After(body, 11)
        willMessage == Skip(4, willTopic)
        userName    == Skip(4, willMessage)
        password    == Skip(128, userName)
        end         == Skip(64, password)
    IN IF SubSeq(body, 1, 7) = <<0, 4, 77, 81, 84, 84, 4>> /\ end = Len(body) + 1
       THEN [type |-> "CONNECT", clientIdentifier |-> Field(body, 11),
             will |-> IF flag(4)
                      THEN Will(Field(body, willTopic), Field(body, willMessage), flag(32),
                                (body[8] \div 8) % 4)
                      ELSE NoWill,
             userName |-> IF flag(128) THEN Field(body, userName) ELSE <<>>,
             password |-> IF flag(64) THEN <<Field(body, password)>> ELSE <<>>]
       ELSE Malformed

ReadPublish(flags, body) ==
    LET qos == flags \div 2
        afterTopic == After(body, 1)
    IN [type |-> "PUBLISH", topic |-> Field(body, 1), qos |-> qos, retain |-> flags % 2 = 1,
        id |-> IF qos = 0 THEN 0 ELSE Number(body[afterTopic], body[afterTopic + 1]),
        message |-> Drop(body, IF qos = 0 THEN afterTopic - 1 ELSE afterTopic + 1)]

BrokerReads(f) ==
    LET type  == TypeName(f[1] \div 16)
        flags == f[1] % 16
        body  == Drop(f, 1 + LengthBytes(f))
        id    == Number(body[1], body[2])
        reserved == IF type \in {"SUBSCRIBE", "UNSUBSCRIBE"} THEN 2 ELSE 0
    IN CASE RemainingLength(f) # Len(body) -> Malformed
         [] type # "PUBLISH" /\ flags # reserved -> Malformed
         [] OTHER ->
              CASE type = "CONNECT"     -> ReadConnect(body)
                [] type = "PUBLISH"     -> ReadPublish(flags, body)
                [] type = "SUBSCRIBE"   -> [type |-> type, id |-> id,
                                            filters |-> <<[topic |-> Field(body, 3),
                                                           qos |-> body[After(body, 3)]]>>]
                [] type = "UNSUBSCRIBE" -> [type |-> type, id |-> id,
                                            topics |-> <<Field(body, 3)>>]
                [] type \in {"PUBACK", "PUBREC", "PUBCOMP"} -> [type |-> type, id |-> id]
                [] OTHER -> [type |-> type]

\* The answers to a request, as records; the granted QoS is at most the one
\* asked for, or 128 for a failure.
Answers(p) ==
    CASE p.type = "CONNECT"     -> [type : {"CONNACK"}, code : 0 .. 5]
      [] p.type = "SUBSCRIBE"   -> [type : {"SUBACK"}, id : {p.id},
                                    code : {128} \cup 0 .. p.filters[1].qos]
      [] p.type = "UNSUBSCRIBE" -> [type : {"UNSUBACK"}, id : {p.id}]
      [] p.type = "PUBREC"      -> [type : {"PUBREL"}, id : {p.id}]
      [] p.type = "PINGREQ"     -> [type : {"PINGRESP"}]
      [] p.type = "PUBLISH"     -> [type : {"PUBACK"}, id : {p.id}]
      [] OTHER -> {}

BrokerWrites(a) ==
    CASE a.type = "CONNACK"  -> <<32, 2, 0, a.code>>
      [] a.type = "SUBACK"   -> <<144, 3>> \o EncodeNumber(a.id) \o <<a.code>>
      [] a.type = "UNSUBACK" -> <<176, 2>> \o EncodeNumber(a.id)
      [] a.type = "PUBACK"   -> <<64, 2>> \o EncodeNumber(a.id)
      [] a.type = "PUBREL"   -> <<98, 2>> \o EncodeNumber(a.id)
      [] a.type = "PINGRESP" -> <<208, 0>>
      [] a.type = "PUBLISH"  -> EncodePublish(a)

\* MQTT packets need not be aligned with WebSocket frames: a frame may hold one
\* packet, its beginning only, or more than it.
Shapes(f) ==
    {f, f \o <<208, 0>>}
    \cup {SubSeq(f, 1, k) : k \in (Cuts \cup {Len(f) - 1}) \cap 0 .. Len(f) - 1}

-----------------------------------------------------------------------------
(* The exchange *)

Init == step = "idle" /\ sent = Nothing /\ answer = Nothing /\ frame = <<>> /\ seen = Nothing

\* The packet that is encoded need not be the one that was meant.
TransmitAs(meant, packet) ==
    /\ step' = "toBroker"
    /\ sent' = meant /\ frame' = Encode(packet)
    /\ UNCHANGED <<answer, seen>>

Transmit(p) == TransmitAs(p, p)

\* A CONNECT with everything the user handed to connect().
Wanted(will, userName, password) ==
    [type |-> "CONNECT", clientIdentifier |-> <<99>>, will |-> will,
     userName |-> userName, password |-> password]

\* connect() assigns the will to m_will, which held the will of the connection
\* before; onSocketConnected makes the packet from m_will and the credentials.
Connect(former, will, userName, password) ==
    \E handed \in HandedOver(will) :
        TransmitAs(Wanted(will, userName, password),
                   ConnectPacket(<<99>>, Assign(former, handed), userName, password))

\* An invalid topic is answered at once, and nothing is written.
Reject(type, topic) ==
    /\ step' = "rejected"
    /\ sent' = [type |-> type, topic |-> topic]
    /\ UNCHANGED <<answer, frame, seen>>

ClientSends == step = "idle" /\ \E p \in ClientPackets : Transmit(p)

ClientConnects ==
    /\ step = "idle"
    /\ \/ \E f \in FormerWills, w \in Wills, u \in UserNames, p \in Passwords : Connect(f, w, u, p)
       \/ \E w \in LongWills : Connect(NoWill, w, <<>>, <<>>)

Subscribe(topic, qos, id) ==
    \/ /\ IsTopicNameValid(topic)
       /\ Transmit([type |-> "SUBSCRIBE", id |-> id,
                    filters |-> <<[topic |-> topic, qos |-> qos]>>])
    \/ ~IsTopicNameValid(topic) /\ Reject("SUBSCRIBE", topic)

Unsubscribe(topic, id) ==
    \/ /\ IsTopicNameValid(topic)
       /\ Transmit([type |-> "UNSUBSCRIBE", id |-> id, topics |-> <<topic>>])
    \/ ~IsTopicNameValid(topic) /\ Reject("UNSUBSCRIBE", topic)

ClientSubscribes ==
    step = "idle" /\ \E t \in Texts, q \in 0 .. 2, i \in Identifiers : Subscribe(t, q, i)
ClientUnsubscribes ==
    step = "idle" /\ \E t \in Texts, i \in Identifiers : Unsubscribe(t, i)

BrokerReceives ==
    /\ step = "toBroker" /\ step' = "read"
    /\ seen' = BrokerReads(frame)
    /\ UNCHANGED <<sent, answer, frame>>

BrokerSends(a) ==
    /\ answer' = a /\ frame' \in Shapes(BrokerWrites(a))
    /\ step' = "toClient" /\ seen' = Nothing
    /\ UNCHANGED sent

BrokerAnswers == step = "read" /\ \E a \in Answers(seen) : BrokerSends(a)
BrokerPublishes ==
    step = "idle" /\ \E p \in PublishPackets(TopicNames, 0 .. 2) \cup LongPublications : BrokerSends(p)

ClientReceives ==
    /\ step = "toClient" /\ step' = "parsed"
    /\ seen' = Parse(frame)
    /\ UNCHANGED <<sent, answer, frame>>

\* The head of a packet of this remaining length, without its body.
LargePacket(length) ==
    /\ step = "idle" /\ step' = "head"
    /\ sent' = [type |-> "PUBLISH", length |-> length]
    /\ frame' = <<16 * PacketType.PUBLISH>> \o EncodeLength(length)
    /\ UNCHANGED <<answer, seen>>

NextExchange ==
    /\ step \in {"read", "parsed", "head", "rejected"}
    /\ step' = "idle" /\ sent' = Nothing /\ answer' = Nothing /\ frame' = <<>> /\ seen' = Nothing

Next ==
    \/ ClientConnects \/ ClientSends \/ ClientSubscribes \/ ClientUnsubscribes
    \/ BrokerReceives \/ BrokerAnswers \/ BrokerPublishes
    \/ ClientReceives
    \/ \E n \in Lengths : LargePacket(n)
    \/ NextExchange

Spec == Init /\ [][Next]_vars

-----------------------------------------------------------------------------
(* Properties *)

\* Type invariant: what is written to the socket are bytes.  A number that is
\* not cut to its width shows here.
FrameTypeOK ==
    /\ step \in {"idle", "toBroker", "read", "toClient", "parsed", "head", "rejected"}
    /\ frame \in Seq(Byte)

\* Equal but for the QoS of the will, which ConnectFlags damages
\* (OnlyLowestBitCleared below).
SameButWillQoS(p, q) ==
    IF p.type = "CONNECT" /\ q.type = "CONNECT"
    THEN [p EXCEPT !.will.qos = 0] = [q EXCEPT !.will.qos = 0]
    ELSE p = q

\* What becomes of the packet a user wanted: of a user name or a password without
\* the other nothing is sent (qmqttclient.cpp:344).  MQTT forbids a password alone;
\* the user name alone is allowed, and the documentation (qmqttclient.cpp:632) leaves
\* it out only if it is empty.
Announced(p) ==
    IF p.type = "CONNECT" /\ (p.userName = <<>> \/ p.password = <<>>)
    THEN [p EXCEPT !.userName = <<>>, !.password = <<>>]
    ELSE p

\* Each field of a packet the client writes is found again by a reader of the
\* MQTT layout: the optional fields of CONNECT (will, user name and password, an
\* empty password told from none) are in the order its flags announce, lengths
\* up to the largest encodeData writes agree with what follows, flags are those
\* the type requires.  The will is the one handed to this connect(), with nothing
\* left of a former one, and the credentials are the ones handed to it, both or none.
\* (encode() and the variableHeader and payload of each packet class; connect(),
\* onSocketConnected, setWill and the assignment of QMqttWill.)
PacketsReadBack == step = "read" => SameButWillQoS(seen, Announced(sent))

FullFrame == Len(frame) >= Len(BrokerWrites(answer))

\* Signal the client is to raise for the answer a to its packet p.
SignalFor(p, a) ==
    CASE a.type = "CONNACK"  -> [signal |-> "connack", code |-> a.code, sessionPresent |-> FALSE]
      [] a.type = "SUBACK"   -> [signal |-> "suback", id |-> p.id,
                                 qos |-> <<IF a.code = 128 THEN QoS.INVALID ELSE a.code>>]
      [] a.type = "UNSUBACK" -> [signal |-> "unsuback", id |-> p.id]
      [] a.type = "PUBACK"   -> [signal |-> "puback", id |-> p.id]
      [] a.type = "PUBREL"   -> [signal |-> "pubrel", id |-> p.id]
      [] a.type = "PINGRESP" -> [signal |-> "pong"]

\* The answer to a request reaches the client under the identifier the request
\* was made with, for every value of the uint16_t, the ones whose first byte is
\* negative as a char included; more packets in the frame do not change it.
\* (encodeNumber, parseSUBACK, parsePUBACK, parseUNSUBACK, parsePUBREL.)
AnswersNameTheRequest ==
    (step = "parsed" /\ sent # Nothing /\ FullFrame) => seen = SignalFor(sent, answer)

PublicationOf(p) ==
    [signal |-> "publish", qos |-> p.qos, topic |-> p.topic, id |-> p.id, message |-> p.message]

\* A message published under an ASCII topic is reported with its topic, its QoS,
\* its identifier and all its bytes.  (parsePUBLISH.)
AsciiPublicationsReported ==
    (step = "parsed" /\ answer.type = "PUBLISH" /\ FullFrame /\ Ascii(answer.topic))
        => seen = PublicationOf(answer)

\* The beginning of a packet is never taken for a packet.  (readPacket.)
PartOfPacketRefused ==
    (step = "parsed" /\ ~FullFrame) => seen = Error("INVALID_PACKET")

\* The length field: what encodeLength writes parseRemainingLength reads, using
\* all of it and nothing after it, up to the largest packet encode() lets pass.
LengthReadBack ==
    step = "head" => /\ RemainingLength(frame) = sent.length
                     /\ LengthBytes(frame) = Len(frame) - 1

\* A topic filter is sent exactly when it follows the three documented rules
\* (qmqttclient.cpp:670), with one exception: the empty topic, which rule 3 forbids,
\* is sent as well.  Any other is refused.  (isTopicNameValid.)
TopicRulesDecide ==
    LET accepted(topic) == topic = <<>> \/ FollowsRules(topic)
    IN /\ step = "rejected" => ~accepted(sent.topic)
       /\ sent.type = "SUBSCRIBE" /\ step # "rejected" => accepted(sent.filters[1].topic)
       /\ sent.type = "UNSUBSCRIBE" /\ step # "rejected" => accepted(sent.topics[1])

-----------------------------------------------------------------------------
(* What the repository says and the code does not do *)

\* "This signal is emitted when a message was received on the topic with the given
\* topicName" (qmqttclient.cpp:70): every publication of the broker is reported,
\* whatever the language of its topic.
PublicationsReported ==
    (step = "parsed" /\ answer.type = "PUBLISH" /\ FullFrame) => seen = PublicationOf(answer)

\* "set lowest bit to 0" (qmqttcontrolpacket.cpp:183): the mask on the connect flags leaves the others alone.
OnlyLowestBitCleared ==
    (step = "toBroker" /\ sent.type = "CONNECT") =>
        LET fields == ConnectFlagFields(Announced(sent))
        IN frame[1 + LengthBytes(frame) + 8] = fields - (fields % 2)
=============================================================================
