--------------------------- MODULE QMqttControlPacket ---------------------------
(***************************************************************************)
(* The control packets the client writes (qmqttcontrolpacket.cpp): what    *)
(* encode() makes of each of them, byte by byte.  A byte is a number in    *)
(* 0 .. 255.  A QString is the sequence of bytes of its UTF-8 form (on     *)
(* valid text toUtf8 and fromUtf8 are inverse), a QByteArray is a sequence *)
(* of bytes, and a password that isNull is <<>>, one that is not <<bytes>>.*)
(***************************************************************************)
EXTENDS Integers, Sequences, SequencesExt, QMqttWill

Byte   == 0 .. 255
Uint16 == 0 .. 65535

PacketType == [CONNECT |-> 1, CONNACK |-> 2, PUBLISH |-> 3, PUBACK |-> 4, PUBREC |-> 5,
               PUBREL |-> 6, PUBCOMP |-> 7, SUBSCRIBE |-> 8, SUBACK |-> 9,
               UNSUBSCRIBE |-> 10, UNSUBACK |-> 11, PINGREQ |-> 12, PINGRESP |-> 13,
               DISCONNECT |-> 14]

QoS == [AT_MOST_ONCE |-> 0, AT_LEAST_ONCE |-> 1, EXACTLY_ONCE |-> 2, INVALID |-> 3]

MAXIMUM_CONTROL_PACKET_SIZE == 256 * 1024 * 1024

-----------------------------------------------------------------------------
(* Helpers *)

Bit(b) == IF b THEN 1 ELSE 0

MutEncodeNumber(n) == <<n \div 256, n>>

\* A uint16_t, most significant byte first.
EncodeNumber(n) == <<n \div 256, n % 256>>

\* A field with its length; nothing at all when it is too long.
EncodeData(data) ==
    IF Len(data) < 65535 THEN EncodeNumber(Len(data)) \o data ELSE <<>>

MutEncodeLength(length) ==
    LET Digits[n \in Nat] ==
            IF n <= 128 THEN <<n>> ELSE <<128 + (n % 128)>> \o Digits[n \div 128]
    IN Digits[length]

\* Seven bits to a byte, least significant first; the upper bit says "more".
EncodeLength(length) ==
    LET Digits[n \in Nat] ==
            IF n < 128 THEN <<n>> ELSE <<128 + (n % 128)>> \o Digits[n \div 128]
    IN Digits[length]

\* encode(): fixed header, remaining length, variable header and payload.
Packet(type, flags, body) ==
    IF Len(body) > MAXIMUM_CONTROL_PACKET_SIZE
    THEN <<>>
    ELSE <<16 * PacketType[type] + flags>> \o EncodeLength(Len(body)) \o body

-----------------------------------------------------------------------------
(* CONNECT *)

\* What onSocketConnected puts in the packet: the credentials go in only when
\* there is a user name and a password that is not null.
ConnectPacket(clientId, will, userName, password) ==
    LET given == userName # <<>> /\ password # <<>>
    IN [type |-> "CONNECT", clientIdentifier |-> clientId,
        will |-> Assign(NoWill, will),
        userName |-> IF given THEN userName ELSE <<>>,
        password |-> IF given THEN password ELSE <<>>]

HasUserName(p) == p.userName # <<>>
HasPassword(p) == p.password # <<>>

\* The six fields of the byte, which do not overlap; the session is always clean.
ConnectFlagFields(p) ==
    128 * Bit(HasUserName(p)) + 64 * Bit(HasPassword(p)) + 32 * Bit(p.will.retain)
    + 8 * p.will.qos + 4 * Bit(p.will.valid) + 2

\* ... & 0xF7
ConnectFlags(p) ==
    LET fields == ConnectFlagFields(p) IN fields - 8 * ((fields \div 8) % 2)

ConnectHeader(p) ==
    EncodeData(<<77, 81, 84, 84>>) \o <<4>> \o <<ConnectFlags(p)>> \o EncodeNumber(30)

\* The length of the message is cut to 16 bits, the message is not.
EncodeMessage(message) == EncodeNumber(Len(message) % 65536) \o message

EncodeWill(w) == IF w.valid THEN EncodeData(w.topic) \o EncodeMessage(w.message) ELSE <<>>

MutConnectPayload(p) ==
    EncodeData(p.clientIdentifier)
    \o (IF HasUserName(p) THEN EncodeData(p.userName) ELSE <<>>)
    \o EncodeWill(p.will)
    \o (IF HasPassword(p) THEN EncodeData(p.password[1]) ELSE <<>>)

ConnectPayload(p) ==
    EncodeData(p.clientIdentifier)
    \o EncodeWill(p.will)
    \o (IF HasUserName(p) THEN EncodeData(p.userName) ELSE <<>>)
    \o (IF HasPassword(p) THEN EncodeData(p.password[1]) ELSE <<>>)

EncodeConnect(p) == Packet("CONNECT", 0, ConnectHeader(p) \o ConnectPayload(p))

-----------------------------------------------------------------------------
(* The other packets *)

\* The flag dup is never set.  The identifier is there with QoS 1 and 2 only.
EncodePublish(p) ==
    Packet("PUBLISH", 2 * p.qos + Bit(p.retain),
           EncodeData(p.topic)
           \o (IF p.qos \in {QoS.AT_LEAST_ONCE, QoS.EXACTLY_ONCE}
               THEN EncodeNumber(p.id) ELSE <<>>)
           \o p.message)

EncodeSubscribe(p) ==
    Packet("SUBSCRIBE", 2,
           EncodeNumber(p.id)
           \o FlattenSeq([i \in DOMAIN p.filters |->
                             EncodeData(p.filters[i].topic) \o <<p.filters[i].qos>>]))

EncodeUnsubscribe(p) ==
    Packet("UNSUBSCRIBE", 2,
           EncodeNumber(p.id) \o FlattenSeq([i \in DOMAIN p.topics |-> EncodeData(p.topics[i])]))

\* PUBACK, PUBREC and PUBCOMP
EncodeAck(p) == Packet(p.type, 0, EncodeNumber(p.id))

\* PINGREQ and DISCONNECT
EncodeBare(p) == Packet(p.type, 0, <<>>)

Encode(p) ==
    CASE p.type = "CONNECT"     -> EncodeConnect(p)
      [] p.type = "PUBLISH"     -> EncodePublish(p)
      [] p.type = "SUBSCRIBE"   -> EncodeSubscribe(p)
      [] p.type = "UNSUBSCRIBE" -> EncodeUnsubscribe(p)
      [] p.type \in {"PUBACK", "PUBREC", "PUBCOMP"} -> EncodeAck(p)
      [] p.type \in {"PINGREQ", "DISCONNECT"}       -> EncodeBare(p)
=============================================================================
