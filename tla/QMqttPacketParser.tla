--------------------------- MODULE QMqttPacketParser ---------------------------
(***************************************************************************)
(* QMqttPacketParser (qmqttpacketparser.cpp): the signal parse() emits for *)
(* one WebSocket frame.  Bytes that are not there are never read: every    *)
(* index below is within its sequence, or TLC stops.  A remaining length   *)
(* is taken as it is written: with at most four length bytes, what a       *)
(* broker sends, the int32_t arithmetic of the code does not overflow.     *)
(***************************************************************************)
EXTENDS QMqttControlPacket, FiniteSets

Error(code) == [signal |-> "error", error |-> code]
NoSignal    == [signal |-> "none"]

TypeName(n) == CHOOSE t \in DOMAIN PacketType : PacketType[t] = n

Number(hi, lo) == 256 * hi + lo
Drop(s, n) == SubSeq(s, n + 1, Len(s))

\* UTF-16 code units in the text of these UTF-8 bytes: one for each byte that
\* begins a character, two for a character outside the basic plane.
Utf16Length(bytes) ==
    Cardinality({i \in DOMAIN bytes : bytes[i] \notin 128 .. 191})
    + Cardinality({i \in DOMAIN bytes : bytes[i] >= 240})

-----------------------------------------------------------------------------
(* MQTTPacket::readPacket *)

ParseHeader(frame) ==
    /\ frame # <<>>
    /\ frame[1] \div 16 \notin {0, 15}
    /\ (frame[1] \div 2) % 4 <= 2

\* The bytes of the length field: up to the first without its upper bit; 0: it
\* does not end within the frame.
LengthBytes(frame) == SelectInSeq(Tail(frame), LAMBDA b : b < 128)

MutRemainingLength(frame) ==
    LET Sum[n \in 0 .. LengthBytes(frame)] ==
            IF n = 0 THEN 0 ELSE Sum[n - 1] + 128 ^ (n - 1) * (frame[1 + n] % 64)
    IN Sum[LengthBytes(frame)]

RemainingLength(frame) ==
    LET Sum[n \in 0 .. LengthBytes(frame)] ==
            IF n = 0 THEN 0 ELSE Sum[n - 1] + 128 ^ (n - 1) * (frame[1 + n] % 128)
    IN Sum[LengthBytes(frame)]

\* m_isValid: header and length are there, and all the bytes they announce.
Complete(frame) ==
    /\ ParseHeader(frame)
    /\ LengthBytes(frame) > 0
    /\ Len(frame) - 1 - LengthBytes(frame) >= RemainingLength(frame)

\* What follows the announced bytes is left alone.
ReadPacket(frame) ==
    LET start == 1 + LengthBytes(frame)
    IN [type |-> TypeName(frame[1] \div 16), flags |-> frame[1] % 16,
        qos |-> (frame[1] \div 2) % 4,
        payload |-> SubSeq(frame, start + 1, start + RemainingLength(frame))]

-----------------------------------------------------------------------------
(* One operator per packet type *)

ParseCONNACK(packet) ==
    IF \/ Len(packet.payload) # 2
       \/ packet.payload[1] > 1
       \/ packet.payload[2] > 5
    THEN Error("INVALID_PACKET")
    ELSE [signal |-> "connack", code |-> packet.payload[2],
          sessionPresent |-> packet.payload[1] = 1]

MutSubackIdentifier(hi, lo) ==
    LET Char(b) == IF b < 128 THEN b ELSE b - 256
    IN ((Char(hi) % 65536) * 256 + Char(lo)) % 65536

\* payload[0] is a char, signed where the code is built: it is sign-extended to
\* uint16_t, and the product, an int, is cut to uint16_t again.
SubackIdentifier(hi, lo) ==
    LET Char(b) == IF b < 128 THEN b ELSE b - 256
    IN ((Char(hi) % 65536) * 256 + lo) % 65536

ParseSUBACK(packet) ==
    LET codes == Drop(packet.payload, 2)
        Known(c) == c = 128 \/ c <= 2
    IN IF Len(packet.payload) < 2 \/ \E i \in DOMAIN codes : ~Known(codes[i])
       THEN Error("INVALID_PACKET")
       ELSE [signal |-> "suback",
             id |-> SubackIdentifier(packet.payload[1], packet.payload[2]),
             qos |-> [i \in DOMAIN codes |-> IF codes[i] = 128 THEN QoS.INVALID ELSE codes[i]]]

\* PUBACK, UNSUBACK, and PUBREL once its flags are found right
ParseIdentifier(signal, packet) ==
    IF Len(packet.payload) < 2
    THEN Error("INVALID_PACKET")
    ELSE [signal |-> signal, id |-> Number(packet.payload[1], packet.payload[2])]

ParsePUBREL(packet) ==
    IF Len(packet.payload) >= 2 /\ packet.flags # 2
    THEN Error("PROTOCOL_VIOLATION")
    ELSE ParseIdentifier("pubrel", packet)

MutHasIdentifier(packet) == packet.qos = QoS.AT_LEAST_ONCE
HasIdentifier(packet) == packet.qos # QoS.AT_MOST_ONCE

\* The payload has the announced length, so the two tests of the message
\* length at the end cannot fail.
ParsePUBLISH(packet) ==
    LET payload     == packet.payload
        topicLength == Number(payload[1], payload[2])
        topic       == SubSeq(payload, 3, 2 + topicLength)
        rest        == Drop(payload, 2 + topicLength)
        hasId       == HasIdentifier(packet)
    IN IF Len(payload) < 2 \/ Len(payload) - 2 < topicLength
       THEN Error("INVALID_PACKET")
       ELSE IF Utf16Length(topic) # topicLength \/ (hasId /\ Len(rest) < 2)
       THEN Error("PARSE_ERROR")
       ELSE [signal |-> "publish", qos |-> packet.qos, topic |-> topic,
             id      |-> IF hasId THEN Number(rest[1], rest[2]) ELSE 0,
             message |-> IF hasId THEN Drop(rest, 2) ELSE rest]

\* PUBREC, PUBCOMP and the packets only a client sends are ignored.
Parse(frame) ==
    IF ~Complete(frame)
    THEN Error("INVALID_PACKET")
    ELSE LET packet == ReadPacket(frame)
         IN CASE packet.type = "CONNACK"  -> ParseCONNACK(packet)
              [] packet.type = "SUBACK"   -> ParseSUBACK(packet)
              [] packet.type = "PUBLISH"  -> ParsePUBLISH(packet)
              [] packet.type = "PUBACK"   -> ParseIdentifier("puback", packet)
              [] packet.type = "UNSUBACK" -> ParseIdentifier("unsuback", packet)
              [] packet.type = "PUBREL"   -> ParsePUBREL(packet)
              [] packet.type = "PINGRESP" -> [signal |-> "pong"]
              [] OTHER                    -> NoSignal
=============================================================================
