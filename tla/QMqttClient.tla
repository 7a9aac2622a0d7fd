------------------------------ MODULE QMqttClient ------------------------------
(***************************************************************************)
(* QMqttClientPrivate (qmqttclient.cpp): the session between one client    *)
(* object and one MQTT broker, over one QWebSocket.                        *)
(*                                                                         *)
(* Everything runs in one thread.  What interleaves are the calls of the   *)
(* user, the callbacks of the event loop, the signals of the socket, and   *)
(* the broker at the other end.  Two kinds of signal connections matter:   *)
(*  - the lambdas on disconnected, sslErrors, error and                    *)
(*    textMessageReceived run inside the emission (direct connections):    *)
(*    they are part of the action that emits;                              *)
(*  - connected, binaryMessageReceived, every signal of the packet parser  *)
(*    and the timeout of the ping timer are queued: the emission appends   *)
(*    an event to "queue", a later action runs the slot.  A frame takes    *)
(*    two hops: binaryMessageReceived -> parse -> on...Received.           *)
(* Posted events, the callbacks of requests and the ping timer belong to   *)
(* the client object: they outlive the connection they came from.          *)
(***************************************************************************)
EXTENDS Integers, Sequences, FiniteSets

CONSTANTS
    MaxConnects,   \* bound: sockets opened by connect()
    MaxRequests,   \* bound: calls of subscribe, unsubscribe and publish with QoS 1
    MaxPublishes,  \* bound: messages the broker publishes to the client
    MaxPings,      \* bound: sendPing events waiting in the queue
    MaxBacklog,    \* bound: packets under way before QoS 0 publishes or bad frames are added
    IdSpace,       \* number of values of the uint16_t packet identifier
    BrokerFaults   \* what the broker may do wrong, a subset of FaultKinds

FaultKinds == {"noAnswer", "answersTwice", "badFrame", "textMessage"}

ASSUME BoundsAssumption ==
    /\ MaxConnects \in Nat /\ MaxRequests \in Nat /\ MaxPublishes \in Nat
    /\ MaxPings \in Nat /\ MaxBacklog \in Nat
ASSUME IdSpaceAssumption == IdSpace \in Nat \ {0}
ASSUME FaultsAssumption == BrokerFaults \subseteq FaultKinds

VARIABLES
    state,               \* m_state
    pongReceived,        \* m_pongReceived
    pingTimer,           \* m_pingTimer: is it running, and its interval in ms
    signalSlotConnected, \* m_signalSlotConnected
    packetIdentifier,    \* m_packetIdentifier
    subscribeCallbacks,  \* m_subscribeCallbacks: identifier -> request, or NoRequest
    slots,               \* how many times each signal is connected to its slot
    queue,               \* posted events of the thread, oldest first
    immediates,          \* callbacks put on the event loop by setImmediate
    socket,              \* state of m_webSocket
    toBroker, toClient,  \* packets under way on the current socket
    session,             \* what the broker made of the CONNECT of this socket
    conn,                \* number of sockets opened so far
    made,                \* number of requests made so far
    answers,             \* per request: what the broker (or the topic check) decided
    results,             \* per request: the values its callback was called with
    published,           \* per message of the broker: its QoS and its socket
    delivered,           \* messages announced by messageReceived, in order
    announced,           \* how often connected() was emitted for this socket
    unanswered,          \* PINGREQs written to this socket and not answered yet
    emitted              \* signals to the user emitted by the last step, in order

clientVars  == <<pongReceived, pingTimer, packetIdentifier, subscribeCallbacks>>
connectVars == <<signalSlotConnected, slots, conn>>
linkVars    == <<socket, toBroker, toClient, state>>
brokerVars  == <<session, answers, published>>
requestVars == <<made, results, immediates>>
countVars   == <<announced, unanswered>>

vars == <<clientVars, connectVars, linkVars, brokerVars, requestVars, countVars,
          queue, delivered, emitted>>

-----------------------------------------------------------------------------
(* Data *)

States   == {"OFFLINE", "CONNECTING", "CONNECTED", "DISCONNECTING"}
Sockets  == {"unconnected", "connecting", "connected", "closing"}
QoSs     == {"AT_MOST_ONCE", "AT_LEAST_ONCE", "EXACTLY_ONCE"}
Ids      == 0 .. IdSpace - 1
Requests == 1 .. MaxRequests
NoRequest == 0

\* How a packet type of the broker is dispatched to a slot by the parser.
SlotOf == [CONNACK |-> "onConnackReceived", SUBACK |-> "onSubackReceived",
           UNSUBACK |-> "onUnsubackReceived", PUBACK |-> "onPubAckReceived",
           PUBLISH |-> "onPublishReceived", PUBREL |-> "onPubRelReceived",
           PINGRESP |-> "onPongReceived", MALFORMED |-> "error"]

\* The requests that ask for an answer, and the packet that answers them.
AnswerTo == [SUBSCRIBE |-> "SUBACK", UNSUBSCRIBE |-> "UNSUBACK", PUBLISH |-> "PUBACK"]

PacketTypes == DOMAIN SlotOf \cup DOMAIN AnswerTo
               \cup {"NONE", "CONNECT", "DISCONNECT", "PINGREQ", "PUBREC", "PUBCOMP"}
Codes == {"none", "accepted", "refused", "granted", "failed"} \cup QoSs
SlotNames == {"onSocketConnected", "parse", "sendPing"} \cup {SlotOf[t] : t \in DOMAIN SlotOf}

\* id is the packet identifier, code the return code or QoS; ref is not in the
\* packet: it names the request or the message the packet is about.
Packets == [type : PacketTypes, id : Ids, code : Codes, ref : Nat]
Packet(t, i, c, r) == [type |-> t, id |-> i, code |-> c, ref |-> r]
Bare(t) == Packet(t, 0, "none", 0)
BrokerPackets == [type : DOMAIN SlotOf, id : Ids, code : Codes, ref : Nat]
Events == [slot : SlotNames \ {"parse"}, packet : Packets]
          \cup [slot : {"parse"}, packet : BrokerPackets]

TimerIntervals == {0, 30000}

\* Signals to the user; those in capitals are error() with this code.
Signals == {"connected", "disconnected", "messageReceived", "CONNECTION_FAILED",
            "CONNECTION_REFUSED", "PROTOCOL_VIOLATION", "TIME_OUT", "INVALID_PACKET"}

\* The emission of a signal reaches every connection made for it.
Times(n, x) == [i \in 1 .. n |-> x]
Signal(s) == Times(slots, s)
Post(slot, p) == queue \o Times(slots, [slot |-> slot, packet |-> p])

Init ==
    /\ state = "OFFLINE" /\ socket = "unconnected"
    /\ pongReceived = FALSE
    /\ pingTimer = [active |-> FALSE, interval |-> 0]
    /\ signalSlotConnected = FALSE /\ slots = 0 /\ conn = 0
    /\ packetIdentifier = 0
    /\ subscribeCallbacks = [i \in Ids |-> NoRequest]
    /\ queue = <<>> /\ immediates = {}
    /\ toBroker = <<>> /\ toClient = <<>> /\ session = "none"
    /\ made = 0
    /\ answers = [r \in Requests |-> "none"]
    /\ results = [r \in Requests |-> <<>>]
    /\ published = <<>> /\ delivered = <<>> /\ emitted = <<>>
    /\ announced = 0 /\ unanswered = 0

-----------------------------------------------------------------------------
(* What the handlers do to the socket *)

\* QWebSocket::sendBinaryMessage drops the data unless the socket is connected.
SendBinaryMessage(p) ==
    toBroker' = IF socket = "connected" THEN Append(toBroker, p) ELSE toBroker

\* sendData: send, and restart the ping timer whatever the state is.
SendData(p) ==
    /\ SendBinaryMessage(p)
    /\ pingTimer' = [pingTimer EXCEPT !.active = TRUE]

\* The lambda on disconnected().
MutOnDisconnected(earlier) ==
    emitted' = earlier \o Signal("disconnected") /\ UNCHANGED state

OnDisconnected(earlier) ==
    emitted' = earlier \o Signal("disconnected") /\ state' = "OFFLINE"

\* The lambda on error(), and on sslErrors() that are not allowed.
OnFailed == emitted' = Signal("CONNECTION_FAILED") /\ state' = "OFFLINE"

\* The socket reaches UnconnectedState and emits disconnected().  Packets under way
\* are lost.
Unconnect(earlier) ==
    /\ socket' = "unconnected"
    /\ toBroker' = <<>> /\ toClient' = <<>>
    /\ OnDisconnected(earlier)

\* QWebSocket::abort tears the socket down at once.
Abort(earlier) ==
    \/ /\ socket # "unconnected"
       /\ Unconnect(earlier)
    \/ /\ socket = "unconnected"
       /\ emitted' = earlier
       /\ UNCHANGED linkVars

\* disconnect(), after its test of the state: close() either completes before it
\* returns, or leaves the socket closing.  Closing an unconnected socket does nothing.
CloseOrderly(earlier) ==
    /\ pingTimer' = [pingTimer EXCEPT !.active = FALSE]
    /\ \/ /\ socket # "unconnected"
          /\ Unconnect(earlier)
       \/ /\ state' = "DISCONNECTING"
          /\ socket' = IF socket = "unconnected" THEN socket ELSE "closing"
          /\ SendBinaryMessage(Bare("DISCONNECT"))
          /\ emitted' = earlier
          /\ UNCHANGED toClient

-----------------------------------------------------------------------------
(* Calls of the user *)

\* Connected once for the life of the client object: the sockets and the parser
\* that emit the signals are never replaced.
MutMakeSignalSlotConnections == slots' = slots + 1 /\ signalSlotConnected' = TRUE

MakeSignalSlotConnections ==
    /\ slots' = IF signalSlotConnected THEN slots ELSE slots + 1
    /\ signalSlotConnected' = TRUE

\* connect(): refused unless OFFLINE.  open() drops the previous socket without a
\* signal; for a URL it does not accept it emits error() before it returns.
Connect ==
    /\ state = "OFFLINE"
    /\ MakeSignalSlotConnections
    /\ \/ /\ conn < MaxConnects
          /\ conn' = conn + 1
          /\ state' = "CONNECTING"
          /\ socket' = "connecting"
          /\ toBroker' = <<>> /\ toClient' = <<>>
          /\ session' = "none" /\ announced' = 0 /\ unanswered' = 0
          /\ emitted' = <<>>
       \/ /\ emitted' = Times(slots', "CONNECTION_FAILED")
          /\ UNCHANGED <<conn, linkVars, session, countVars>>
    /\ UNCHANGED <<clientVars, answers, published, requestVars, queue, delivered>>

Disconnect ==
    /\ state # "OFFLINE"
    /\ CloseOrderly(<<>>)
    /\ UNCHANGED <<pongReceived, packetIdentifier, subscribeCallbacks, connectVars,
                   brokerVars, requestVars, countVars, queue, delivered>>

\* ++m_packetIdentifier
MutNextIdStuck == packetIdentifier
MutNextIdUnbounded == packetIdentifier + 1

NextId == (packetIdentifier + 1) % IdSpace

\* The common part of subscribe, unsubscribe and publish with a callback.
Request(type) ==
    /\ made < MaxRequests
    /\ made' = made + 1
    /\ packetIdentifier' = NextId
    /\ subscribeCallbacks' = [subscribeCallbacks EXCEPT ![NextId] = made + 1]
    /\ SendData(Packet(type, NextId, "none", made + 1))
    /\ emitted' = <<>>
    /\ UNCHANGED <<pongReceived, connectVars, state, socket, toClient, brokerVars,
                   results, immediates, queue, delivered, countVars>>

Subscribe   == Request("SUBSCRIBE")
Unsubscribe == Request("UNSUBSCRIBE")
PublishQoS1 == Request("PUBLISH")

\* setImmediate(std::bind(cb, result)) for the callback of request r.
MutSetImmediate(r, result) == UNCHANGED immediates

SetImmediate(r, result) ==
    immediates' = immediates \cup {[request |-> r, result |-> result]}

\* subscribe and unsubscribe with a topic that isTopicNameValid rejects.
RejectTopic ==
    /\ made < MaxRequests
    /\ made' = made + 1
    /\ answers' = [answers EXCEPT ![made + 1] = "failed"]
    /\ SetImmediate(made + 1, FALSE)
    /\ emitted' = <<>>
    /\ UNCHANGED <<clientVars, connectVars, linkVars, session, published,
                   results, queue, delivered, countVars>>

\* publish without a callback: QoS 0, no identifier.
PublishQoS0 ==
    /\ Len(toBroker) < MaxBacklog
    /\ SendData(Packet("PUBLISH", 0, "AT_MOST_ONCE", 0))
    /\ emitted' = <<>>
    /\ UNCHANGED <<pongReceived, packetIdentifier, subscribeCallbacks, connectVars,
                   state, socket, toClient, brokerVars, requestVars, countVars, queue, delivered>>

UserCall ==
    \/ Connect \/ Disconnect
    \/ Subscribe \/ Unsubscribe \/ PublishQoS1 \/ RejectTopic
    \/ PublishQoS0

-----------------------------------------------------------------------------
(* Slots run by the event loop *)

\* What is emitted once the broker accepted the CONNECT.
AnnounceConnected == emitted' = <<"connected">> /\ announced' = announced + 1

\* The oldest posted event is for this slot; running it removes the event.
Runs(slot) == queue # <<>> /\ Head(queue).slot = slot
Arg == Head(queue).packet

MutOnSocketConnected ==
    /\ Runs("onSocketConnected")
    /\ queue' = Tail(queue)
    /\ SendBinaryMessage(Bare("CONNECT"))
    /\ AnnounceConnected
    /\ UNCHANGED <<clientVars, connectVars, state, socket, toClient, brokerVars,
                   requestVars, unanswered, delivered>>

OnSocketConnected ==
    /\ Runs("onSocketConnected")
    /\ queue' = Tail(queue)
    /\ SendBinaryMessage(Bare("CONNECT"))
    /\ emitted' = <<>>
    /\ UNCHANGED <<clientVars, connectVars, state, socket, toClient, brokerVars,
                   requestVars, countVars, delivered>>

\* QMqttPacketParser::parse posts one parser signal per frame; for a frame it
\* cannot read that signal is error(), connected to the error() of the client.
Parse ==
    /\ Runs("parse")
    /\ queue' = Tail(queue) \o Times(slots, [slot |-> SlotOf[Arg.type], packet |-> Arg])
    /\ emitted' = <<>>
    /\ UNCHANGED <<clientVars, connectVars, linkVars, brokerVars, requestVars, countVars, delivered>>

ForwardError ==
    /\ Runs("error")
    /\ queue' = Tail(queue)
    /\ emitted' = <<"INVALID_PACKET">>
    /\ UNCHANGED <<clientVars, connectVars, linkVars, brokerVars, requestVars, countVars, delivered>>

\* The keep-alive of an accepted connection (m_pingIntervalMs is always 30000).
MutStartKeepAlive ==
    pingTimer' = [active |-> TRUE, interval |-> 30000] /\ UNCHANGED pongReceived

StartKeepAlive ==
    pingTimer' = [active |-> TRUE, interval |-> 30000] /\ pongReceived' = TRUE

OnConnackReceived ==
    /\ Runs("onConnackReceived")
    /\ queue' = Tail(queue)
    /\ \/ /\ state # "CONNECTING"
          /\ Abort(<<"PROTOCOL_VIOLATION">>)
          /\ UNCHANGED <<pongReceived, pingTimer, announced>>
       \/ /\ state = "CONNECTING"
          /\ Arg.code # "accepted"
          /\ Abort(<<"CONNECTION_REFUSED">>)
          /\ UNCHANGED <<pongReceived, pingTimer, announced>>
       \/ /\ state = "CONNECTING"
          /\ Arg.code = "accepted"
          /\ StartKeepAlive
          /\ AnnounceConnected
          /\ UNCHANGED linkVars
    /\ UNCHANGED <<packetIdentifier, subscribeCallbacks, connectVars, brokerVars,
                   requestVars, delivered, unanswered>>

\* m_subscribeCallbacks.remove
MutRemoveCallback(id) == UNCHANGED subscribeCallbacks

RemoveCallback(id) ==
    subscribeCallbacks' = [subscribeCallbacks EXCEPT ![id] = NoRequest]

\* Take the callback of this identifier out of the map and schedule it.
Complete(result) ==
    /\ queue' = Tail(queue)
    /\ \/ /\ subscribeCallbacks[Arg.id] # NoRequest
          /\ SetImmediate(subscribeCallbacks[Arg.id], result)
          /\ RemoveCallback(Arg.id)
       \/ /\ subscribeCallbacks[Arg.id] = NoRequest
          /\ UNCHANGED <<immediates, subscribeCallbacks>>
    /\ emitted' = <<>>
    /\ UNCHANGED <<pongReceived, pingTimer, packetIdentifier, connectVars, linkVars,
                   brokerVars, made, results, delivered, countVars>>

OnSubackReceived   == Runs("onSubackReceived") /\ Complete(Arg.code = "granted")
OnUnsubackReceived == Runs("onUnsubackReceived") /\ Complete(TRUE)
OnPubAckReceived   == Runs("onPubAckReceived") /\ Complete(TRUE)

\* The packet that acknowledges a message; QoS 0 has none.
MutAckFor == [AT_LEAST_ONCE |-> "PUBREC", EXACTLY_ONCE |-> "PUBACK"]

AckFor == [AT_LEAST_ONCE |-> "PUBACK", EXACTLY_ONCE |-> "PUBREC"]

OnPublishReceived ==
    /\ Runs("onPublishReceived")
    /\ queue' = Tail(queue)
    /\ emitted' = <<"messageReceived">>
    /\ delivered' = Append(delivered, Arg.ref)
    /\ \/ /\ Arg.code \in DOMAIN AckFor
          /\ SendData(Packet(AckFor[Arg.code], Arg.id, "none", Arg.ref))
       \/ /\ Arg.code \notin DOMAIN AckFor
          /\ UNCHANGED <<toBroker, pingTimer>>
    /\ UNCHANGED <<pongReceived, packetIdentifier, subscribeCallbacks, connectVars,
                   state, socket, toClient, brokerVars, requestVars, countVars>>

OnPubRelReceived ==
    /\ Runs("onPubRelReceived")
    /\ queue' = Tail(queue)
    /\ SendData(Packet("PUBCOMP", Arg.id, "none", Arg.ref))
    /\ emitted' = <<>>
    /\ UNCHANGED <<pongReceived, packetIdentifier, subscribeCallbacks, connectVars,
                   state, socket, toClient, brokerVars, requestVars, countVars, delivered>>

OnPongReceived ==
    /\ Runs("onPongReceived")
    /\ queue' = Tail(queue)
    /\ pongReceived' = TRUE
    /\ unanswered' = IF unanswered > 0 THEN unanswered - 1 ELSE 0
    /\ emitted' = <<>>
    /\ UNCHANGED <<pingTimer, packetIdentifier, subscribeCallbacks, connectVars,
                   linkVars, brokerVars, requestVars, delivered, announced>>

MutExpectPong == UNCHANGED pongReceived

ExpectPong == pongReceived' = FALSE

SendPing ==
    /\ Runs("sendPing")
    /\ queue' = Tail(queue)
    /\ \/ /\ pongReceived
          /\ ExpectPong
          /\ SendBinaryMessage(Bare("PINGREQ"))
          /\ unanswered' = IF socket = "connected" THEN unanswered + 1 ELSE unanswered
          /\ emitted' = <<>>
          /\ UNCHANGED <<pingTimer, state, socket, toClient>>
       \/ /\ ~ pongReceived
          /\ state # "OFFLINE"
          /\ CloseOrderly(<<"TIME_OUT">>)
          /\ UNCHANGED <<pongReceived, unanswered>>
       \/ /\ ~ pongReceived
          /\ state = "OFFLINE"
          /\ emitted' = <<"TIME_OUT">>
          /\ UNCHANGED <<pongReceived, unanswered, pingTimer, linkVars>>
    /\ UNCHANGED <<packetIdentifier, subscribeCallbacks, connectVars, brokerVars,
                   requestVars, delivered, announced>>

\* setTimeout: a single-shot timer, zero for setImmediate, fires and calls the callback.
RunImmediate ==
    \E i \in immediates :
        /\ immediates' = immediates \ {i}
        /\ results' = [results EXCEPT ![i.request] = Append(@, i.result)]
        /\ emitted' = <<>>
        /\ UNCHANGED <<clientVars, connectVars, linkVars, brokerVars, made, queue, delivered, countVars>>

\* m_pingTimer is not single shot: it keeps firing until it is stopped.
TimerTimeout ==
    /\ pingTimer.active
    /\ Cardinality({i \in DOMAIN queue : queue[i].slot = "sendPing"}) < MaxPings
    /\ queue' = Post("sendPing", Bare("NONE"))
    /\ emitted' = <<>>
    /\ UNCHANGED <<clientVars, connectVars, linkVars, brokerVars, requestVars, countVars, delivered>>

RunSlot ==
    \/ OnSocketConnected \/ Parse \/ ForwardError
    \/ OnConnackReceived
    \/ OnSubackReceived \/ OnUnsubackReceived \/ OnPubAckReceived
    \/ OnPublishReceived \/ OnPubRelReceived
    \/ OnPongReceived \/ SendPing

EventLoop == RunSlot \/ RunImmediate \/ TimerTimeout

-----------------------------------------------------------------------------
(* The QWebSocket and the network under it (external) *)

\* TCP, TLS and WebSocket handshakes are complete.
SocketConnected ==
    /\ socket = "connecting"
    /\ socket' = "connected"
    /\ queue' = Post("onSocketConnected", Bare("NONE"))
    /\ emitted' = <<>>
    /\ UNCHANGED <<clientVars, connectVars, toBroker, toClient, state, brokerVars,
                   requestVars, countVars, delivered>>

\* The lambda on error().  A socket that reported an error is on its way down: it
\* delivers no more frames, and may or may not report disconnected() later.
SocketError ==
    /\ socket # "unconnected"
    /\ socket' = "closing"
    /\ OnFailed
    /\ UNCHANGED <<clientVars, connectVars, toBroker, toClient, brokerVars,
                   requestVars, countVars, queue, delivered>>

\* The lambda on sslErrors(): errors that are allowed are ignored and the handshake
\* goes on; otherwise Qt gives the handshake up after the lambda.
SslErrors ==
    /\ socket = "connecting"
    /\ \/ emitted' = <<>> /\ UNCHANGED linkVars
       \/ /\ OnFailed
          /\ socket' = "closing"
          /\ UNCHANGED <<toBroker, toClient>>
    /\ UNCHANGED <<clientVars, connectVars, brokerVars, requestVars, countVars, queue, delivered>>

\* The peer closes, the connection is lost, or a close under way completes.
SocketDisconnected ==
    /\ socket # "unconnected"
    /\ Unconnect(<<>>)
    /\ UNCHANGED <<clientVars, connectVars, brokerVars, requestVars, countVars, queue, delivered>>

\* The lambda on textMessageReceived() reports and leaves the connection open.
TextMessageReceived ==
    /\ "textMessage" \in BrokerFaults
    /\ socket = "connected"
    /\ emitted' = Signal("PROTOCOL_VIOLATION")
    /\ UNCHANGED <<clientVars, connectVars, linkVars, brokerVars, requestVars, countVars,
                   queue, delivered>>

\* A binary frame arrives: one frame holds one packet.
BinaryMessageReceived ==
    /\ socket = "connected"
    /\ toClient # <<>>
    /\ toClient' = Tail(toClient)
    /\ queue' = Post("parse", Head(toClient))
    /\ emitted' = <<>>
    /\ UNCHANGED <<clientVars, connectVars, socket, toBroker, state, brokerVars,
                   requestVars, countVars, delivered>>

Network ==
    \/ SocketConnected \/ SocketError \/ SslErrors \/ SocketDisconnected
    \/ TextMessageReceived \/ BinaryMessageReceived

-----------------------------------------------------------------------------
(* The broker (external): it answers what it reads, in order *)

BrokerReads(type) == socket = "connected" /\ toBroker # <<>> /\ Head(toBroker).type = type
Asked == Head(toBroker)

\* Unless it is faulty the broker answers once.
Reply(p) ==
    /\ toBroker' = Tail(toBroker)
    /\ \/ toClient' = Append(toClient, p)
       \/ "answersTwice" \in BrokerFaults /\ toClient' = toClient \o <<p, p>>
    /\ emitted' = <<>>
    /\ UNCHANGED <<clientVars, connectVars, state, socket, published, requestVars, countVars,
                   queue, delivered>>

BrokerConnack ==
    /\ BrokerReads("CONNECT")
    /\ session = "none"
    /\ \E code \in {"accepted", "refused"} :
          session' = code /\ Reply(Packet("CONNACK", 0, code, 0))
    /\ UNCHANGED answers

\* SUBACK, UNSUBACK or PUBACK; only a subscription can be turned down.
BrokerAnswers ==
    /\ session = "accepted"
    /\ \E type \in DOMAIN AnswerTo :
        /\ BrokerReads(type)
        /\ Asked.ref # NoRequest
        /\ \E code \in {"granted", "failed"} :
            /\ code = "failed" => type = "SUBSCRIBE"
            /\ answers' = [answers EXCEPT ![Asked.ref] = code]
            /\ Reply(Packet(AnswerTo[type], Asked.id, code, Asked.ref))
    /\ UNCHANGED session

BrokerPong ==
    /\ BrokerReads("PINGREQ")
    /\ session = "accepted"
    /\ Reply(Bare("PINGRESP"))
    /\ UNCHANGED <<session, answers>>

BrokerPubRel ==
    /\ BrokerReads("PUBREC")
    /\ session = "accepted"
    /\ Reply(Packet("PUBREL", Asked.id, "none", Asked.ref))
    /\ UNCHANGED <<session, answers>>

\* Packets that have no answer, that come outside a session, or that a faulty
\* broker leaves unanswered.
BrokerIgnores ==
    /\ socket = "connected" /\ toBroker # <<>>
    /\ \/ Asked.type \in {"DISCONNECT", "PUBACK", "PUBCOMP"}
       \/ Asked.type = "PUBLISH" /\ Asked.ref = NoRequest
       \/ Asked.type = "CONNECT" /\ session # "none"
       \/ Asked.type # "CONNECT" /\ session # "accepted"
       \/ "noAnswer" \in BrokerFaults
    /\ toBroker' = Tail(toBroker)
    /\ emitted' = <<>>
    /\ UNCHANGED <<clientVars, connectVars, state, socket, toClient, brokerVars,
                   requestVars, countVars, queue, delivered>>

\* The broker publishes a message; it numbers the packets that need an answer.
BrokerPublishes ==
    /\ socket = "connected" /\ session = "accepted"
    /\ Len(published) < MaxPublishes
    /\ \E qos \in QoSs :
        LET message == Len(published) + 1
            id == IF qos = "AT_MOST_ONCE" THEN 0 ELSE message % IdSpace
        IN /\ published' = Append(published, [qos |-> qos, conn |-> conn])
           /\ toClient' = Append(toClient, Packet("PUBLISH", id, qos, message))
    /\ emitted' = <<>>
    /\ UNCHANGED <<clientVars, connectVars, toBroker, state, socket, session, answers,
                   requestVars, countVars, queue, delivered>>

BrokerBadFrame ==
    /\ "badFrame" \in BrokerFaults
    /\ socket = "connected"
    /\ Len(toClient) + Len(queue) < MaxBacklog
    /\ toClient' = Append(toClient, Bare("MALFORMED"))
    /\ emitted' = <<>>
    /\ UNCHANGED <<clientVars, connectVars, toBroker, state, socket, brokerVars,
                   requestVars, countVars, queue, delivered>>

Broker ==
    \/ BrokerConnack \/ BrokerAnswers \/ BrokerPong \/ BrokerPubRel
    \/ BrokerIgnores \/ BrokerPublishes \/ BrokerBadFrame

Next == UserCall \/ EventLoop \/ Network \/ Broker

Spec == Init /\ [][Next]_vars

-----------------------------------------------------------------------------
(* Fairness: the event loop runs what is posted and what is due, a socket that *)
(* is asked to close or has failed goes down, a healthy network delivers and   *)
(* a broker answers or (noAnswer) ignores what it reads.  The user owes nothing. *)

Fairness ==
    /\ WF_vars(RunSlot) /\ WF_vars(RunImmediate) /\ WF_vars(TimerTimeout)
    /\ WF_vars(BinaryMessageReceived)
    /\ WF_vars(socket = "closing" /\ SocketDisconnected)
    /\ WF_vars(BrokerConnack \/ BrokerAnswers \/ BrokerPong \/ BrokerPubRel \/ BrokerIgnores)

LiveSpec == Spec /\ Fairness

-----------------------------------------------------------------------------
(* Invariants *)

ClientTypeOK ==
    /\ pongReceived \in BOOLEAN
    /\ pingTimer \in [active : BOOLEAN, interval : TimerIntervals]
    /\ packetIdentifier \in Ids
    /\ subscribeCallbacks \in [Ids -> Requests \cup {NoRequest}]
    /\ signalSlotConnected \in BOOLEAN /\ slots \in Nat /\ conn \in Nat

LinkTypeOK ==
    /\ state \in States /\ socket \in Sockets
    /\ toBroker \in Seq(Packets) /\ toClient \in Seq(BrokerPackets)
    /\ queue \in Seq(Events)

BrokerTypeOK ==
    /\ session \in {"none", "accepted", "refused"}
    /\ answers \in [Requests -> {"none", "granted", "failed"}]
    /\ published \in Seq([qos : QoSs, conn : Nat])

RequestTypeOK ==
    /\ made \in 0 .. MaxRequests
    /\ results \in [Requests -> Seq(BOOLEAN)]
    /\ immediates \subseteq [request : Requests, result : BOOLEAN]

HistoryTypeOK ==
    /\ delivered \in Seq(Nat) /\ announced \in Nat /\ unanswered \in Nat
    /\ emitted \in Seq(Signals)

TypeOK ==
    ClientTypeOK /\ LinkTypeOK /\ BrokerTypeOK /\ RequestTypeOK /\ HistoryTypeOK

\* The state shown to the user and the socket never drift apart: OFFLINE is shown
\* exactly when the socket is gone or going without having been asked to, and the
\* client that is not OFFLINE has a socket whose end will bring it back to OFFLINE.
\* The state of an acknowledged session is CONNECTING; it never becomes CONNECTED, as
\* qmqttclient.cpp:44 has it.
\* (setState in connect, disconnect and the three lambdas; abort in onConnackReceived.)
SessionAgreesWithSocket ==
    /\ state = "CONNECTING" <=> socket \in {"connecting", "connected"}
    /\ state = "DISCONNECTING" => socket = "closing"
    /\ state # "CONNECTED"

\* The places the callback of request r can be in.
Places(r) ==
    Cardinality({i \in Ids : subscribeCallbacks[i] = r})
    + Cardinality({i \in immediates : i.request = r})
    + Len(results[r])

CallbackAtMostOnce == \A r \in Requests : Len(results[r]) <= 1

\* A callback is in one place at a time: under at most one identifier of the map, at
\* most once on the event loop, never called while it is still in either, never before
\* its request and never twice, although the connection is replaced, identifiers are
\* used again and, by CallbackPlaces, the broker may answer twice.  (subscribe, unsubscribe, publish, the
\* three slots of their answers, setImmediate.)
OnePlacePerCallback ==
    /\ \A i \in Ids : subscribeCallbacks[i] # NoRequest =>
          /\ subscribeCallbacks[i] <= made
          /\ results[subscribeCallbacks[i]] = <<>>
          /\ \A m \in immediates : m.request # subscribeCallbacks[i]
          /\ \A j \in Ids : subscribeCallbacks[j] = subscribeCallbacks[i] => j = i
    /\ \A m \in immediates :
          /\ m.request <= made
          /\ results[m.request] = <<>>
          /\ \A n \in immediates : n.request = m.request => n = m
    /\ \A r \in Requests : r > made => results[r] = <<>>
    /\ CallbackAtMostOnce

\* As long as identifiers do not wrap, the callback of every request made is in
\* exactly one place: waiting in the map, due on the event loop, or called.  No
\* disconnect or reconnect loses or duplicates one.
EveryCallbackAccountedFor ==
    made <= IdSpace => \A r \in 1 .. made : Places(r) = 1

\* A callback is called with true only if the broker granted that very request, and
\* with false only if the broker or the topic check turned it down: identifiers of
\* different requests, and of different connections, are never confused, as long as
\* identifiers do not wrap.
HonestCallbacks ==
    made <= IdSpace => \A r \in Requests : \A n \in DOMAIN results[r] :
        answers[r] = (IF results[r][n] THEN "granted" ELSE "failed")

\* Messages reach the user in the order of the broker, none twice, and without a
\* gap among the messages of one connection (two queued hops, slots connected once).
DeliveredInOrder ==
    /\ \A i, j \in DOMAIN delivered : i < j => delivered[i] < delivered[j]
    /\ \A i \in DOMAIN delivered : \A m \in 1 .. delivered[i] :
          published[m].conn = published[delivered[i]].conn
              => \E j \in DOMAIN delivered : delivered[j] = m

\* The client acknowledges a message only after the user got it, with the packet
\* its QoS asks for; PUBCOMP only answers the PUBREL of a QoS 2 message.
AcknowledgedAsDelivered ==
    \A i \in DOMAIN toBroker :
        LET p == toBroker[i] IN
        p.type \in {"PUBACK", "PUBREC", "PUBCOMP"} =>
            /\ \E j \in DOMAIN delivered : delivered[j] = p.ref
            /\ published[p.ref].qos =
                  IF p.type = "PUBACK" THEN "AT_LEAST_ONCE" ELSE "EXACTLY_ONCE"

\* On the first socket (which no PINGRESP of a former one can reach) at most one PINGREQ
\* waits for its PINGRESP.
OnePingInFlight == conn = 1 => unanswered <= 1

-----------------------------------------------------------------------------
(* Action properties *)

Emits(signal) == \E i \in DOMAIN emitted : emitted[i] = signal

\* connected() is emitted only when the broker accepted the CONNECT of the present
\* socket ("if the connection is acknowledged by the server", qmqttclient.cpp:54).
ConnectedMeansAcknowledged == [][Emits("connected")' => session = "accepted"]_vars

\* The same for a client that connects for the first time, which no CONNACK of a
\* former socket can reach.
FirstConnectionAcknowledged ==
    [][Emits("connected")' /\ conn = 1 => session = "accepted"]_vars

\* While the first session is up, TIME_OUT is reported only if a PINGREQ sent on this
\* socket has not been answered (sendPing, onPongReceived).
TimeoutMeansNoPong ==
    [][Emits("TIME_OUT")' /\ state = "CONNECTING" /\ announced > 0 /\ conn = 1
          => unanswered > 0]_vars

-----------------------------------------------------------------------------
(* Liveness, under LiveSpec *)

\* disconnect() always ends in OFFLINE.
DisconnectCompletes == state = "DISCONNECTING" ~> state = "OFFLINE"

\* An answer that arrived as a frame reaches the callback of its request, even if
\* the connection is lost or replaced before the frame is parsed.
AnswerReachesCallback ==
    \A r \in Requests :
        (/\ \E i \in DOMAIN queue : queue[i].packet.ref = r
                                    /\ queue[i].packet.type \in {"SUBACK", "UNSUBACK", "PUBACK"}
         /\ \E i \in Ids : subscribeCallbacks[i] = r)
        ~> results[r] # <<>>

\* A session does not survive a silent broker: either pings are answered again and
\* again, or the client is back to OFFLINE (or to a connection not yet acknowledged)
\* again and again.  (sendPing, onPongReceived, the timer started by onConnackReceived)
SilentBrokerDetected ==
    \/ []<><<BrokerPong>>_vars
    \/ []<>(state = "OFFLINE" \/ announced = 0)

=============================================================================
