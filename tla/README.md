# QtMqtt in TLA+

A model of the QtMqtt client library (MQTT 3.1.1 over a QWebSocket), of what it
exchanges with a broker, and proofs about it. The sources are the files below
`src/src/` of the repository; line numbers refer to them.

## 1. The system

### Components

| Component | State | Operations | Talks to |
|---|---|---|---|
| Session (`QMqttClientPrivate`) | `m_state`, `m_signalSlotConnected`, the QWebSocket | `connect`, `disconnect`, lambdas on `disconnected`, `error`, `sslErrors`, `textMessageReceived`, `onSocketConnected`, `onConnackReceived` | user (calls, signals), socket (signals, `open`, `close`, `abort`) |
| Requests (`QMqttClientPrivate`) | `m_packetIdentifier`, `m_subscribeCallbacks`, zero timers of `setImmediate` | `subscribe`, `unsubscribe`, `publish` (QoS 1), `onSubackReceived`, `onUnsubackReceived`, `onPubAckReceived` | user (callbacks), socket |
| Messages (`QMqttClientPrivate`) | none of its own | `publish` (QoS 0), `onPublishReceived`, `onPubRelReceived` | user (`messageReceived`), socket |
| Keep-alive (`QMqttClientPrivate`) | `m_pongReceived`, `m_pingTimer` | timer event, `sendPing`, `onPongReceived`, restart in `sendData` | socket, session (`disconnect`) |
| `QMqttPacketParser` | none | `parse`: one signal per frame | socket (frames, queued), client (signals, queued) |
| `QMqttControlPacket` and subclasses | fields of a packet | `encode` | used by the client |
| `isTopicNameValid` | none | pure check | used by subscribe, unsubscribe |
| `sslErrorsAllowed` | set of allowed errors | pure check | used by the lambda on `sslErrors` |
| `QMqttWill`, `QMqttNetworkRequest`, `QMqttProtocol` | values | value classes, enumerations | |

Everything runs in one thread. What interleaves are the calls of the user, posted
events, timers, socket signals, the broker and the network. Direct connections
(the lambdas) run inside the emission; `connected`, `binaryMessageReceived`, all
signals of the parser and the timeout of the ping timer are queued connections, so
that a frame takes two hops through the event queue and can outlive the socket it
came from. Requests, callbacks, the ping timer and the queue belong to the client
object, not to a connection.

### What is hard, and what would make it correct

- Queued events meet a state that has changed since they were posted (CONNACK of a
  former socket, answer to a former request, ping events after `stop`).
- The state shown, the state of the socket and the session at the broker must agree.
- A callback must be called once, with the answer to its own request, although
  identifiers wrap, brokers answer twice and connections are replaced.
- Messages must be delivered in order and without doubles over reconnects, and be
  acknowledged by the packet their QoS asks for, after delivery.
- A silent broker must be noticed, and an answering one must not be taken for silent,
  and the broker must hear from the client in time, although timers and events are late.
- Signals run the slots of the user in the middle of a handler, and those slots may call
  `connect` and `disconnect`.
- What is written as bytes must be what a reader of the MQTT layout reads, at the
  boundaries of the length and identifier fields.

`PROJECT.json` lists each hazard at its line, with the properties that cover it.

## 2. The modules

| Module | What it is |
|---|---|
| `QMqttClient` | The client object, its event loop, one socket, the network and a broker. Packets are records. One action per call, slot, lambda and event |
| `RequestLedger` | Abstract specification: what the client promises about callbacks |
| `QMqttClientLedger` | Refinement mapping from `QMqttClient` to `RequestLedger` |
| `QMqttClientClaims` | Statements of the documentation that the code does not live up to |
| `QMqttClientProofs` | TLAPS proofs about `QMqttClient`: session, types, places of callbacks |
| `QMqttClientFlow` | Lemmas: what each step of `QMqttClient` does to the packets and events under way |
| `QMqttClientLedgerProofs` | TLAPS proofs about callbacks: the refinement of `RequestLedger`, their account, their truth |
| `QMqttClientSessionProofs` | TLAPS proofs about `connected()`, TIME_OUT and pings |
| `QMqttClientMessageProofs` | TLAPS proofs about messages: order and acknowledgement |
| `KeepAlive` | The ping timer, pings and pongs with a clock |
| `KeepAliveProofs` | TLAPS proofs about `KeepAlive` |
| `Reentrancy` | The session when slots of the user call back into the client; the SSL error filter |
| `ReentrancyProofs` | TLAPS proofs about `Reentrancy` |
| `QMqttWill` | The value class: constructors, copy, assignment |
| `QMqttControlPacket` | `encode()` of each packet the client writes, as bytes |
| `QMqttPacketParser` | `parse()`: the signal for a frame, as bytes |
| `TopicName` | `isTopicNameValid`, and the documented rules to compare it with |
| `PacketExchange` | Composes the last four: packets go to a broker and answers come back as frames |
| `MCPacketExchange` | Values for the constants of `PacketExchange` that are sequences and wills |
| `PacketProofs` | TLAPS proofs about the bytes of packets, the exchange and the check of topics |

Operators whose name begins with `Mut` are faulty variants of the operator that
follows them: a property is worth its place only if it fails with one of them.

### QMqttClient and the code

Variables have the names of the members without `m_`. Added to them: `slots` (how
often each signal is connected: `makeSignalSlotConnections` raises it), `queue` (posted
events), `immediates` (zero timers of `setImmediate`), `socket` with `toBroker` and
`toClient` (packets under way), `session` (what the broker made of the CONNECT), and
history variables that only properties read: `conn`, `made`, `answers`, `results`,
`published`, `delivered`, `announced`, `unanswered`, `emitted`. The field `ref` of a
packet is history too (which request or message it is about); no handler branches on it.

- `close()` may complete before it returns, or later (`CloseOrderly`).
- `abort()` runs the lambda on `disconnected` inside the slot (`Abort`).
- `open()` replaces a former socket without a signal, and reports an unacceptable
  URL by `error()` before it returns (`Connect`).
- A call on a socket that is not connected writes nothing (`SendBinaryMessage`), and
  `sendData` starts the ping timer all the same.
- The identifier is modulo `IdSpace`, which stands for 65536.

Assumptions on what is not in the repository (marked external in the map):
a QWebSocket that reported `error()` delivers no more frames and may or may not report
`disconnected()`; posted events are run in order, and in any order relative to timers
and socket signals; frames are delivered in order; one frame holds one packet
(`PacketExchange` looks at others); the broker answers what it reads in order, once,
and on an acknowledged session only. What it may do wrong is a constant:
leave packets unanswered, answer twice, send a frame that is no packet, or send text.

### RequestLedger

A request is unmade, waiting, due, called or forgotten. It is decided once; the callback
is then called once with that decision; it is forgotten only when a newer request takes
its identifier, and is never called then. `ImplementsLedger` says every behaviour of
`QMqttClient` is one of the ledger under the mapping of `QMqttClientLedger`;
`ImplementsFairLedger` adds that a decided callback is called.

### KeepAlive and the code

`QMqttClient` lets the ping timer fire whenever it runs; here it fires when it is due, or up
to `Latency` later. Time passes in ticks. The state holds how long ago things happened and
what the timer has left, not the time of day, so that it is finite. `Interval` is
`m_pingIntervalMs`, `KeepAlive` is `m_keepAlive` of CONNECT: 30 s each. A posted event is run
within `Latency`, an answering broker answers within `RoundTrip`. A repeating timer that was
late counts on from when it was due, or from when it fired (`Fired`): Qt promises neither.
`sinceSent` (ticks since a packet was written) and `quiet` (ticks since the silence of the
broker could be noticed) are clocks of the properties.

Opening and closing take one step each, since `QMqttClient` has what may happen in between.
Events and the running timer are left over from former connections (`MaxLeft` bounds how many
events there may be when a new one is opened), and a client may be OFFLINE for any time.

`SilenceNoticed` says what the code does: two intervals and three delays after the last packet
the user had sent. A user who sends more often than the interval keeps postponing the ping, and
the silence is not noticed as long as that lasts (qmqttclient.cpp:466).

### Reentrancy and the code

An emission over a direct connection runs the slots of the user before the next statement of the
handler. The variable `todo` is the call stack of the thread, flattened: the statements still to
run, the next one first. A handler puts its statements there, `EmitToUser` puts the calls a slot makes in
front of what follows (none, `connect`, `disconnect`, or both: a reconnect), and the loop turns to
the next event when nothing is left. Which signals slots call from are the constants
`ConnectFrom` and `DisconnectFrom`.

The properties hold for the signals in `reentrant.cfg`. The others are unsafe, as TLC shows when
they are added to a set:

| Call | From | What happens |
|---|---|---|
| `connect` | `stateChanged(OFFLINE)` | `disconnected()` is emitted after it, while CONNECTING; in `disconnect` during a handler, the outer `setState(OFFLINE)` or `close` hits the new connection |
| `connect`, `disconnect` | `error` | the lambdas set OFFLINE after the slot has reconnected; a ping timer left running by a lost connection reports TIME_OUT, and `sendPing` then closes the connection its own slot has opened |
| `disconnect` | `stateChanged(CONNECTING)` | `connect` goes on to `open`, so that a socket is opened in state DISCONNECTING or OFFLINE |
| `disconnect` | `stateChanged(DISCONNECTING)` | the inner close completes, a slot of `disconnected()` reconnects, and the outer close closes that |

No document of the repository says from which slots calls are allowed, so these are limits of use
and not findings.

The SSL filter is here because its outcome depends on the order of the lambda, the slots of the user
and the handshake: unless the lambda has ignored the errors Qt gives the handshake up
(`GiveUp`) after it returns, and by then a slot may have opened another socket. Errors are
compared by kind, without their certificate, as the code does.

### PacketExchange and the code

Text is the sequence of its UTF-8 bytes; `Utf16Length` is what `QString::length` gives
for it. `QMqttControlPacket` has one operator per packet class, `QMqttPacketParser` one
per parse function, `PacketExchange` the steps: a client writes, a broker reads and
answers (or publishes), the client parses. The broker's reader and writer follow the
MQTT 3.1.1 layout and are external. Frames also come cut short (after `Cuts` bytes, or by the
last one), or with a second packet behind the first. `TopicName` describes `QString::split` by the ends of
the parts, and the loop by the first part that decides. The will of a CONNECT is the one handed to `connect` (or a copy
of it), assigned to `m_will`, which may hold the will of an earlier connection, and from
there to the packet. A copy of an invalid will is valid (qmqttwill.cpp:23), as in `CopyOf`; the
run hands over copies of valid wills only. What the user wants of a CONNECT (`Wanted`) and what the code makes
of it (`ConnectPacket`) are two packets: a user name or a password without the other is left out
(qmqttclient.cpp:344), and `Announced` says so in the property, beside the line of the documentation that
promises the user name. User names, passwords and former wills are constants. A few packets have a field of the largest size
`encodeData` writes (`LongPublications`, `LongWills`). The named assumptions keep the inputs within what
the code has types for: characters and sizes of messages below 65536 (`Messages` are not longer than a
will can announce), fields below the 65535 bytes from which on `encodeData` leaves a field out (three bytes to a
character, hence `3 * MaxTextLength < 65535`). The property about topics, `TopicRulesDecide`, knows the three documented rules and
names the empty topic, which the code sends, as the one exception. The body of very large packets is left out and
only their head written (`LargePacket`).

## 3. Runs

| Run | Module | Bounds | Shows |
|---|---|---|---|
| `requests` | QMqttClientLedger | 2 sockets, 3 requests, 2 identifiers | types; callbacks in one place and called at most once, accounted for and honest; the ledger |
| `messages` | QMqttClient | 2 sockets, 2 messages of any QoS, bad frames, text messages and repeated answers | delivery order and acknowledgements |
| `live` | QMqttClientLedger | 2 sockets, 1 request, 1 ping event queued, silent broker allowed, fairness | session invariant; on the first connection one ping in flight, `connected()` after CONNACK and TIME_OUT only for a missing pong; `disconnect` ends, answers reach callbacks, fair ledger, silent broker noticed |
| `keepalive` | KeepAlive | interval and keep-alive of 20 ticks, events, timers and answers up to 2 ticks late, 2 events left over; the user sends at any time of an acknowledged connection, at no other | the broker hears from the client within 1.5 keep-alives, silence is noticed, TIME_OUT means silence |
| `reentrant` | Reentrancy | 3 connections, 2 events posted by broker and timer, 2 kinds of SSL error, one of them allowed | with calls from inside slots: state and socket agree, a new connection is kept, the last call of the user is respected, certificates are filtered |
| `frames` | MCPacketExchange | texts up to 3 characters of `# + / a`, user name and password with, without and empty, messages of 0, 1 and 122 bytes, fields of 65534 bytes and a will message of 65535, identifiers and lengths around every boundary | bytes written are read back, both ways |

Why the bounds suffice: a stale event needs two connections; a confusion of two requests
needs two requests, one by wrap-around needs one request more than identifiers, which is what
`requests` has; a change of order needs two messages. `EveryCallbackAccountedFor` and
`HonestCallbacks` speak of the time before identifiers are used again (`made <= IdSpace`):
after that the older callback is forgotten, and an answer to the older request is taken for the
newer, as in any client whose identifiers wrap. In `keepalive` the delays add up to the
largest that the assumption `FastEnough` allows, 2 * (2 + 4 * 2) = 20: with more, a pong may come
after the next ping is due. In `reentrant` three connections let a slot reconnect in the middle of a
handler of a connection that was itself made by a reconnect. In `frames` a wildcard has a
neighbour on each side in three characters; 122 bytes make a packet of 127 and one of 128 bytes,
where the length field grows; identifiers 127, 128, 255, 256, 32768 and 65535 are the edges of the
signed and unsigned bytes they are made of.

In no run does the system stop, so deadlock is checked in all of them.

### Fairness (`LiveSpec`)

Weak fairness of: posted slots, zero timers and the running ping timer (the Qt event loop
serves each of them as long as the thread lives; each send restarts the ping timer, but the user of
`live` makes one request and receives no message, so that the timer is due some time after the last
send); arrival of frames on a connected socket,
and the broker's reading (a healthy network; a broker that falls silent still reads,
under `noAnswer`); completion of a close under way (QWebSocket closes the TCP socket, and
a failed one goes down). Nothing is assumed of the user: no call is fair. That a handshake
completes is not assumed either. `SilentBrokerDetected` therefore speaks of acknowledged
connections: there is no timeout for CONNACK (qmqttclient.cpp:350).

### What the code does otherwise than it says

| Run | The code | What is said |
|---|---|---|
| `second_connack` | a second CONNACK is taken for the first, since connected() is emitted without setState(CONNECTED) and the state stays CONNECTING | qmqttclient.cpp:363, 44 |
| `stale_connack` | a CONNACK queued before a reconnect announces the new socket as connected | qmqttclient.cpp:53 |
| `timeout_offline` | a message published before the CONNACK starts the ping timer with interval 0: TIME_OUT without a ping, and disconnect | qmqttclient.cpp:318 |
| `callback_lost` | a request is never reported when its connection ends first | qmqttclient.cpp:734, 665 |
| `foreign_topic` | a message under a topic outside ASCII ends in PARSE_ERROR | qmqttclient.cpp:70 |
| `will_flags` | the mask 0xF7 clears the low bit of the QoS of the will | qmqttcontrolpacket.cpp:183 |
| `frames`, in `PacketsReadBack` | a user name without a password is not sent | qmqttclient.cpp:632 |
| `frames`, in `TopicRulesDecide` | the empty topic is accepted and sent | qmqttclient.cpp:672, 675 |

The last two have no run of their own: the property states what the code does and names the exception
to what is said (`Announced`, `accepted`).

Seen while modelling, without a run: a text message leaves the connection
open (qmqttclient.cpp:567 says it will be closed); a field of 65535 bytes is left out
although the warning names that as the maximum size (qmqttcontrolpacket.cpp:58), and the rest
of its packet is written; the default keep-alive in CONNECT is 30 s
(qmqttcontrolpacket_p.h:80 says zero).

Some properties are stated around these: `SecondConnackRefused` fails with a broker that answers twice, and with
one that does not after a reconnect, so no property limits how often connected() is emitted;
`ConnectedMeansAcknowledged` fails when a second socket is opened (`stale_connack`), so `FirstConnectionAcknowledged`, `OnePingInFlight` and
`TimeoutMeansNoPong` speak of the first; `PacketsReadBack` leaves the QoS of the will
and incomplete credentials out; `AsciiPublicationsReported` is about ASCII topics. `TimeoutMeansNoPong` is about steps from
state CONNECTING, the state of an established session in this code.

## 4. Proofs

For all values of the constants that satisfy the named assumptions (bounds are natural
numbers, the identifier space is positive, faults are among those listed), TLAPS checks:

- `SessionAgreement`: `SessionAgreesWithSocket`. The inductive invariant `SessionInv` is the
  property itself with the range of `socket` added, without which the value of `socket` after
  a step is not known. One lemma for the socket going down, one for `abort` and one for an
  orderly close; every other action leaves both variables alone or sets both.
- `TypeCorrect`: `TypeOK`. It is inductive and is proved part by part (client, link, broker,
  requests, history). The link part needs that each handler's packet comes from the queue
  (`ArgType`), the client part that the identifier stays in the identifier space.
- `CallbackPlaces`: `OnePlacePerCallback`, which is inductive relative to `TypeOK`, for brokers that answer
  twice as well. The part users care about, `CallbackAtMostOnce`, is not inductive alone: a callback that is
  called but still in the map could be called again. So the invariant also says a
  callback in the map is not due and has not been called, one that is due has not been
  called, none is under two identifiers, and none exists before its request.
- `ClientImplementsLedger`: `ImplementsLedger`. Initial states map to initial states, and each action to
  the step of the ledger it takes or to a stutter. The mapping is a function of the places of a callback
  (`PhaseByPlace`), so the invariant is that of `CallbackPlaces`.
- `CallbacksAccountedFor`: `EveryCallbackAccountedFor`. The invariant `AccountInv` adds that, before the
  identifiers are used again, those handed out are the first ones and no other has a callback, so
  that a new request takes the place of none.
- `CallbacksTellTheTruth`: `HonestCallbacks`. The invariant `AnswersInv` follows a request to its verdict: a
  packet that asks is sent once and undecided, an answer on the socket or in either hop of the queue
  says what was decided and its identifier leads to the callback of its own request or to none, a
  zero timer carries the verdict.
- `FirstConnection`: `FirstConnectionAcknowledged` (a CONNACK under way before the second `connect` is the
  answer to the first). `TimeoutIsSilence`: `TimeoutMeansNoPong` (no pong and a session mean an unanswered ping).
- `OnePing`: `OnePingInFlight`, for a broker that does not answer twice, as in `live.cfg` (a repeated PINGRESP lets the
  next ping follow one that is unanswered). It rests on a count (`AnnouncementsCounted`): announcements, CONNACKs on
  the socket and in the queue, and the one still to come are together no more than the sockets opened.
- `AcknowledgesWhatWasDelivered`: `AcknowledgedAsDelivered`, with the messages and PUBRELs under way in its
  invariant (`AckInv`).
- `MessagesInOrder`: `DeliveredInOrder`. The invariant divides the way of a message in four: sent on the
  socket, framed in the queue, parsed in the queue, heard by the user. In each the numbers rise, what is
  further on its way is older (`OrderInv`), and what has left the socket has no gap within a
  connection (`GapInv`).
- `KeepAliveIsHonoured`: `KeepAliveHonoured`, for every interval, keep-alive, delay and number of
  events left over that satisfy `IntervalAssumption`, `LatencyAssumption` and `FastEnough`. The
  property says nothing of why the client writes; the invariant does: in a session, the
  timer has run for as long as the last packet is old, but for known delays, or it has fired and
  `sendPing` is posted (`PingIsNear`); a CONNECT or CONNACK under way is as old as the last packet, but for
  known delays (`CONNACKIsNear`), which is why `PingIsNear` holds when the session begins;
  no posted event is older than `Latency` and no timer later (`Bounded`), which is what keeps
  time from passing over them; and frames are of a kind the parser knows (`FramesParsed`).
- `TimeoutIsNoMistake` and `SilenceIsNoticed`: `TimeoutMeansSilence` and `SilenceNoticed`, under the same
  assumptions. Their invariant `PInv` has one ping at most under way, with a bound for its age and the age of
  its answer wherever they are; if no pong has come, the answer is still under way or the
  broker is silent, and the timer leaves it the time it needs.
- `CertificatesAreFiltered`: `OnlyAllowedErrors`, for any signals the slots call from. The invariant
  adds that, as long as a connecting socket has met an error that is not allowed, the
  statement that gives the handshake up is still to be run.
- `StateFollowsSocket`, `DisconnectIsRespected`, `DisconnectedIsFinal`, `ReconnectIsKept`: the properties of
  `Reentrancy`, for slots that call from no more signals than `reentrant.cfg` has (`CallsAllowed`; they are false
  for others, see section 2). The invariant `StackInv` is a grammar of the call stack: at each place a
  handler can be interrupted, what comes next, and that what lies under it does no harm
  to a connection opened on top of it. It puts no bound on the depth of the stack.
- `NumberReadBack`, `SignExtensionHarmless`, `SubackNamesSubscribe`: the arithmetic of two-byte
  numbers, for all of them, which the run `frames` samples at the edges.
- `LengthsAreReadBack`: `LengthReadBack`, for every length up to 256 MB. `EncodeLength` and `RemainingLength` are
  recursive functions; `Recursion` shows that a function with such an equation exists, by taking
  the least number without a value (`Least`), and so CHOOSE finds one. The rest are the five possible numbers of digits.
- `EveryPacketReadBack`: `PacketsReadBack`, for all texts, messages, identifiers, and user names, passwords and former
  wills that satisfy their assumptions (fields below 65535 bytes). `Holds` says which bytes stand at which index of a body, and is carried over each
  concatenation; from it follow the value of a field at an index and the index after it, for each packet class
  (`ConnectBody` for the optional fields of CONNECT, whatever its flags). `FlagBits`
  takes the sum of the connect flags apart again. That a topic fits its field rests on `TextsAreShort`.
- `EveryAnswerNamesItsRequest`, `AsciiTopicsReported`, `BeginningsRefused`: `AnswersNameTheRequest`,
  `AsciiPublicationsReported`, `PartOfPacketRefused`. `Says(w, s)` relates a packet of the broker to
  the signal it stands for; `SaysParsed` shows once, for all packets, that a frame with all of `w` is parsed as `s`
  whatever follows, and that one with less is INVALID_PACKET wherever it is cut. What is left is
  what each packet says.
- `OnlyBytes`: `FrameTypeOK`. It and the four before follow from one inductive invariant, `ExchangeInv`: the frame
  under way encodes what was meant by the client (`IsRequest`, `Announced`) or the broker (`Replied`), and what
  was seen is what the reader makes of that frame. The properties alone are not inductive, since they speak of the last
  step of an exchange only.
- `TopicsFollowTheRules`: `TopicRulesDecide`. `CheckFollowsRules` shows for every topic that the check, which
  stops at the first level that decides, accepts what follows the rules, and the empty topic: a level that holds a wildcard and is not `+`
  decides, and of those the first one is the last level only if it is the only one. The invariant
  `TopicsChecked` remembers which way the check went.

Only model-checked: the liveness properties and `ImplementsFairLedger` (liveness under fairness
is out of the prover's reach). The statements of `QMqttClientClaims`, `PublicationsReported` and
`OnlyLowestBitCleared` are false, as their runs show. Every other property of a passing run is a theorem.

## 5. Not modelled

- Destruction of the client: when the socket of a client is destroyed it may emit `disconnected()`
  into an object half gone, and callbacks due outlive the client. What then happens is up to
  the order of Qt's destructors, which the repository does not show.
- A slot of the user that runs an event loop of its own (a modal dialog), so that posted events
  run inside an emission.
- `subscribe`, `unsubscribe` and `publish` called from inside a signal: they emit nothing, and are
  taken between handlers.
- Remaining lengths of more than four bytes, whose value overflows `int32_t` in the parser.
- Moving and swapping of `QMqttWill`, which no code of the library does; `QMqttNetworkRequest` (two
  constructors that set one HTTP header), `localAddress`, `localPort`, logging and the wording of
  messages, which change nothing.
- A ping interval of 0, which switches the keep-alive off: no code sets it.

## 6. Plan

Done, in this order: the session and its event loop; requests and the ledger; messages and
keep-alive; claims; proofs of the session, types and places; the packets as bytes; the keep-alive with
a clock and its proof; re-entrancy, the SSL filter and its proof; wills; the refinement of the ledger;
proofs of all safety properties of `QMqttClient`, `KeepAlive` and `Reentrancy`; the length field; proofs of the
byte-level properties and of the check of topics.

Next, most important first:

1. The parser on frames that are no packet of the broker, at the byte level: remaining lengths of more than four
   bytes, flags and types the parser refuses, and that each ends in one error and no other signal.
2. The liveness properties with less fairness: which of the assumptions of `LiveSpec` each of them needs.
