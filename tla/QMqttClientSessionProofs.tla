----------------------- MODULE QMqttClientSessionProofs -----------------------
(***************************************************************************)
(* The session of QMqttClient, for every value of the constants: what      *)
(* connected() and TIME_OUT tell the user about the first connection, and  *)
(* how many pings are under way.                                           *)
(***************************************************************************)
EXTENDS QMqttClientFlow, FiniteSetTheorems

USE DEF vars, clientVars, connectVars, linkVars, brokerVars, requestVars, countVars

-----------------------------------------------------------------------------
(* Who emits connected() and TIME_OUT *)

Accepts == OnConnackReceived /\ state = "CONNECTING" /\ Arg.code = "accepted"
TimesOut == SendPing /\ ~ pongReceived

LEMMA SignalRange ==
    ASSUME slots \in Nat, NEW s \in Signals, NEW earlier \in Seq(Signals)
    PROVE  /\ Range(Signal(s)) \subseteq {s}
           /\ Range(earlier \o Signal(s)) \subseteq Range(earlier) \cup {s}
<1>1. Signal(s) \in Seq(Signals)
  BY TimesType DEF Signal
<1>2. Range(Signal(s)) \subseteq {s}
  BY RangeTimes DEF Signal
<1>3. Range(earlier \o Signal(s)) = Range(earlier) \cup Range(Signal(s))
  BY <1>1, RangeConcat
<1>4. QED
  BY <1>2, <1>3

LEMMA EndEmits ==
    ASSUME slots \in Nat, NEW earlier \in Seq(Signals),
           Unconnect(earlier) \/ Abort(earlier) \/ CloseOrderly(earlier)
    PROVE  Range(emitted') \subseteq Range(earlier) \cup {"disconnected"}
<1>1. emitted' = earlier \o Signal("disconnected") \/ emitted' = earlier
  BY DEF Unconnect, OnDisconnected, Abort, CloseOrderly
<1>2. "disconnected" \in Signals
  BY DEF Signals
<1>3. QED
  BY <1>1, <1>2, SignalRange

\* Only an accepted CONNACK emits connected(), only a ping without pong emits TIME_OUT.
LEMMA EmittedStep ==
    ASSUME TypeOK, Next, NEW s \in Range(emitted'), s \in {"connected", "TIME_OUT"}
    PROVE  /\ s = "connected" => Accepts
           /\ s = "TIME_OUT" => TimesOut
<1> USE DEF Accepts, TimesOut
<1>1. slots \in Nat /\ slots' \in Nat
  BY NextClientType DEF TypeOK, ClientTypeOK
<1>2. emitted' # <<>>
  BY RangeEmpty
<1>3. ASSUME NEW n \in Nat, NEW t, emitted' = Times(n, t) \/ emitted' = <<t>>
      PROVE  s = t
  BY <1>3, RangeTimes, RangeSingle
<1>4. ASSUME NEW earlier \in {<<>>, <<"PROTOCOL_VIOLATION">>, <<"CONNECTION_REFUSED">>},
             Unconnect(earlier) \/ Abort(earlier) \/ CloseOrderly(earlier)
      PROVE  FALSE
  <2>1. earlier \in Seq(Signals)
    <3>1. <<>> \in Seq(Signals)
      BY EmptySeq, Zenon
    <3>2. <<"PROTOCOL_VIOLATION">> \in Seq(Signals) /\ <<"CONNECTION_REFUSED">> \in Seq(Signals)
      BY DEF Signals
    <3>3. QED
      BY <3>1, <3>2
  <2>2. Range(earlier) \subseteq {"PROTOCOL_VIOLATION", "CONNECTION_REFUSED"}
    BY <1>4, RangeEmpty, RangeSingle
  <2>3. QED
    BY <1>1, <1>4, <2>1, <2>2, EndEmits
<1>5. CASE UserCall
  <2>1. CASE Connect
    BY <1>1, <1>2, <1>3, <2>1 DEF Connect
  <2>2. CASE Disconnect
    BY <1>4, <2>2 DEF Disconnect
  <2>3. QED
    BY <1>2, <1>5, <2>1, <2>2
       DEF UserCall, Subscribe, Unsubscribe, PublishQoS1, Request, RejectTopic, PublishQoS0
<1>6. CASE Handle
  <2>1. CASE OnConnackReceived
    <3>1. CASE \E earlier \in {<<"PROTOCOL_VIOLATION">>, <<"CONNECTION_REFUSED">>} : Abort(earlier)
      BY <1>4, <3>1
    <3>2. CASE state = "CONNECTING" /\ Arg.code = "accepted" /\ emitted' = <<"connected">>
      BY <1>1, <1>3, <2>1, <3>2
    <3>3. QED
      BY <2>1, <3>1, <3>2 DEF OnConnackReceived, AnnounceConnected
  <2>2. CASE SendPing
    <3>1. CASE pongReceived
      BY <1>2, <2>2, <3>1 DEF SendPing
    <3>2. CASE ~ pongReceived
      <4>1. CASE CloseOrderly(<<"TIME_OUT">>)
        <5>1. <<"TIME_OUT">> \in Seq(Signals)
          BY DEF Signals
        <5>2. s \in {"TIME_OUT", "disconnected"}
          BY <1>1, <4>1, <5>1, EndEmits, RangeSingle
        <5>3. QED
          BY <2>2, <3>2, <5>2
      <4>2. CASE emitted' = <<"TIME_OUT">>
        BY <1>1, <1>3, <2>2, <3>2, <4>2
      <4>3. QED
        BY <2>2, <3>2, <4>1, <4>2 DEF SendPing
    <3>3. QED
      BY <3>1, <3>2
  <2>3. CASE ForwardError \/ OnPublishReceived
    BY <1>1, <1>3, <2>3 DEF ForwardError, OnPublishReceived
  <2>4. QED
    BY <1>2, <1>6, <2>1, <2>2, <2>3
       DEF Handle, OnSocketConnected, OnSubackReceived, OnUnsubackReceived, OnPubAckReceived,
           Complete, OnPubRelReceived, OnPongReceived
<1>7. CASE Parse \/ RunImmediate \/ TimerTimeout
  BY <1>2, <1>7 DEF Parse, RunImmediate, TimerTimeout
<1>8. CASE Network
  <2>1. CASE SocketDisconnected
    BY <1>4, <2>1 DEF SocketDisconnected
  <2>2. QED
    BY <1>1, <1>2, <1>3, <1>8, <2>1
       DEF Network, SocketConnected, SocketError, SslErrors, OnFailed, Signal,
           TextMessageReceived, BinaryMessageReceived
<1>9. CASE Broker
  BY <1>2, <1>9
     DEF Broker, BrokerConnack, BrokerAnswers, BrokerPong, BrokerPubRel, Reply,
         BrokerIgnores, BrokerPublishes, BrokerBadFrame
<1>10. QED
  BY <1>5, <1>6, <1>7, <1>8, <1>9 DEF Next, Handle, EventLoop, RunSlot

LEMMA EmitsRange ==
    ASSUME TypeOK, NEW s
    PROVE  Emits(s) <=> s \in Range(emitted)
BY LenProperties, RangeMember DEF Emits, TypeOK, HistoryTypeOK

LEMMA EmitsRangeNext ==
    ASSUME TypeOK', NEW s
    PROVE  Emits(s)' <=> s \in Range(emitted')
BY LenProperties, RangeMember DEF Emits, TypeOK, HistoryTypeOK

-----------------------------------------------------------------------------
(* What a step does to the connection, its session and its pings *)

\* connect() opens a socket; the posted events stay.
Opens ==
    /\ conn' = conn + 1 /\ socket' = "connecting" /\ session' = "none"
    /\ announced' = 0 /\ unanswered' = 0
    /\ toBroker' = <<>> /\ toClient' = <<>>
    /\ UNCHANGED <<queue, pongReceived>>

KeepsSocket ==
    /\ conn' = conn
    /\ state' = "CONNECTING" => state = "CONNECTING"
    /\ socket' = "connecting" => socket = "connecting"
    /\ socket' = "connected" => socket \in {"connecting", "connected"}
    /\ socket = "unconnected" => socket' = "unconnected"
    /\ session' = session \/ BrokerConnack

PongStep ==
    \/ UNCHANGED <<announced, pongReceived, unanswered>>
    \/ /\ Accepts
       /\ announced' = announced + 1 /\ pongReceived' = TRUE /\ unanswered' = unanswered
    \/ /\ OnPongReceived
       /\ unanswered' = IF unanswered > 0 THEN unanswered - 1 ELSE 0
       /\ pongReceived' = TRUE /\ announced' = announced
    \/ /\ SendPing /\ pongReceived
       /\ unanswered' = IF socket = "connected" THEN unanswered + 1 ELSE unanswered
       /\ pongReceived' = FALSE /\ announced' = announced

LEMMA ConnectionStep ==
    ASSUME Next
    PROVE  Opens \/ (KeepsSocket /\ PongStep)
<1>1. CASE Connect
  BY <1>1 DEF Connect, Opens, KeepsSocket, PongStep
<1>2. CASE UserCall /\ ~ Connect
  BY <1>2
     DEF UserCall, Disconnect, CloseOrderly, Unconnect, OnDisconnected, Subscribe,
         Unsubscribe, PublishQoS1, Request, RejectTopic, PublishQoS0, KeepsSocket, PongStep
<1>3. CASE OnConnackReceived
  <2>1. KeepsSocket
    BY <1>3 DEF OnConnackReceived, Abort, Unconnect, OnDisconnected, KeepsSocket
  <2>2. PongStep
    BY <1>3 DEF OnConnackReceived, StartKeepAlive, AnnounceConnected, Accepts, PongStep
  <2>3. QED
    BY <2>1, <2>2
<1>4. CASE OnPongReceived
  BY <1>4 DEF OnPongReceived, KeepsSocket, PongStep
<1>5. CASE SendPing
  <2>1. KeepsSocket
    BY <1>5 DEF SendPing, CloseOrderly, Unconnect, OnDisconnected, KeepsSocket
  <2>2. PongStep
    BY <1>5 DEF SendPing, ExpectPong, PongStep
  <2>3. QED
    BY <2>1, <2>2
<1>6. CASE OnSocketConnected \/ Parse \/ ForwardError \/ OnSubackReceived
           \/ OnUnsubackReceived \/ OnPubAckReceived \/ OnPublishReceived \/ OnPubRelReceived
           \/ RunImmediate \/ TimerTimeout
  BY <1>6
     DEF OnSocketConnected, Parse, ForwardError, OnSubackReceived, OnUnsubackReceived,
         OnPubAckReceived, Complete, OnPublishReceived, OnPubRelReceived, RunImmediate,
         TimerTimeout, KeepsSocket, PongStep
<1>7. CASE Network
  BY <1>7
     DEF Network, SocketConnected, SocketError, SslErrors, OnFailed, SocketDisconnected,
         Unconnect, OnDisconnected, TextMessageReceived, BinaryMessageReceived, KeepsSocket,
         PongStep
<1>8. CASE Broker
  BY <1>8
     DEF Broker, BrokerConnack, BrokerAnswers, BrokerPong, BrokerPubRel, Reply,
         BrokerIgnores, BrokerPublishes, BrokerBadFrame, KeepsSocket, PongStep
<1>9. QED
  BY <1>1, <1>2, <1>3, <1>4, <1>5, <1>6, <1>7, <1>8 DEF Next, EventLoop, RunSlot

-----------------------------------------------------------------------------
(* The first connection: a CONNACK under way is the answer to its CONNECT *)

ConnackInv ==
    /\ conn = 0 =>
          /\ socket = "unconnected" /\ session = "none"
          /\ \A p \in Arriving : p.type # "CONNACK"
    /\ conn = 1 =>
          \A p \in Arriving : p.type = "CONNACK" => session # "none" /\ p.code = session

LEMMA ConnackInit == Init => ConnackInv
BY RangeEmpty DEF Init, ConnackInv, Arriving

LEMMA NewConnack ==
    ASSUME TypeOK, Next, NEW p \in Arriving', p.type = "CONNACK"
    PROVE  p \in Arriving \/ (BrokerConnack /\ p.code = session')
BY ArrivingStep, NewArrivingByType

LEMMA ConnackStep == TypeOK /\ ConnackInv /\ [Next]_vars => ConnackInv'
<1> SUFFICES ASSUME TypeOK, ConnackInv, [Next]_vars PROVE ConnackInv'
  OBVIOUS
<1>1. CASE UNCHANGED vars
  BY <1>1 DEF ConnackInv, Arriving
<1>2. CASE Next /\ Opens
  <2>1. Arriving' \subseteq Arriving
    BY <1>2, RangeEmpty DEF Opens, Arriving
  <2>2. conn \in Nat
    BY DEF TypeOK, ClientTypeOK
  <2>3. conn' # 0 /\ (conn' = 1 => conn = 0)
    BY <1>2, <2>2 DEF Opens
  <2>4. QED
    BY <2>1, <2>3 DEF ConnackInv
<1>3. CASE Next /\ KeepsSocket
  <2>1. BrokerConnack => socket = "connected" /\ session = "none" /\ session' # "none"
    BY DEF BrokerConnack, BrokerReads
  <2>2. ASSUME NEW p \in Arriving', p.type = "CONNACK"
        PROVE  \/ p \in Arriving
               \/ BrokerConnack /\ p.code = session'
    BY <1>3, <2>2, NewConnack
  <2>3. CASE conn = 0
    BY <1>3, <2>1, <2>2, <2>3 DEF KeepsSocket, ConnackInv
  <2>4. CASE conn = 1
    BY <1>3, <2>1, <2>2, <2>4 DEF KeepsSocket, ConnackInv
  <2>5. QED
    BY <1>3, <2>3, <2>4 DEF KeepsSocket, ConnackInv
<1>4. QED
  BY <1>1, <1>2, <1>3, ConnectionStep

\* The CONNACK that OnConnackReceived takes was under way.
LEMMA ConnackTaken ==
    ASSUME TypeOK, EventsDispatched, OnConnackReceived
    PROVE  Arg \in Arriving /\ Arg.type = "CONNACK"
<1>1. Runs(SlotOf["CONNACK"]) /\ "CONNACK" \in DOMAIN SlotOf
  BY DEF OnConnackReceived, SlotOf
<1>2. Arg.type = "CONNACK"
  BY <1>1, ArgOfSlot
<1>3. QED
  BY <1>1, <1>2, RunningEvent DEF Arriving

\* The first connection is announced only if the broker accepted its CONNECT: whatever
\* is queued or answered twice, connected() speaks of the present session.
THEOREM FirstConnection == Spec => FirstConnectionAcknowledged
<1>1. ASSUME TypeOK, TypeOK', EventsDispatched, ConnackInv, [Next]_vars
      PROVE  [Emits("connected")' /\ conn = 1 => session = "accepted"]_vars
  <2> SUFFICES ASSUME Next, Emits("connected")', conn = 1 PROVE session = "accepted"
    BY <1>1
  <2>1. Accepts
    BY <1>1, EmitsRangeNext, EmittedStep
  <2>2. Arg \in Arriving /\ Arg.type = "CONNACK" /\ Arg.code = "accepted"
    BY <1>1, <2>1, ConnackTaken DEF Accepts
  <2>3. QED
    BY <1>1, <2>2 DEF ConnackInv
<1>2. Spec => [](TypeOK /\ EventsDispatched /\ ConnackInv)
  BY TypeCorrect, DispatchInit, DispatchStep, ConnackInit, ConnackStep, PTL DEF Spec
<1>3. QED
  BY <1>1, <1>2, PTL DEF Spec, FirstConnectionAcknowledged

-----------------------------------------------------------------------------
(* The first session: no pong since the last ping means a ping is unanswered *)

PongInv ==
    /\ socket = "connecting" => session = "none"
    /\ conn = 1 /\ session = "none" => announced = 0
    /\ conn = 1 /\ state = "CONNECTING" /\ announced > 0 /\ ~ pongReceived => unanswered > 0

LEMMA PongInit == Init => PongInv
BY DEF Init, PongInv

LEMMA PongPreserved ==
    TypeOK /\ EventsDispatched /\ SessionInv /\ ConnackInv /\ PongInv /\ [Next]_vars => PongInv'
<1> SUFFICES ASSUME TypeOK, EventsDispatched, SessionInv, ConnackInv, PongInv, [Next]_vars
             PROVE  PongInv'
  OBVIOUS
<1>1. CASE UNCHANGED vars
  BY <1>1 DEF PongInv
<1>2. CASE Next /\ Opens
  BY <1>2 DEF Opens, PongInv
<1>3. CASE Next /\ KeepsSocket /\ PongStep
  <2>1. announced \in Nat /\ unanswered \in Nat /\ conn \in Nat /\ pongReceived \in BOOLEAN
    BY DEF TypeOK, HistoryTypeOK, ClientTypeOK
  <2>2. BrokerConnack => socket = "connected" /\ session = "none" /\ session' # "none"
    BY DEF BrokerConnack, BrokerReads
  <2>3. ASSUME Accepts, conn = 1 PROVE session # "none"
    BY <2>3, ConnackTaken DEF Accepts, ConnackInv
  <2>4. socket' = "connecting" => session' = "none"
    BY <1>3, <2>2 DEF KeepsSocket, PongInv
  <2>5. ASSUME conn' = 1, session' = "none" PROVE announced' = 0
    <3>1. conn = 1 /\ session = "none" /\ announced = 0
      BY <1>3, <2>2, <2>5 DEF KeepsSocket, PongInv
    <3>2. QED
      BY <1>3, <2>3, <3>1 DEF PongStep
  <2>6. ASSUME conn' = 1, state' = "CONNECTING", announced' > 0, ~ pongReceived'
        PROVE  unanswered' > 0
    <3>1. conn = 1 /\ state = "CONNECTING"
      BY <1>3, <2>6 DEF KeepsSocket
    <3>2. CASE UNCHANGED <<announced, pongReceived, unanswered>>
      BY <2>6, <3>1, <3>2 DEF PongInv
    <3>3. CASE /\ SendPing /\ pongReceived /\ announced' = announced
               /\ unanswered' = IF socket = "connected" THEN unanswered + 1 ELSE unanswered
      <4>1. session # "none"
        BY <2>6, <3>1, <3>3 DEF PongInv
      <4>2. socket = "connected"
        BY <3>1, <4>1 DEF SessionInv, SessionAgreesWithSocket, PongInv
      <4>3. QED
        BY <2>1, <3>3, <4>2
    <3>4. QED
      BY <1>3, <2>6, <3>2, <3>3 DEF PongStep
  <2>7. QED
    BY <2>4, <2>5, <2>6 DEF PongInv
<1>4. QED
  BY <1>1, <1>2, <1>3, ConnectionStep

\* While the first session is up, TIME_OUT is reported only when a ping of this socket
\* is unanswered: neither pings sent before the session nor the pong of an earlier ping
\* can make a session that is answered time out.
THEOREM TimeoutIsSilence == Spec => TimeoutMeansNoPong
<1>1. ASSUME TypeOK, TypeOK', PongInv, [Next]_vars
      PROVE  [Emits("TIME_OUT")' /\ state = "CONNECTING" /\ announced > 0 /\ conn = 1
                => unanswered > 0]_vars
  <2> SUFFICES ASSUME Next, Emits("TIME_OUT")', state = "CONNECTING", announced > 0, conn = 1
               PROVE  unanswered > 0
    BY <1>1
  <2>1. TimesOut
    BY <1>1, EmitsRangeNext, EmittedStep
  <2>2. QED
    BY <1>1, <2>1 DEF TimesOut, PongInv
<1>2. Spec => [](TypeOK /\ EventsDispatched /\ SessionInv /\ ConnackInv /\ PongInv)
  BY TypeCorrect, DispatchInit, DispatchStep, SessionInit, SessionStep, ConnackInit,
     ConnackStep, PongInit, PongPreserved, PTL DEF Spec
<1>3. QED
  BY <1>1, <1>2, PTL DEF Spec, TimeoutMeansNoPong

-----------------------------------------------------------------------------
(* Counting in sequences *)

Count(s, C) == Cardinality({i \in 1 .. Len(s) : s[i] \in C})

LEMMA CountType ==
    ASSUME NEW S, NEW s \in Seq(S), NEW C
    PROVE  /\ Count(s, C) \in Nat
           /\ IsFiniteSet({i \in 1 .. Len(s) : s[i] \in C})
<1>1. Len(s) \in Nat
  BY LenProperties
<1>2. IsFiniteSet(1 .. Len(s))
  BY <1>1, FS_Interval
<1>3. IsFiniteSet({i \in 1 .. Len(s) : s[i] \in C})
  BY <1>2, FS_Subset
<1>4. QED
  BY <1>3, FS_CardinalityType DEF Count

LEMMA CountEmpty == \A C : Count(<<>>, C) = 0
<1>1. ASSUME NEW C PROVE {i \in 1 .. Len(<<>>) : <<>>[i] \in C} = {}
  BY EmptySeq
<1>2. QED
  BY <1>1, FS_EmptySet DEF Count

LEMMA CountAppend ==
    ASSUME NEW S, NEW s \in Seq(S), NEW x \in S, NEW C
    PROVE  Count(Append(s, x), C) = Count(s, C) + (IF x \in C THEN 1 ELSE 0)
<1> DEFINE P == {i \in 1 .. Len(s) : s[i] \in C}
           Q == {i \in 1 .. Len(Append(s, x)) : Append(s, x)[i] \in C}
<1>1. /\ Len(s) \in Nat /\ Len(Append(s, x)) = Len(s) + 1
      /\ \A i \in 1 .. Len(s) : Append(s, x)[i] = s[i]
      /\ Append(s, x)[Len(s) + 1] = x
  BY LenProperties, AppendProperties
<1>2. Q = IF x \in C THEN P \cup {Len(s) + 1} ELSE P
  <2>1. \A i : i \in 1 .. Len(Append(s, x)) <=> i \in 1 .. Len(s) \/ i = Len(s) + 1
    BY <1>1
  <2>2. \A i : i \in Q <=> i \in P \/ (i = Len(s) + 1 /\ x \in C)
    BY <1>1, <2>1
  <2>3. QED
    BY <2>2
<1>3. IsFiniteSet(P) /\ Cardinality(P) \in Nat /\ Len(s) + 1 \notin P
  <2>1. IsFiniteSet(P)
    BY CountType
  <2>2. Cardinality(P) \in Nat
    BY <2>1, FS_CardinalityType
  <2>3. Len(s) + 1 \notin 1 .. Len(s)
    BY <1>1
  <2>4. QED
    BY <2>1, <2>2, <2>3
<1>4. Cardinality(P \cup {Len(s) + 1}) = Cardinality(P) + 1
  BY <1>3, FS_AddElement
<1> HIDE DEF P, Q
<1>5. Cardinality(Q) = Cardinality(P) + (IF x \in C THEN 1 ELSE 0)
  BY <1>2, <1>3, <1>4
<1>6. QED
  BY <1>5 DEF Count, P, Q

LEMMA CountTail ==
    ASSUME NEW S, NEW s \in Seq(S), s # <<>>, NEW C
    PROVE  Count(s, C) = Count(Tail(s), C) + (IF Head(s) \in C THEN 1 ELSE 0)
<1> DEFINE P == {i \in 1 .. Len(Tail(s)) : Tail(s)[i] \in C}
           Q == {i \in 2 .. Len(s) : s[i] \in C}
           R == {i \in 1 .. Len(s) : s[i] \in C}
           f == [i \in P |-> i + 1]
<1>1. /\ Tail(s) \in Seq(S) /\ Len(s) \in Nat \ {0} /\ Len(Tail(s)) = Len(s) - 1
      /\ \A i \in 1 .. Len(Tail(s)) : Tail(s)[i] = s[i + 1]
  BY HeadTailProperties, EmptySeq
<1>2. Head(s) = s[1]
  OBVIOUS
<1>3. f \in Bijection(P, Q)
  <2>1. \A i \in P : f[i] \in Q
    BY <1>1
  <2>2. \A i, j \in P : f[i] = f[j] => i = j
    BY <1>1
  <2>3. \A j \in Q : \E i \in P : f[i] = j
    <3> SUFFICES ASSUME NEW j \in Q PROVE \E i \in P : f[i] = j
      OBVIOUS
    <3>1. j - 1 \in P /\ f[j - 1] = j
      BY <1>1
    <3>2. QED
      BY <3>1
  <2>4. QED
    BY <2>1, <2>2, <2>3 DEF Bijection, Injection, IsInjective, Surjection
<1>4. IsFiniteSet(P) /\ Cardinality(P) \in Nat
  BY <1>1, CountType DEF Count
<1>5. IsFiniteSet(Q) /\ Cardinality(Q) = Cardinality(P)
  BY <1>3, <1>4, FS_Bijection DEF ExistsBijection
<1>6. R = IF Head(s) \in C THEN Q \cup {1} ELSE Q
  <2>1. \A i : i \in 1 .. Len(s) <=> i = 1 \/ i \in 2 .. Len(s)
    BY <1>1
  <2>2. \A i : i \in R <=> (i = 1 /\ Head(s) \in C) \/ i \in Q
    BY <1>2, <2>1
  <2>3. QED
    BY <2>2
<1>7. 1 \notin Q
  OBVIOUS
<1>8. Cardinality(Q \cup {1}) = Cardinality(Q) + 1
  BY <1>5, <1>7, FS_AddElement
<1> HIDE DEF P, Q, R, f
<1>9. Cardinality(R) = Cardinality(P) + (IF Head(s) \in C THEN 1 ELSE 0)
  BY <1>4, <1>5, <1>6, <1>8
<1>10. QED
  BY <1>9 DEF Count, P, R

-----------------------------------------------------------------------------
(* Each socket brings at most one CONNACK, so at most one connected() *)

ConnackPackets == {p \in BrokerPackets : p.type = "CONNACK"}
ConnackEvents == {e \in Events : e.packet.type = "CONNACK"}
Connacks == Count(toClient, ConnackPackets) + Count(queue, ConnackEvents)

\* The socket is open, or opening, and its CONNACK has not been sent yet.
Awaited == IF session = "none" /\ socket \in {"connecting", "connected"} THEN 1 ELSE 0

OnceInv == announced + Connacks + Awaited <= conn

LEMMA OnceInit == Init => OnceInv
<1> SUFFICES ASSUME Init PROVE OnceInv
  OBVIOUS
<1>1. /\ Count(toClient, ConnackPackets) = 0 /\ Count(queue, ConnackEvents) = 0
      /\ announced = 0 /\ conn = 0 /\ socket = "unconnected"
  BY CountEmpty DEF Init
<1>2. QED
  BY <1>1 DEF OnceInv, Connacks, Awaited

LEMMA ConnacksNext ==
    Connacks' = Count(toClient', ConnackPackets) + Count(queue', ConnackEvents)
BY DEF Connacks, Count, ConnackPackets, ConnackEvents

LEMMA ConnacksType ==
    ASSUME TypeOK
    PROVE  /\ Count(toClient, ConnackPackets) \in Nat /\ Count(queue, ConnackEvents) \in Nat
           /\ \A s \in {toClient, <<>>} :
                 /\ Count(s, ConnackPackets) \in Nat
                 /\ Count(s, ConnackPackets) <= Count(toClient, ConnackPackets)
<1>1. toClient \in Seq(BrokerPackets) /\ queue \in Seq(Events)
  BY DEF TypeOK, LinkTypeOK
<1>2. Count(toClient, ConnackPackets) \in Nat /\ Count(queue, ConnackEvents) \in Nat
  BY <1>1, CountType
<1>3. Count(<<>>, ConnackPackets) = 0
  BY CountEmpty
<1>4. QED
  BY <1>2, <1>3

\* A slot takes the CONNACK it runs with out of the queue; the others take none, nor add any.
LEMMA HandleConnacks ==
    ASSUME TypeOK, EventsDispatched, Handle
    PROVE  /\ Connacks \in Nat /\ Connacks' \in Nat
           /\ Connacks' <= Connacks
           /\ OnConnackReceived => Connacks' + 1 <= Connacks
<1> DEFINE a == Count(toClient, ConnackPackets)
           b == Count(queue, ConnackEvents)
<1>1. queue \in Seq(Events) /\ queue # <<>> /\ queue' = Tail(queue) /\ toClient' \in {toClient, <<>>}
  BY HandleSequence DEF TypeOK, LinkTypeOK
<1>2. b = Count(queue', ConnackEvents) + (IF Head(queue) \in ConnackEvents THEN 1 ELSE 0)
  BY <1>1, CountTail
<1>3. Count(queue', ConnackEvents) \in Nat
  <2>1. queue' \in Seq(Events)
    BY <1>1, HeadTailProperties
  <2>2. QED
    BY <2>1, CountType
<1>4. a \in Nat /\ b \in Nat /\ Count(toClient', ConnackPackets) \in Nat
      /\ Count(toClient', ConnackPackets) <= a
  BY <1>1, ConnacksType
<1>5. OnConnackReceived => Head(queue) \in ConnackEvents
  <2>1. Head(queue) \in Events
    BY <1>1, HeadTailProperties
  <2>2. OnConnackReceived => Head(queue).packet.type = "CONNACK"
    BY ConnackTaken DEF Arg
  <2>3. QED
    BY <2>1, <2>2 DEF ConnackEvents
<1>6. Connacks = a + b
  BY DEF Connacks
<1> HIDE DEF a, b
<1>7. QED
  BY <1>2, <1>3, <1>4, <1>5, <1>6, ConnacksNext

\* A frame moves from the socket to the queue, and from the parser to its slot.
LEMMA FrameConnacks ==
    ASSUME TypeOK, SlotsOnce, BinaryMessageReceived
    PROVE  Connacks' = Connacks /\ Connacks \in Nat
<1>1. /\ toClient \in Seq(BrokerPackets) /\ queue \in Seq(Events)
      /\ toClient # <<>> /\ toClient' = Tail(toClient) /\ Head(toClient) \in BrokerPackets
      /\ queue' = Append(queue, Arrived(Head(toClient)))
      /\ Arrived(Head(toClient)) \in Events
  BY FrameSequence, PostedTypes DEF TypeOK, LinkTypeOK
<1>2. PICK n \in {0, 1} :
         /\ n = IF Head(toClient) \in ConnackPackets THEN 1 ELSE 0
         /\ n = IF Arrived(Head(toClient)) \in ConnackEvents THEN 1 ELSE 0
  BY <1>1 DEF ConnackPackets, ConnackEvents, Arrived
<1>3. Count(toClient, ConnackPackets) = Count(toClient', ConnackPackets) + n
  BY <1>1, <1>2, CountTail
<1>4. Count(queue', ConnackEvents) = Count(queue, ConnackEvents) + n
  BY <1>1, <1>2, CountAppend
<1>5. Count(toClient', ConnackPackets) \in Nat
  <2>1. toClient' \in Seq(BrokerPackets)
    BY <1>1, HeadTailProperties
  <2>2. QED
    BY <2>1, CountType
<1>6. QED
  BY <1>3, <1>4, <1>5, ConnacksNext, ConnacksType DEF Connacks

LEMMA ParseConnacks ==
    ASSUME TypeOK, SlotsOnce, Parse
    PROVE  Connacks' = Connacks /\ Connacks \in Nat
<1>1. /\ queue \in Seq(Events) /\ Tail(queue) \in Seq(Events) /\ queue # <<>>
      /\ Head(queue) = Arrived(Arg) /\ Arg \in BrokerPackets
      /\ queue' = Append(Tail(queue), Parsed(Arg)) /\ toClient' = toClient
      /\ Parsed(Arg) \in Events /\ Arrived(Arg) \in Events
  BY ParseSequence, PostedTypes, HeadTailProperties DEF TypeOK, LinkTypeOK
<1>2. PICK n \in {0, 1} :
         /\ n = IF Head(queue) \in ConnackEvents THEN 1 ELSE 0
         /\ n = IF Parsed(Arg) \in ConnackEvents THEN 1 ELSE 0
  BY <1>1 DEF ConnackEvents, Arrived, Parsed
<1>3. Count(queue, ConnackEvents) = Count(Tail(queue), ConnackEvents) + n
  BY <1>1, <1>2, CountTail
<1>4. Count(queue', ConnackEvents) = Count(Tail(queue), ConnackEvents) + n
  <2>1. \A q \in Seq(Events) : Count(Append(q, Parsed(Arg)), ConnackEvents)
                                = Count(q, ConnackEvents) + n
    BY <1>1, <1>2, CountAppend
  <2>2. QED
    BY <1>1, <2>1
<1>5. QED
  BY <1>1, <1>3, <1>4, ConnacksNext, ConnacksType DEF Connacks

LEMMA NoticeConnacks ==
    ASSUME TypeOK, SlotsOnce, TimerTimeout \/ SocketConnected
    PROVE  Connacks' = Connacks /\ Connacks \in Nat
<1>1. /\ queue \in Seq(Events) /\ toClient' = toClient
      /\ queue' = queue \/ \E e \in Notices : queue' = Append(queue, e)
  BY NoticeSequence DEF TypeOK, LinkTypeOK
<1>2. \A e \in Notices : e \in Events /\ e \notin ConnackEvents
  BY PostedTypes DEF Notices, ConnackEvents, Bare, Packet
<1>3. Count(queue, ConnackEvents) \in Nat
  BY <1>1, CountType
<1>4. Count(queue', ConnackEvents) = Count(queue, ConnackEvents)
  <2>1. ASSUME NEW e \in Notices, queue' = Append(queue, e)
        PROVE  Count(queue', ConnackEvents) = Count(queue, ConnackEvents)
    BY <1>1, <1>2, <1>3, <2>1, CountAppend
  <2>2. QED
    BY <1>1, <2>1
<1>5. QED
  BY <1>1, <1>4, ConnacksNext, ConnacksType DEF Connacks

\* A broker that answers once adds one CONNACK, with BrokerConnack.
LEMMA BrokerConnacks ==
    ASSUME TypeOK, Next, Broker, "answersTwice" \notin BrokerFaults
    PROVE  /\ Connacks \in Nat /\ Connacks' \in Nat
           /\ Connacks' <= Connacks + 1
           /\ ~ BrokerConnack => Connacks' = Connacks
<1>1. /\ toClient \in Seq(BrokerPackets) /\ queue' = queue
      /\ \/ toClient' = toClient
         \/ \E p \in BrokerPackets : NewArriving(p) /\ toClient' = Append(toClient, p)
  BY BrokerSequence DEF TypeOK, LinkTypeOK
<1>2. PICK a, b \in Nat :
         a = Count(toClient, ConnackPackets) /\ b = Count(queue, ConnackEvents)
  BY ConnacksType
<1>3. CASE toClient' = toClient
  BY <1>1, <1>2, <1>3, ConnacksNext DEF Connacks
<1>4. ASSUME NEW p \in BrokerPackets, NewArriving(p), toClient' = Append(toClient, p)
      PROVE  /\ Connacks \in Nat /\ Connacks' \in Nat
             /\ Connacks' <= Connacks + 1
             /\ ~ BrokerConnack => Connacks' = Connacks
  <2>1. Count(toClient', ConnackPackets) = a + (IF p \in ConnackPackets THEN 1 ELSE 0)
    BY <1>1, <1>2, <1>4, CountAppend
  <2>2. p \in ConnackPackets => BrokerConnack
    BY <1>4, NewArrivingByType DEF ConnackPackets
  <2>3. QED
    BY <1>1, <1>2, <2>1, <2>2, ConnacksNext DEF Connacks
<1>5. QED
  BY <1>1, <1>3, <1>4

LEMMA AcceptBound ==
    ASSUME NEW a \in Nat, NEW b \in Nat, NEW c \in Nat, NEW n \in Nat, a + b + c <= n,
           NEW x \in Nat, NEW y \in Nat, NEW z \in Nat, x <= a + 1, y + 1 <= b, z <= c
    PROVE  x + y + z <= n
OBVIOUS

LEMMA SendBound ==
    ASSUME NEW a \in Nat, NEW b \in Nat, NEW n \in Nat, a + b + 1 <= n,
           NEW x \in Nat, NEW y \in Nat, x = a, y <= b + 1
    PROVE  x + y + 0 <= n
OBVIOUS

LEMMA OnceStep ==
    ASSUME "answersTwice" \notin BrokerFaults
    PROVE  TypeOK /\ SlotsOnce /\ EventsDispatched /\ OnceInv /\ [Next]_vars => OnceInv'
<1> SUFFICES ASSUME TypeOK, SlotsOnce, EventsDispatched, OnceInv, [Next]_vars PROVE OnceInv'
  OBVIOUS
<1>1. announced \in Nat /\ conn \in Nat /\ Awaited \in {0, 1} /\ Awaited' \in {0, 1}
  BY DEF TypeOK, HistoryTypeOK, ClientTypeOK, Awaited
<1>2. CASE UNCHANGED vars
  <2>1. Connacks' = Connacks /\ Awaited' = Awaited
    BY <1>2, ConnacksNext DEF Connacks, Awaited
  <2>2. QED
    BY <1>2, <2>1 DEF OnceInv
<1>3. CASE Next /\ Opens
  <2>1. Connacks' = Count(queue, ConnackEvents) /\ Count(queue, ConnackEvents) \in Nat
    <3>1. Count(toClient', ConnackPackets) = 0
      BY <1>3, CountEmpty DEF Opens
    <3>2. queue' = queue
      BY <1>3 DEF Opens
    <3>3. QED
      BY <3>1, <3>2, ConnacksNext, ConnacksType
  <2>2. Count(queue, ConnackEvents) <= conn
    BY <1>1, ConnacksType DEF OnceInv, Connacks
  <2>3. QED
    BY <1>1, <1>3, <2>1, <2>2 DEF Opens, OnceInv
<1>4. CASE Next /\ KeepsSocket /\ PongStep
  <2>0. conn' = conn
    BY <1>4 DEF KeepsSocket
  <2>1. ~ BrokerConnack => Awaited' <= Awaited
    BY <1>4 DEF KeepsSocket, Awaited
  <2>2. announced' = announced \/ (Accepts /\ announced' = announced + 1)
    BY <1>4 DEF PongStep
  <2>3. ASSUME ~ Accepts, ~ BrokerConnack, Connacks \in Nat, Connacks' \in Nat,
               Connacks' <= Connacks
        PROVE  OnceInv'
    BY <1>1, <1>4, <2>1, <2>2, <2>3 DEF OnceInv, KeepsSocket
  <2>4. CASE Accepts
    <3>1. OnConnackReceived /\ Handle
      BY <2>4 DEF Accepts, Handle
    <3>2. Connacks \in Nat /\ Connacks' \in Nat /\ Connacks' + 1 <= Connacks
      BY <3>1, HandleConnacks
    <3>3. announced' <= announced + 1 /\ announced' \in Nat
      BY <1>1, <2>2
    <3>4. Awaited' <= Awaited
      <4>1. session' = session
        BY <3>1 DEF OnConnackReceived
      <4>2. QED
        BY <1>4, <4>1 DEF KeepsSocket, Awaited
    <3>5. QED
      <4>1. Awaited \in Nat /\ Awaited' \in Nat
        BY <1>1
      <4>2. QED
        BY <1>1, <2>0, <3>2, <3>3, <3>4, <4>1, AcceptBound DEF OnceInv
  <2>5. CASE BrokerConnack
    <3>1. Connacks \in Nat /\ Connacks' \in Nat /\ Connacks' <= Connacks + 1
      BY <1>4, <2>5, BrokerConnacks DEF Broker
    <3>2. Awaited = 1 /\ Awaited' = 0
      BY <2>5 DEF BrokerConnack, BrokerReads, Awaited
    <3>3. announced' = announced
      BY <2>5 DEF BrokerConnack, Reply
    <3>4. QED
      <4>1. Awaited \in Nat /\ Awaited' \in Nat /\ announced' \in Nat
        BY <1>1, <3>3
      <4>2. announced + Connacks + 1 <= conn
        BY <3>2 DEF OnceInv
      <4>3. announced' + Connacks' + 0 <= conn
        BY <1>1, <3>1, <3>3, <4>1, <4>2, SendBound
      <4>4. QED
        BY <2>0, <3>2, <4>3 DEF OnceInv
  <2>6. CASE ~ Accepts /\ ~ BrokerConnack
    <3>1. CASE Quiet
      <4>1. queue' = queue /\ toClient' \in {toClient, <<>>}
        BY <3>1, QuietSequence
      <4>2. Connacks \in Nat /\ Connacks' \in Nat /\ Connacks' <= Connacks
        BY <4>1, ConnacksNext, ConnacksType DEF Connacks
      <4>3. QED
        BY <2>3, <2>6, <4>2
    <3>2. CASE Handle
      BY <2>3, <2>6, <3>2, HandleConnacks
    <3>3. CASE Parse \/ BinaryMessageReceived \/ TimerTimeout \/ SocketConnected
      BY <2>3, <2>6, <3>3, ParseConnacks, FrameConnacks, NoticeConnacks
    <3>4. CASE Broker
      BY <1>4, <2>3, <2>6, <3>4, BrokerConnacks
    <3>5. QED
      BY <1>4, <3>1, <3>2, <3>3, <3>4, StepKinds
  <2>7. QED
    BY <2>4, <2>5, <2>6
<1>5. QED
  BY <1>2, <1>3, <1>4, ConnectionStep

\* With a broker that answers once there are no more announcements than sockets.  A broker
\* that answers twice breaks this (SecondConnackRefused in QMqttClientClaims); the count of
\* pings below is about one that does not.
OncePerSocket == announced <= conn

LEMMA AnnouncementsCounted ==
    ASSUME "answersTwice" \notin BrokerFaults
    PROVE  Spec => []OncePerSocket
<1>1. TypeOK /\ OnceInv => OncePerSocket
  <2> SUFFICES ASSUME TypeOK, OnceInv PROVE announced <= conn
    BY DEF OncePerSocket
  <2>1. announced \in Nat /\ conn \in Nat /\ Connacks \in Nat /\ Awaited \in Nat
    BY ConnacksType DEF TypeOK, HistoryTypeOK, ClientTypeOK, Connacks, Awaited
  <2>2. QED
    BY <2>1 DEF OnceInv
<1>2. Spec => [](TypeOK /\ SlotsOnce /\ EventsDispatched /\ OnceInv)
  BY TypeCorrect, SlotsInit, SlotsStep, DispatchInit, DispatchStep, OnceInit, OnceStep, PTL
     DEF Spec
<1>3. QED
  BY <1>1, <1>2, PTL

-----------------------------------------------------------------------------
(* The pings of the first connection *)

\* Before connected() there is no ping under way and none expected.
PingInv ==
    conn <= 1 =>
        /\ unanswered <= 1
        /\ pongReceived => unanswered = 0
        /\ announced = 0 =>
              /\ ~ pongReceived /\ unanswered = 0
              /\ \A p \in Range(toBroker) : p.type # "PINGREQ"
              /\ \A p \in Arriving : p.type # "PINGRESP"

LEMMA PingInit == Init => PingInv
BY RangeEmpty DEF Init, PingInv, Arriving

LEMMA NewPing ==
    ASSUME TypeOK, Next, NEW p \in Range(toBroker'), p.type = "PINGREQ"
    PROVE  p \in Range(toBroker) \/ (SendPing /\ pongReceived)
<1>1. ASSUME NEW type, NEW id, NEW code, NEW ref, p = Packet(type, id, code, ref)
      PROVE  type = "PINGREQ"
  BY <1>1 DEF Packet
<1>2. \A type \in DOMAIN AnswerTo : type # "PINGREQ"
  BY DEF AnswerTo
<1>3. \A code \in DOMAIN AckFor : AckFor[code] # "PINGREQ"
  BY DEF AckFor
<1>4. ~ IsPlain(p)
  BY DEF IsPlain
<1>5. NewOutgoing(p) => SendPing /\ pongReceived
  BY <1>1, <1>2, <1>3, <1>4 DEF NewOutgoing
<1>6. QED
  BY <1>5, OutgoingStep

LEMMA NewPong ==
    ASSUME TypeOK, Next, NEW p \in Arriving', p.type = "PINGRESP"
    PROVE  p \in Arriving \/ \E q \in Range(toBroker) : q.type = "PINGREQ"
<1>1. p \in Arriving \/ BrokerPong
  BY ArrivingStep, NewArrivingByType
<1>2. ASSUME BrokerPong PROVE \E q \in Range(toBroker) : q.type = "PINGREQ"
  <2>1. toBroker \in Seq(Packets) /\ toBroker # <<>> /\ Head(toBroker).type = "PINGREQ"
    BY <1>2 DEF BrokerPong, BrokerReads, TypeOK, LinkTypeOK
  <2>2. QED
    BY <2>1, RangeTail
<1>3. QED
  BY <1>1, <1>2

LEMMA PongTaken ==
    ASSUME TypeOK, EventsDispatched, OnPongReceived
    PROVE  Arg \in Arriving /\ Arg.type = "PINGRESP"
<1>1. Runs(SlotOf["PINGRESP"]) /\ "PINGRESP" \in DOMAIN SlotOf
  BY DEF OnPongReceived, SlotOf
<1>2. Arg.type = "PINGRESP"
  BY <1>1, ArgOfSlot
<1>3. QED
  BY <1>1, <1>2, RunningEvent DEF Arriving

LEMMA PingStep ==
    /\ TypeOK /\ TypeOK' /\ EventsDispatched /\ OncePerSocket /\ OncePerSocket'
    /\ PingInv /\ [Next]_vars
    => PingInv'
<1> SUFFICES ASSUME TypeOK, TypeOK', EventsDispatched, OncePerSocket, OncePerSocket',
                    PingInv, [Next]_vars
             PROVE  PingInv'
  OBVIOUS
<1>1. /\ announced \in Nat /\ unanswered \in Nat /\ conn \in Nat
      /\ pongReceived \in BOOLEAN /\ pongReceived' \in BOOLEAN
      /\ announced <= conn /\ announced' <= conn'
  BY DEF TypeOK, HistoryTypeOK, ClientTypeOK, OncePerSocket
<1>2. CASE UNCHANGED vars
  BY <1>2 DEF PingInv, Arriving
<1>3. CASE Next /\ Opens
  <2>1. Arriving' \subseteq Arriving /\ Range(toBroker') = {}
    BY <1>3, RangeEmpty DEF Opens, Arriving
  <2>2. conn' <= 1 => conn = 0 /\ announced = 0
    BY <1>1, <1>3 DEF Opens
  <2>3. QED
    BY <1>3, <2>1, <2>2 DEF Opens, PingInv
<1>4. CASE Next /\ KeepsSocket /\ PongStep
  <2> SUFFICES ASSUME conn' <= 1
               PROVE  /\ unanswered' <= 1
                      /\ pongReceived' => unanswered' = 0
                      /\ announced' = 0 =>
                            /\ ~ pongReceived' /\ unanswered' = 0
                            /\ \A p \in Range(toBroker') : p.type # "PINGREQ"
                            /\ \A p \in Arriving' : p.type # "PINGRESP"
    BY DEF PingInv, Arriving
  <2>1. conn <= 1 /\ conn' = conn
    BY <1>4 DEF KeepsSocket
  <2>2. /\ unanswered <= 1 /\ (pongReceived => unanswered = 0)
        /\ announced = 0 =>
              /\ ~ pongReceived /\ unanswered = 0
              /\ \A p \in Range(toBroker) : p.type # "PINGREQ"
              /\ \A p \in Arriving : p.type # "PINGRESP"
    BY <2>1 DEF PingInv
  <2>3. announced' = 0 => announced = 0
    BY <1>1, <1>4 DEF PongStep
  <2>4. OnPongReceived => announced # 0
    BY <1>1, <2>2, PongTaken
  <2>5. /\ unanswered' <= 1
        /\ pongReceived' => unanswered' = 0
        /\ announced' = 0 => ~ pongReceived' /\ unanswered' = 0
    <3>1. CASE UNCHANGED <<announced, pongReceived, unanswered>>
      BY <2>2, <3>1
    <3>2. CASE announced' = announced + 1 /\ pongReceived' = TRUE /\ unanswered' = unanswered
      <4>1. announced = 0
        BY <1>1, <2>1, <3>2
      <4>2. QED
        BY <1>1, <2>2, <3>2, <4>1
    <3>3. CASE /\ OnPongReceived
               /\ unanswered' = IF unanswered > 0 THEN unanswered - 1 ELSE 0
               /\ pongReceived' = TRUE /\ announced' = announced
      BY <1>1, <2>2, <2>4, <3>3
    <3>4. CASE /\ SendPing /\ pongReceived
               /\ unanswered' = IF socket = "connected" THEN unanswered + 1 ELSE unanswered
               /\ pongReceived' = FALSE /\ announced' = announced
      BY <1>1, <2>2, <3>4
    <3>5. QED
      BY <1>4, <3>1, <3>2, <3>3, <3>4 DEF PongStep
  <2>6. ASSUME announced' = 0, NEW p \in Range(toBroker') PROVE p.type # "PINGREQ"
    BY <1>1, <1>4, <2>2, <2>3, <2>6, NewPing
  <2>7. ASSUME announced' = 0, NEW p \in Arriving' PROVE p.type # "PINGRESP"
    BY <1>1, <1>4, <2>2, <2>3, <2>7, NewPong
  <2>8. QED
    BY <2>5, <2>6, <2>7
<1>5. QED
  BY <1>2, <1>3, <1>4, ConnectionStep

\* On the first socket a ping is sent only once the last one is answered: with a broker
\* that answers once, pongReceived is never set by anything but the answer to the last
\* ping, or by the connection itself before the first.
THEOREM OnePing ==
    ASSUME "answersTwice" \notin BrokerFaults
    PROVE  Spec => []OnePingInFlight
<1>1. TypeOK /\ PingInv => OnePingInFlight
  <2> SUFFICES ASSUME TypeOK, PingInv, conn = 1 PROVE unanswered <= 1
    BY DEF OnePingInFlight
  <2>1. QED
    BY DEF PingInv
<1>2. Spec => []OncePerSocket
  BY AnnouncementsCounted
<1>3. Spec => [](TypeOK /\ EventsDispatched)
  BY TypeCorrect, DispatchInit, DispatchStep, PTL DEF Spec
<1>4. QED
  BY <1>1, <1>2, <1>3, PingInit, PingStep, PTL DEF Spec

=============================================================================
