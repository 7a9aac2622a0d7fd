------------------------------ MODULE Reentrancy ------------------------------
(***************************************************************************)
(* QMqttClientPrivate (qmqttclient.cpp) when slots of the user call        *)
(* connect() and disconnect() from inside a signal.  QMqttClient runs each *)
(* handler in one step; here a handler is the list of its statements, and  *)
(* an emission puts the calls the user makes in it before the statements   *)
(* that follow: "todo" is the call stack of the thread, flattened.         *)
(*                                                                         *)
(* Of each handler the module keeps what touches the state, the socket and *)
(* the ping timer.  Requests are left out (they emit nothing), and a frame *)
(* takes one hop to its slot instead of two.  A slot of the user that runs *)
(* an event loop of its own is not modelled.                               *)
(***************************************************************************)
EXTENDS Integers, Sequences

CONSTANTS
    ConnectFrom,       \* signals whose slots may call connect()
    DisconnectFrom,    \* signals whose slots may call disconnect()
    SslErrorKinds,     \* errors a certificate can have
    AllowedSslErrors,  \* m_allowedSslErrors
    MaxConnects,       \* bound: calls of connect() that are not refused
    MaxPosted          \* bound: posted events when the broker or the timer adds one

\* stateChanged() is named by the state it shows.
StateChanges == {"OFFLINE", "CONNECTING", "DISCONNECTING"}
Signals == StateChanges \cup {"connected", "disconnected", "messageReceived", "error"}

ASSUME SignalsAssumption == ConnectFrom \subseteq Signals /\ DisconnectFrom \subseteq Signals
ASSUME AllowedAssumption == AllowedSslErrors \subseteq SslErrorKinds
ASSUME BoundsAssumption == MaxConnects \in Nat /\ MaxPosted \in Nat

VARIABLES
    state,         \* m_state
    pongReceived,  \* m_pongReceived
    pingActive,    \* m_pingTimer is running
    socket,        \* state of m_webSocket
    sslErrors,     \* errors of the certificate met by this socket
    session,       \* what the broker made of the CONNECT of this socket
    posted,        \* posted events of the thread, oldest first
    todo,          \* statements the thread has still to run, the next one first
    connects,      \* calls of connect() that were not refused
    wish           \* the last of connect() and disconnect() the user called

vars == <<state, pongReceived, pingActive, socket, sslErrors, session, posted, todo, connects, wish>>

\* Statements
Do(op) == [op |-> op, arg |-> "none"]
SetState(s) == [op |-> "setState", arg |-> s]
Emit(signal) == [op |-> "emit", arg |-> signal]

Init ==
    /\ state = "OFFLINE" /\ socket = "unconnected" /\ session = "none"
    /\ pongReceived = FALSE /\ pingActive = FALSE
    /\ sslErrors = {} /\ posted = <<>> /\ todo = <<>>
    /\ connects = 0 /\ wish = "disconnect"

-----------------------------------------------------------------------------
(* What the handlers do, in the order of the source *)

\* connect()
MutCanConnect == state # "CONNECTED"
CanConnect == state = "OFFLINE"
ConnectBody == <<SetState("CONNECTING"), Do("open")>>

\* disconnect(); DISCONNECT is left out
MutCanDisconnect == state = "CONNECTED"
CanDisconnect == state # "OFFLINE"
DisconnectBody == <<Do("stopPing"), SetState("DISCONNECTING"), Do("close")>>

\* The lambdas on disconnected() and error().
MutOnDisconnected == <<Emit("disconnected"), SetState("OFFLINE")>>
OnDisconnected == <<SetState("OFFLINE"), Emit("disconnected")>>

MutOnError == <<Emit("error")>>
OnError == <<Emit("error"), SetState("OFFLINE")>>

\* The lambda on sslErrors(), and Qt after it, which gives the handshake up unless the
\* errors are ignored.  Errors are compared by their kind, not by their certificate.
MutSslErrorsAllowed(errors) == errors \cap AllowedSslErrors # {}

SslErrorsAllowed(errors) == AllowedSslErrors # {} /\ errors \subseteq AllowedSslErrors

OnSslErrors(errors) == IF SslErrorsAllowed(errors) THEN <<>> ELSE OnError \o <<Do("giveUp")>>

\* The calls a slot of the user makes; disconnect() then connect() is a reconnect.
CallLists == {<<>>, <<Do("connect")>>, <<Do("disconnect")>>, <<Do("disconnect"), Do("connect")>>}

MayCall(signal, calls) ==
    \A i \in DOMAIN calls :
        /\ calls[i] = Do("connect") => signal \in ConnectFrom /\ connects < MaxConnects
        /\ calls[i] = Do("disconnect") => signal \in DisconnectFrom

-----------------------------------------------------------------------------
(* The thread runs the next statement *)

NextIs(op) == todo # <<>> /\ Head(todo).op = op
Arg == Head(todo).arg

\* The statement makes way for these.
Becomes(statements) == todo' = statements \o Tail(todo)

Connect ==
    /\ NextIs("connect")
    /\ wish' = "connect"
    /\ \/ CanConnect /\ connects' = connects + 1 /\ Becomes(ConnectBody)
       \/ ~ CanConnect /\ Becomes(<<>>) /\ UNCHANGED connects
    /\ UNCHANGED <<state, pongReceived, pingActive, socket, sslErrors, session, posted>>

Disconnect ==
    /\ NextIs("disconnect")
    /\ wish' = "disconnect"
    /\ Becomes(IF CanDisconnect THEN DisconnectBody ELSE <<>>)
    /\ UNCHANGED <<state, pongReceived, pingActive, socket, sslErrors, session, posted, connects>>

\* sendPing calls disconnect() as well, which is no wish of the user.
DisconnectAfterTimeout ==
    /\ NextIs("disconnectAfterTimeout")
    /\ Becomes(IF CanDisconnect THEN DisconnectBody ELSE <<>>)
    /\ UNCHANGED <<state, pongReceived, pingActive, socket, sslErrors, session, posted, connects, wish>>

SetTheState ==
    /\ NextIs("setState")
    /\ state' = Arg
    /\ Becomes(IF state # Arg THEN <<Emit(Arg)>> ELSE <<>>)
    /\ UNCHANGED <<pongReceived, pingActive, socket, sslErrors, session, posted, connects, wish>>

\* A signal reaches the user, who may call back at once.
EmitToUser ==
    /\ NextIs("emit")
    /\ \E calls \in CallLists : MayCall(Arg, calls) /\ Becomes(calls)
    /\ UNCHANGED <<state, pongReceived, pingActive, socket, sslErrors, session, posted, connects, wish>>

\* m_pingTimer.stop() of disconnect(), and the restart of the timer by sendData()
StopPing ==
    /\ NextIs("stopPing") /\ pingActive' = FALSE
    /\ Becomes(<<>>)
    /\ UNCHANGED <<state, pongReceived, socket, sslErrors, session, posted, connects, wish>>

SendData ==
    /\ NextIs("sendData") /\ pingActive' = TRUE
    /\ Becomes(<<>>)
    /\ UNCHANGED <<state, pongReceived, socket, sslErrors, session, posted, connects, wish>>

\* open() drops the previous socket without a signal; for a URL it does not accept it
\* emits error() instead.
Open ==
    /\ NextIs("open")
    /\ \/ /\ socket' = "connecting" /\ sslErrors' = {} /\ session' = "none"
          /\ Becomes(<<>>)
       \/ Becomes(OnError) /\ UNCHANGED <<socket, sslErrors, session>>
    /\ UNCHANGED <<state, pongReceived, pingActive, posted, connects, wish>>

\* The socket is gone, and says so before the call returns.
Gone == socket' = "unconnected" /\ Becomes(OnDisconnected)

\* close() completes before it returns, or leaves the socket closing.
Close ==
    /\ NextIs("close")
    /\ \/ socket # "unconnected" /\ Gone
       \/ socket' = (IF socket = "unconnected" THEN socket ELSE "closing") /\ Becomes(<<>>)
    /\ UNCHANGED <<state, pongReceived, pingActive, sslErrors, session, posted, connects, wish>>

Abort ==
    /\ NextIs("abort")
    /\ \/ socket # "unconnected" /\ Gone
       \/ socket = "unconnected" /\ Becomes(<<>>) /\ UNCHANGED socket
    /\ UNCHANGED <<state, pongReceived, pingActive, sslErrors, session, posted, connects, wish>>

\* The end of the handshake that met the errors; a socket opened since has met none.
GiveUp ==
    /\ NextIs("giveUp")
    /\ socket' = IF socket = "connecting" /\ sslErrors # {} THEN "closing" ELSE socket
    /\ Becomes(<<>>)
    /\ UNCHANGED <<state, pongReceived, pingActive, sslErrors, session, posted, connects, wish>>

RunStatement ==
    \/ Connect \/ Disconnect \/ DisconnectAfterTimeout \/ SetTheState \/ EmitToUser
    \/ StopPing \/ SendData \/ Open \/ Close \/ Abort \/ GiveUp

-----------------------------------------------------------------------------
(* Once it has nothing to do: the user, the event loop, the socket and the broker *)

Idle == todo = <<>>

UserCalls ==
    /\ Idle
    /\ \E call \in {Do("connect"), Do("disconnect")} :
          /\ call = Do("connect") => connects < MaxConnects
          /\ todo' = <<call>>
    /\ UNCHANGED <<state, pongReceived, pingActive, socket, sslErrors, session, posted, connects, wish>>

\* The oldest posted event runs its slot.
Runs(slot) == Idle /\ posted # <<>> /\ Head(posted) = slot /\ posted' = Tail(posted)

\* CONNECT is written, or dropped with a socket that is not connected.
OnSocketConnected ==
    /\ Runs("onSocketConnected")
    /\ session' = IF socket = "connected" /\ session = "none" THEN "asked" ELSE session
    /\ UNCHANGED <<state, pongReceived, pingActive, socket, sslErrors, todo, connects, wish>>

OnConnackReceived ==
    /\ \/ /\ Runs("onConnackReceived(accepted)") /\ state = "CONNECTING"
          /\ pongReceived' = TRUE /\ pingActive' = TRUE
          /\ todo' = <<Emit("connected")>>
       \/ /\ \/ Runs("onConnackReceived(accepted)") /\ state # "CONNECTING"
             \/ Runs("onConnackReceived(refused)")
          /\ todo' = <<Emit("error"), Do("abort")>>
          /\ UNCHANGED <<pongReceived, pingActive>>
    /\ UNCHANGED <<state, socket, sslErrors, session, connects, wish>>

\* A message that is acknowledged, or one of QoS 0.
OnPublishReceived ==
    /\ \/ Runs("onPublishReceived") /\ todo' = <<Emit("messageReceived"), Do("sendData")>>
       \/ Runs("onPublishReceived") /\ todo' = <<Emit("messageReceived")>>
    /\ UNCHANGED <<state, pongReceived, pingActive, socket, sslErrors, session, connects, wish>>

OnPongReceived ==
    /\ Runs("onPongReceived") /\ pongReceived' = TRUE
    /\ UNCHANGED <<state, pingActive, socket, sslErrors, session, todo, connects, wish>>

SendPing ==
    /\ Runs("sendPing") /\ pongReceived' = FALSE
    /\ todo' = IF pongReceived THEN <<>> ELSE <<Emit("error"), Do("disconnectAfterTimeout")>>
    /\ UNCHANGED <<state, pingActive, socket, sslErrors, session, connects, wish>>

TimerTimeout ==
    /\ Idle /\ pingActive /\ Len(posted) < MaxPosted
    /\ posted' = Append(posted, "sendPing")
    /\ UNCHANGED <<state, pongReceived, pingActive, socket, sslErrors, session, todo, connects, wish>>

\* The handshakes are complete.
SocketConnected ==
    /\ Idle /\ socket = "connecting"
    /\ socket' = "connected"
    /\ posted' = Append(posted, "onSocketConnected")
    /\ UNCHANGED <<state, pongReceived, pingActive, sslErrors, session, todo, connects, wish>>

\* The handshake meets errors of the certificate, all at once.
SslErrors ==
    /\ Idle /\ socket = "connecting" /\ sslErrors = {}
    /\ \E errors \in (SUBSET SslErrorKinds) \ {{}} :
          sslErrors' = errors /\ todo' = OnSslErrors(errors)
    /\ UNCHANGED <<state, pongReceived, pingActive, socket, session, posted, connects, wish>>

SocketError ==
    /\ Idle /\ socket # "unconnected"
    /\ socket' = "closing" /\ todo' = OnError
    /\ UNCHANGED <<state, pongReceived, pingActive, sslErrors, session, posted, connects, wish>>

SocketDisconnected ==
    /\ Idle /\ socket # "unconnected"
    /\ socket' = "unconnected" /\ todo' = OnDisconnected
    /\ UNCHANGED <<state, pongReceived, pingActive, sslErrors, session, posted, connects, wish>>

TextMessageReceived ==
    /\ Idle /\ socket = "connected"
    /\ todo' = <<Emit("error")>>
    /\ UNCHANGED <<state, pongReceived, pingActive, socket, sslErrors, session, posted, connects, wish>>

BrokerConnack ==
    /\ Idle /\ socket = "connected" /\ session = "asked"
    /\ \E code \in {"accepted", "refused"} :
          /\ session' = code
          /\ posted' = Append(posted, "onConnackReceived(" \o code \o ")")
    /\ UNCHANGED <<state, pongReceived, pingActive, socket, sslErrors, todo, connects, wish>>

BrokerSends ==
    /\ Idle /\ socket = "connected" /\ session = "accepted" /\ Len(posted) < MaxPosted
    /\ \E slot \in {"onPublishReceived", "onPongReceived"} : posted' = Append(posted, slot)
    /\ UNCHANGED <<state, pongReceived, pingActive, socket, sslErrors, session, todo, connects, wish>>

Next ==
    \/ RunStatement
    \/ UserCalls
    \/ OnSocketConnected \/ OnConnackReceived \/ OnPublishReceived \/ OnPongReceived
    \/ SendPing \/ TimerTimeout
    \/ SocketConnected \/ SslErrors \/ SocketError \/ SocketDisconnected \/ TextMessageReceived
    \/ BrokerConnack \/ BrokerSends

Spec == Init /\ [][Next]_vars

-----------------------------------------------------------------------------
(* Properties, for slots that call as ConnectFrom and DisconnectFrom allow *)

Live == socket \in {"connecting", "connected"}

\* When every nested call has returned, the state shown to the user is the one of the
\* socket, whatever the slots of the user called in the middle of the handlers (connect,
\* disconnect, the lambdas of makeSignalSlotConnections).
AgreesWhenIdle ==
    Idle => /\ state = "CONNECTING" <=> Live
            /\ state = "DISCONNECTING" => socket = "closing"

\* disconnected() "is emitted when the connection is completely closed"
\* (qmqttclient.cpp:62): its slot finds a client that is OFFLINE with no socket, which it
\* may connect again.
DisconnectedMeansOffline ==
    NextIs("emit") /\ Arg = "disconnected" => state = "OFFLINE" /\ socket = "unconnected"

\* A socket is only opened where the client has no other, and no statement of an outer
\* handler is left that would close it or call it OFFLINE (connect, sendPing,
\* onConnackReceived, the lambdas).
NewConnectionIsKept ==
    NextIs("open") =>
        /\ ~ Live
        /\ \A i \in 2 .. Len(todo) :
              /\ todo[i].op \notin {"close", "abort", "disconnectAfterTimeout"}
              /\ todo[i] # SetState("OFFLINE")

\* Once a disconnect() has returned and the user has not called connect() since, the
\* client has no connection and opens none (disconnect, connect).
WishRespected == Idle /\ wish = "disconnect" => ~ Live

\* A connection whose certificate has an error the user did not allow is never completed,
\* even when its slot opens another (sslErrorsAllowed, the lambda on sslErrors).
OnlyAllowedErrors == socket = "connected" => sslErrors \subseteq AllowedSslErrors

=============================================================================
