------------------------------- MODULE KeepAlive -------------------------------
(***************************************************************************)
(* The keep-alive of QMqttClientPrivate (qmqttclient.cpp) with a clock:    *)
(* how long the broker is left without a packet, how long the client takes *)
(* to notice a silent broker, and whether it can take a slow one for a     *)
(* silent one.  QMqttClient lets the ping timer fire whenever it runs;     *)
(* here it fires when it is due.                                           *)
(*                                                                         *)
(* Time passes in ticks.  Instead of the time of day the state holds how   *)
(* long ago things happened and how long the timer has left, so that the   *)
(* state space is finite although time is not bounded.                     *)
(*                                                                         *)
(* The connection is opened, and CONNECT written, in one step, and a close *)
(* completes before disconnect() returns; QMqttClient has what can happen  *)
(* in between.  Data is sent on an acknowledged connection only.           *)
(***************************************************************************)
EXTENDS Integers, Sequences

CONSTANTS
    Interval,   \* m_pingIntervalMs
    KeepAlive,  \* m_keepAlive of CONNECT
    Latency,    \* longest time an event, or a timer that is due, waits for the event loop
    RoundTrip,  \* longest time to the answer of a broker that is not silent
    MaxLeft     \* bound: events left of former connections when a new one is opened

\* 30000 ms and 30 s in the code; an event loop and a network that are fast enough
\* for them.
ASSUME IntervalAssumption == Interval \in Nat /\ KeepAlive \in Nat /\ 0 < Interval /\ Interval <= KeepAlive
ASSUME LatencyAssumption == Latency \in Nat /\ RoundTrip \in Nat /\ MaxLeft \in Nat
ASSUME FastEnough == 2 * (RoundTrip + 4 * Latency) <= Interval

VARIABLES
    phase,         \* offline, connecting (CONNECT is written) or up (CONNACK is handled)
    pongReceived,  \* m_pongReceived
    pingTimer,     \* m_pingTimer: is it running, and the ticks it has left
    posted,        \* posted events of the thread, oldest first, each with its age
    asked,         \* packets the broker has not answered, oldest first, each with its age
    silent,        \* the broker answers no more
    sinceSent,     \* ticks since a packet was written to this socket
    quiet          \* ticks since the broker fell silent, data was sent or a CONNACK was
                   \* handled, whichever is the last; 0 while the broker answers

vars == <<phase, pongReceived, pingTimer, posted, asked, silent, sinceSent, quiet>>

AnswerTo == [CONNECT |-> "CONNACK", PINGREQ |-> "PINGRESP"]
SlotOf   == [CONNACK |-> "onConnackReceived", PINGRESP |-> "onPongReceived"]

Event(slot, frame) == [slot |-> slot, frame |-> frame, age |-> 0]
Question(packet)   == [packet |-> packet, age |-> 0]

Runs(slot) == posted # <<>> /\ Head(posted).slot = slot

Restarted == [active |-> TRUE, left |-> Interval]
Stopped   == [active |-> FALSE, left |-> Interval]

Init ==
    /\ phase = "offline" /\ silent = FALSE
    /\ pongReceived = FALSE
    /\ pingTimer = Stopped
    /\ posted = <<>> /\ asked = <<>>
    /\ sinceSent = 0 /\ quiet = 0

-----------------------------------------------------------------------------
(* Calls of the user *)

\* connect() up to the end of onSocketConnected
Connect ==
    /\ phase = "offline" /\ phase' = "connecting"
    /\ Len(posted) <= MaxLeft
    /\ asked' = <<Question("CONNECT")>>
    /\ silent' \in BOOLEAN
    /\ sinceSent' = 0 /\ quiet' = 0
    /\ UNCHANGED <<pongReceived, pingTimer, posted>>

\* The connection is gone, and with it what was under way.
Gone == phase' = "offline" /\ asked' = <<>> /\ sinceSent' = 0 /\ quiet' = 0

\* disconnect(), after its test of the state
Close == Gone /\ pingTimer' = Stopped

Disconnect ==
    /\ phase # "offline"
    /\ Close
    /\ UNCHANGED <<pongReceived, posted, silent>>

\* subscribe, unsubscribe, publish and the acknowledgement of messages: each restarts
\* the ping timer.
SendData ==
    /\ phase = "up"
    /\ sinceSent' = 0 /\ quiet' = 0
    /\ pingTimer' = Restarted
    /\ UNCHANGED <<phase, pongReceived, posted, asked, silent>>

-----------------------------------------------------------------------------
(* The event loop *)

\* A frame goes to the parser, whose signal is queued again.
Parse ==
    /\ Runs("parse")
    /\ posted' = Append(Tail(posted), Event(SlotOf[Head(posted).frame], "NONE"))
    /\ UNCHANGED <<phase, pongReceived, pingTimer, asked, silent, sinceSent, quiet>>

MutStartKeepAlive == pingTimer' = Restarted /\ UNCHANGED pongReceived

StartKeepAlive == pingTimer' = Restarted /\ pongReceived' = TRUE

\* The state is CONNECTING before and after a CONNACK, so that a second one is handled
\* like the first.
OnConnackReceived ==
    /\ Runs("onConnackReceived")
    /\ posted' = Tail(posted)
    /\ \/ phase # "offline" /\ phase' = "up" /\ quiet' = 0 /\ StartKeepAlive
       \/ phase = "offline" /\ UNCHANGED <<phase, quiet, pingTimer, pongReceived>>
    /\ UNCHANGED <<asked, silent, sinceSent>>

OnPongReceived ==
    /\ Runs("onPongReceived")
    /\ posted' = Tail(posted)
    /\ pongReceived' = TRUE
    /\ UNCHANGED <<phase, pingTimer, asked, silent, sinceSent, quiet>>

MutExpectPong == UNCHANGED pongReceived

ExpectPong == pongReceived' = FALSE

SendPing ==
    /\ Runs("sendPing")
    /\ posted' = Tail(posted)
    /\ \/ /\ pongReceived
          /\ ExpectPong
          /\ \/ /\ phase # "offline"
                /\ asked' = Append(asked, Question("PINGREQ")) /\ sinceSent' = 0
             \/ phase = "offline" /\ UNCHANGED <<asked, sinceSent>>
          /\ UNCHANGED <<phase, pingTimer, quiet>>
       \/ /\ ~ pongReceived
          /\ \/ phase # "offline" /\ Close
             \/ phase = "offline" /\ UNCHANGED <<phase, asked, pingTimer, sinceSent, quiet>>
          /\ UNCHANGED pongReceived
    /\ UNCHANGED silent

\* A repeating timer counts from when it was due, or from when it fired if Qt had to
\* catch up.
MutFired == {Stopped}

Fired == {[active |-> TRUE, left |-> pingTimer.left + Interval], Restarted}

TimerTimeout ==
    /\ pingTimer.active /\ pingTimer.left <= 0
    /\ pingTimer' \in Fired
    /\ posted' = Append(posted, Event("sendPing", "NONE"))
    /\ UNCHANGED <<phase, pongReceived, asked, silent, sinceSent, quiet>>

-----------------------------------------------------------------------------
(* The broker, the network and time (external) *)

BrokerAnswers ==
    /\ ~ silent /\ asked # <<>>
    /\ asked' = Tail(asked)
    /\ posted' = Append(posted, Event("parse", AnswerTo[Head(asked).packet]))
    /\ UNCHANGED <<phase, pongReceived, pingTimer, silent, sinceSent, quiet>>

BrokerFallsSilent ==
    /\ phase # "offline" /\ ~ silent /\ silent' = TRUE
    /\ UNCHANGED <<phase, pongReceived, pingTimer, posted, asked, sinceSent, quiet>>

\* The lambdas on disconnected() and error() leave the ping timer running.
ConnectionLost ==
    /\ phase # "offline"
    /\ Gone
    /\ UNCHANGED <<pongReceived, pingTimer, posted, silent>>

\* Clocks of the properties stop when they have shown what they can show.
ClockEnd == 3 * KeepAlive
Advanced(clock) == IF clock < ClockEnd THEN clock + 1 ELSE clock

\* The posted events and the questions, one tick older.
Older(s) == [i \in DOMAIN s |-> [s[i] EXCEPT !.age = @ + 1]]

\* Time does not pass over an event, a timer or an answer that has waited as long as
\* it may.
Tick ==
    /\ \A i \in DOMAIN posted : posted[i].age < Latency
    /\ pingTimer.active => pingTimer.left > -Latency
    /\ silent \/ \A i \in DOMAIN asked : asked[i].age < RoundTrip
    /\ posted' = Older(posted)
    /\ pingTimer' = IF pingTimer.active THEN [pingTimer EXCEPT !.left = @ - 1] ELSE pingTimer
    /\ asked' = IF silent THEN asked ELSE Older(asked)
    /\ sinceSent' = IF phase = "offline" THEN sinceSent ELSE Advanced(sinceSent)
    /\ quiet' = IF phase = "up" /\ silent THEN Advanced(quiet) ELSE quiet
    /\ UNCHANGED <<phase, pongReceived, silent>>

Next ==
    \/ Connect \/ Disconnect \/ SendData
    \/ Parse \/ OnConnackReceived \/ OnPongReceived \/ SendPing \/ TimerTimeout
    \/ BrokerAnswers \/ BrokerFallsSilent \/ ConnectionLost
    \/ Tick

Spec == Init /\ [][Next]_vars

-----------------------------------------------------------------------------
(* Properties *)

\* "If the keepAliveSecs value is non-zero and the server does not receive a control
\* packet from the client within one and a half times the keepAliveSecs period, the
\* server will disconnect" (qmqttcontrolpacket_p.h:75): the client never leaves it that
\* long without a packet, from the CONNECT on and whatever the user sends in between
\* (sendData, sendPing, onConnackReceived).
KeepAliveHonoured == phase = "up" => 2 * sinceSent <= 3 * KeepAlive

\* A client whose user sends nothing notices a silent broker after two intervals at
\* most.  Each packet the user sends postpones that: as long as packets follow each
\* other faster than the interval, the silence is not noticed (sendPing, sendData).
SilenceNoticed == phase = "up" /\ silent => quiet <= 2 * Interval + 3 * Latency

\* On an acknowledged connection a client is about to report TIME_OUT only if the
\* broker is silent, however pongs, pings and the data of the user interleave (sendPing,
\* onPongReceived, onConnackReceived).
ReportsTimeout == Runs("sendPing") /\ ~ pongReceived
TimeoutMeansSilence == phase = "up" /\ ReportsTimeout => silent

=============================================================================
