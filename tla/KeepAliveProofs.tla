---------------------------- MODULE KeepAliveProofs ----------------------------
(***************************************************************************)
(* The keep-alive promise of the client, for every interval, latency and   *)
(* round trip that KeepAlive allows.                                       *)
(*                                                                         *)
(* KeepAliveHonoured is not inductive: why the client has sent recently    *)
(* depends on where the CONNACK, the timer and the ping are on their way.  *)
(* The invariant follows them: a CONNACK that has not been handled is      *)
(* younger, by known amounts, than the last packet is old (CONNACKIsNear), *)
(* and in a session either the timer has not run for longer than the last  *)
(* packet is old, give or take the handling of the CONNACK, or it has      *)
(* fired and sendPing is posted (PingIsNear).                              *)
(*                                                                         *)
(* The properties of TIME_OUT rest on a second invariant, PInv, which      *)
(* follows the last PINGREQ to its answer and bounds how old both are.     *)
(***************************************************************************)
EXTENDS KeepAlive, TLAPS

Phases    == {"offline", "connecting", "up"}
Events    == [slot : {"parse", "onConnackReceived", "onPongReceived", "sendPing"},
              frame : {"CONNACK", "PINGRESP", "NONE"}, age : Nat]
Questions == [packet : {"CONNECT", "PINGREQ"}, age : Nat]

TypeOK ==
    /\ phase \in Phases /\ pongReceived \in BOOLEAN /\ silent \in BOOLEAN
    /\ pingTimer \in [active : BOOLEAN, left : Int]
    /\ posted \in Seq(Events) /\ asked \in Seq(Questions)
    /\ sinceSent \in Nat /\ quiet \in Nat

\* Nothing waits longer than it may.
Bounded ==
    /\ pingTimer.left <= Interval
    /\ pingTimer.active => pingTimer.left >= -Latency
    /\ \A i \in DOMAIN posted : posted[i].age <= Latency
    /\ ~ silent => \A i \in DOMAIN asked : asked[i].age <= RoundTrip

\* A frame is a CONNACK or a PINGRESP.
FramesParsed ==
    \A i \in DOMAIN posted : posted[i].slot = "parse" => posted[i].frame # "NONE"

CONNACKIsNear ==
    phase # "offline" =>
        /\ ~ silent => \A i \in DOMAIN asked :
               asked[i].packet = "CONNECT" => sinceSent <= asked[i].age
        /\ \A i \in DOMAIN posted :
               /\ posted[i].slot = "parse" /\ posted[i].frame = "CONNACK"
                      => sinceSent <= RoundTrip + posted[i].age
               /\ posted[i].slot = "onConnackReceived"
                      => sinceSent <= RoundTrip + Latency + posted[i].age

PingIsNear ==
    phase = "up" =>
        /\ pingTimer.active
        /\ \/ sinceSent <= Interval - pingTimer.left + RoundTrip + 2 * Latency
           \/ \E i \in DOMAIN posted :
                 /\ posted[i].slot = "sendPing"
                 /\ sinceSent <= Interval + RoundTrip + 3 * Latency + posted[i].age

IInv == TypeOK /\ Bounded /\ FramesParsed /\ CONNACKIsNear /\ PingIsNear

-----------------------------------------------------------------------------
(* Sequences: what Tail, Append and Older do to the elements *)

\* Running the head event moves every other event down by one.
LEMMA TailFacts ==
    ASSUME NEW S, NEW s \in Seq(S), s # <<>>
    PROVE  /\ Tail(s) \in Seq(S)
           /\ 1 \in DOMAIN s /\ Head(s) = s[1] /\ Head(s) \in S
           /\ \A i \in DOMAIN Tail(s) : i + 1 \in DOMAIN s /\ Tail(s)[i] = s[i + 1]
           /\ \A i \in DOMAIN s : i # 1 => i - 1 \in DOMAIN Tail(s) /\ Tail(s)[i - 1] = s[i]
BY SMT

\* Posting an event leaves the others where they are.
LEMMA AppendFacts ==
    ASSUME NEW S, NEW s \in Seq(S), NEW e \in S
    PROVE  /\ Append(s, e) \in Seq(S)
           /\ Len(s) + 1 \in DOMAIN Append(s, e) /\ Append(s, e)[Len(s) + 1] = e
           /\ \A i \in DOMAIN s : i \in DOMAIN Append(s, e) /\ Append(s, e)[i] = s[i]
           /\ \A i \in DOMAIN Append(s, e) :
                 \/ i \in DOMAIN s /\ Append(s, e)[i] = s[i]
                 \/ Append(s, e)[i] = e
BY SMT

\* A tick makes each posted event one tick older, and changes nothing else of it.
LEMMA OlderEvents ==
    ASSUME NEW s \in Seq(Events)
    PROVE  /\ Older(s) \in Seq(Events)
           /\ DOMAIN Older(s) = DOMAIN s
           /\ \A i \in DOMAIN s :
                 /\ Older(s)[i].age = s[i].age + 1
                 /\ Older(s)[i].slot = s[i].slot
                 /\ Older(s)[i].frame = s[i].frame
<1>1. \A i \in DOMAIN s : s[i] \in Events
  OBVIOUS
<1>2. \A i \in DOMAIN s :
         [s[i] EXCEPT !.age = @ + 1] = [slot |-> s[i].slot, frame |-> s[i].frame, age |-> s[i].age + 1]
  BY <1>1 DEF Events
<1>3. Older(s) \in [1 .. Len(s) -> Events]
  BY <1>1, <1>2 DEF Older, Events
<1>4. Older(s) \in Seq(Events)
  BY <1>3
<1> QED
  BY <1>1, <1>2, <1>4 DEF Older

\* The same for the questions the broker has not answered.
LEMMA OlderQuestions ==
    ASSUME NEW s \in Seq(Questions)
    PROVE  /\ Older(s) \in Seq(Questions)
           /\ DOMAIN Older(s) = DOMAIN s
           /\ \A i \in DOMAIN s :
                 /\ Older(s)[i].age = s[i].age + 1
                 /\ Older(s)[i].packet = s[i].packet
<1>1. \A i \in DOMAIN s : s[i] \in Questions
  OBVIOUS
<1>2. \A i \in DOMAIN s :
         [s[i] EXCEPT !.age = @ + 1] = [packet |-> s[i].packet, age |-> s[i].age + 1]
  BY <1>1 DEF Questions
<1>3. Older(s) \in [1 .. Len(s) -> Questions]
  BY <1>1, <1>2 DEF Older, Questions
<1>4. Older(s) \in Seq(Questions)
  BY <1>3
<1> QED
  BY <1>1, <1>2, <1>4 DEF Older

-----------------------------------------------------------------------------
(* Types *)

\* What the types say of the events and questions, without their record sets.
LEMMA Ages ==
    ASSUME TypeOK
    PROVE  /\ \A i \in DOMAIN posted : posted[i] \in Events /\ posted[i].age \in Nat
           /\ \A i \in DOMAIN asked : asked[i] \in Questions /\ asked[i].age \in Nat
           /\ pingTimer.left \in Int
<1>1. \A i \in DOMAIN posted : posted[i] \in Events
  BY DEF TypeOK
<1>2. \A i \in DOMAIN asked : asked[i] \in Questions
  BY DEF TypeOK
<1> QED
  BY <1>1, <1>2 DEF TypeOK, Events, Questions

LEMMA TimerTypes ==
    /\ Stopped \in [active : BOOLEAN, left : Int] /\ ~ Stopped.active /\ Stopped.left = Interval
    /\ Restarted \in [active : BOOLEAN, left : Int] /\ Restarted.active /\ Restarted.left = Interval
BY IntervalAssumption DEF Stopped, Restarted

LEMMA NewRecords ==
    /\ \A packet \in {"CONNECT", "PINGREQ"} :
           /\ Question(packet) \in Questions
           /\ Question(packet).age = 0 /\ Question(packet).packet = packet
    /\ \A slot \in {"parse", "onConnackReceived", "onPongReceived", "sendPing"},
           frame \in {"CONNACK", "PINGRESP", "NONE"} :
           /\ Event(slot, frame) \in Events
           /\ Event(slot, frame).age = 0
           /\ Event(slot, frame).slot = slot /\ Event(slot, frame).frame = frame
BY DEF Question, Questions, Event, Events

-----------------------------------------------------------------------------
(* Each action preserves the invariant *)

LEMMA InitIInv == Init => IInv
<1> SUFFICES ASSUME Init PROVE IInv
  OBVIOUS
<1>1. posted \in Seq(Events) /\ asked \in Seq(Questions)
  BY DEF Init
<1>2. TypeOK
  BY <1>1, TimerTypes DEF Init, TypeOK, Phases
<1>3. Bounded /\ FramesParsed
  BY IntervalAssumption, TimerTypes DEF Init, Bounded, FramesParsed
<1>4. CONNACKIsNear /\ PingIsNear
  BY DEF Init, CONNACKIsNear, PingIsNear
<1> QED
  BY <1>2, <1>3, <1>4 DEF IInv

\* What the user does, a broker that falls silent, a lost connection.
LEMMA QuietSteps ==
    ASSUME IInv, Connect \/ Disconnect \/ SendData \/ BrokerFallsSilent \/ ConnectionLost
    PROVE  IInv'
<1> USE IntervalAssumption, LatencyAssumption DEF IInv
<1>0. TypeOK
  OBVIOUS
<1>1. CASE Connect
  <2>1. asked' \in Seq(Questions) /\ \A i \in DOMAIN asked' : asked'[i].age = 0
    BY <1>1, NewRecords DEF Connect
  <2>2. TypeOK'
    BY <1>1, <2>1 DEF Connect, TypeOK, Phases
  <2>3. Bounded' /\ FramesParsed'
    BY <1>1, <2>1 DEF Connect, Bounded, FramesParsed
  <2>4. CONNACKIsNear' /\ PingIsNear'
    BY <1>1, <2>1, Ages, <1>0 DEF Connect, CONNACKIsNear, PingIsNear
  <2> QED
    BY <2>2, <2>3, <2>4
<1>2. CASE Disconnect \/ ConnectionLost
  <2>1. /\ phase' = "offline" /\ asked' = <<>> /\ sinceSent' = 0 /\ quiet' = 0
        /\ pingTimer' = Stopped \/ pingTimer' = pingTimer
        /\ UNCHANGED <<pongReceived, posted, silent>>
    BY <1>2 DEF Disconnect, ConnectionLost, Close, Gone
  <2>2. TypeOK'
    BY <2>1, TimerTypes DEF TypeOK, Phases
  <2>3. Bounded' /\ FramesParsed'
    BY <2>1, TimerTypes DEF Bounded, FramesParsed
  <2> QED
    BY <2>1, <2>2, <2>3 DEF CONNACKIsNear, PingIsNear
<1>3. CASE SendData
  <2>1. TypeOK'
    BY <1>3, TimerTypes DEF SendData, TypeOK, Phases
  <2>2. Bounded' /\ FramesParsed'
    BY <1>3, TimerTypes DEF SendData, Bounded, FramesParsed
  <2>3. CONNACKIsNear' /\ PingIsNear'
    BY <1>0, <1>3, Ages, TimerTypes DEF SendData, CONNACKIsNear, PingIsNear
  <2> QED
    BY <2>1, <2>2, <2>3
<1>4. CASE BrokerFallsSilent
  BY <1>4 DEF BrokerFallsSilent, TypeOK, Bounded, FramesParsed, CONNACKIsNear, PingIsNear
<1> QED
  BY <1>1, <1>2, <1>3, <1>4

LEMMA ParseStep == ASSUME IInv, Parse PROVE IInv'
<1> USE IntervalAssumption, LatencyAssumption DEF IInv
<1> DEFINE answer == SlotOf[Head(posted).frame]
           event == Event(answer, "NONE")
<1>0. TypeOK
  OBVIOUS
<1>1. /\ posted \in Seq(Events) /\ posted # <<>>
      /\ posted' = Append(Tail(posted), event)
      /\ UNCHANGED <<phase, pongReceived, pingTimer, asked, silent, sinceSent, quiet>>
  BY DEF Parse, Runs, TypeOK
<1>2. /\ 1 \in DOMAIN posted /\ Head(posted) = posted[1] /\ posted[1].slot = "parse"
      /\ posted[1].frame \in {"CONNACK", "PINGRESP"}
  <2>1. 1 \in DOMAIN posted /\ Head(posted) = posted[1]
    BY <1>1, TailFacts
  <2>2. posted[1].slot = "parse" /\ posted[1].frame # "NONE"
    BY <2>1 DEF Parse, Runs, FramesParsed
  <2>3. posted[1].frame \in {"CONNACK", "PINGRESP", "NONE"}
    BY <1>0, <2>1, Ages DEF Events
  <2> QED
    BY <2>1, <2>2, <2>3
<1>3. /\ event \in Events /\ event.age = 0 /\ event.slot = answer
      /\ \/ answer = "onConnackReceived" /\ posted[1].frame = "CONNACK"
         \/ answer = "onPongReceived"
  <2>1. \/ answer = "onConnackReceived" /\ posted[1].frame = "CONNACK"
        \/ answer = "onPongReceived"
    BY <1>2 DEF SlotOf
  <2> QED
    BY <2>1, NewRecords
<1> HIDE DEF event, answer
<1>4. Tail(posted) \in Seq(Events)
  BY <1>1, TailFacts
<1>5. \A i \in DOMAIN posted' :
         \/ i + 1 \in DOMAIN posted /\ posted'[i] = posted[i + 1]
         \/ posted'[i] = event
  BY <1>1, <1>3, <1>4, TailFacts, AppendFacts
<1>6. \A i \in DOMAIN posted : i # 1 => i - 1 \in DOMAIN posted' /\ posted'[i - 1] = posted[i]
  BY <1>1, <1>3, <1>4, TailFacts, AppendFacts
<1>7. TypeOK'
  <2>1. posted' \in Seq(Events)
    BY <1>1, <1>3, <1>4, AppendFacts
  <2> QED
    BY <1>1, <2>1 DEF TypeOK
<1>8. Bounded' /\ FramesParsed'
  BY <1>1, <1>3, <1>5 DEF Bounded, FramesParsed
<1>9. CONNACKIsNear'
  <2>1. posted[1].age \in Nat /\ posted[1].age <= Latency
    BY <1>0, <1>2, Ages DEF Bounded
  <2>2. sinceSent \in Nat
    BY DEF TypeOK
  <2>3. phase # "offline" /\ event.slot = "onConnackReceived"
            => sinceSent <= RoundTrip + Latency + event.age
    BY <1>2, <1>3, <2>1, <2>2 DEF CONNACKIsNear
  <2> QED
    BY <1>1, <1>3, <1>5, <2>3 DEF CONNACKIsNear
<1>10. PingIsNear'
  BY <1>1, <1>2, <1>6 DEF PingIsNear
<1> QED
  BY <1>7, <1>8, <1>9, <1>10

\* The head of the posted events is taken; the others keep what is known of them.
LEMMA Popped ==
    ASSUME IInv, posted # <<>>, posted' = Tail(posted)
    PROVE  /\ posted' \in Seq(Events)
           /\ 1 \in DOMAIN posted /\ Head(posted) = posted[1]
           /\ posted[1].age \in Nat /\ posted[1].age <= Latency
           /\ \A i \in DOMAIN posted' : i + 1 \in DOMAIN posted /\ posted'[i] = posted[i + 1]
           /\ \A i \in DOMAIN posted : i # 1 => i - 1 \in DOMAIN posted' /\ posted'[i - 1] = posted[i]
<1>1. posted \in Seq(Events)
  BY DEF IInv, TypeOK
<1>2. 1 \in DOMAIN posted /\ Head(posted) = posted[1]
  BY <1>1, TailFacts
<1>3. posted[1].age \in Nat /\ posted[1].age <= Latency
  BY <1>2, Ages DEF IInv, Bounded
<1> QED
  BY <1>1, <1>2, <1>3, TailFacts

LEMMA OnConnackReceivedStep == ASSUME IInv, OnConnackReceived PROVE IInv'
<1> USE IntervalAssumption, LatencyAssumption DEF IInv
<1>0. TypeOK /\ posted # <<>> /\ posted' = Tail(posted) /\ posted[1].slot = "onConnackReceived"
  <2>1. TypeOK /\ posted # <<>> /\ posted' = Tail(posted) /\ Head(posted).slot = "onConnackReceived"
    BY DEF OnConnackReceived, Runs
  <2> QED
    BY <2>1, Popped
<1>1. UNCHANGED <<asked, silent, sinceSent>>
  BY DEF OnConnackReceived
<1>2. CASE phase # "offline"
  <2>1. phase' = "up" /\ quiet' = 0 /\ pingTimer' = Restarted /\ pongReceived' = TRUE
    BY <1>2 DEF OnConnackReceived, StartKeepAlive
  <2>2. TypeOK'
    BY <1>0, <1>1, <2>1, Popped, TimerTypes DEF TypeOK, Phases
  <2>3. Bounded' /\ FramesParsed'
    BY <1>0, <1>1, <2>1, Popped, TimerTypes DEF Bounded, FramesParsed
  <2>4. CONNACKIsNear'
    BY <1>0, <1>1, <1>2, Popped DEF CONNACKIsNear
  <2>5. sinceSent <= RoundTrip + Latency + posted[1].age
    BY <1>0, <1>2, Popped DEF CONNACKIsNear
  <2>6. sinceSent <= RoundTrip + 2 * Latency
    BY <1>0, <2>5, Popped DEF TypeOK
  <2>7. PingIsNear'
    BY <1>0, <1>1, <2>1, <2>6, TimerTypes DEF PingIsNear, TypeOK
  <2> QED
    BY <2>2, <2>3, <2>4, <2>7
<1>3. CASE phase = "offline"
  <2>1. UNCHANGED <<phase, quiet, pingTimer, pongReceived>>
    BY <1>3 DEF OnConnackReceived
  <2>2. TypeOK'
    BY <1>0, <1>1, <2>1, Popped DEF TypeOK
  <2>3. Bounded' /\ FramesParsed'
    BY <1>0, <1>1, <2>1, Popped DEF Bounded, FramesParsed
  <2> QED
    BY <1>3, <2>1, <2>2, <2>3 DEF CONNACKIsNear, PingIsNear
<1> QED
  BY <1>2, <1>3

LEMMA OnPongReceivedStep == ASSUME IInv, OnPongReceived PROVE IInv'
<1> USE IntervalAssumption, LatencyAssumption DEF IInv
<1>0. posted # <<>> /\ posted' = Tail(posted) /\ posted[1].slot = "onPongReceived"
  <2>1. posted # <<>> /\ posted' = Tail(posted) /\ Head(posted).slot = "onPongReceived"
    BY DEF OnPongReceived, Runs
  <2> QED
    BY <2>1, Popped
<1>1. pongReceived' = TRUE /\ UNCHANGED <<phase, pingTimer, asked, silent, sinceSent, quiet>>
  BY DEF OnPongReceived
<1>2. TypeOK'
  BY <1>0, <1>1, Popped DEF TypeOK
<1>3. Bounded' /\ FramesParsed'
  BY <1>0, <1>1, Popped DEF Bounded, FramesParsed
<1>4. CONNACKIsNear'
  BY <1>0, <1>1, Popped DEF CONNACKIsNear
<1>5. \A i \in DOMAIN posted : posted[i].slot = "sendPing" =>
         i - 1 \in DOMAIN posted' /\ posted'[i - 1] = posted[i]
  BY <1>0, Popped
<1>6. PingIsNear'
  BY <1>1, <1>5 DEF PingIsNear
<1> QED
  BY <1>2, <1>3, <1>4, <1>6

LEMMA SendPingStep == ASSUME IInv, SendPing PROVE IInv'
<1> USE IntervalAssumption, LatencyAssumption DEF IInv
<1>0. TypeOK /\ posted # <<>> /\ posted' = Tail(posted) /\ silent' = silent
  BY DEF SendPing, Runs
<1>1. CASE phase = "offline"
  <2>1. UNCHANGED <<phase, asked, pingTimer, sinceSent, quiet>> /\ pongReceived' \in BOOLEAN
    BY <1>0, <1>1 DEF SendPing, ExpectPong, TypeOK
  <2>2. TypeOK'
    BY <1>0, <2>1, Popped DEF TypeOK
  <2>3. Bounded' /\ FramesParsed'
    BY <1>0, <2>1, Popped DEF Bounded, FramesParsed
  <2> QED
    BY <1>1, <2>1, <2>2, <2>3 DEF CONNACKIsNear, PingIsNear
<1>2. CASE phase # "offline" /\ pongReceived
  <2>1. /\ asked' = Append(asked, Question("PINGREQ")) /\ sinceSent' = 0
        /\ pongReceived' = FALSE /\ UNCHANGED <<phase, pingTimer, quiet>>
    BY <1>2 DEF SendPing, ExpectPong
  <2>2. /\ asked' \in Seq(Questions)
        /\ \A i \in DOMAIN asked' :
              \/ i \in DOMAIN asked /\ asked'[i] = asked[i]
              \/ asked'[i] = Question("PINGREQ")
    BY <1>0, <2>1, NewRecords, AppendFacts DEF TypeOK
  <2>3. TypeOK'
    BY <1>0, <2>1, <2>2, Popped DEF TypeOK
  <2>4. Bounded' /\ FramesParsed'
    BY <1>0, <2>1, <2>2, Popped, NewRecords DEF Bounded, FramesParsed
  <2>5. CONNACKIsNear'
    <3>1. \A i \in DOMAIN asked' : asked'[i].age \in Nat
      BY <1>0, <2>2, Ages, NewRecords
    <3>2. \A i \in DOMAIN posted' : posted'[i].age \in Nat
      BY <1>0, Popped, Ages
    <3> QED
      BY <2>1, <3>1, <3>2 DEF CONNACKIsNear
  <2>6. PingIsNear'
    BY <1>0, <2>1 DEF PingIsNear, Bounded, TypeOK
  <2> QED
    BY <2>3, <2>4, <2>5, <2>6
<1>3. CASE phase # "offline" /\ ~ pongReceived
  <2>1. /\ phase' = "offline" /\ asked' = <<>> /\ sinceSent' = 0 /\ quiet' = 0
        /\ pingTimer' = Stopped /\ UNCHANGED pongReceived
    BY <1>3 DEF SendPing, Close, Gone
  <2>2. TypeOK'
    BY <1>0, <2>1, Popped, TimerTypes DEF TypeOK, Phases
  <2>3. Bounded' /\ FramesParsed'
    BY <1>0, <2>1, Popped, TimerTypes DEF Bounded, FramesParsed
  <2> QED
    BY <2>1, <2>2, <2>3 DEF CONNACKIsNear, PingIsNear
<1> QED
  BY <1>1, <1>2, <1>3

LEMMA TimerTimeoutStep == ASSUME IInv, TimerTimeout PROVE IInv'
<1> USE IntervalAssumption, LatencyAssumption DEF IInv
<1> DEFINE event == Event("sendPing", "NONE")
<1>0. /\ TypeOK /\ pingTimer.active /\ pingTimer.left <= 0
      /\ posted' = Append(posted, event)
      /\ UNCHANGED <<phase, pongReceived, asked, silent, sinceSent, quiet>>
  BY DEF TimerTimeout
<1>1. event \in Events /\ event.age = 0 /\ event.slot = "sendPing"
  BY NewRecords
<1> HIDE DEF event
<1>2. /\ posted' \in Seq(Events)
      /\ Len(posted) + 1 \in DOMAIN posted' /\ posted'[Len(posted) + 1] = event
      /\ \A i \in DOMAIN posted' : (i \in DOMAIN posted /\ posted'[i] = posted[i]) \/ posted'[i] = event
  BY <1>0, <1>1, AppendFacts DEF TypeOK
<1>3. pingTimer.left \in Int
  BY <1>0, Ages
<1>4. /\ pingTimer' \in [active : BOOLEAN, left : Int] /\ pingTimer'.active
      /\ pingTimer'.left <= Interval /\ pingTimer'.left >= -Latency
  <2>1. CASE pingTimer' = [active |-> TRUE, left |-> pingTimer.left + Interval]
    BY <1>0, <1>3, <2>1 DEF Bounded
  <2>2. CASE pingTimer' = Restarted
    BY <2>2, TimerTypes
  <2> QED
    BY <2>1, <2>2 DEF TimerTimeout, Fired
<1>5. TypeOK'
  BY <1>0, <1>2, <1>4 DEF TypeOK
<1>6. Bounded' /\ FramesParsed'
  BY <1>0, <1>1, <1>2, <1>4 DEF Bounded, FramesParsed
<1>7. CONNACKIsNear'
  BY <1>0, <1>1, <1>2 DEF CONNACKIsNear
<1>8. PingIsNear'
  <2>1. \A i \in DOMAIN posted : i \in DOMAIN posted' /\ posted'[i] = posted[i]
    BY <1>0, <1>1, AppendFacts DEF TypeOK
  <2>2. CASE sinceSent <= Interval - pingTimer.left + RoundTrip + 2 * Latency
    <3>1. sinceSent <= Interval + RoundTrip + 3 * Latency + event.age
      BY <1>0, <1>1, <1>3, <2>2 DEF Bounded, TypeOK
    <3> QED
      BY <1>0, <1>1, <1>2, <1>4, <3>1 DEF PingIsNear
  <2>3. CASE \E i \in DOMAIN posted :
                /\ posted[i].slot = "sendPing"
                /\ sinceSent <= Interval + RoundTrip + 3 * Latency + posted[i].age
    BY <1>0, <1>4, <2>1, <2>3 DEF PingIsNear
  <2>4. CASE phase # "up"
    BY <1>0, <2>4 DEF PingIsNear
  <2> QED
    BY <2>2, <2>3, <2>4 DEF PingIsNear
<1> QED
  BY <1>5, <1>6, <1>7, <1>8

LEMMA BrokerAnswersStep == ASSUME IInv, BrokerAnswers PROVE IInv'
<1> USE IntervalAssumption, LatencyAssumption DEF IInv
<1> DEFINE frame == AnswerTo[Head(asked).packet]
           event == Event("parse", frame)
<1>0. /\ TypeOK /\ ~ silent /\ asked # <<>> /\ asked' = Tail(asked)
      /\ posted' = Append(posted, event)
      /\ UNCHANGED <<phase, pongReceived, pingTimer, silent, sinceSent, quiet>>
  BY DEF BrokerAnswers
<1>1. /\ 1 \in DOMAIN asked /\ Head(asked) = asked[1] /\ asked[1] \in Questions
      /\ asked' \in Seq(Questions)
      /\ \A i \in DOMAIN asked' : i + 1 \in DOMAIN asked /\ asked'[i] = asked[i + 1]
  BY <1>0, TailFacts DEF TypeOK
<1>2. \/ frame = "CONNACK" /\ asked[1].packet = "CONNECT"
      \/ frame = "PINGRESP"
  BY <1>1 DEF AnswerTo, Questions
<1>3. event \in Events /\ event.age = 0 /\ event.slot = "parse" /\ event.frame = frame
  BY <1>2, NewRecords
<1> HIDE DEF event, frame
<1>4. /\ posted' \in Seq(Events)
      /\ \A i \in DOMAIN posted : i \in DOMAIN posted' /\ posted'[i] = posted[i]
      /\ \A i \in DOMAIN posted' : (i \in DOMAIN posted /\ posted'[i] = posted[i]) \/ posted'[i] = event
  BY <1>0, <1>3, AppendFacts DEF TypeOK
<1>5. TypeOK'
  BY <1>0, <1>1, <1>4 DEF TypeOK
<1>6. Bounded' /\ FramesParsed'
  BY <1>0, <1>1, <1>2, <1>3, <1>4 DEF Bounded, FramesParsed
<1>7. CONNACKIsNear'
  <2>1. phase # "offline" /\ event.frame = "CONNACK" => sinceSent <= RoundTrip + event.age
    <3>1. asked[1].age \in Nat /\ asked[1].age <= RoundTrip
      BY <1>0, <1>1, Ages DEF Bounded
    <3> QED
      BY <1>0, <1>1, <1>2, <1>3, <3>1 DEF CONNACKIsNear, TypeOK
  <2> QED
    BY <1>0, <1>1, <1>3, <1>4, <2>1 DEF CONNACKIsNear
<1>8. PingIsNear'
  BY <1>0, <1>4 DEF PingIsNear
<1> QED
  BY <1>5, <1>6, <1>7, <1>8

LEMMA TickStep == ASSUME IInv, Tick PROVE IInv'
<1> USE IntervalAssumption, LatencyAssumption DEF IInv
<1>0. TypeOK /\ UNCHANGED <<phase, pongReceived, silent>>
  BY DEF Tick
<1>1. /\ \A i \in DOMAIN posted : posted[i].age < Latency
      /\ pingTimer.active => pingTimer.left > -Latency
      /\ ~ silent => \A i \in DOMAIN asked : asked[i].age < RoundTrip
  BY DEF Tick
<1>2. /\ posted' \in Seq(Events) /\ DOMAIN posted' = DOMAIN posted
      /\ \A i \in DOMAIN posted :
            /\ posted'[i].age = posted[i].age + 1 /\ posted[i].age \in Nat
            /\ posted'[i].slot = posted[i].slot /\ posted'[i].frame = posted[i].frame
  BY <1>0, OlderEvents, Ages DEF Tick, TypeOK
<1>3. /\ asked' \in Seq(Questions)
      /\ ~ silent =>
            /\ DOMAIN asked' = DOMAIN asked
            /\ \A i \in DOMAIN asked :
                  /\ asked'[i].age = asked[i].age + 1 /\ asked[i].age \in Nat
                  /\ asked'[i].packet = asked[i].packet
  <2>1. CASE silent
    BY <1>0, <2>1 DEF Tick, TypeOK
  <2>2. CASE ~ silent
    BY <1>0, <2>2, OlderQuestions, Ages DEF Tick, TypeOK
  <2> QED
    BY <2>1, <2>2
<1>4. /\ pingTimer' \in [active : BOOLEAN, left : Int]
      /\ pingTimer'.active = pingTimer.active
      /\ pingTimer'.left = IF pingTimer.active THEN pingTimer.left - 1 ELSE pingTimer.left
      /\ pingTimer.left \in Int
  <2>1. pingTimer \in [active : BOOLEAN, left : Int]
    BY <1>0 DEF TypeOK
  <2>2. CASE pingTimer.active
    <3>1. pingTimer' = [active |-> pingTimer.active, left |-> pingTimer.left - 1]
      BY <2>1, <2>2 DEF Tick
    <3> QED
      BY <2>1, <2>2, <3>1
  <2>3. CASE ~ pingTimer.active
    BY <2>1, <2>3 DEF Tick
  <2> QED
    BY <2>2, <2>3
<1>5. /\ sinceSent' \in Nat /\ sinceSent' <= sinceSent + 1 /\ quiet' \in Nat
  BY <1>0 DEF Tick, TypeOK, Advanced
<1>6. TypeOK'
  BY <1>0, <1>2, <1>3, <1>4, <1>5 DEF TypeOK
<1>7. Bounded' /\ FramesParsed'
  <2>1. pingTimer'.left <= Interval /\ (pingTimer'.active => pingTimer'.left >= -Latency)
    BY <1>1, <1>4 DEF Bounded
  <2>2. \A i \in DOMAIN posted' : posted'[i].age <= Latency
    BY <1>1, <1>2
  <2>3. ~ silent' => \A i \in DOMAIN asked' : asked'[i].age <= RoundTrip
    BY <1>0, <1>1, <1>3
  <2>4. FramesParsed'
    BY <1>2 DEF FramesParsed
  <2> QED
    BY <2>1, <2>2, <2>3, <2>4 DEF Bounded
<1>8. CONNACKIsNear'
  <2> SUFFICES ASSUME phase # "offline" PROVE CONNACKIsNear'
    BY <1>0 DEF CONNACKIsNear
  <2>0. sinceSent \in Nat
    BY <1>0 DEF TypeOK
  <2>1. ~ silent => \A i \in DOMAIN asked' :
            asked'[i].packet = "CONNECT" => sinceSent' <= asked'[i].age
    BY <2>0, <1>3, <1>5 DEF CONNACKIsNear
  <2>2. \A i \in DOMAIN posted' : posted'[i].slot = "parse" /\ posted'[i].frame = "CONNACK"
            => sinceSent' <= RoundTrip + posted'[i].age
    BY <2>0, <1>2, <1>5 DEF CONNACKIsNear
  <2>3. \A i \in DOMAIN posted' : posted'[i].slot = "onConnackReceived"
            => sinceSent' <= RoundTrip + Latency + posted'[i].age
    BY <2>0, <1>2, <1>5 DEF CONNACKIsNear
  <2> QED
    BY <1>0, <2>1, <2>2, <2>3 DEF CONNACKIsNear
<1>9. PingIsNear'
  <2> SUFFICES ASSUME phase = "up" PROVE PingIsNear'
    BY <1>0 DEF PingIsNear
  <2>0. sinceSent \in Nat /\ pingTimer.active /\ pingTimer'.left = pingTimer.left - 1
    BY <1>0, <1>4 DEF TypeOK, PingIsNear
  <2>1. CASE sinceSent <= Interval - pingTimer.left + RoundTrip + 2 * Latency
    <3>1. sinceSent' <= Interval - pingTimer'.left + RoundTrip + 2 * Latency
      BY <2>0, <2>1, <1>4, <1>5
    <3> QED
      BY <2>0, <3>1, <1>4 DEF PingIsNear
  <2>2. ASSUME NEW i \in DOMAIN posted, posted[i].slot = "sendPing",
               sinceSent <= Interval + RoundTrip + 3 * Latency + posted[i].age
        PROVE  PingIsNear'
    <3>0. posted'[i].age = posted[i].age + 1 /\ posted[i].age \in Nat
      BY <1>2, <2>2
    <3>1. sinceSent' <= Interval + RoundTrip + 3 * Latency + posted'[i].age
      BY <2>0, <2>2, <3>0, <1>5
    <3> QED
      BY <2>0, <2>2, <3>1, <1>2, <1>4 DEF PingIsNear
  <2> QED
    BY <2>1, <2>2 DEF PingIsNear
<1> QED
  BY <1>6, <1>7, <1>8, <1>9

-----------------------------------------------------------------------------
(* The theorem *)

LEMMA StepIInv == IInv /\ [Next]_vars => IInv'
<1> SUFFICES ASSUME IInv, [Next]_vars PROVE IInv'
  OBVIOUS
<1>1. CASE Next
  BY <1>1, QuietSteps, ParseStep, OnConnackReceivedStep, OnPongReceivedStep, SendPingStep,
     TimerTimeoutStep, BrokerAnswersStep, TickStep DEF Next
<1>2. CASE UNCHANGED vars
  BY <1>2 DEF vars, IInv, TypeOK, Bounded, FramesParsed, CONNACKIsNear, PingIsNear
<1> QED
  BY <1>1, <1>2

LEMMA IInvImpliesKeepAlive == IInv => KeepAliveHonoured
<1> SUFFICES ASSUME IInv, phase = "up" PROVE 2 * sinceSent <= 3 * KeepAlive
  BY DEF KeepAliveHonoured
<1> USE IntervalAssumption, LatencyAssumption, FastEnough
<1>1. sinceSent \in Nat /\ TypeOK /\ Bounded /\ PingIsNear
  BY DEF IInv, TypeOK
<1>2. sinceSent <= Interval + RoundTrip + 4 * Latency
  <2>1. CASE sinceSent <= Interval - pingTimer.left + RoundTrip + 2 * Latency
    BY <1>1, <2>1, Ages DEF Bounded, PingIsNear
  <2>2. CASE \E i \in DOMAIN posted :
                sinceSent <= Interval + RoundTrip + 3 * Latency + posted[i].age
    BY <1>1, <2>2, Ages DEF Bounded
  <2> QED
    BY <1>1, <2>1, <2>2 DEF PingIsNear
<1> QED
  BY <1>1, <1>2

\* For every interval, latency and round trip that are fast enough: a session is never
\* left without a packet of the client for more than one and a half times the
\* keep-alive of its CONNECT, whatever the user sends and however late timers and slots
\* run (sendData, sendPing, onConnackReceived).
THEOREM KeepAliveIsHonoured == Spec => []KeepAliveHonoured
<1>1. Init => IInv
  BY InitIInv
<1>2. IInv /\ [Next]_vars => IInv'
  BY StepIInv
<1>3. IInv => KeepAliveHonoured
  BY IInvImpliesKeepAlive
<1> QED
  BY <1>1, <1>2, <1>3, PTL DEF Spec

-----------------------------------------------------------------------------
(* Slow and silent brokers                                                    *)
(*                                                                            *)
(* TimeoutMeansSilence and SilenceNoticed need to know how far apart pings    *)
(* and pongs are.  The clock is the time the ping timer has left, which only  *)
(* a tick makes less: a sendPing that waits was posted when the timer fired,  *)
(* a pong follows its ping within known bounds, so that neither is still on   *)
(* its way when the timer fires again (OnePing, PongsAreFresh).               *)

IsPing(e) == e.slot = "sendPing"
IsPong(e) == e.slot = "onPongReceived" \/ (e.slot = "parse" /\ e.frame = "PINGRESP")

OnePing ==
    /\ \A i \in DOMAIN posted :
          IsPing(posted[i]) => pingTimer.left + posted[i].age >= Interval - Latency
    /\ \A i, j \in DOMAIN posted : IsPing(posted[i]) /\ IsPing(posted[j]) => i = j

QuestionsAreFresh ==
    ~ silent => \A i \in DOMAIN asked : asked[i].packet = "PINGREQ"
                    => pingTimer.left + asked[i].age >= Interval - 2 * Latency

PongsAreFresh ==
    \A i \in DOMAIN posted :
        /\ posted[i].slot = "parse" /\ posted[i].frame = "PINGRESP"
              => pingTimer.left + posted[i].age >= Interval - RoundTrip - 2 * Latency
        /\ posted[i].slot = "onPongReceived"
              => pingTimer.left + posted[i].age >= Interval - RoundTrip - 3 * Latency

NoPing == \A i \in DOMAIN posted : ~ IsPing(posted[i])
NoPong == \A i \in DOMAIN posted : ~ IsPong(posted[i])

\* A client that waits for a pong of a broker that answers will have it first.
PongComes ==
    phase = "up" /\ ~ silent /\ ~ pongReceived =>
        NoPing /\ (~ NoPong \/ \E i \in DOMAIN asked : asked[i].packet = "PINGREQ")

\* The timer has not fired since the broker is quiet, has fired once, or has fired twice.
Pending(bound) == \E i \in DOMAIN posted : IsPing(posted[i]) /\ quiet <= bound + posted[i].age

NotFired   == quiet <= Interval - pingTimer.left
FiredOnce  == /\ NoPong /\ quiet <= 2 * Interval + Latency - pingTimer.left
              /\ ~ pongReceived \/ Pending(Interval + Latency)
FiredTwice == NoPong /\ ~ pongReceived /\ Pending(2 * Interval + 2 * Latency)

SilenceIsShort ==
    /\ ~ silent => quiet = 0
    /\ phase = "up" /\ silent => NotFired \/ FiredOnce \/ FiredTwice

PInv == OnePing /\ QuestionsAreFresh /\ PongsAreFresh /\ PongComes /\ SilenceIsShort

\* Where the two intervals come from.
LEMMA Numbers ==
    ASSUME IInv
    PROVE  /\ Interval \in Nat /\ Latency \in Nat /\ RoundTrip \in Nat
           /\ Interval > RoundTrip + 4 * Latency
           /\ pingTimer.left \in Int /\ pingTimer.left <= Interval
           /\ pingTimer.active => pingTimer.left >= -Latency
           /\ quiet \in Nat /\ pongReceived \in BOOLEAN
           /\ \A i \in DOMAIN posted : posted[i].age \in Nat /\ posted[i].age <= Latency
           /\ \A i \in DOMAIN asked : asked[i].age \in Nat
<1>1. TypeOK /\ Bounded
  BY DEF IInv
<1>2. Interval > RoundTrip + 4 * Latency
  BY IntervalAssumption, LatencyAssumption, FastEnough
<1>3. QED
  BY <1>1, <1>2, Ages, IntervalAssumption, LatencyAssumption DEF TypeOK, Bounded

LEMMA InitPInv == Init => PInv
BY TimerTypes, IntervalAssumption
   DEF Init, PInv, OnePing, QuestionsAreFresh, PongsAreFresh, PongComes, SilenceIsShort

\* The same events, and a timer that has at least as much left.
LEMMA QueueStays ==
    ASSUME IInv, PInv, posted' = posted,
           pingTimer'.left \in Int, pingTimer'.left >= pingTimer.left
    PROVE  OnePing' /\ PongsAreFresh'
<1>1. \A i \in DOMAIN posted : posted[i].age \in Nat
  BY Numbers
<1>2. QED
  BY <1>1, Numbers DEF PInv, OnePing, PongsAreFresh

\* One event less.
LEMMA QueuePopped ==
    ASSUME IInv, PInv, posted # <<>>, posted' = Tail(posted),
           pingTimer'.left \in Int, pingTimer'.left >= pingTimer.left
    PROVE  OnePing' /\ PongsAreFresh'
<1>1. /\ \A i \in DOMAIN posted' : i + 1 \in DOMAIN posted /\ posted'[i] = posted[i + 1]
      /\ DOMAIN posted' \subseteq Nat
  BY Popped
<1>2. /\ \A i \in DOMAIN posted : posted[i].age \in Nat
      /\ pingTimer.left \in Int /\ Interval \in Nat /\ Latency \in Nat /\ RoundTrip \in Nat
  BY Numbers
<1>3. OnePing'
  <2>1. ASSUME NEW i \in DOMAIN posted', IsPing(posted'[i])
        PROVE  pingTimer'.left + posted'[i].age >= Interval - Latency
    BY <1>1, <1>2, <2>1 DEF PInv, OnePing
  <2>2. ASSUME NEW i \in DOMAIN posted', NEW j \in DOMAIN posted',
               IsPing(posted'[i]), IsPing(posted'[j])
        PROVE  i = j
    BY <1>1, <2>2 DEF PInv, OnePing
  <2>3. QED
    BY <2>1, <2>2 DEF OnePing, IsPing
<1>4. PongsAreFresh'
  BY <1>1, <1>2 DEF PInv, PongsAreFresh
<1>5. QED
  BY <1>3, <1>4

\* What the user does, a broker that falls silent, a lost connection.
LEMMA QuietStepsPInv ==
    ASSUME IInv, PInv, Connect \/ Disconnect \/ SendData \/ BrokerFallsSilent \/ ConnectionLost
    PROVE  PInv'
<1>1. CASE Connect
  <2>1. /\ UNCHANGED <<posted, pingTimer>> /\ phase' = "connecting" /\ quiet' = 0
        /\ \A i \in DOMAIN asked' : asked'[i].packet = "CONNECT"
    BY <1>1, NewRecords DEF Connect
  <2>2. OnePing' /\ PongsAreFresh'
    BY <2>1, QueueStays, Numbers
  <2>3. QED
    BY <2>1, <2>2 DEF PInv, QuestionsAreFresh, PongComes, SilenceIsShort
<1>2. CASE Disconnect \/ ConnectionLost
  <2>1. /\ phase' = "offline" /\ asked' = <<>> /\ quiet' = 0
        /\ pingTimer' = Stopped \/ pingTimer' = pingTimer
        /\ UNCHANGED posted
    BY <1>2 DEF Disconnect, ConnectionLost, Close, Gone
  <2>2. pingTimer'.left \in Int /\ pingTimer'.left >= pingTimer.left
    BY <2>1, TimerTypes, Numbers
  <2>3. OnePing' /\ PongsAreFresh'
    BY <2>1, <2>2, QueueStays
  <2>4. QED
    BY <2>1, <2>3 DEF PInv, QuestionsAreFresh, PongComes, SilenceIsShort
<1>3. CASE SendData
  <2>1. /\ pingTimer'.left = Interval /\ quiet' = 0
        /\ UNCHANGED <<phase, pongReceived, posted, asked, silent>>
    BY <1>3, TimerTypes DEF SendData
  <2>2. OnePing' /\ PongsAreFresh'
    BY <2>1, QueueStays, Numbers
  <2>3. QuestionsAreFresh'
    BY <2>1, Numbers DEF PInv, QuestionsAreFresh
  <2>4. QED
    BY <2>1, <2>2, <2>3, Numbers
       DEF PInv, PongComes, NoPing, NoPong, SilenceIsShort, NotFired
<1>4. CASE BrokerFallsSilent
  <2>1. /\ ~ silent /\ silent'
        /\ UNCHANGED <<phase, pongReceived, pingTimer, posted, asked, sinceSent, quiet>>
    BY <1>4 DEF BrokerFallsSilent
  <2>2. quiet = 0
    BY <2>1 DEF PInv, SilenceIsShort
  <2>3. OnePing' /\ PongsAreFresh'
    BY <2>1, QueueStays, Numbers
  <2>4. QED
    BY <2>1, <2>2, <2>3, Numbers
       DEF PInv, QuestionsAreFresh, PongComes, SilenceIsShort, NotFired
<1>5. QED
  BY <1>1, <1>2, <1>3, <1>4

\* CONNACK starts the keep-alive anew.
LEMMA OnConnackReceivedPInv == ASSUME IInv, PInv, OnConnackReceived PROVE PInv'
<1>1. posted # <<>> /\ posted' = Tail(posted) /\ UNCHANGED <<asked, silent>>
  BY DEF OnConnackReceived, Runs
<1>2. \/ phase' = "up" /\ quiet' = 0 /\ pingTimer'.left = Interval /\ pongReceived' = TRUE
      \/ phase' = "offline" /\ UNCHANGED <<quiet, pingTimer>>
  BY TimerTypes DEF OnConnackReceived, StartKeepAlive
<1>3. pingTimer'.left \in Int /\ pingTimer'.left >= pingTimer.left
  BY <1>2, Numbers
<1>4. OnePing' /\ PongsAreFresh'
  BY <1>1, <1>3, QueuePopped
<1>5. QuestionsAreFresh'
  BY <1>1, <1>3, Numbers DEF PInv, QuestionsAreFresh
<1>6. PongComes' /\ SilenceIsShort'
  BY <1>1, <1>2, Numbers DEF PInv, PongComes, SilenceIsShort, NotFired
<1>7. QED
  BY <1>4, <1>5, <1>6 DEF PInv

\* A pong is handled: the timer has not fired since the broker is quiet.
LEMMA OnPongReceivedPInv == ASSUME IInv, PInv, OnPongReceived PROVE PInv'
<1>1. /\ posted # <<>> /\ posted' = Tail(posted) /\ pongReceived' = TRUE
      /\ UNCHANGED <<phase, pingTimer, asked, silent, sinceSent, quiet>>
      /\ Head(posted).slot = "onPongReceived"
  BY DEF OnPongReceived, Runs
<1>2. 1 \in DOMAIN posted /\ posted[1].slot = "onPongReceived"
  BY <1>1, Popped
<1>3. ~ NoPong
  BY <1>2 DEF NoPong, IsPong
<1>4. OnePing' /\ PongsAreFresh'
  BY <1>1, QueuePopped, Numbers
<1>5. SilenceIsShort'
  BY <1>1, <1>3 DEF PInv, SilenceIsShort, NotFired, FiredOnce, FiredTwice
<1>6. QED
  BY <1>1, <1>4, <1>5 DEF PInv, QuestionsAreFresh, PongComes

\* A ping, or the end of the connection.
LEMMA SendPingPInv == ASSUME IInv, PInv, SendPing PROVE PInv'
<1>1. /\ posted # <<>> /\ posted' = Tail(posted) /\ silent' = silent
      /\ Head(posted).slot = "sendPing"
  BY DEF SendPing, Runs
<1>2. /\ 1 \in DOMAIN posted /\ posted[1].slot = "sendPing"
      /\ \A i \in DOMAIN posted' : i + 1 \in DOMAIN posted /\ posted'[i] = posted[i + 1]
      /\ \A i \in DOMAIN posted' : i \in Nat /\ i # 0
  BY <1>1, Popped
<1>3. CASE phase = "offline" \/ ~ pongReceived
  <2>1. /\ quiet' = 0 \/ quiet' = quiet
        /\ asked' = <<>> \/ asked' = asked
        /\ pingTimer' = Stopped \/ pingTimer' = pingTimer
    BY <1>3 DEF SendPing, Close, Gone
  <2>2. phase' = "offline"
    BY <1>3 DEF SendPing, Close, Gone
  <2>3. pingTimer'.left \in Int /\ pingTimer'.left >= pingTimer.left
    BY <2>1, TimerTypes, Numbers
  <2>4. OnePing' /\ PongsAreFresh'
    BY <1>1, <2>3, QueuePopped
  <2>5. QuestionsAreFresh'
    <3>1. CASE asked' = <<>>
      BY <3>1 DEF QuestionsAreFresh
    <3>2. CASE asked' = asked
      <4>1. \A i \in DOMAIN asked : asked[i].age \in Nat
        BY Numbers
      <4>2. pingTimer.left \in Int /\ Interval \in Nat /\ Latency \in Nat
        BY Numbers
      <4>3. QED
        BY <1>1, <2>3, <3>2, <4>1, <4>2 DEF PInv, QuestionsAreFresh
    <3>3. QED
      BY <2>1, <3>1, <3>2
  <2>6. QED
    BY <1>1, <2>1, <2>2, <2>4, <2>5 DEF PInv, PongComes, SilenceIsShort
<1>4. CASE phase # "offline" /\ pongReceived
  <2> DEFINE question == Question("PINGREQ")
  <2>1. /\ asked' = Append(asked, question)
        /\ pongReceived' = FALSE /\ UNCHANGED <<phase, pingTimer, quiet>>
    BY <1>4 DEF SendPing, ExpectPong
  <2>2. question \in Questions /\ question.age = 0 /\ question.packet = "PINGREQ"
    BY NewRecords
  <2> HIDE DEF question
  <2>3. /\ Len(asked) + 1 \in DOMAIN asked' /\ asked'[Len(asked) + 1] = question
        /\ \A i \in DOMAIN asked' :
              \/ i \in DOMAIN asked /\ asked'[i] = asked[i]
              \/ asked'[i] = question
    <3>1. asked \in Seq(Questions)
      BY DEF IInv, TypeOK
    <3>2. QED
      BY <2>1, <2>2, <3>1, AppendFacts
  <2>4. OnePing' /\ PongsAreFresh'
    BY <1>1, <2>1, QueuePopped, Numbers
  <2>5. pingTimer.left >= Interval - 2 * Latency
    BY <1>2, Numbers DEF PInv, OnePing, IsPing
  <2>6. QuestionsAreFresh'
    <3>1. ASSUME ~ silent, NEW i \in DOMAIN asked', asked'[i].packet = "PINGREQ"
          PROVE  pingTimer.left + asked'[i].age >= Interval - 2 * Latency
      <4>1. CASE asked'[i] = question
        BY <2>2, <2>5, <4>1, Numbers
      <4>2. CASE i \in DOMAIN asked /\ asked'[i] = asked[i]
        BY <3>1, <4>2 DEF PInv, QuestionsAreFresh
      <4>3. QED
        BY <2>3, <4>1, <4>2
    <3>2. QED
      BY <1>1, <2>1, <3>1 DEF QuestionsAreFresh
  <2>7. NoPing'
    BY <1>2 DEF PInv, OnePing, NoPing, IsPing
  <2>8. PongComes'
    BY <2>2, <2>3, <2>7 DEF PongComes
  <2>9. NoPong => NoPong'
    BY <1>2 DEF NoPong, IsPong
  <2>10. SilenceIsShort'
    BY <1>1, <1>4, <2>1, <2>9 DEF PInv, SilenceIsShort, NotFired, FiredOnce, FiredTwice
  <2>11. QED
    BY <2>4, <2>6, <2>8, <2>10 DEF PInv
<1>5. QED
  BY <1>3, <1>4 DEF IInv, TypeOK

\* When the timer fires, no ping and no pong is under way.
LEMMA NothingUnderWay ==
    ASSUME IInv, PInv, pingTimer.left <= 0
    PROVE  /\ NoPing /\ NoPong
           /\ ~ silent => \A i \in DOMAIN asked : asked[i].packet # "PINGREQ"
<1>1. NoPing
  BY Numbers DEF PInv, OnePing, NoPing
<1>2. NoPong
  BY Numbers DEF PInv, PongsAreFresh, NoPong, IsPong
<1>3. ASSUME ~ silent, NEW i \in DOMAIN asked, asked[i].packet = "PINGREQ" PROVE FALSE
  <2>1. asked[i].age <= RoundTrip /\ asked[i].age \in Nat
    BY <1>3, Numbers DEF IInv, Bounded
  <2>2. QED
    BY <1>3, <2>1, Numbers DEF PInv, QuestionsAreFresh
<1>4. QED
  BY <1>1, <1>2, <1>3

LEMMA TimerTimeoutPInv == ASSUME IInv, PInv, TimerTimeout PROVE PInv'
<1> DEFINE event == Event("sendPing", "NONE")
<1>1. /\ pingTimer.active /\ pingTimer.left <= 0
      /\ posted' = Append(posted, event)
      /\ UNCHANGED <<phase, pongReceived, asked, silent, sinceSent, quiet>>
  BY DEF TimerTimeout
<1>2. event \in Events /\ event.age = 0 /\ event.slot = "sendPing"
  BY NewRecords
<1> HIDE DEF event
<1>3. /\ Len(posted) + 1 \in DOMAIN posted' /\ posted'[Len(posted) + 1] = event
      /\ \A i \in DOMAIN posted' :
            \/ i \in DOMAIN posted /\ posted'[i] = posted[i]
            \/ i = Len(posted) + 1 /\ posted'[i] = event
  <2>1. posted \in Seq(Events)
    BY DEF IInv, TypeOK
  <2>2. QED
    BY <1>1, <1>2, <2>1
<1>4. /\ NoPing /\ NoPong
      /\ ~ silent => \A i \in DOMAIN asked : asked[i].packet # "PINGREQ"
  BY <1>1, NothingUnderWay
<1>5. /\ pingTimer'.left \in Int /\ pingTimer'.left >= Interval - Latency
      /\ \/ pingTimer'.left = pingTimer.left + Interval
         \/ pingTimer'.left = Interval
  <2>1. CASE pingTimer' = [active |-> TRUE, left |-> pingTimer.left + Interval]
    BY <1>1, <2>1, Numbers
  <2>2. CASE pingTimer' = Restarted
    BY <2>2, TimerTypes, Numbers
  <2> QED
    BY <2>1, <2>2 DEF TimerTimeout, Fired
<1>6. OnePing'
  <2>1. \A i \in DOMAIN posted' : IsPing(posted'[i]) => i = Len(posted) + 1
    BY <1>3, <1>4 DEF NoPing
  <2>2. QED
    BY <1>2, <1>3, <1>5, <2>1, Numbers DEF OnePing, IsPing
<1>7. NoPong'
  BY <1>2, <1>3, <1>4 DEF NoPong, IsPong
<1>8. PongsAreFresh' /\ QuestionsAreFresh'
  BY <1>1, <1>4, <1>7 DEF PongsAreFresh, QuestionsAreFresh, NoPong, IsPong
<1>9. PongComes'
  BY <1>1, <1>4 DEF PInv, PongComes
<1>10. \A bound \in Nat : quiet <= bound => Pending(bound)'
  <2>1. IsPing(event)
    BY <1>2 DEF IsPing
  <2>2. QED
    BY <1>1, <1>2, <1>3, <2>1, Numbers DEF Pending, IsPing
<1>11. SilenceIsShort'
  <2>0. /\ Interval + Latency \in Nat /\ 2 * Interval + 2 * Latency \in Nat
        /\ quiet \in Nat /\ pingTimer.left >= -Latency
    BY <1>1, Numbers
  <2>1. ~ Pending(Interval + Latency) /\ ~ Pending(2 * Interval + 2 * Latency)
    BY <1>4 DEF Pending, NoPing
  <2>2. ASSUME NotFired PROVE FiredOnce'
    <3>1. quiet <= Interval + Latency
      BY <2>0, <2>2, Numbers DEF NotFired
    <3>2. quiet <= 2 * Interval + Latency - pingTimer'.left
      BY <1>5, <2>0, <2>2, Numbers DEF NotFired
    <3>3. QED
      BY <1>1, <1>7, <1>10, <2>0, <3>1, <3>2 DEF FiredOnce
  <2>3. ASSUME FiredOnce PROVE FiredTwice'
    <3>1. quiet <= 2 * Interval + 2 * Latency /\ ~ pongReceived
      BY <2>0, <2>1, <2>3, Numbers DEF FiredOnce
    <3>2. QED
      BY <1>1, <1>7, <1>10, <2>0, <3>1 DEF FiredTwice
  <2>4. ~ FiredTwice
    BY <2>1 DEF FiredTwice
  <2>5. QED
    BY <1>1, <2>2, <2>3, <2>4 DEF PInv, SilenceIsShort
<1>12. QED
  BY <1>6, <1>8, <1>9, <1>11 DEF PInv

\* A frame goes to the parser: a pong stays a pong, one place further.
LEMMA ParsePInv == ASSUME IInv, PInv, Parse PROVE PInv'
<1> DEFINE event == Event(SlotOf[Head(posted).frame], "NONE")
<1>1. /\ posted \in Seq(Events) /\ posted # <<>>
      /\ posted' = Append(Tail(posted), event)
      /\ UNCHANGED <<phase, pongReceived, pingTimer, asked, silent, sinceSent, quiet>>
  BY DEF Parse, Runs, IInv, TypeOK
<1>2. /\ 1 \in DOMAIN posted /\ Head(posted) = posted[1] /\ posted[1].slot = "parse"
      /\ posted[1].frame \in {"CONNACK", "PINGRESP"}
  <2>1. 1 \in DOMAIN posted /\ Head(posted) = posted[1]
    BY <1>1, TailFacts
  <2>2. posted[1].slot = "parse" /\ posted[1].frame # "NONE"
    BY <2>1 DEF Parse, Runs, IInv, FramesParsed
  <2>3. posted[1].frame \in {"CONNACK", "PINGRESP", "NONE"}
    BY <2>1, Ages DEF Events, IInv
  <2> QED
    BY <2>1, <2>2, <2>3
<1>3. /\ event \in Events /\ event.age = 0
      /\ \/ event.slot = "onConnackReceived" /\ posted[1].frame = "CONNACK"
         \/ event.slot = "onPongReceived" /\ posted[1].frame = "PINGRESP"
  BY <1>2, NewRecords DEF SlotOf
<1> HIDE DEF event
<1>4. Tail(posted) \in Seq(Events)
  BY <1>1, TailFacts
<1>5. /\ \A i \in DOMAIN posted' :
            \/ i + 1 \in DOMAIN posted /\ posted'[i] = posted[i + 1]
            \/ posted'[i] = event
      /\ \E i \in DOMAIN posted' : posted'[i] = event
      /\ \A i \in DOMAIN posted : i # 1 => i - 1 \in DOMAIN posted' /\ posted'[i - 1] = posted[i]
      /\ DOMAIN posted' \subseteq Nat
  BY <1>1, <1>3, <1>4, TailFacts, AppendFacts
<1>6. \A i \in DOMAIN posted : posted[i].age \in Nat /\ posted[i].age <= Latency
  BY Numbers
<1>7. ~ IsPing(event) /\ (IsPong(event) <=> IsPong(posted[1])) /\ ~ IsPing(posted[1])
  BY <1>2, <1>3 DEF IsPing, IsPong
<1>8. OnePing'
  <2>1. ASSUME NEW i \in DOMAIN posted', IsPing(posted'[i])
        PROVE  /\ i + 1 \in DOMAIN posted /\ posted'[i] = posted[i + 1]
               /\ pingTimer.left + posted'[i].age >= Interval - Latency
    BY <1>5, <1>7, <2>1 DEF PInv, OnePing
  <2>2. ASSUME NEW i \in DOMAIN posted', NEW j \in DOMAIN posted',
               IsPing(posted'[i]), IsPing(posted'[j])
        PROVE  i = j
    <3>1. i + 1 = j + 1
      BY <2>1, <2>2 DEF PInv, OnePing
    <3>2. QED
      BY <1>5, <3>1
  <2>3. QED
    BY <1>1, <2>1, <2>2 DEF OnePing, IsPing
<1>9. PongsAreFresh'
  <2>1. event.slot = "onPongReceived"
           => pingTimer.left + event.age >= Interval - RoundTrip - 3 * Latency
    BY <1>2, <1>3, <1>6, Numbers DEF PInv, PongsAreFresh
  <2>2. event.slot # "parse"
    BY <1>3
  <2>3. ASSUME NEW i \in DOMAIN posted'
        PROVE  /\ posted'[i].slot = "parse" /\ posted'[i].frame = "PINGRESP"
                     => pingTimer.left + posted'[i].age >= Interval - RoundTrip - 2 * Latency
               /\ posted'[i].slot = "onPongReceived"
                     => pingTimer.left + posted'[i].age >= Interval - RoundTrip - 3 * Latency
    BY <1>5, <2>1, <2>2 DEF PInv, PongsAreFresh
  <2>4. QED
    BY <1>1, <2>3 DEF PongsAreFresh
<1>10. NoPing => NoPing'
  BY <1>5, <1>7 DEF NoPing, IsPing
<1>11. NoPong <=> NoPong'
  <2>1. NoPong => NoPong'
    BY <1>2, <1>5, <1>7 DEF NoPong, IsPong
  <2>2. ASSUME NEW i \in DOMAIN posted, IsPong(posted[i]) PROVE ~ NoPong'
    <3>1. CASE i = 1
      BY <1>5, <1>7, <2>2, <3>1 DEF NoPong, IsPong
    <3>2. CASE i # 1
      BY <1>5, <2>2, <3>2 DEF NoPong, IsPong
    <3>3. QED
      BY <3>1, <3>2
  <2>3. QED
    BY <2>1, <2>2 DEF NoPong
<1>12. \A bound \in Nat : Pending(bound) => Pending(bound)'
  BY <1>1, <1>5, <1>7 DEF Pending, IsPing
<1>13. SilenceIsShort'
  BY <1>1, <1>11, <1>12, Numbers DEF PInv, SilenceIsShort, NotFired, FiredOnce, FiredTwice
<1>14. PongComes'
  BY <1>1, <1>10, <1>11 DEF PInv, PongComes
<1>15. QED
  BY <1>1, <1>8, <1>9, <1>13, <1>14 DEF PInv, QuestionsAreFresh

\* An answer is on its way: the pong for a ping takes its place.
LEMMA BrokerAnswersPInv == ASSUME IInv, PInv, BrokerAnswers PROVE PInv'
<1> DEFINE frame == AnswerTo[Head(asked).packet]
           event == Event("parse", frame)
<1>0. /\ ~ silent /\ asked # <<>> /\ asked' = Tail(asked)
      /\ posted' = Append(posted, event)
      /\ UNCHANGED <<phase, pongReceived, pingTimer, silent, sinceSent, quiet>>
      /\ asked \in Seq(Questions) /\ posted \in Seq(Events)
  BY DEF BrokerAnswers, IInv, TypeOK
<1>1. /\ 1 \in DOMAIN asked /\ Head(asked) = asked[1] /\ asked[1] \in Questions
      /\ \A i \in DOMAIN asked' : i + 1 \in DOMAIN asked /\ asked'[i] = asked[i + 1]
      /\ \A i \in DOMAIN asked : i # 1 => i - 1 \in DOMAIN asked' /\ asked'[i - 1] = asked[i]
  BY <1>0, TailFacts
<1>2. \/ frame = "CONNACK" /\ asked[1].packet = "CONNECT"
      \/ frame = "PINGRESP" /\ asked[1].packet = "PINGREQ"
  BY <1>1 DEF AnswerTo, Questions
<1>3. event \in Events /\ event.age = 0 /\ event.slot = "parse" /\ event.frame = frame
  BY <1>2, NewRecords
<1> HIDE DEF event, frame
<1>4. /\ \A i \in DOMAIN posted : i \in DOMAIN posted' /\ posted'[i] = posted[i]
      /\ \A i \in DOMAIN posted' : (i \in DOMAIN posted /\ posted'[i] = posted[i]) \/ posted'[i] = event
      /\ \E i \in DOMAIN posted' : posted'[i] = event
  BY <1>0, <1>3, AppendFacts
<1>5. ~ IsPing(event) /\ (asked[1].packet = "PINGREQ" => IsPong(event))
  BY <1>2, <1>3 DEF IsPing, IsPong
<1>6. OnePing'
  <2>1. \A i \in DOMAIN posted' : IsPing(posted'[i]) => i \in DOMAIN posted /\ posted'[i] = posted[i]
    BY <1>4, <1>5
  <2>2. QED
    BY <1>0, <2>1 DEF PInv, OnePing, IsPing
<1>7. PongsAreFresh'
  <2>1. event.frame = "PINGRESP"
           => pingTimer.left + event.age >= Interval - RoundTrip - 2 * Latency
    <3>1. asked[1].age \in Nat /\ asked[1].age <= RoundTrip
      BY <1>0, <1>1, Numbers DEF IInv, Bounded
    <3>2. asked[1].packet = "PINGREQ"
             => pingTimer.left + asked[1].age >= Interval - 2 * Latency
      BY <1>0, <1>1 DEF PInv, QuestionsAreFresh
    <3>3. QED
      BY <1>2, <1>3, <3>1, <3>2, Numbers
  <2>2. ASSUME NEW i \in DOMAIN posted'
        PROVE  /\ posted'[i].slot = "parse" /\ posted'[i].frame = "PINGRESP"
                     => pingTimer.left + posted'[i].age >= Interval - RoundTrip - 2 * Latency
               /\ posted'[i].slot = "onPongReceived"
                     => pingTimer.left + posted'[i].age >= Interval - RoundTrip - 3 * Latency
    BY <1>3, <1>4, <2>1 DEF PInv, PongsAreFresh
  <2>3. QED
    BY <1>0, <2>2 DEF PongsAreFresh
<1>8. QuestionsAreFresh'
  BY <1>0, <1>1 DEF PInv, QuestionsAreFresh
<1>9. PongComes'
  <2>1. NoPing => NoPing'
    BY <1>4, <1>5 DEF NoPing, IsPing
  <2>2. ~ NoPong => ~ NoPong'
    BY <1>4 DEF NoPong, IsPong
  <2>3. asked[1].packet = "PINGREQ" => ~ NoPong'
    BY <1>4, <1>5 DEF NoPong, IsPong
  <2>4. (\E i \in DOMAIN asked : asked[i].packet = "PINGREQ")
           => asked[1].packet = "PINGREQ" \/ \E i \in DOMAIN asked' : asked'[i].packet = "PINGREQ"
    BY <1>1
  <2>5. QED
    BY <1>0, <2>1, <2>2, <2>3, <2>4 DEF PInv, PongComes
<1>10. SilenceIsShort'
  BY <1>0 DEF PInv, SilenceIsShort
<1>11. QED
  BY <1>6, <1>7, <1>8, <1>9, <1>10 DEF PInv

\* A tick takes from the timer what it gives to the ages.
LEMMA TickPInv == ASSUME IInv, PInv, Tick PROVE PInv'
<1>1. UNCHANGED <<phase, pongReceived, silent>> /\ TypeOK
  BY DEF Tick, IInv
<1>2. /\ DOMAIN posted' = DOMAIN posted
      /\ \A i \in DOMAIN posted :
            /\ posted'[i].age = posted[i].age + 1 /\ posted[i].age \in Nat
            /\ posted'[i].slot = posted[i].slot /\ posted'[i].frame = posted[i].frame
  BY <1>1, OlderEvents, Ages DEF Tick, TypeOK
<1>3. ~ silent =>
         /\ DOMAIN asked' = DOMAIN asked
         /\ \A i \in DOMAIN asked :
               /\ asked'[i].age = asked[i].age + 1 /\ asked[i].age \in Nat
               /\ asked'[i].packet = asked[i].packet
  BY <1>1, OlderQuestions, Ages DEF Tick, TypeOK
<1>4. /\ pingTimer'.left \in Int /\ pingTimer'.left + 1 >= pingTimer.left
      /\ pingTimer.active => pingTimer'.left + 1 = pingTimer.left
  <2>0. pingTimer \in [active : BOOLEAN, left : Int]
    BY <1>1 DEF TypeOK
  <2>1. CASE pingTimer.active
    <3>1. pingTimer' = [active |-> pingTimer.active, left |-> pingTimer.left - 1]
      BY <2>0, <2>1 DEF Tick
    <3> QED
      BY <2>0, <2>1, <3>1
  <2>2. CASE ~ pingTimer.active
    BY <2>0, <2>2 DEF Tick
  <2> QED
    BY <2>1, <2>2
<1>5. /\ quiet' \in Nat /\ quiet' <= quiet + 1
      /\ ~ silent => quiet' = quiet
  BY <1>1 DEF Tick, TypeOK, Advanced
<1>6. /\ \A i \in DOMAIN posted : IsPing(posted'[i]) <=> IsPing(posted[i])
      /\ \A i \in DOMAIN posted : IsPong(posted'[i]) <=> IsPong(posted[i])
  BY <1>2 DEF IsPing, IsPong
<1>7. OnePing'
  <2>1. ASSUME NEW i \in DOMAIN posted, IsPing(posted[i])
        PROVE  pingTimer'.left + posted'[i].age >= Interval - Latency
    BY <1>2, <1>4, <2>1, Numbers DEF PInv, OnePing
  <2>2. \A i, j \in DOMAIN posted' : IsPing(posted'[i]) /\ IsPing(posted'[j]) => i = j
    BY <1>2, <1>6 DEF PInv, OnePing
  <2>3. QED
    BY <1>2, <1>6, <2>1, <2>2 DEF OnePing, IsPing
<1>8. QuestionsAreFresh'
  <2>1. ASSUME ~ silent, NEW i \in DOMAIN asked, asked[i].packet = "PINGREQ"
        PROVE  pingTimer'.left + asked'[i].age >= Interval - 2 * Latency
    BY <1>3, <1>4, <2>1, Numbers DEF PInv, QuestionsAreFresh
  <2>2. QED
    BY <1>1, <1>3, <2>1 DEF QuestionsAreFresh
<1>9. PongsAreFresh'
  <2>1. ASSUME NEW i \in DOMAIN posted
        PROVE  /\ posted[i].slot = "parse" /\ posted[i].frame = "PINGRESP"
                     => pingTimer'.left + posted'[i].age >= Interval - RoundTrip - 2 * Latency
               /\ posted[i].slot = "onPongReceived"
                     => pingTimer'.left + posted'[i].age >= Interval - RoundTrip - 3 * Latency
    BY <1>2, <1>4, Numbers DEF PInv, PongsAreFresh
  <2>2. QED
    BY <1>2, <2>1 DEF PongsAreFresh
<1>10. (NoPing => NoPing') /\ (NoPong <=> NoPong')
  BY <1>2, <1>6 DEF NoPing, NoPong, IsPing, IsPong
<1>11. PongComes'
  BY <1>1, <1>3, <1>10 DEF PInv, PongComes
<1>12. \A bound \in Nat : Pending(bound) => Pending(bound)'
  <2>1. ASSUME NEW bound \in Nat, NEW i \in DOMAIN posted, IsPing(posted[i]),
               quiet <= bound + posted[i].age
        PROVE  quiet' <= bound + posted'[i].age
    BY <1>2, <1>5, <2>1, Numbers
  <2>2. QED
    BY <1>2, <1>6, <2>1 DEF Pending, IsPing
<1>13. SilenceIsShort'
  <2>1. phase = "up" => pingTimer'.left + 1 = pingTimer.left
    BY <1>4 DEF IInv, PingIsNear
  <2>2. phase = "up" /\ NotFired => NotFired'
    BY <1>5, <1>4, <2>1, Numbers DEF NotFired
  <2>3. phase = "up" /\ FiredOnce => FiredOnce'
    <3>1. Interval + Latency \in Nat
      BY Numbers
    <3>2. phase = "up" /\ quiet <= 2 * Interval + Latency - pingTimer.left
             => quiet' <= 2 * Interval + Latency - pingTimer'.left
      BY <1>5, <1>4, <2>1, Numbers
    <3>3. QED
      BY <1>1, <1>10, <1>12, <3>1, <3>2 DEF FiredOnce
  <2>4. FiredTwice => FiredTwice'
    <3>1. 2 * Interval + 2 * Latency \in Nat
      BY Numbers
    <3>2. QED
      BY <1>1, <1>10, <1>12, <3>1 DEF FiredTwice
  <2>5. ~ silent' => quiet' = 0
    BY <1>1, <1>5 DEF PInv, SilenceIsShort
  <2>6. QED
    BY <1>1, <2>2, <2>3, <2>4, <2>5 DEF PInv, SilenceIsShort
<1>14. QED
  BY <1>7, <1>8, <1>9, <1>11, <1>13 DEF PInv

LEMMA StepPInv == IInv /\ PInv /\ [Next]_vars => PInv'
<1> SUFFICES ASSUME IInv, PInv, [Next]_vars PROVE PInv'
  OBVIOUS
<1>1. CASE Next
  BY <1>1, QuietStepsPInv, ParsePInv, OnConnackReceivedPInv, OnPongReceivedPInv, SendPingPInv,
     TimerTimeoutPInv, BrokerAnswersPInv, TickPInv DEF Next
<1>2. CASE UNCHANGED vars
  BY <1>2 DEF vars, PInv, OnePing, QuestionsAreFresh, PongsAreFresh, PongComes, NoPing, NoPong,
              SilenceIsShort, NotFired, FiredOnce, FiredTwice, Pending
<1> QED
  BY <1>1, <1>2

LEMMA PInvHolds == Spec => [](IInv /\ PInv)
<1>1. Init => IInv /\ PInv
  BY InitIInv, InitPInv
<1>2. IInv /\ PInv /\ [Next]_vars => (IInv /\ PInv)'
  BY StepIInv, StepPInv
<1> QED
  BY <1>1, <1>2, PTL DEF Spec

\* For every interval, latency and round trip that are fast enough: a client never takes a
\* slow broker for a silent one, however pongs, pings and the data of the user interleave
\* (sendPing, onPongReceived, onConnackReceived).
THEOREM TimeoutIsNoMistake == Spec => []TimeoutMeansSilence
<1>1. IInv /\ PInv => TimeoutMeansSilence
  <2> SUFFICES ASSUME IInv, PInv, phase = "up", ReportsTimeout PROVE silent
    BY DEF TimeoutMeansSilence
  <2>1. ~ pongReceived /\ posted # <<>> /\ Head(posted).slot = "sendPing"
    BY DEF ReportsTimeout, Runs
  <2>2. posted \in Seq(Events)
    BY DEF IInv, TypeOK
  <2>3. 1 \in DOMAIN posted /\ posted[1].slot = "sendPing"
    BY <2>1, <2>2, TailFacts
  <2>4. ~ NoPing
    BY <2>3 DEF NoPing, IsPing
  <2>5. QED
    BY <2>1, <2>4 DEF PInv, PongComes
<1>2. QED
  BY <1>1, PInvHolds, PTL

\* For the same values: a client whose user sends nothing notices a silent broker after two
\* intervals, and what the event loop takes on the way (sendPing, sendData).
THEOREM SilenceIsNoticed == Spec => []SilenceNoticed
<1>1. IInv /\ PInv => SilenceNoticed
  <2> SUFFICES ASSUME IInv, PInv, phase = "up", silent PROVE quiet <= 2 * Interval + 3 * Latency
    BY DEF SilenceNoticed
  <2>1. pingTimer.left >= -Latency
    BY Numbers DEF IInv, PingIsNear
  <2>2. CASE NotFired
    BY <2>1, <2>2, Numbers DEF NotFired
  <2>3. CASE FiredOnce
    BY <2>1, <2>3, Numbers DEF FiredOnce
  <2>4. CASE FiredTwice
    BY <2>4, Numbers DEF FiredTwice, Pending
  <2>5. QED
    BY <2>2, <2>3, <2>4 DEF PInv, SilenceIsShort
<1>2. QED
  BY <1>1, PInvHolds, PTL

=============================================================================
