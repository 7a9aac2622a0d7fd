---------------------------- MODULE ReentrancyProofs ----------------------------
(***************************************************************************)
(* The filter of certificate errors holds whatever the slots of the user   *)
(* call: for every value of ConnectFrom and DisconnectFrom, and not only   *)
(* for those the run checks.                                               *)
(*                                                                         *)
(* OnlyAllowedErrors is not inductive: a socket that met an error that is  *)
(* not allowed is still connecting while the slots of the user run.  The   *)
(* invariant says what stops it: the end of its handshake is on the stack, *)
(* under all that the slots call, and the event loop, which alone can      *)
(* complete the handshake, runs when the stack is empty.                   *)
(*                                                                         *)
(* The other properties hold only for the signals CallsAllowed names.      *)
(* Their invariant, StackInv, says what the stack may be: for each place   *)
(* the thread can be in (Calm, Connecting, Failing, Leaving, Closing,      *)
(* Refusing) which statements come next, and that what lies under them     *)
(* (Rest) does no harm to whatever connection they leave behind.           *)
(***************************************************************************)
EXTENDS Reentrancy, SequenceTheorems, TLAPS

Ops == {"connect", "disconnect", "disconnectAfterTimeout", "setState", "emit", "stopPing",
        "sendData", "open", "close", "abort", "giveUp"}
Args == {"none"} \cup Signals
Statements == [op : Ops, arg : Args]

\* The end of the handshake is still to run.
GivingUp == \E i \in DOMAIN todo : todo[i].op = "giveUp"

IInv ==
    /\ todo \in Seq(Statements)
    /\ Live /\ ~ (sslErrors \subseteq AllowedSslErrors) => socket = "connecting" /\ GivingUp

-----------------------------------------------------------------------------
LEMMA StatementTypes ==
    /\ \A op \in Ops : Do(op) \in Statements /\ Do(op).op = op
    /\ \A s \in Args : SetState(s) \in Statements /\ Emit(s) \in Statements
BY DEF Do, SetState, Emit, Statements, Ops, Args

\* Lists of one, two and three statements.
LEMMA ListTypes ==
    /\ <<>> \in Seq(Statements)
    /\ \A s \in Statements : <<s>> \in Seq(Statements)
    /\ \A s, t \in Statements : <<s, t>> \in Seq(Statements)
    /\ \A s, t, u \in Statements :
           <<s, t, u>> \in Seq(Statements) /\ 3 \in DOMAIN <<s, t, u>> /\ <<s, t, u>>[3] = u
OBVIOUS

\* The bodies of the handlers are lists of statements.
LEMMA BodyTypes ==
    /\ ConnectBody \in Seq(Statements) /\ DisconnectBody \in Seq(Statements)
    /\ OnDisconnected \in Seq(Statements) /\ OnError \in Seq(Statements)
    /\ \A calls \in CallLists : calls \in Seq(Statements)
    /\ \A signal \in Args : <<Emit(signal)>> \in Seq(Statements)
    /\ <<>> \in Seq(Statements)
<1>1. /\ \A s \in {"OFFLINE", "CONNECTING", "DISCONNECTING"} : SetState(s) \in Statements
      /\ \A s \in {"disconnected", "error"} : Emit(s) \in Statements
      /\ \A op \in {"connect", "disconnect", "open", "close", "stopPing"} : Do(op) \in Statements
  BY StatementTypes DEF Ops, Args, Signals, StateChanges
<1>2. ConnectBody \in Seq(Statements) /\ DisconnectBody \in Seq(Statements)
  BY <1>1, ListTypes DEF ConnectBody, DisconnectBody
<1>3. OnDisconnected \in Seq(Statements) /\ OnError \in Seq(Statements)
  BY <1>1, ListTypes DEF OnDisconnected, OnError
<1>4. \A calls \in CallLists : calls \in Seq(Statements)
  <2> DEFINE connect == Do("connect")
             disconnect == Do("disconnect")
  <2>1. connect \in Statements /\ disconnect \in Statements
    BY <1>1
  <2>2. CallLists = {<<>>, <<connect>>, <<disconnect>>, <<disconnect, connect>>}
    BY DEF CallLists
  <2> HIDE DEF connect, disconnect
  <2>3. /\ <<connect>> \in Seq(Statements) /\ <<disconnect>> \in Seq(Statements)
        /\ <<disconnect, connect>> \in Seq(Statements)
    BY <2>1, ListTypes
  <2> QED
    BY <2>2, <2>3, ListTypes
<1> QED
  BY <1>2, <1>3, <1>4, StatementTypes, ListTypes

\* What a statement becomes is put before the rest, which is kept.
LEMMA RestIsKept ==
    ASSUME todo \in Seq(Statements), todo # <<>>,
           NEW s \in Seq(Statements), Becomes(s)
    PROVE  /\ todo' \in Seq(Statements)
           /\ GivingUp /\ ~ NextIs("giveUp") => GivingUp'
<1>1. Tail(todo) \in Seq(Statements) /\ todo' = s \o Tail(todo)
  BY DEF Becomes
<1>2. todo' \in Seq(Statements)
  BY <1>1
<1>3. ASSUME NEW i \in DOMAIN todo, todo[i].op = "giveUp", ~ NextIs("giveUp")
      PROVE  \E j \in DOMAIN todo' : todo'[j].op = "giveUp"
  <2>1. i # 1
    BY <1>3 DEF NextIs
  <2>2. i - 1 \in 1 .. Len(Tail(todo)) /\ Tail(todo)[i - 1] = todo[i]
    BY <1>3, <2>1
  <2>3. Len(s) + (i - 1) \in DOMAIN todo' /\ todo'[Len(s) + (i - 1)] = todo[i]
    BY <1>1, <2>2
  <2> QED
    BY <1>3, <2>3
<1> QED
  BY <1>2, <1>3 DEF GivingUp

LEMMA InitIInv == Init => IInv
BY DEF Init, IInv, Live

\* Statements that leave the socket alone.
LEMMA OtherStatements ==
    ASSUME IInv, Connect \/ Disconnect \/ DisconnectAfterTimeout \/ SetTheState \/ EmitToUser
                 \/ StopPing \/ SendData
    PROVE  IInv'
<1>1. /\ todo \in Seq(Statements) /\ todo # <<>> /\ ~ NextIs("giveUp")
      /\ UNCHANGED <<socket, sslErrors>>
  BY DEF IInv, Connect, Disconnect, DisconnectAfterTimeout, SetTheState, EmitToUser,
         StopPing, SendData, NextIs
<1>2. Arg \in Args
  <2>1. Head(todo) \in Statements
    BY <1>1
  <2> QED
    BY <2>1 DEF Arg, Statements
<1>4. \E s \in Seq(Statements) : Becomes(s)
  <2>1. CASE Connect
    BY <2>1, BodyTypes DEF Connect
  <2>2. CASE Disconnect \/ DisconnectAfterTimeout
    BY <2>2, BodyTypes DEF Disconnect, DisconnectAfterTimeout
  <2>3. CASE SetTheState
    <3>1. <<Emit(Arg)>> \in Seq(Statements)
      BY <1>2, BodyTypes
    <3> QED
      BY <2>3, <3>1, BodyTypes DEF SetTheState
  <2>4. CASE EmitToUser
    BY <2>4, BodyTypes DEF EmitToUser
  <2>5. CASE StopPing \/ SendData
    BY <2>5, BodyTypes DEF StopPing, SendData
  <2> QED
    BY <2>1, <2>2, <2>3, <2>4, <2>5
<1> QED
  BY <1>1, <1>4, RestIsKept DEF IInv, Live

\* Statements that open and close the socket.
LEMMA SocketStatements ==
    ASSUME IInv, Open \/ Close \/ Abort \/ GiveUp
    PROVE  IInv'
<1>1. todo \in Seq(Statements) /\ todo # <<>>
  BY DEF IInv, Open, Close, Abort, GiveUp, NextIs
<1>2. \E s \in Seq(Statements) : Becomes(s)
  BY BodyTypes DEF Open, Close, Abort, GiveUp, Gone
<1>3. todo' \in Seq(Statements)
  BY <1>1, <1>2, RestIsKept
<1>4. ~ NextIs("giveUp") => (GivingUp => GivingUp')
  BY <1>1, <1>2, RestIsKept
<1>5. CASE Open
  <2>1. ~ NextIs("giveUp")
    BY <1>5 DEF Open, NextIs
  <2> QED
    BY <1>3, <1>4, <1>5, <2>1 DEF Open, IInv, Live
<1>6. CASE Close \/ Abort
  <2>1. socket' \in {"unconnected", "closing"}
    BY <1>6 DEF Close, Abort, Gone
  <2> QED
    BY <1>3, <2>1 DEF IInv, Live
<1>7. CASE GiveUp
  BY <1>3, <1>7 DEF GiveUp, IInv, Live
<1> QED
  BY <1>5, <1>6, <1>7

\* Outside the handlers the stack is empty: no handshake is being given up.
LEMMA IdleSteps ==
    ASSUME IInv, Idle, Next
    PROVE  IInv'
<1>1. ~ RunStatement
  BY DEF Idle, RunStatement, Connect, Disconnect, DisconnectAfterTimeout, SetTheState,
         EmitToUser, StopPing, SendData, Open, Close, Abort, GiveUp, NextIs
<1>2. ~ GivingUp
  BY DEF Idle, GivingUp
<1>3. Live => sslErrors \subseteq AllowedSslErrors
  BY <1>2 DEF IInv
<1>4. CASE SslErrors
  <2> PICK errors \in SUBSET SslErrorKinds : sslErrors' = errors /\ todo' = OnSslErrors(errors)
    BY <1>4 DEF SslErrors
  <2>1. CASE SslErrorsAllowed(errors)
    BY <2>1, BodyTypes DEF SslErrorsAllowed, OnSslErrors, IInv
  <2>2. CASE ~ SslErrorsAllowed(errors)
    <3> DEFINE end == Do("giveUp")
    <3>0. end \in Statements /\ end.op = "giveUp"
      BY StatementTypes DEF Ops
    <3>1. todo' = OnError \o <<end>>
      BY <2>2 DEF OnSslErrors
    <3> HIDE DEF end
    <3>2. todo' \in Seq(Statements) /\ \E i \in DOMAIN todo' : todo'[i] = end
      <4>1. <<end>> \in Seq(Statements) /\ OnError \in Seq(Statements)
        BY <3>0, ListTypes, BodyTypes
      <4>2. Len(OnError) + 1 \in DOMAIN todo' /\ todo'[Len(OnError) + 1] = end
        BY <3>1, <4>1
      <4> QED
        BY <3>1, <4>1, <4>2
    <3>3. socket' = "connecting"
      BY <1>4 DEF SslErrors
    <3> QED
      BY <3>0, <3>2, <3>3 DEF IInv, GivingUp
  <2> QED
    BY <2>1, <2>2
<1>5. CASE ~ SslErrors
  <2>1. todo' \in Seq(Statements)
    <3>1. /\ \A s \in {"connected", "messageReceived", "error"} : Emit(s) \in Statements
          /\ \A op \in {"connect", "disconnect", "abort", "sendData", "disconnectAfterTimeout"} :
                 Do(op) \in Statements
      BY StatementTypes DEF Ops, Args, Signals
    <3>2. CASE UserCalls
      BY <3>1, <3>2, ListTypes DEF UserCalls
    <3>3. CASE OnConnackReceived \/ OnPublishReceived \/ SendPing \/ TextMessageReceived
      <4>1. \/ todo' = <<>> \/ todo' = <<Emit("connected")>> \/ todo' = <<Emit("error")>>
            \/ todo' = <<Emit("error"), Do("abort")>>
            \/ todo' = <<Emit("error"), Do("disconnectAfterTimeout")>>
            \/ todo' = <<Emit("messageReceived")>>
            \/ todo' = <<Emit("messageReceived"), Do("sendData")>>
        BY <3>3 DEF OnConnackReceived, OnPublishReceived, SendPing, TextMessageReceived
      <4>2. /\ <<Emit("connected")>> \in Seq(Statements) /\ <<Emit("error")>> \in Seq(Statements)
            /\ <<Emit("messageReceived")>> \in Seq(Statements)
        BY <3>1, ListTypes
      <4>3. /\ <<Emit("error"), Do("abort")>> \in Seq(Statements)
            /\ <<Emit("error"), Do("disconnectAfterTimeout")>> \in Seq(Statements)
            /\ <<Emit("messageReceived"), Do("sendData")>> \in Seq(Statements)
        BY <3>1, ListTypes
      <4> QED
        BY <4>1, <4>2, <4>3, ListTypes
    <3>4. CASE SocketError \/ SocketDisconnected
      BY <3>4, BodyTypes DEF SocketError, SocketDisconnected
    <3>5. CASE OnSocketConnected \/ OnPongReceived \/ TimerTimeout \/ SocketConnected
               \/ BrokerConnack \/ BrokerSends
      BY <3>5 DEF IInv, OnSocketConnected, OnPongReceived, TimerTimeout, SocketConnected,
                  BrokerConnack, BrokerSends
    <3> QED
      BY <1>1, <1>5, <3>2, <3>3, <3>4, <3>5 DEF Next
  <2>2. sslErrors' = sslErrors /\ (Live' => Live)
    BY <1>1, <1>5
    DEF Next, Live, UserCalls, OnSocketConnected, OnConnackReceived, OnPublishReceived,
        OnPongReceived, SendPing, TimerTimeout, SocketConnected, SocketError,
        SocketDisconnected, TextMessageReceived, BrokerConnack, BrokerSends
  <2> QED
    BY <1>3, <2>1, <2>2 DEF IInv
<1> QED
  BY <1>4, <1>5

LEMMA StepIInv == IInv /\ [Next]_vars => IInv'
<1> SUFFICES ASSUME IInv, [Next]_vars PROVE IInv'
  OBVIOUS
<1>1. CASE RunStatement
  BY <1>1, OtherStatements, SocketStatements DEF RunStatement
<1>2. CASE Next /\ Idle
  BY <1>2, IdleSteps
<1>3. Next => RunStatement \/ Idle
  BY DEF Next, UserCalls, OnSocketConnected, OnConnackReceived, OnPublishReceived,
         OnPongReceived, SendPing, TimerTimeout, SocketConnected, SslErrors, SocketError,
         SocketDisconnected, TextMessageReceived, BrokerConnack, BrokerSends, Runs
<1>4. CASE UNCHANGED vars
  BY <1>4 DEF vars, IInv, Live, GivingUp
<1> QED
  BY <1>1, <1>2, <1>3, <1>4

\* Whatever slots call connect() and disconnect() from whatever signal, no connection is
\* completed whose certificate has an error that is not allowed (sslErrorsAllowed and the
\* lambda on sslErrors).
THEOREM CertificatesAreFiltered == Spec => []OnlyAllowedErrors
<1>1. Init => IInv
  BY InitIInv
<1>2. IInv /\ [Next]_vars => IInv'
  BY StepIInv
<1>3. IInv => OnlyAllowedErrors
  BY DEF IInv, OnlyAllowedErrors, Live
<1> QED
  BY <1>1, <1>2, <1>3, PTL DEF Spec

-----------------------------------------------------------------------------
(* The stack of the thread, from its top                                       *)
(*                                                                             *)
(* The other properties hold for slots that keep to what a client can rely on: *)
(* connect() from any signal that is not emitted on the way to OFFLINE, and    *)
(* disconnect() where it is not undone by the rest of the handler.  The run    *)
(* checks the largest sets of this kind.                                       *)

CallsAllowed ==
    /\ ConnectFrom \subseteq {"connected", "messageReceived", "disconnected", "CONNECTING",
                              "DISCONNECTING"}
    /\ DisconnectFrom \subseteq {"connected", "messageReceived", "disconnected", "OFFLINE"}

Then(a, lists) == {<<a>> \o q : q \in lists}
Lists == SUBSET Seq(Statements)

\* What can be left under a handler: calls of connect() that follow a disconnect() in the
\* same slot, and the acknowledgement of a message.
Rest == Seq({Do("connect"), Do("sendData")})

LEMMA RestType == Rest \in Lists
<1>1. Do("connect") \in Statements /\ Do("sendData") \in Statements
  BY StatementTypes DEF Ops
<1>2. QED
  BY <1>1 DEF Rest, Lists

LEMMA ThenType ==
    ASSUME NEW a \in Statements, NEW lists \in Lists
    PROVE  Then(a, lists) \in Lists
<1>1. ASSUME NEW q \in lists PROVE <<a>> \o q \in Seq(Statements)
  <2>1. <<a>> \in Seq(Statements) /\ q \in Seq(Statements)
    BY DEF Lists
  <2>2. QED
    BY <2>1, ConcatProperties
<1>2. QED
  BY <1>1 DEF Then, Lists

\* The top of the stack and what is under it.
LEMMA ThenTop ==
    ASSUME NEW a \in Statements, NEW lists \in Lists, NEW s \in Then(a, lists)
    PROVE  s # <<>> /\ Head(s) = a /\ Tail(s) \in lists
<1>1. PICK q \in lists : s = <<a>> \o q
  BY DEF Then
<1>2. q \in Seq(Statements) /\ <<a>> \in Seq(Statements) /\ Len(<<a>>) = 1 /\ <<a>>[1] = a
  BY DEF Lists
<1>3. /\ s \in Seq(Statements) /\ Len(s) = 1 + Len(q) /\ s[1] = a
      /\ \A i \in 1 .. Len(q) : s[i + 1] = q[i]
  BY <1>1, <1>2
<1>4. s # <<>> /\ Head(s) = a
  BY <1>2, <1>3
<1>5. Tail(s) = q
  BY <1>2, <1>3, <1>4
<1>6. QED
  BY <1>4, <1>5

LEMMA ListSplit ==
    /\ \A a, b \in Statements : <<a, b>> = <<a>> \o <<b>>
    /\ \A a, b, c \in Statements : <<a, b, c>> = <<a>> \o <<b, c>>
<1>1. ASSUME NEW a \in Statements, NEW b \in Statements PROVE <<a, b>> = <<a>> \o <<b>>
  <2>1. /\ <<a>> \in Seq(Statements) /\ <<b>> \in Seq(Statements)
        /\ Len(<<a>>) = 1 /\ Len(<<b>>) = 1 /\ <<a>>[1] = a /\ <<b>>[1] = b
    OBVIOUS
  <2>2. /\ <<a>> \o <<b>> \in Seq(Statements) /\ Len(<<a>> \o <<b>>) = 2
        /\ (<<a>> \o <<b>>)[1] = a /\ (<<a>> \o <<b>>)[2] = b
    BY <2>1, ConcatProperties
  <2>3. /\ <<a, b>> \in Seq(Statements) /\ Len(<<a, b>>) = 2
        /\ <<a, b>>[1] = a /\ <<a, b>>[2] = b
    OBVIOUS
  <2>4. \A i \in 1 .. 2 : i = 1 \/ i = 2
    OBVIOUS
  <2>5. QED
    BY <2>2, <2>3, <2>4, SeqEqual
<1>2. \A a, b, c \in Statements : <<a, b, c>> = <<a>> \o <<b, c>>
  OBVIOUS
<1>3. QED
  BY <1>1, <1>2

\* Statements put on the stack.
LEMMA ThenPush ==
    ASSUME NEW lists \in Lists, NEW q \in lists
    PROVE  /\ <<>> \o q \in lists
           /\ \A a \in Statements : <<a>> \o q \in Then(a, lists)
           /\ \A a, b \in Statements : <<a, b>> \o q \in Then(a, Then(b, lists))
           /\ \A a, b, c \in Statements : <<a, b, c>> \o q \in Then(a, Then(b, Then(c, lists)))
<1>1. q \in Seq(Statements)
  BY DEF Lists
<1>2. <<>> \o q = q
  BY <1>1
<1>3. \A a \in Statements : <<a>> \o q \in Then(a, lists)
  BY DEF Then
<1>4. ASSUME NEW a \in Statements, NEW b \in Statements
      PROVE  <<a, b>> \o q \in Then(a, Then(b, lists))
  <2>1. <<a, b>> \o q = <<a>> \o (<<b>> \o q)
    <3>1. <<a>> \in Seq(Statements) /\ <<b>> \in Seq(Statements)
      BY ListTypes
    <3>2. (<<a>> \o <<b>>) \o q = <<a>> \o (<<b>> \o q)
      BY <1>1, <3>1, ConcatAssociative
    <3>3. QED
      BY <3>2, ListSplit
  <2>2. <<b>> \o q \in Then(b, lists)
    BY <1>3
  <2>3. QED
    BY <2>1, <2>2 DEF Then
<1>5. ASSUME NEW a \in Statements, NEW b \in Statements, NEW c \in Statements
      PROVE  <<a, b, c>> \o q \in Then(a, Then(b, Then(c, lists)))
  <2>1. <<a, b, c>> \o q = <<a>> \o (<<b, c>> \o q)
    <3>1. <<a>> \in Seq(Statements) /\ <<b, c>> \in Seq(Statements)
      BY ListTypes
    <3>2. (<<a>> \o <<b, c>>) \o q = <<a>> \o (<<b, c>> \o q)
      BY <1>1, <3>1, ConcatAssociative
    <3>3. QED
      BY <3>2, ListSplit
  <2>2. <<b, c>> \o q \in Then(b, Then(c, lists))
    BY <1>4
  <2>3. QED
    BY <2>1, <2>2 DEF Then
<1>6. QED
  BY <1>2, <1>3, <1>4, <1>5

\* The statement at the top decides which action runs.
LEMMA TopRuns ==
    ASSUME Next, NEW a \in Statements, NEW lists \in Lists, todo \in Then(a, lists)
    PROVE  /\ a.op = "connect" => Connect
           /\ a.op = "disconnect" => Disconnect
           /\ a.op = "disconnectAfterTimeout" => DisconnectAfterTimeout
           /\ a.op = "setState" => SetTheState
           /\ a.op = "emit" => EmitToUser
           /\ a.op = "stopPing" => StopPing
           /\ a.op = "sendData" => SendData
           /\ a.op = "open" => Open
           /\ a.op = "close" => Close
           /\ a.op = "abort" => Abort
           /\ a.op = "giveUp" => GiveUp
<1>1. todo # <<>> /\ Head(todo) = a
  BY ThenTop
<1>2. RunStatement
  BY <1>1
     DEF Next, UserCalls, OnSocketConnected, OnConnackReceived, OnPublishReceived,
         OnPongReceived, SendPing, TimerTimeout, SocketConnected, SslErrors, SocketError,
         SocketDisconnected, TextMessageReceived, BrokerConnack, BrokerSends, Runs, Idle
<1>3. \A op : NextIs(op) => a.op = op
  BY <1>1 DEF NextIs
<1>4. QED
  BY <1>2, <1>3
     DEF RunStatement, Connect, Disconnect, DisconnectAfterTimeout, SetTheState, EmitToUser,
         StopPing, SendData, Open, Close, Abort, GiveUp

LEMMA BecomesList ==
    ASSUME NEW a \in Statements, NEW lists \in Lists, todo \in Then(a, lists)
    PROVE  /\ Becomes(<<>>) => todo' \in lists
           /\ \A x \in Statements : Becomes(<<x>>) => todo' \in Then(x, lists)
           /\ \A x, y \in Statements : Becomes(<<x, y>>) => todo' \in Then(x, Then(y, lists))
           /\ \A x, y, z \in Statements :
                 Becomes(<<x, y, z>>) => todo' \in Then(x, Then(y, Then(z, lists)))
<1>1. PICK q \in lists : q = Tail(todo)
  BY ThenTop
<1>2. \A s : Becomes(s) => todo' = s \o q
  BY <1>1 DEF Becomes
<1>3. /\ <<>> \o q \in lists
      /\ \A x \in Statements : <<x>> \o q \in Then(x, lists)
      /\ \A x, y \in Statements : <<x, y>> \o q \in Then(x, Then(y, lists))
      /\ \A x, y, z \in Statements : <<x, y, z>> \o q \in Then(x, Then(y, Then(z, lists)))
  BY ThenPush
<1>4. QED
  BY <1>2, <1>3, Zenon

-----------------------------------------------------------------------------
(* What each statement does to the stack, the state and the socket *)

LEMMA StatementParts ==
    /\ \A op \in Ops : Do(op) \in Statements /\ Do(op).op = op
    /\ \A s \in StateChanges :
          SetState(s) \in Statements /\ SetState(s).op = "setState" /\ SetState(s).arg = s
    /\ \A s \in Signals : Emit(s) \in Statements /\ Emit(s).op = "emit" /\ Emit(s).arg = s
BY StatementTypes DEF Do, SetState, Emit, Signals, Args

LEMMA Names ==
    /\ StateChanges \subseteq Signals
    /\ {"OFFLINE", "CONNECTING", "DISCONNECTING"} \subseteq StateChanges
    /\ {"connected", "disconnected", "messageReceived", "error"} \subseteq Signals
    /\ {"connect", "disconnect", "disconnectAfterTimeout", "setState", "emit", "stopPing",
        "sendData", "open", "close", "abort", "giveUp"} \subseteq Ops
BY DEF StateChanges, Signals, Ops

LEMMA SetStateRuns ==
    ASSUME Next, NEW s \in StateChanges, NEW lists \in Lists, todo \in Then(SetState(s), lists)
    PROVE  /\ state' = s /\ UNCHANGED <<socket, sslErrors, wish>>
           /\ state = s => todo' \in lists
           /\ state # s => todo' \in Then(Emit(s), lists)
<1>1. /\ SetState(s) \in Statements /\ SetState(s).op = "setState" /\ SetState(s).arg = s
      /\ Emit(s) \in Statements
  BY StatementParts, Names
<1>2. SetTheState /\ Arg = s
  BY <1>1, TopRuns, ThenTop DEF Arg
<1>3. QED
  BY <1>1, <1>2, BecomesList DEF SetTheState

LEMMA EmitRuns ==
    ASSUME Next, NEW s \in Signals, NEW lists \in Lists, todo \in Then(Emit(s), lists)
    PROVE  /\ UNCHANGED <<state, socket, sslErrors, wish>>
           /\ \/ todo' \in lists
              \/ s \in ConnectFrom /\ todo' \in Then(Do("connect"), lists)
              \/ s \in DisconnectFrom /\ todo' \in Then(Do("disconnect"), lists)
              \/ /\ s \in ConnectFrom /\ s \in DisconnectFrom
                 /\ todo' \in Then(Do("disconnect"), Then(Do("connect"), lists))
<1>1. /\ Emit(s) \in Statements /\ Emit(s).op = "emit" /\ Emit(s).arg = s
      /\ Do("connect") \in Statements /\ Do("disconnect") \in Statements
  BY StatementParts, Names
<1>2. EmitToUser /\ Arg = s
  BY <1>1, TopRuns, ThenTop DEF Arg
<1>3. PICK calls \in CallLists : MayCall(s, calls) /\ Becomes(calls)
  BY <1>2 DEF EmitToUser
<1>4. CASE calls = <<>>
  BY <1>1, <1>2, <1>3, <1>4, BecomesList DEF EmitToUser
<1>5. CASE calls = <<Do("connect")>>
  <2>1. s \in ConnectFrom
    <3>1. 1 \in DOMAIN calls /\ calls[1] = Do("connect")
      BY <1>5
    <3>2. QED
      BY <1>3, <3>1 DEF MayCall
  <2>2. todo' \in Then(Do("connect"), lists)
    BY <1>1, <1>3, <1>5, BecomesList
  <2>3. QED
    BY <1>2, <2>1, <2>2 DEF EmitToUser
<1>6. CASE calls = <<Do("disconnect")>>
  <2>1. s \in DisconnectFrom
    <3>1. 1 \in DOMAIN calls /\ calls[1] = Do("disconnect")
      BY <1>6
    <3>2. QED
      BY <1>3, <3>1 DEF MayCall
  <2>2. todo' \in Then(Do("disconnect"), lists)
    BY <1>1, <1>3, <1>6, BecomesList
  <2>3. QED
    BY <1>2, <2>1, <2>2 DEF EmitToUser
<1>7. CASE calls = <<Do("disconnect"), Do("connect")>>
  <2>1. s \in DisconnectFrom /\ s \in ConnectFrom
    <3>1. /\ 1 \in DOMAIN calls /\ calls[1] = Do("disconnect")
          /\ 2 \in DOMAIN calls /\ calls[2] = Do("connect")
      BY <1>7
    <3>2. QED
      BY <1>3, <3>1 DEF MayCall
  <2>2. todo' \in Then(Do("disconnect"), Then(Do("connect"), lists))
    BY <1>1, <1>3, <1>7, BecomesList
  <2>3. QED
    BY <1>2, <2>1, <2>2 DEF EmitToUser
<1>8. QED
  BY <1>3, <1>4, <1>5, <1>6, <1>7 DEF CallLists

LEMMA ConnectRuns ==
    ASSUME Next, NEW lists \in Lists, todo \in Then(Do("connect"), lists)
    PROVE  /\ wish' = "connect" /\ UNCHANGED <<state, socket, sslErrors>>
           /\ state # "OFFLINE" => todo' \in lists
           /\ state = "OFFLINE" => todo' \in Then(SetState("CONNECTING"), Then(Do("open"), lists))
<1>1. /\ Do("connect") \in Statements /\ Do("connect").op = "connect"
      /\ SetState("CONNECTING") \in Statements /\ Do("open") \in Statements
  BY StatementParts, Names
<1>2. Connect
  BY <1>1, TopRuns
<1>3. Becomes(<<SetState("CONNECTING"), Do("open")>>)
         => todo' \in Then(SetState("CONNECTING"), Then(Do("open"), lists))
  BY <1>1, BecomesList
<1>4. Becomes(<<>>) => todo' \in lists
  BY <1>1, BecomesList
<1>5. QED
  BY <1>2, <1>3, <1>4 DEF Connect, CanConnect, ConnectBody

Disconnecting(lists) ==
    Then(Do("stopPing"), Then(SetState("DISCONNECTING"), Then(Do("close"), lists)))

LEMMA DisconnectRuns ==
    ASSUME Next, NEW op \in {"disconnect", "disconnectAfterTimeout"}, NEW lists \in Lists,
           todo \in Then(Do(op), lists)
    PROVE  /\ UNCHANGED <<state, socket, sslErrors>>
           /\ wish' = IF op = "disconnect" THEN "disconnect" ELSE wish
           /\ state = "OFFLINE" => todo' \in lists
           /\ state # "OFFLINE" => todo' \in Disconnecting(lists)
<1>1. /\ Do(op) \in Statements /\ Do(op).op = op /\ Do("stopPing") \in Statements
      /\ SetState("DISCONNECTING") \in Statements /\ Do("close") \in Statements
  BY StatementParts, Names
<1>2. IF op = "disconnect" THEN Disconnect ELSE DisconnectAfterTimeout
  BY <1>1, TopRuns
<1>3. Becomes(<<Do("stopPing"), SetState("DISCONNECTING"), Do("close")>>)
         => todo' \in Disconnecting(lists)
  BY <1>1, BecomesList DEF Disconnecting
<1>4. Becomes(<<>>) => todo' \in lists
  BY <1>1, BecomesList
<1>5. QED
  BY <1>2, <1>3, <1>4 DEF Disconnect, DisconnectAfterTimeout, CanDisconnect, DisconnectBody

LEMMA TimerRuns ==
    ASSUME Next, NEW op \in {"stopPing", "sendData"}, NEW lists \in Lists,
           todo \in Then(Do(op), lists)
    PROVE  UNCHANGED <<state, socket, sslErrors, wish>> /\ todo' \in lists
<1>1. Do(op) \in Statements /\ Do(op).op = op
  BY StatementParts, Names
<1>2. StopPing \/ SendData
  BY <1>1, TopRuns
<1>3. Becomes(<<>>) => todo' \in lists
  BY <1>1, BecomesList
<1>4. QED
  BY <1>2, <1>3 DEF StopPing, SendData

LEMMA OpenRuns ==
    ASSUME Next, NEW lists \in Lists, todo \in Then(Do("open"), lists)
    PROVE  /\ UNCHANGED <<state, wish>>
           /\ \/ socket' = "connecting" /\ todo' \in lists
              \/ /\ socket' = socket
                 /\ todo' \in Then(Emit("error"), Then(SetState("OFFLINE"), lists))
<1>1. /\ Do("open") \in Statements /\ Do("open").op = "open"
      /\ SetState("OFFLINE") \in Statements /\ Emit("error") \in Statements
  BY StatementParts, Names
<1>2. Open
  BY <1>1, TopRuns
<1>3. Becomes(<<Emit("error"), SetState("OFFLINE")>>)
         => todo' \in Then(Emit("error"), Then(SetState("OFFLINE"), lists))
  BY <1>1, BecomesList
<1>4. Becomes(<<>>) => todo' \in lists
  BY <1>1, BecomesList
<1>5. QED
  BY <1>2, <1>3, <1>4 DEF Open, OnError

Disconnected(lists) == Then(SetState("OFFLINE"), Then(Emit("disconnected"), lists))

LEMMA EndRuns ==
    ASSUME Next, NEW op \in {"close", "abort"}, NEW lists \in Lists, todo \in Then(Do(op), lists)
    PROVE  /\ UNCHANGED <<state, wish>>
           /\ \/ socket' = "unconnected" /\ todo' \in Disconnected(lists)
              \/ /\ op = "close" /\ todo' \in lists
                 /\ socket' = IF socket = "unconnected" THEN socket ELSE "closing"
              \/ op = "abort" /\ todo' \in lists /\ socket = "unconnected" /\ socket' = socket
<1>1. /\ Do(op) \in Statements /\ Do(op).op = op
      /\ SetState("OFFLINE") \in Statements /\ Emit("disconnected") \in Statements
  BY StatementParts, Names
<1>2. IF op = "close" THEN Close ELSE Abort
  BY <1>1, TopRuns
<1>3. Becomes(<<SetState("OFFLINE"), Emit("disconnected")>>) => todo' \in Disconnected(lists)
  BY <1>1, BecomesList DEF Disconnected
<1>4. Becomes(<<>>) => todo' \in lists
  BY <1>1, BecomesList
<1>5. QED
  BY <1>2, <1>3, <1>4 DEF Close, Abort, Gone, OnDisconnected

LEMMA GiveUpRuns ==
    ASSUME Next, NEW lists \in Lists, todo \in Then(Do("giveUp"), lists)
    PROVE  /\ UNCHANGED <<state, wish>> /\ todo' \in lists
           /\ socket' = IF socket = "connecting" /\ sslErrors # {} THEN "closing" ELSE socket
<1>1. Do("giveUp") \in Statements /\ Do("giveUp").op = "giveUp"
  BY StatementParts, Names
<1>2. GiveUp
  BY <1>1, TopRuns
<1>3. Becomes(<<>>) => todo' \in lists
  BY <1>1, BecomesList
<1>4. QED
  BY <1>2, <1>3 DEF GiveUp

-----------------------------------------------------------------------------
(* Where the stack can be, and what holds of the state and the socket there *)

Types ==
    /\ state \in StateChanges /\ wish \in {"connect", "disconnect"}
    /\ socket \in {"unconnected", "connecting", "connected", "closing"}

Agrees == (state = "CONNECTING" <=> Live) /\ (state = "DISCONNECTING" => socket = "closing")
Settled == Agrees /\ (wish = "disconnect" => ~ Live)

\* No handler has begun, or one that starts by telling the user.
Calm ==
    /\ Settled
    /\ \/ todo \in Rest
       \/ todo \in Then(Do("disconnect"), Rest)
       \/ \E s \in {"connected", "messageReceived", "error", "OFFLINE"} : todo \in Then(Emit(s), Rest)
       \/ \E op \in {"abort", "disconnectAfterTimeout"} :
             \/ todo \in Then(Do(op), Rest)
             \/ todo \in Then(Emit("error"), Then(Do(op), Rest))

\* connect() is on its way to open().
Connecting ==
    /\ ~ Live /\ wish = "connect"
    /\ \/ /\ state = "OFFLINE"
          /\ todo \in Then(SetState("CONNECTING"), Then(Do("open"), Rest))
       \/ /\ state = "CONNECTING"
          /\ \/ todo \in Then(Emit("CONNECTING"), Then(Do("open"), Rest))
             \/ todo \in Then(Do("connect"), Then(Do("open"), Rest))
             \/ todo \in Then(Do("open"), Rest)

\* The socket failed, and the state is still to follow.
Failing ==
    /\ ~ Live
    /\ \/ todo \in Then(Emit("error"), Then(SetState("OFFLINE"), Rest))
       \/ todo \in Then(SetState("OFFLINE"), Rest)

\* The socket is gone, and the user is still to be told.
Leaving ==
    /\ socket = "unconnected"
    /\ \/ todo \in Disconnected(Rest)
       \/ /\ state = "OFFLINE"
          /\ \/ todo \in Then(Emit("OFFLINE"), Then(Emit("disconnected"), Rest))
             \/ todo \in Then(Do("disconnect"), Then(Emit("disconnected"), Rest))
             \/ todo \in Then(Emit("disconnected"), Rest)

\* disconnect() is on its way to close().
Closing ==
    /\ socket # "unconnected" /\ state # "OFFLINE"
    /\ \/ todo \in Disconnecting(Rest)
       \/ todo \in Then(SetState("DISCONNECTING"), Then(Do("close"), Rest))
       \/ /\ state = "DISCONNECTING"
          /\ \/ todo \in Then(Emit("DISCONNECTING"), Then(Do("close"), Rest))
             \/ todo \in Then(Do("connect"), Then(Do("close"), Rest))
             \/ todo \in Then(Do("close"), Rest)

\* The handshake is to be given up for the errors of the certificate.
Refusing ==
    /\ socket = "connecting" /\ sslErrors # {}
    /\ \/ todo \in Then(Emit("error"), Then(SetState("OFFLINE"), Then(Do("giveUp"), Rest)))
       \/ todo \in Then(SetState("OFFLINE"), Then(Do("giveUp"), Rest))
       \/ /\ state = "OFFLINE"
          /\ \/ todo \in Then(Emit("OFFLINE"), Then(Do("giveUp"), Rest))
             \/ todo \in Then(Do("disconnect"), Then(Do("giveUp"), Rest))
             \/ todo \in Then(Do("giveUp"), Rest)

StackInv == Types /\ (Calm \/ Connecting \/ Failing \/ Leaving \/ Closing \/ Refusing)

\* The parts of the stack are lists of statements.
LEMMA PartTypes ==
    /\ Rest \in Lists
    /\ \A op \in Ops : Then(Do(op), Rest) \in Lists
    /\ \A s \in StateChanges : Then(SetState(s), Rest) \in Lists
    /\ \A s \in Signals : Then(Emit(s), Rest) \in Lists
    /\ Then(SetState("OFFLINE"), Then(Do("giveUp"), Rest)) \in Lists
    /\ Then(SetState("DISCONNECTING"), Then(Do("close"), Rest)) \in Lists
    /\ Then(Do("connect"), Rest) \subseteq Rest /\ Then(Do("sendData"), Rest) \subseteq Rest
<1>1. Rest \in Lists /\ \A a \in Statements : Then(a, Rest) \in Lists
  BY RestType, ThenType
<1>2. \A a, b \in Statements : Then(a, Then(b, Rest)) \in Lists
  BY <1>1, ThenType
<1>3. ASSUME NEW op \in {"connect", "sendData"} PROVE Then(Do(op), Rest) \subseteq Rest
  <2>1. ASSUME NEW q \in Rest PROVE <<Do(op)>> \o q \in Rest
    <3>1. <<Do(op)>> \in Rest
      BY DEF Rest
    <3>2. QED
      BY <3>1, ConcatProperties DEF Rest
  <2>2. QED
    BY <2>1 DEF Then
<1>4. QED
  BY <1>1, <1>2, <1>3, StatementParts, Names

\* A stack that only has such calls is empty, or has one of them at the top.
LEMMA RestTop ==
    ASSUME todo \in Rest, todo # <<>>
    PROVE  todo \in Then(Do("connect"), Rest) \/ todo \in Then(Do("sendData"), Rest)
<1>1. /\ Head(todo) \in {Do("connect"), Do("sendData")} /\ Tail(todo) \in Rest
      /\ todo = <<Head(todo)>> \o Tail(todo)
  BY HeadTailProperties DEF Rest
<1>2. QED
  BY <1>1 DEF Then

-----------------------------------------------------------------------------
(* One step from each of these places *)

\* A handler that tells the user, or that sendPing or onConnackReceived begins.
LEMMA CalmSteps ==
    ASSUME CallsAllowed, Types, Calm, Next, todo # <<>>
    PROVE  StackInv'
<1>1. CASE todo \in Then(Do("connect"), Rest)
  <2>1. /\ wish' = "connect" /\ UNCHANGED <<state, socket, sslErrors>>
        /\ state # "OFFLINE" => todo' \in Rest
        /\ state = "OFFLINE" => todo' \in Then(SetState("CONNECTING"), Then(Do("open"), Rest))
    BY <1>1, PartTypes, ConnectRuns
  <2>2. state = "OFFLINE" => ~ Live
    BY DEF Calm, Settled, Agrees
  <2>3. CASE state = "OFFLINE"
    BY <2>1, <2>2, <2>3 DEF StackInv, Types, Connecting, Live
  <2>4. CASE state # "OFFLINE"
    BY <2>1, <2>4 DEF StackInv, Types, Calm, Settled, Agrees, Live
  <2>5. QED
    BY <2>3, <2>4
<1>2. CASE todo \in Then(Do("sendData"), Rest)
  <2>1. UNCHANGED <<state, socket, sslErrors, wish>> /\ todo' \in Rest
    BY <1>2, PartTypes, TimerRuns
  <2>2. QED
    BY <2>1 DEF StackInv, Types, Calm, Settled, Agrees, Live
<1>3. ASSUME NEW op \in {"disconnect", "disconnectAfterTimeout"}, todo \in Then(Do(op), Rest)
      PROVE  StackInv'
  <2>1. /\ UNCHANGED <<state, socket, sslErrors>>
        /\ wish' = IF op = "disconnect" THEN "disconnect" ELSE wish
        /\ state = "OFFLINE" => todo' \in Rest
        /\ state # "OFFLINE" => todo' \in Disconnecting(Rest)
    BY <1>3, PartTypes, DisconnectRuns
  <2>2. /\ state = "OFFLINE" => ~ Live
        /\ state # "OFFLINE" => socket # "unconnected"
    BY DEF Calm, Settled, Agrees, Types, StateChanges, Live
  <2>3. CASE state = "OFFLINE"
    BY <2>1, <2>2, <2>3 DEF StackInv, Types, Calm, Settled, Agrees, Live
  <2>4. CASE state # "OFFLINE"
    BY <2>1, <2>2, <2>4 DEF StackInv, Types, Closing
  <2>5. QED
    BY <2>3, <2>4
<1>4. ASSUME NEW s \in {"connected", "messageReceived", "error", "OFFLINE"},
             todo \in Then(Emit(s), Rest)
      PROVE  StackInv'
  <2>1. s \in Signals
    BY DEF Signals, StateChanges
  <2>2. /\ UNCHANGED <<state, socket, sslErrors, wish>>
        /\ \/ todo' \in Rest
           \/ todo' \in Then(Do("connect"), Rest)
           \/ todo' \in Then(Do("disconnect"), Rest)
           \/ todo' \in Then(Do("disconnect"), Then(Do("connect"), Rest))
    BY <1>4, <2>1, PartTypes, EmitRuns
  <2>3. Then(Do("disconnect"), Then(Do("connect"), Rest)) \subseteq Then(Do("disconnect"), Rest)
    BY PartTypes DEF Then
  <2>4. todo' \in Rest \/ todo' \in Then(Do("disconnect"), Rest)
    BY <2>2, <2>3, PartTypes
  <2>5. QED
    BY <2>2, <2>4 DEF StackInv, Types, Calm, Settled, Agrees, Live
<1>5. CASE todo \in Then(Do("abort"), Rest)
  <2>1. /\ UNCHANGED <<state, wish>>
        /\ \/ socket' = "unconnected" /\ todo' \in Disconnected(Rest)
           \/ todo' \in Rest /\ socket = "unconnected" /\ socket' = socket
    BY <1>5, PartTypes, EndRuns
  <2>2. CASE socket' = "unconnected" /\ todo' \in Disconnected(Rest)
    BY <2>1, <2>2 DEF StackInv, Types, Leaving
  <2>3. CASE todo' \in Rest /\ socket' = socket
    BY <2>1, <2>3 DEF StackInv, Types, Calm, Settled, Agrees, Live
  <2>4. QED
    BY <2>1, <2>2, <2>3
<1>6. ASSUME NEW op \in {"abort", "disconnectAfterTimeout"},
             todo \in Then(Emit("error"), Then(Do(op), Rest))
      PROVE  StackInv'
  <2>1. Then(Do(op), Rest) \in Lists /\ "error" \in Signals
    BY PartTypes, Names
  <2>2. "error" \notin ConnectFrom /\ "error" \notin DisconnectFrom
    BY DEF CallsAllowed
  <2>3. UNCHANGED <<state, socket, sslErrors, wish>> /\ todo' \in Then(Do(op), Rest)
    BY <1>6, <2>1, <2>2, EmitRuns
  <2>4. QED
    BY <2>3 DEF StackInv, Types, Calm, Settled, Agrees, Live
<1>7. QED
  BY <1>1, <1>2, <1>3, <1>4, <1>5, <1>6, RestTop DEF Calm

\* connect(), up to a socket that connects or an error.
LEMMA ConnectingSteps ==
    ASSUME CallsAllowed, Types, Connecting, Next
    PROVE  StackInv'
<1>0. Then(Do("open"), Rest) \in Lists
  BY PartTypes, Names
<1>1. CASE state = "OFFLINE" /\ todo \in Then(SetState("CONNECTING"), Then(Do("open"), Rest))
  <2>1. /\ state' = "CONNECTING" /\ UNCHANGED <<socket, sslErrors, wish>>
        /\ todo' \in Then(Emit("CONNECTING"), Then(Do("open"), Rest))
    BY <1>0, <1>1, Names, SetStateRuns
  <2>2. QED
    BY <2>1 DEF StackInv, Types, Connecting, Live, StateChanges
<1>2. CASE state = "CONNECTING" /\ todo \in Then(Emit("CONNECTING"), Then(Do("open"), Rest))
  <2>1. "CONNECTING" \notin DisconnectFrom /\ "CONNECTING" \in Signals
    BY DEF CallsAllowed, Signals, StateChanges
  <2>2. /\ UNCHANGED <<state, socket, sslErrors, wish>>
        /\ todo' \in Then(Do("open"), Rest) \/ todo' \in Then(Do("connect"), Then(Do("open"), Rest))
    BY <1>0, <1>2, <2>1, EmitRuns
  <2>3. QED
    BY <1>2, <2>2 DEF StackInv, Types, Connecting, Live
<1>3. CASE state = "CONNECTING" /\ todo \in Then(Do("connect"), Then(Do("open"), Rest))
  <2>1. /\ wish' = "connect" /\ UNCHANGED <<state, socket, sslErrors>>
        /\ todo' \in Then(Do("open"), Rest)
    BY <1>0, <1>3, ConnectRuns
  <2>2. QED
    BY <1>3, <2>1 DEF StackInv, Types, Connecting, Live
<1>4. CASE state = "CONNECTING" /\ todo \in Then(Do("open"), Rest)
  <2>1. /\ UNCHANGED <<state, wish>>
        /\ \/ socket' = "connecting" /\ todo' \in Rest
           \/ /\ socket' = socket
              /\ todo' \in Then(Emit("error"), Then(SetState("OFFLINE"), Rest))
    BY <1>4, PartTypes, OpenRuns
  <2>2. CASE socket' = "connecting" /\ todo' \in Rest
    BY <1>4, <2>1, <2>2 DEF StackInv, Types, Connecting, Calm, Settled, Agrees, Live
  <2>3. CASE socket' = socket /\ todo' \in Then(Emit("error"), Then(SetState("OFFLINE"), Rest))
    BY <1>4, <2>1, <2>3 DEF StackInv, Types, Connecting, Failing, Live
  <2>4. QED
    BY <2>1, <2>2, <2>3
<1>5. QED
  BY <1>1, <1>2, <1>3, <1>4 DEF Connecting

\* The lambda on error().
LEMMA FailingSteps ==
    ASSUME CallsAllowed, Types, Failing, Next
    PROVE  StackInv'
<1>1. CASE todo \in Then(Emit("error"), Then(SetState("OFFLINE"), Rest))
  <2>1. "error" \notin ConnectFrom /\ "error" \notin DisconnectFrom
    BY DEF CallsAllowed
  <2>2. UNCHANGED <<state, socket, sslErrors, wish>> /\ todo' \in Then(SetState("OFFLINE"), Rest)
    BY <1>1, <2>1, PartTypes, Names, EmitRuns
  <2>3. QED
    BY <2>2 DEF StackInv, Types, Failing, Live
<1>2. CASE todo \in Then(SetState("OFFLINE"), Rest)
  <2>1. /\ state' = "OFFLINE" /\ UNCHANGED <<socket, sslErrors, wish>>
        /\ todo' \in Rest \/ todo' \in Then(Emit("OFFLINE"), Rest)
    BY <1>2, PartTypes, Names, SetStateRuns
  <2>2. QED
    BY <2>1 DEF StackInv, Types, StateChanges, Failing, Calm, Settled, Agrees, Live
<1>3. QED
  BY <1>1, <1>2 DEF Failing

\* The lambda on disconnected().
LEMMA LeavingSteps ==
    ASSUME CallsAllowed, Types, Leaving, Next
    PROVE  StackInv'
<1>0. Then(Emit("disconnected"), Rest) \in Lists
  BY PartTypes, Names
<1>1. CASE todo \in Disconnected(Rest)
  <2>1. /\ state' = "OFFLINE" /\ UNCHANGED <<socket, sslErrors, wish>>
        /\ \/ todo' \in Then(Emit("disconnected"), Rest)
           \/ todo' \in Then(Emit("OFFLINE"), Then(Emit("disconnected"), Rest))
    BY <1>0, <1>1, Names, SetStateRuns DEF Disconnected
  <2>2. QED
    BY <2>1 DEF StackInv, Types, StateChanges, Leaving
<1>2. CASE state = "OFFLINE" /\ todo \in Then(Emit("OFFLINE"), Then(Emit("disconnected"), Rest))
  <2>1. "OFFLINE" \notin ConnectFrom /\ "OFFLINE" \in Signals
    BY DEF CallsAllowed, Signals, StateChanges
  <2>2. /\ UNCHANGED <<state, socket, sslErrors, wish>>
        /\ \/ todo' \in Then(Emit("disconnected"), Rest)
           \/ todo' \in Then(Do("disconnect"), Then(Emit("disconnected"), Rest))
    BY <1>0, <1>2, <2>1, EmitRuns
  <2>3. QED
    BY <1>2, <2>2 DEF StackInv, Types, Leaving
<1>3. CASE state = "OFFLINE" /\ todo \in Then(Do("disconnect"), Then(Emit("disconnected"), Rest))
  <2>1. /\ UNCHANGED <<state, socket, sslErrors>> /\ wish' = "disconnect"
        /\ todo' \in Then(Emit("disconnected"), Rest)
    BY <1>0, <1>3, DisconnectRuns
  <2>2. QED
    BY <1>3, <2>1 DEF StackInv, Types, Leaving
<1>4. CASE state = "OFFLINE" /\ todo \in Then(Emit("disconnected"), Rest)
  <2>1. /\ UNCHANGED <<state, socket, sslErrors, wish>>
        /\ \/ todo' \in Rest
           \/ todo' \in Then(Do("connect"), Rest)
           \/ todo' \in Then(Do("disconnect"), Rest)
           \/ todo' \in Then(Do("disconnect"), Then(Do("connect"), Rest))
    BY <1>4, PartTypes, Names, EmitRuns
  <2>2. Then(Do("disconnect"), Then(Do("connect"), Rest)) \subseteq Then(Do("disconnect"), Rest)
    BY PartTypes DEF Then
  <2>3. todo' \in Rest \/ todo' \in Then(Do("disconnect"), Rest)
    BY <2>1, <2>2, PartTypes
  <2>4. QED
    BY <1>4, <2>1, <2>3 DEF StackInv, Types, Leaving, Calm, Settled, Agrees, Live
<1>5. QED
  BY <1>1, <1>2, <1>3, <1>4 DEF Leaving

\* disconnect(), up to the end of close().
LEMMA ClosingSteps ==
    ASSUME CallsAllowed, Types, Closing, Next
    PROVE  StackInv'
<1>0. Then(Do("close"), Rest) \in Lists
  BY PartTypes, Names
<1>1. CASE todo \in Disconnecting(Rest)
  <2>1. /\ UNCHANGED <<state, socket, sslErrors, wish>>
        /\ todo' \in Then(SetState("DISCONNECTING"), Then(Do("close"), Rest))
    BY <1>1, PartTypes, TimerRuns DEF Disconnecting
  <2>2. QED
    BY <2>1 DEF StackInv, Types, Closing
<1>2. CASE todo \in Then(SetState("DISCONNECTING"), Then(Do("close"), Rest))
  <2>1. /\ state' = "DISCONNECTING" /\ UNCHANGED <<socket, sslErrors, wish>>
        /\ \/ todo' \in Then(Do("close"), Rest)
           \/ todo' \in Then(Emit("DISCONNECTING"), Then(Do("close"), Rest))
    BY <1>0, <1>2, Names, SetStateRuns
  <2>2. QED
    BY <2>1 DEF StackInv, Types, StateChanges, Closing
<1>3. CASE state = "DISCONNECTING" /\ todo \in Then(Emit("DISCONNECTING"), Then(Do("close"), Rest))
  <2>1. "DISCONNECTING" \notin DisconnectFrom /\ "DISCONNECTING" \in Signals
    BY DEF CallsAllowed, Signals, StateChanges
  <2>2. /\ UNCHANGED <<state, socket, sslErrors, wish>>
        /\ \/ todo' \in Then(Do("close"), Rest)
           \/ todo' \in Then(Do("connect"), Then(Do("close"), Rest))
    BY <1>0, <1>3, <2>1, EmitRuns
  <2>3. QED
    BY <1>3, <2>2 DEF StackInv, Types, Closing
<1>4. CASE state = "DISCONNECTING" /\ todo \in Then(Do("connect"), Then(Do("close"), Rest))
  <2>1. /\ wish' = "connect" /\ UNCHANGED <<state, socket, sslErrors>>
        /\ todo' \in Then(Do("close"), Rest)
    BY <1>0, <1>4, ConnectRuns
  <2>2. QED
    BY <1>4, <2>1 DEF StackInv, Types, Closing
<1>5. CASE state = "DISCONNECTING" /\ todo \in Then(Do("close"), Rest)
  <2>1. /\ UNCHANGED <<state, wish>>
        /\ \/ socket' = "unconnected" /\ todo' \in Disconnected(Rest)
           \/ socket' = "closing" /\ todo' \in Rest
    BY <1>5, PartTypes, EndRuns DEF Closing
  <2>2. CASE socket' = "unconnected" /\ todo' \in Disconnected(Rest)
    BY <2>1, <2>2 DEF StackInv, Types, Leaving
  <2>3. CASE socket' = "closing" /\ todo' \in Rest
    BY <1>5, <2>1, <2>3 DEF StackInv, Types, Calm, Settled, Agrees, Live
  <2>4. QED
    BY <2>1, <2>2, <2>3
<1>6. QED
  BY <1>1, <1>2, <1>3, <1>4, <1>5 DEF Closing

\* The lambda on sslErrors(), and the end of the handshake.
LEMMA RefusingSteps ==
    ASSUME CallsAllowed, Types, Refusing, Next
    PROVE  StackInv'
<1>0. /\ Then(Do("giveUp"), Rest) \in Lists
      /\ Then(SetState("OFFLINE"), Then(Do("giveUp"), Rest)) \in Lists
  BY PartTypes, Names
<1>1. CASE todo \in Then(Emit("error"), Then(SetState("OFFLINE"), Then(Do("giveUp"), Rest)))
  <2>1. "error" \notin ConnectFrom /\ "error" \notin DisconnectFrom
    BY DEF CallsAllowed
  <2>2. /\ UNCHANGED <<state, socket, sslErrors, wish>>
        /\ todo' \in Then(SetState("OFFLINE"), Then(Do("giveUp"), Rest))
    BY <1>0, <1>1, <2>1, Names, EmitRuns
  <2>3. QED
    BY <2>2 DEF StackInv, Types, Refusing
<1>2. CASE todo \in Then(SetState("OFFLINE"), Then(Do("giveUp"), Rest))
  <2>1. /\ state' = "OFFLINE" /\ UNCHANGED <<socket, sslErrors, wish>>
        /\ \/ todo' \in Then(Do("giveUp"), Rest)
           \/ todo' \in Then(Emit("OFFLINE"), Then(Do("giveUp"), Rest))
    BY <1>0, <1>2, Names, SetStateRuns
  <2>2. QED
    BY <2>1 DEF StackInv, Types, StateChanges, Refusing
<1>3. CASE state = "OFFLINE" /\ todo \in Then(Emit("OFFLINE"), Then(Do("giveUp"), Rest))
  <2>1. "OFFLINE" \notin ConnectFrom /\ "OFFLINE" \in Signals
    BY DEF CallsAllowed, Signals, StateChanges
  <2>2. /\ UNCHANGED <<state, socket, sslErrors, wish>>
        /\ \/ todo' \in Then(Do("giveUp"), Rest)
           \/ todo' \in Then(Do("disconnect"), Then(Do("giveUp"), Rest))
    BY <1>0, <1>3, <2>1, EmitRuns
  <2>3. QED
    BY <1>3, <2>2 DEF StackInv, Types, Refusing
<1>4. CASE state = "OFFLINE" /\ todo \in Then(Do("disconnect"), Then(Do("giveUp"), Rest))
  <2>1. /\ UNCHANGED <<state, socket, sslErrors>> /\ wish' = "disconnect"
        /\ todo' \in Then(Do("giveUp"), Rest)
    BY <1>0, <1>4, DisconnectRuns
  <2>2. QED
    BY <1>4, <2>1 DEF StackInv, Types, Refusing
<1>5. CASE state = "OFFLINE" /\ todo \in Then(Do("giveUp"), Rest)
  <2>1. UNCHANGED <<state, wish>> /\ todo' \in Rest /\ socket' = "closing"
    BY <1>5, PartTypes, GiveUpRuns DEF Refusing
  <2>2. QED
    BY <1>5, <2>1 DEF StackInv, Types, Calm, Settled, Agrees, Live
<1>6. QED
  BY <1>1, <1>2, <1>3, <1>4, <1>5 DEF Refusing

\* Lists that have nothing under them.
LEMMA Alone ==
    /\ <<>> \in Rest
    /\ \A op \in {"connect", "sendData"} : <<Do(op)>> \in Rest
    /\ \A a \in Statements : <<a>> \in Then(a, Rest)
    /\ \A a, b \in Statements : <<a, b>> \in Then(a, Then(b, Rest))
    /\ \A a, b, c \in Statements : <<a, b, c>> \in Then(a, Then(b, Then(c, Rest)))
<1>1. <<>> \in Rest /\ \A op \in {"connect", "sendData"} : <<Do(op)>> \in Rest
  BY DEF Rest
<1>2. \A q \in Seq(Statements) : q \o <<>> = q
  BY ConcatEmptySeq
<1>3. /\ \A a \in Statements : <<a>> \o <<>> = <<a>>
      /\ \A a, b \in Statements : <<a, b>> \o <<>> = <<a, b>>
      /\ \A a, b, c \in Statements : <<a, b, c>> \o <<>> = <<a, b, c>>
  BY <1>2, ListTypes
<1>4. /\ \A a \in Statements : <<a>> \o <<>> \in Then(a, Rest)
      /\ \A a, b \in Statements : <<a, b>> \o <<>> \in Then(a, Then(b, Rest))
      /\ \A a, b, c \in Statements : <<a, b, c>> \o <<>> \in Then(a, Then(b, Then(c, Rest)))
  BY <1>1, RestType, ThenPush
<1>5. QED
  BY <1>1, <1>3, <1>4, Zenon

\* A stack with a statement that is not a call in Rest is not empty.
LEMMA EmptyIsCalm ==
    ASSUME StackInv, todo = <<>>
    PROVE  Settled
<1>1. ASSUME NEW a \in Statements, NEW lists \in Lists, todo \in Then(a, lists) PROVE FALSE
  BY <1>1, ThenTop
<1>2. /\ SetState("CONNECTING") \in Statements /\ SetState("OFFLINE") \in Statements
      /\ SetState("DISCONNECTING") \in Statements
      /\ \A op \in Ops : Do(op) \in Statements
      /\ \A s \in Signals : Emit(s) \in Statements
  BY StatementParts, Names
<1>3. ~ Connecting
  BY <1>1, <1>2, PartTypes, Names DEF Connecting
<1>4. ~ Failing
  BY <1>1, <1>2, PartTypes, Names DEF Failing
<1>5. ~ Leaving
  BY <1>1, <1>2, PartTypes, Names DEF Leaving, Disconnected
<1>6. ~ Closing
  BY <1>1, <1>2, PartTypes, Names DEF Closing, Disconnecting
<1>7. ~ Refusing
  BY <1>1, <1>2, PartTypes, Names DEF Refusing
<1>8. QED
  BY <1>3, <1>4, <1>5, <1>6, <1>7 DEF StackInv, Calm

\* The steps of the user, the event loop, the socket and the broker.
LEMMA OutsideSteps ==
    ASSUME StackInv, todo = <<>>, Next
    PROVE  StackInv'
<1>0. Types /\ Settled
  BY EmptyIsCalm DEF StackInv
<1>1. CASE UserCalls
  <2>1. /\ UNCHANGED <<state, socket, sslErrors, wish>>
        /\ todo' = <<Do("connect")>> \/ todo' = <<Do("disconnect")>>
    BY <1>1 DEF UserCalls
  <2>2. <<Do("connect")>> \in Rest /\ <<Do("disconnect")>> \in Then(Do("disconnect"), Rest)
    BY Alone, StatementParts, Names
  <2>3. todo' \in Rest \/ todo' \in Then(Do("disconnect"), Rest)
    BY <2>1, <2>2
  <2>4. QED
    BY <1>0, <2>1, <2>3 DEF StackInv, Types, Calm, Settled, Agrees, Live
<1>2. CASE OnConnackReceived \/ OnPublishReceived \/ SendPing \/ TextMessageReceived
  <2>1. /\ UNCHANGED <<state, socket, sslErrors, wish>>
        /\ \/ todo' = <<>>
           \/ \E s \in {"connected", "messageReceived", "error"} : todo' = <<Emit(s)>>
           \/ \E op \in {"abort", "disconnectAfterTimeout"} : todo' = <<Emit("error"), Do(op)>>
           \/ todo' = <<Emit("messageReceived"), Do("sendData")>>
    BY <1>2 DEF OnConnackReceived, OnPublishReceived, SendPing, TextMessageReceived
  <2>2. /\ <<>> \in Rest
        /\ \A s \in {"connected", "messageReceived", "error"} : <<Emit(s)>> \in Then(Emit(s), Rest)
        /\ \A op \in {"abort", "disconnectAfterTimeout"} :
              <<Emit("error"), Do(op)>> \in Then(Emit("error"), Then(Do(op), Rest))
    BY Alone, StatementParts, Names
  <2>3. <<Emit("messageReceived"), Do("sendData")>> \in Then(Emit("messageReceived"), Rest)
    <3>1. <<Emit("messageReceived"), Do("sendData")>>
             \in Then(Emit("messageReceived"), Then(Do("sendData"), Rest))
      BY Alone, StatementParts, Names
    <3>2. QED
      BY <3>1, PartTypes DEF Then
  <2>4. \/ todo' \in Rest
        \/ \E s \in {"connected", "messageReceived", "error", "OFFLINE"} :
              todo' \in Then(Emit(s), Rest)
        \/ \E op \in {"abort", "disconnectAfterTimeout"} :
              todo' \in Then(Emit("error"), Then(Do(op), Rest))
    BY <2>1, <2>2, <2>3, Zenon
  <2>5. QED
    BY <1>0, <2>1, <2>4 DEF StackInv, Types, Calm, Settled, Agrees, Live
<1>3. CASE OnSocketConnected \/ OnPongReceived \/ TimerTimeout \/ BrokerConnack \/ BrokerSends
  <2>1. UNCHANGED <<state, socket, sslErrors, wish, todo>>
    BY <1>3 DEF OnSocketConnected, OnPongReceived, TimerTimeout, BrokerConnack, BrokerSends
  <2>2. todo' \in Rest
    BY <2>1, Alone
  <2>3. QED
    BY <1>0, <2>1, <2>2 DEF StackInv, Types, Calm, Settled, Agrees, Live
<1>4. CASE SocketConnected
  <2>1. /\ UNCHANGED <<state, wish, todo>> /\ socket = "connecting" /\ socket' = "connected"
    BY <1>4 DEF SocketConnected
  <2>2. todo' \in Rest
    BY <2>1, Alone
  <2>3. QED
    BY <1>0, <2>1, <2>2 DEF StackInv, Types, Calm, Settled, Agrees, Live
<1>5. CASE SslErrors
  <2>1. PICK errors \in (SUBSET SslErrorKinds) \ {{}} :
           sslErrors' = errors /\ todo' = OnSslErrors(errors)
    BY <1>5 DEF SslErrors
  <2>2. UNCHANGED <<state, wish, socket>> /\ socket = "connecting" /\ sslErrors' # {}
    BY <1>5, <2>1 DEF SslErrors
  <2>3. CASE SslErrorsAllowed(errors)
    <3>1. todo' \in Rest
      BY <2>1, <2>3, Alone DEF OnSslErrors
    <3>2. QED
      BY <1>0, <2>2, <3>1 DEF StackInv, Types, Calm, Settled, Agrees, Live
  <2>4. CASE ~ SslErrorsAllowed(errors)
    <3> DEFINE error == Emit("error")
               offline == SetState("OFFLINE")
               end == Do("giveUp")
    <3>0. error \in Statements /\ offline \in Statements /\ end \in Statements
      BY StatementParts, Names
    <3>1. todo' = <<error, offline>> \o <<end>>
      BY <2>1, <2>4 DEF OnSslErrors, OnError
    <3>2. <<end>> \in Then(end, Rest)
      BY <3>0, Alone
    <3>3. Then(end, Rest) \in Lists
      BY <3>0, RestType, ThenType
    <3> HIDE DEF error, offline, end
    <3>4. <<error, offline>> \o <<end>> \in Then(error, Then(offline, Then(end, Rest)))
      BY <3>0, <3>2, <3>3, ThenPush
    <3>5. todo' \in Then(error, Then(offline, Then(end, Rest)))
      BY <3>1, <3>4, Zenon
    <3>6. QED
      BY <1>0, <2>2, <3>5 DEF StackInv, Types, Refusing, error, offline, end
  <2>5. QED
    BY <2>3, <2>4
<1>6. CASE SocketError
  <2>1. UNCHANGED <<state, wish>> /\ socket' = "closing" /\ todo' = <<Emit("error"), SetState("OFFLINE")>>
    BY <1>6 DEF SocketError, OnError
  <2>2. <<Emit("error"), SetState("OFFLINE")>> \in Then(Emit("error"), Then(SetState("OFFLINE"), Rest))
    BY Alone, StatementParts, Names
  <2>3. todo' \in Then(Emit("error"), Then(SetState("OFFLINE"), Rest))
    BY <2>1, <2>2
  <2>4. QED
    BY <1>0, <2>1, <2>3 DEF StackInv, Types, Failing, Live
<1>7. CASE SocketDisconnected
  <2>1. /\ UNCHANGED <<state, wish>> /\ socket' = "unconnected"
        /\ todo' = <<SetState("OFFLINE"), Emit("disconnected")>>
    BY <1>7 DEF SocketDisconnected, OnDisconnected
  <2>2. <<SetState("OFFLINE"), Emit("disconnected")>> \in Disconnected(Rest)
    BY Alone, StatementParts, Names DEF Disconnected
  <2>3. todo' \in Disconnected(Rest)
    BY <2>1, <2>2
  <2>4. QED
    BY <1>0, <2>1, <2>3 DEF StackInv, Types, Leaving
<1>8. ~ RunStatement
  BY DEF RunStatement, Connect, Disconnect, DisconnectAfterTimeout, SetTheState, EmitToUser,
         StopPing, SendData, Open, Close, Abort, GiveUp, NextIs
<1>9. QED
  BY <1>1, <1>2, <1>3, <1>4, <1>5, <1>6, <1>7, <1>8 DEF Next

LEMMA InitStackInv == Init => StackInv
<1>1. Init => todo \in Rest
  BY Alone DEF Init
<1>2. QED
  BY <1>1 DEF Init, StackInv, Types, StateChanges, Calm, Settled, Agrees, Live

LEMMA StepStackInv == CallsAllowed /\ StackInv /\ [Next]_vars => StackInv'
<1> SUFFICES ASSUME CallsAllowed, StackInv, [Next]_vars PROVE StackInv'
  OBVIOUS
<1>1. CASE Next /\ todo = <<>>
  BY <1>1, OutsideSteps
<1>2. CASE Next /\ todo # <<>>
  BY <1>2, CalmSteps, ConnectingSteps, FailingSteps, LeavingSteps, ClosingSteps, RefusingSteps
     DEF StackInv
<1>3. CASE UNCHANGED vars
  BY <1>3 DEF vars, StackInv, Types, Calm, Connecting, Failing, Leaving, Closing, Refusing,
              Settled, Agrees, Live
<1>4. QED
  BY <1>1, <1>2, <1>3

LEMMA StackHolds ==
    ASSUME CallsAllowed
    PROVE  Spec => []StackInv
<1>1. StackInv /\ [Next]_vars => StackInv'
  BY StepStackInv
<1>2. QED
  BY <1>1, InitStackInv, PTL DEF Spec

-----------------------------------------------------------------------------
(* The properties *)

\* The statement at the top of each list.
LEMMA TopOf ==
    /\ \A a \in Statements, lists \in Lists : todo \in Then(a, lists) => Head(todo) = a
    /\ todo \in Rest /\ todo # <<>> => Head(todo) \in {Do("connect"), Do("sendData")}
<1>1. todo \in Rest /\ todo # <<>> => Head(todo) \in {Do("connect"), Do("sendData")}
  BY HeadTailProperties DEF Rest
<1>2. QED
  BY <1>1, ThenTop

\* Once every nested call has returned, the state shown to the user is the one of the
\* socket, for all slots that call as CallsAllowed says (connect, disconnect and the lambdas
\* of makeSignalSlotConnections).
THEOREM StateFollowsSocket ==
    ASSUME CallsAllowed
    PROVE  Spec => []AgreesWhenIdle
<1>1. StackInv => AgreesWhenIdle
  BY EmptyIsCalm DEF AgreesWhenIdle, Idle, Settled, Agrees
<1>2. QED
  BY <1>1, StackHolds, PTL

\* Once a disconnect() has returned and connect() has not been called since, the client has
\* no connection and opens none, for all such slots (disconnect, connect).
THEOREM DisconnectIsRespected ==
    ASSUME CallsAllowed
    PROVE  Spec => []WishRespected
<1>1. StackInv => WishRespected
  BY EmptyIsCalm DEF WishRespected, Idle, Settled
<1>2. QED
  BY <1>1, StackHolds, PTL

\* A slot of disconnected() finds a client that is OFFLINE and has no socket, whatever other
\* slots called before it (the lambda on disconnected, qmqttclient.cpp:62).
THEOREM DisconnectedIsFinal ==
    ASSUME CallsAllowed
    PROVE  Spec => []DisconnectedMeansOffline
<1>1. ASSUME StackInv, NextIs("emit"), Arg = "disconnected"
      PROVE  state = "OFFLINE" /\ socket = "unconnected"
  <2>1. Head(todo).op = "emit" /\ Head(todo).arg = "disconnected" /\ todo # <<>>
    BY <1>1 DEF NextIs, Arg
  <2>2. /\ \A op \in Ops \ {"emit"}, lists \in Lists : todo \notin Then(Do(op), lists)
        /\ \A s \in StateChanges, lists \in Lists : todo \notin Then(SetState(s), lists)
        /\ \A s \in Signals \ {"disconnected"}, lists \in Lists : todo \notin Then(Emit(s), lists)
        /\ todo \notin Rest
    BY <2>1, TopOf, StatementParts, Names
  <2>3. ~ Calm
    BY <2>2, PartTypes, Names DEF Calm
  <2>4. ~ Connecting
    BY <2>2, PartTypes, Names DEF Connecting
  <2>5. ~ Failing
    BY <2>2, PartTypes, Names DEF Failing
  <2>6. ~ Closing
    BY <2>2, PartTypes, Names DEF Closing, Disconnecting
  <2>7. ~ Refusing
    BY <2>2, PartTypes, Names DEF Refusing
  <2>8. todo \notin Disconnected(Rest)
    BY <2>2, PartTypes, Names DEF Disconnected
  <2>9. QED
    BY <1>1, <2>3, <2>4, <2>5, <2>6, <2>7, <2>8 DEF StackInv, Leaving
<1>2. StackInv => DisconnectedMeansOffline
  BY <1>1 DEF DisconnectedMeansOffline
<1>3. QED
  BY <1>2, StackHolds, PTL

\* open() runs where the client has no connection, and no handler under it has a close(), an
\* abort() or an OFFLINE left for the new one, for all such slots (connect, sendPing,
\* onConnackReceived, the lambdas).
THEOREM ReconnectIsKept ==
    ASSUME CallsAllowed
    PROVE  Spec => []NewConnectionIsKept
<1>1. ASSUME StackInv, NextIs("open")
      PROVE  ~ Live /\ todo # <<>> /\ Tail(todo) \in Rest
  <2>1. Head(todo).op = "open" /\ todo # <<>>
    BY <1>1 DEF NextIs
  <2>2. /\ \A op \in Ops \ {"open"}, lists \in Lists : todo \notin Then(Do(op), lists)
        /\ \A s \in StateChanges, lists \in Lists : todo \notin Then(SetState(s), lists)
        /\ \A s \in Signals, lists \in Lists : todo \notin Then(Emit(s), lists)
        /\ todo \notin Rest
    BY <2>1, TopOf, StatementParts, Names
  <2>3. ~ Calm
    BY <2>2, PartTypes, Names DEF Calm
  <2>4. ~ Failing
    BY <2>2, PartTypes, Names DEF Failing
  <2>5. ~ Leaving
    BY <2>2, PartTypes, Names DEF Leaving, Disconnected
  <2>6. ~ Closing
    BY <2>2, PartTypes, Names DEF Closing, Disconnecting
  <2>7. ~ Refusing
    BY <2>2, PartTypes, Names DEF Refusing
  <2>8. Connecting
    BY <1>1, <2>3, <2>4, <2>5, <2>6, <2>7 DEF StackInv
  <2>9. todo \in Then(Do("open"), Rest)
    BY <2>2, <2>8, PartTypes, Names DEF Connecting
  <2>10. Do("open") \in Statements /\ Rest \in Lists
    BY StatementParts, Names, PartTypes
  <2>11. QED
    BY <2>1, <2>8, <2>9, <2>10, ThenTop DEF Connecting
<1>2. ASSUME todo # <<>>, Tail(todo) \in Rest, todo \in Seq(Statements), NEW i \in 2 .. Len(todo)
      PROVE  /\ todo[i].op \notin {"close", "abort", "disconnectAfterTimeout"}
             /\ todo[i] # SetState("OFFLINE")
  <2>1. i - 1 \in 1 .. Len(Tail(todo)) /\ Tail(todo)[i - 1] = todo[i]
    BY <1>2
  <2>2. todo[i] \in {Do("connect"), Do("sendData")}
    BY <1>2, <2>1 DEF Rest
  <2>3. QED
    BY <2>2, StatementParts, Names
<1>3. IInv /\ StackInv => NewConnectionIsKept
  BY <1>1, <1>2 DEF NewConnectionIsKept, IInv
<1>4. Spec => []IInv
  BY InitIInv, StepIInv, PTL DEF Spec
<1>5. QED
  BY <1>3, <1>4, StackHolds, PTL

=============================================================================
