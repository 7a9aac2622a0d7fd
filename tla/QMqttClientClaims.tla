--------------------------- MODULE QMqttClientClaims ---------------------------
(***************************************************************************)
(* Statements of the documentation and the comments of qmqttclient.cpp     *)
(* that the code does not live up to.  Each is checked by a run of its own *)
(* that is expected to find it violated; README.md tells the stories.      *)
(***************************************************************************)
EXTENDS QMqttClient

\* "Received a CONNACK packet while the MQTT connection is already connected."
\* (qmqttclient.cpp:363): a CONNACK of a socket that was announced already is refused as
\* a protocol violation.  connected() comes at most once from a socket, then.
SecondConnackRefused == [][Emits("connected")' => announced = 0]_vars

\* "Pong not received within expected time." (qmqttclient.cpp:318): TIME_OUT is
\* reported only when a PINGREQ was sent and its PINGRESP is missing.
TimeoutOnlyAfterPing == [][Emits("TIME_OUT")' => unanswered > 0]_vars

\* "When publication finished the given callback cb is called indicating success or
\* failure." (qmqttclient.cpp:734, and 665 for subscribe): a request written to the
\* socket of an acknowledged connection is eventually reported, one way or the other.
Sent(r) == announced > 0 /\ \E i \in DOMAIN toBroker : toBroker[i].ref = r
EveryRequestReported == \A r \in Requests : Sent(r) ~> (results[r] # <<>>)

=============================================================================
