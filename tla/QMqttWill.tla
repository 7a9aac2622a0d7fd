------------------------------- MODULE QMqttWill -------------------------------
(***************************************************************************)
(* The value class QMqttWill (qmqttwill.cpp).  A will passes through three *)
(* objects of this class before it is encoded: the user's, the client's    *)
(* m_will and the packet's m_will, copied or assigned from one to another. *)
(***************************************************************************)

\* The default constructor: a will that is not valid.
NoWill == [valid |-> FALSE, topic |-> <<>>, message |-> <<>>, retain |-> FALSE, qos |-> 0]

Will(topic, message, retain, qos) ==
    [valid |-> TRUE, topic |-> topic, message |-> message, retain |-> retain, qos |-> qos]

\* The copy constructor hands four fields to the constructor of a valid will,
\* so that the copy is valid whatever the other one was.
CopyOf(other) == Will(other.topic, other.message, other.retain, other.qos)

MutAssign(will, other) ==
    [will EXCEPT !.message = other.message, !.qos = other.qos,
                 !.retain = other.retain, !.topic = other.topic]

\* The copy assignment; will keeps nothing of its own.
Assign(will, other) ==
    [will EXCEPT !.message = other.message, !.qos = other.qos,
                 !.retain = other.retain, !.topic = other.topic, !.valid = other.valid]
=============================================================================
