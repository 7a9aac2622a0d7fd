------------------------------- MODULE TopicName -------------------------------
(***************************************************************************)
(* isTopicNameValid (qmqttclient.cpp): the check of a topic filter before  *)
(* SUBSCRIBE or UNSUBSCRIBE is sent.  A topic is a sequence of bytes; the  *)
(* three characters that matter are one byte each.                         *)
(***************************************************************************)
EXTENDS Integers, Sequences, SequencesExt

Hash  == 35
Plus  == 43
Slash == 47

\* Where a topic is cut: before it, at its slashes, behind it.
Ends(topic) == {0, Len(topic) + 1} \cup {i \in DOMAIN topic : topic[i] = Slash}

\* QString::split: the parts between neighbouring ends, empty ones included.
Parts(topic) ==
    {part \in Ends(topic) \X Ends(topic) :
        part[1] < part[2] /\ \A e \in Ends(topic) : e <= part[1] \/ part[2] <= e}

Text(topic, part) == SubSeq(topic, part[1] + 1, part[2] - 1)

\* The loop returns at the first part that is "#", or holds a wildcard without
\* being one.
Decides(text) ==
    \/ text = <<Hash>>
    \/ text # <<Plus>> /\ (Contains(text, Hash) \/ Contains(text, Plus))

DecidesFirst(topic, part) ==
    /\ Decides(Text(topic, part))
    /\ \A p \in Parts(topic) : p[1] < part[1] => ~Decides(Text(topic, p))

MutIsTopicNameValid(topic) ==
    \A part \in Parts(topic) :
        DecidesFirst(topic, part) => Text(topic, part) = <<Hash>>

IsTopicNameValid(topic) ==
    \A part \in Parts(topic) :
        DecidesFirst(topic, part) =>
            Text(topic, part) = <<Hash>> /\ part[2] = Len(topic) + 1

\* The rules of the documentation, read off the characters: a wildcard is a
\* whole level (rule 1), "#" is the last character (rule 2), and there is at
\* least one character (rule 3), which the loop does not ask for.
WildcardsInPlace(topic) ==
    \A i \in DOMAIN topic :
        topic[i] \in {Hash, Plus} =>
            /\ i = 1 \/ topic[i - 1] = Slash
            /\ i = Len(topic) \/ topic[i + 1] = Slash
            /\ topic[i] = Hash => i = Len(topic)

FollowsRules(topic) == WildcardsInPlace(topic) /\ topic # <<>>
=============================================================================
