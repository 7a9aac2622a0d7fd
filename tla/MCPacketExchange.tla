--------------------------- MODULE MCPacketExchange ---------------------------
(***************************************************************************)
(* Values of the constants of PacketExchange that a .cfg cannot write.     *)
(***************************************************************************)
EXTENDS PacketExchange

\* No user name, and one of two characters.
MCUserNames == {<<>>, <<117, 115>>}

\* No password, an empty one, and one of a character.
MCPasswords == {<<>>, <<<<>>>>, <<<<112>>>>}

\* No former will, and one whose every field differs from that of NoWill.
MCFormerWills == {NoWill, Will(<<97>>, <<1>>, TRUE, 2)}

=============================================================================
