--------------------------- MODULE MCBulkTransfer ---------------------------
(* Small payloads for TLC.  A packet carries four units and a command is two
   units long, so the lengths are: one packet, a packet and a bit, two full
   packets, three packets and most of a fourth.                             *)
EXTENDS BulkTransfer

MCPayloads == [dest : {1}, total : {4, 5, 8, 15}] \cup {[dest |-> 2, total |-> 5]}

MCMaxSends == [s \in AllSenders |-> IF s = "timeouts" THEN 2 ELSE 3]

\* A payload whose last fragment has the length of a command.
MCCommandTail == {[dest |-> 1, total |-> 6]}

=============================================================================
