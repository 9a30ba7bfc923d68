---------------------------- MODULE PacketStream ----------------------------
(***************************************************************************)
(* What a connection promises to whoever calls Send: the packets reach the *)
(* stream one after the other, each from its first byte to its last, in    *)
(* the order of the calls, as long as the connection is up.  When it ends, *)
(* what has not been transmitted yet is dropped.                           *)
(***************************************************************************)
EXTENDS Integers, Sequences

CONSTANTS Packets, PacketLen

VARIABLES
  backlog,    \* packets accepted and not completely transmitted
  cursor,     \* bytes of the first of them that are transmitted
  delivered,  \* packets transmitted completely, in order
  up          \* the connection can still transmit

vars == <<backlog, cursor, delivered, up>>

Init == backlog = <<>> /\ cursor = 0 /\ delivered = <<>> /\ up = TRUE

Accept(p) ==
  /\ backlog' = Append(backlog, p)
  /\ UNCHANGED <<cursor, delivered, up>>

\* n more bytes of the first packet.
Transmit(n) ==
  /\ up /\ backlog # <<>>
  /\ n \in 1..PacketLen - cursor
  /\ \/ /\ cursor + n < PacketLen
        /\ cursor' = cursor + n
        /\ UNCHANGED <<backlog, delivered>>
     \/ /\ cursor + n = PacketLen
        /\ cursor' = 0
        /\ delivered' = Append(delivered, Head(backlog))
        /\ backlog' = Tail(backlog)
  /\ UNCHANGED up

End == up /\ up' = FALSE /\ UNCHANGED <<backlog, cursor, delivered>>

\* A Send on a connection that has ended reports the error to its caller.
Refuse ==
  /\ ~up /\ backlog # <<>>
  /\ backlog' = SubSeq(backlog, 1, Len(backlog) - 1)
  /\ UNCHANGED <<cursor, delivered, up>>

Next ==
  \/ \E p \in Packets : Accept(p)
  \/ \E n \in 1..PacketLen : Transmit(n)
  \/ End \/ Refuse

Spec == Init /\ [][Next]_vars
=============================================================================
