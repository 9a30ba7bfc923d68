--------------------------- MODULE ConnWriteStream ---------------------------
(***************************************************************************)
(* The write path as an implementation of PacketStream.  It is one when    *)
(* every Send runs on the poller's goroutine (PollerWriters = Writers), as *)
(* the websocket pong and handshake replies do; with handler goroutines it *)
(* is not: packets are torn apart, and stranded (NothingStranded).         *)
(***************************************************************************)
EXTENDS ConnWrite, FiniteSets

\* The chunks still to be sent: writeBuff, then the queue, then the packet a
\* Write is working on.
Sending == {w \in Writers : InHand(w)}
Backlog ==
  (IF InBuff THEN <<writeBuff>> ELSE <<>>)
    \o writeQ
    \o (IF Sending = {} THEN <<>> ELSE <<Rest(CHOOSE w \in Sending : TRUE)>>)

\* The packets whose last byte is on the wire: the k-th is that of the k-th
\* segment that ends a packet.
Ends(n) == {i \in 1..n : wire[i].to = PacketLen}
Finished ==
  LET ends == Ends(Len(wire)) IN
  [k \in 1..Cardinality(ends) |-> wire[CHOOSE i \in ends : Cardinality(Ends(i)) = k]]

PacketsOf(chunks) == [i \in DOMAIN chunks |-> chunks[i].pkt]

Stream == INSTANCE PacketStream WITH
  backlog <- PacketsOf(Backlog),
  cursor <- IF Backlog = <<>> THEN 0 ELSE Backlog[1].from - 1,
  delivered <- PacketsOf(Finished),
  up <- fd = "open" /\ peer = "up"

\* Sends from the poller's goroutine leave in call order, each in one piece.
ImplementsStream == Stream!Spec

\* ... and each of them leaves completely unless the connection ends.
EverythingSent ==
  \A p \in Packets :
    sent[p[1]] >= p[2] ~> OnWire(p, PacketLen) \/ fd = "closed" \/ peer = "gone"
=============================================================================
