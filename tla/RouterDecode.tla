---------------------------- MODULE RouterDecode ----------------------------
(***************************************************************************)
(* DecodePacket of the router protocol (server/router.go): a connection's  *)
(* poller cuts the peer's byte stream into packets, one call of            *)
(* DecodePacket for each epoll event, in plain mode or through the TLS     *)
(* layer.  One step is one read of that layer or of the socket.            *)
(*                                                                         *)
(* A byte of the stream is [pkt, at]: the first HeadLen bytes of a packet  *)
(* are its header, the others its body.  With TLS the peer closes records  *)
(* with a Tag (what the code sees of a record is how many raw bytes it has *)
(* and that nothing of it can be read before its end).                     *)
(*                                                                         *)
(* The handshake is over, and only the poller closes the connection.       *)
(***************************************************************************)
EXTENDS Integers, Sequences

CONSTANTS
  Modes,          \* "plain", "tls"
  Pipelining,     \* modes in which peers send without waiting for an answer
  SplitHeads,     \* modes in which a header may arrive in pieces
  MaxPacket,      \* bound: packets the peer sends
  MaxBody,        \* bound: bytes of a body
  HeadLen,        \* packer.GetHeaderLength()
  MaxBodyLength,  \* options.MaxBodyLength, 0: no limit
  MaxRecord,      \* bound: bytes of a TLS record
  RawRead,        \* bytes the TLS layer asks the socket for
  MaxRead         \* the 16384 of DecodePacket

ASSUME RouterDecodeAssumption ==
  /\ Modes \subseteq {"plain", "tls"} /\ Pipelining \subseteq Modes /\ SplitHeads \subseteq Modes
  /\ MaxPacket \in Nat /\ MaxBody \in Nat /\ MaxBodyLength \in Nat
  /\ HeadLen \in Nat \ {0}
  /\ MaxRecord \in Nat \ {0} /\ RawRead \in Nat \ {0} /\ MaxRead \in Nat \ {0}

VARIABLES
  mode,            \* tlsEnable
  splits,          \* headers may arrive in pieces
  bodies,          \* the lengths of the bodies the peer sends
  peer,            \* [pkt, at]: the next byte the peer sends
  unsealed,        \* bytes in the record the peer is sending
  ended,           \* the peer has shut down its end
  inbound,         \* kernel: raw bytes received and not read
  rawInput,        \* TLS layer: raw bytes read from the socket
  input,           \* TLS layer: decrypted bytes nobody has read
  tlsRawSize,      \* c.tlsRawSize
  packDataLength,  \* c.packDataLength
  header,          \* the packet temporaryMessage was made from, 0: none
  readBuffer,      \* c.readBuffer
  pc,              \* where the poller is
  handled,         \* number of packets decoded, those without a body included
  emitted,         \* messages handed to the handlers
  fd               \* "open" or "closed"

peerVars == <<mode, splits, bodies, peer, unsealed, ended>>
tlsVars == <<rawInput, input, tlsRawSize>>
decoder == <<packDataLength, header, readBuffer, handled, emitted>>
vars == <<peerVars, inbound, tlsVars, decoder, pc, fd>>

Packets == 1..MaxPacket
Lesser(a, b) == IF a <= b THEN a ELSE b

Size(k) == HeadLen + bodies[k]
Byte(k, i) == [pkt |-> k, at |-> i]
Tag == Byte(0, 0)
Bytes == [pkt : Packets, at : 1..HeadLen + MaxBody]

Take(s, n) == SubSeq(s, 1, n)
Drop(s, n) == SubSeq(s, n + 1, Len(s))

Header(k) == [i \in 1..HeadLen |-> Byte(k, i)]
Body(k) == [i \in 1..bodies[k] |-> Byte(k, HeadLen + i)]

Init ==
  /\ mode \in Modes
  /\ splits \in BOOLEAN /\ (splits => mode \in SplitHeads)
  /\ bodies \in [Packets -> 0..MaxBody]
  /\ peer = Byte(1, 1)
  /\ unsealed = 0
  /\ ended = FALSE
  /\ inbound = <<>> /\ rawInput = <<>> /\ input = <<>>
  /\ tlsRawSize = 0
  /\ packDataLength = 0
  /\ header = 0
  /\ readBuffer = <<>>
  /\ pc = "wait"
  /\ handled = 0
  /\ emitted = <<>>
  /\ fd = "open"

-----------------------------------------------------------------------------
(* The peer.                                                               *)

\* Bytes of packet k up to the i-th are sent.
PeerMoves(k, i) == peer' = IF i = Size(k) THEN Byte(k + 1, 1) ELSE Byte(k, i + 1)

PeerSends ==
  LET k == peer.pkt
      n == IF splits \/ peer.at > 1 THEN 1 ELSE HeadLen
  IN
  /\ ~ended /\ k <= MaxPacket
  /\ mode \in Pipelining \/ handled = k - 1
  /\ mode = "tls" => unsealed + n <= MaxRecord
  /\ inbound' = inbound \o [i \in 1..n |-> Byte(k, peer.at + i - 1)]
  /\ PeerMoves(k, peer.at + n - 1)
  /\ unsealed' = IF mode = "tls" THEN unsealed + n ELSE 0
  /\ UNCHANGED <<mode, splits, bodies, ended, tlsVars, decoder, pc, fd>>

\* The end of a TLS record.
PeerSeals ==
  /\ ~ended /\ unsealed > 0
  /\ inbound' = Append(inbound, Tag)
  /\ unsealed' = 0
  /\ UNCHANGED <<mode, splits, bodies, peer, ended, tlsVars, decoder, pc, fd>>

PeerEnds ==
  /\ ~ended
  /\ ended' = TRUE
  /\ UNCHANGED <<mode, splits, bodies, peer, unsealed, inbound, tlsVars, decoder, pc, fd>>

-----------------------------------------------------------------------------
(* Reading from the socket, or through the TLS layer.                      *)

\* epoll reports the socket as readable; DecodePacket starts.
Event ==
  /\ pc = "wait" /\ fd = "open"
  /\ inbound # <<>> \/ ended
  /\ pc' = IF packDataLength = 0 THEN "head" ELSE "body"
  /\ UNCHANGED <<peerVars, inbound, tlsVars, decoder, fd>>

Reading == pc \in {"head", "body"}

\* A complete record is in the TLS layer: rawInput[i] closes it.
ClosesRecord(i) == rawInput[i] = Tag /\ \A j \in 1..i - 1 : rawInput[j] # Tag
HasRecord == \E i \in DOMAIN rawInput : ClosesRecord(i)

\* What a read of the layer that DecodePacket sees can take.
Readable == IF mode = "tls" THEN input ELSE inbound

ReadableTaken(n) ==
  IF mode = "tls" THEN input' = Drop(input, n) /\ UNCHANGED <<inbound, rawInput>>
                  ELSE inbound' = Drop(inbound, n) /\ UNCHANGED <<input, rawInput>>

\* The TLS layer has no record: BaseConnect.Read of what the socket has.
Fill ==
  /\ Reading /\ mode = "tls" /\ input = <<>> /\ ~HasRecord
  /\ inbound # <<>>
  /\ LET n == Lesser(Len(inbound), RawRead) IN
       /\ rawInput' = rawInput \o Take(inbound, n)
       /\ inbound' = Drop(inbound, n)
       /\ tlsRawSize' = tlsRawSize + n
  /\ UNCHANGED <<peerVars, input, decoder, pc, fd>>

\* The TLS layer decrypts a record.
Decrypt ==
  /\ Reading /\ input = <<>>
  /\ \E i \in DOMAIN rawInput :
       /\ ClosesRecord(i)
       /\ input' = Take(rawInput, i - 1)
       /\ rawInput' = Drop(rawInput, i)
  /\ UNCHANGED <<peerVars, inbound, tlsRawSize, decoder, pc, fd>>

NothingToRead == Reading /\ Readable = <<>> /\ ~HasRecord /\ inbound = <<>>

\* EAGAIN: the poller goes on.
Again ==
  /\ NothingToRead /\ ~ended
  /\ pc' = "wait"
  /\ UNCHANGED <<peerVars, inbound, tlsVars, decoder, fd>>

\* Mutant: the end of the stream is taken for EAGAIN.
EndOfStreamMissed ==
  /\ NothingToRead /\ ended
  /\ pc' = "wait"
  /\ UNCHANGED <<peerVars, inbound, tlsVars, decoder, fd>>

\* io.EOF closes the connection; in the middle of a record the TLS layer
\* returns io.ErrUnexpectedEOF instead, and the poller goes on.
EndOfStream ==
  /\ NothingToRead /\ ended
  /\ pc' = "wait"
  /\ fd' = IF rawInput = <<>> THEN "closed" ELSE fd
  /\ UNCHANGED <<peerVars, inbound, tlsVars, decoder>>

-----------------------------------------------------------------------------
(* The header.                                                             *)

\* The lengths UnPack can return: any, for bytes that are not a header.
Lengths(bytes) ==
  IF \E k \in Packets : bytes = Header(k) THEN {bodies[bytes[1].pkt]} ELSE 0..MaxBody

\* HeadBytesLengthFail: the connection is closed.
HeadFails ==
  /\ pc = "head" /\ Len(Readable) \in 1..HeadLen - 1
  /\ ReadableTaken(Len(Readable))
  /\ pc' = "wait" /\ fd' = "closed"
  /\ UNCHANGED <<peerVars, tlsRawSize, decoder>>

\* Mutant: a body of exactly the limit is refused.
TooLongOrEqual(len) == MaxBodyLength > 0 /\ len >= MaxBodyLength

\* BodyLenExceedLimit
TooLong(len) == MaxBodyLength > 0 /\ len > MaxBodyLength

\* UnPack of a whole header: the packet is refused, has no body (the poller
\* drops it), or its body comes next.
HeadRead ==
  /\ pc = "head" /\ Len(Readable) >= HeadLen
  /\ ReadableTaken(HeadLen)
  /\ \E len \in Lengths(Take(Readable, HeadLen)) :
       \/ /\ TooLong(len)
          /\ pc' = "wait" /\ fd' = "closed"
          /\ UNCHANGED decoder
       \/ /\ ~TooLong(len) /\ len = 0
          /\ pc' = "wait"
          /\ handled' = handled + 1
          /\ UNCHANGED <<packDataLength, header, readBuffer, emitted, fd>>
       \/ /\ ~TooLong(len) /\ len > 0
          /\ pc' = "body"
          /\ packDataLength' = len
          /\ header' = Readable[1].pkt
          /\ UNCHANGED <<readBuffer, handled, emitted, fd>>
  /\ UNCHANGED <<peerVars, tlsRawSize>>

-----------------------------------------------------------------------------
(* The body.                                                               *)

\* Mutant: the bytes of the body that are already here are not counted.
WantedWhole == IF mode = "tls" THEN Lesser(packDataLength, MaxRead) ELSE packDataLength

\* The size of readBytes.
Wanted ==
  LET size == packDataLength - Len(readBuffer) IN
  IF mode = "tls" THEN Lesser(size, MaxRead) ELSE size

Spent(n) == IF mode = "tls" THEN tlsRawSize - n ELSE tlsRawSize

\* Mutant: the message gets the bytes of the last read only.
BodyDoneLastRead ==
  /\ pc = "body" /\ Readable # <<>>
  /\ LET n == Lesser(Wanted, Len(Readable))  data == readBuffer \o Take(Readable, n) IN
       /\ Len(data) = packDataLength
       /\ ReadableTaken(n)
       /\ emitted' = Append(emitted, [pkt |-> header, data |-> Take(Readable, n)])
  /\ handled' = handled + 1
  /\ readBuffer' = <<>> /\ packDataLength' = 0 /\ tlsRawSize' = 0
  /\ pc' = "wait"
  /\ UNCHANGED <<peerVars, header, fd>>

\* The packet is complete: it is emitted and the decoder starts again.
BodyDone ==
  /\ pc = "body" /\ Readable # <<>>
  /\ LET n == Lesser(Wanted, Len(Readable))  data == readBuffer \o Take(Readable, n) IN
       /\ Len(data) = packDataLength
       /\ ReadableTaken(n)
       /\ emitted' = Append(emitted, [pkt |-> header, data |-> data])
  /\ handled' = handled + 1
  /\ readBuffer' = <<>> /\ packDataLength' = 0 /\ tlsRawSize' = 0
  /\ pc' = "wait"
  /\ UNCHANGED <<peerVars, header, fd>>

\* Mutant: DecodePacket never calls itself.
BodyPartOnce ==
  /\ pc = "body" /\ Readable # <<>>
  /\ LET n == Lesser(Wanted, Len(Readable))  data == readBuffer \o Take(Readable, n) IN
       /\ Len(data) # packDataLength
       /\ ReadableTaken(n)
       /\ readBuffer' = data
       /\ tlsRawSize' = Spent(n)
  /\ pc' = "wait"
  /\ UNCHANGED <<peerVars, packDataLength, header, handled, emitted, fd>>

\* It is not: the poller goes on, or DecodePacket calls itself when tlsRawSize
\* says that the TLS layer may hold the remaining bytes.
BodyPart ==
  /\ pc = "body" /\ Readable # <<>>
  /\ LET n == Lesser(Wanted, Len(Readable))  data == readBuffer \o Take(Readable, n) IN
       /\ Len(data) # packDataLength
       /\ ReadableTaken(n)
       /\ readBuffer' = data
       /\ tlsRawSize' = Spent(n)
       /\ pc' = IF mode = "tls" /\ Spent(n) >= packDataLength - Len(data) THEN "body" ELSE "wait"
  /\ UNCHANGED <<peerVars, packDataLength, header, handled, emitted, fd>>

PollerStep ==
  \/ Event \/ Fill \/ Decrypt \/ Again \/ EndOfStream
  \/ HeadFails \/ HeadRead \/ BodyDone \/ BodyPart

Next == PollerStep \/ PeerSends \/ PeerSeals \/ PeerEnds

Spec == Init /\ [][Next]_vars

\* The poller runs; nothing of what the peer does has to happen.
FairSpec == Spec /\ WF_vars(PollerStep)

-----------------------------------------------------------------------------
(* Properties.                                                             *)

Raw == Bytes \cup {Tag}

TypeOK ==
  /\ mode \in Modes /\ splits \in BOOLEAN
  /\ bodies \in [Packets -> 0..MaxBody]
  /\ peer \in [pkt : 1..MaxPacket + 1, at : 1..HeadLen + MaxBody]
  /\ unsealed \in 0..MaxRecord
  /\ ended \in BOOLEAN
  /\ inbound \in Seq(Raw) /\ rawInput \in Seq(Raw) /\ input \in Seq(Bytes)
  /\ tlsRawSize \in Int
  /\ packDataLength \in 0..MaxBody
  /\ header \in 0..MaxPacket
  /\ readBuffer \in Seq(Bytes) /\ Len(readBuffer) <= MaxBody
  /\ pc \in {"wait", "head", "body"}
  /\ handled \in 0..MaxPacket
  /\ emitted \in Seq([pkt : Packets, data : Seq(Bytes)])
  /\ fd \in {"open", "closed"}

\* Messages are emitted in the order the peer sent the packets, each once and
\* with exactly its own bytes, however the stream is cut into segments, records
\* and reads.
MessagesExact ==
  /\ \A i \in DOMAIN emitted :
       /\ emitted[i].data = Body(emitted[i].pkt) /\ emitted[i].data # <<>>
       /\ \A j \in 1..i - 1 : emitted[j].pkt < emitted[i].pkt
  /\ \A k \in 1..handled : bodies[k] > 0 => \E i \in DOMAIN emitted : emitted[i].pkt = k

\* Between two events the decoder holds a beginning of one body, or nothing:
\* no byte of another packet ever gets into the read buffer.
BufferIsPrefix ==
  /\ packDataLength = 0 => readBuffer = <<>>
  /\ packDataLength > 0 =>
       /\ packDataLength = bodies[header]
       /\ Len(readBuffer) < packDataLength
       /\ readBuffer = Take(Body(header), Len(readBuffer))

\* However the stream is cut, packets are framed as the peer has framed them:
\* in what has been emitted and in what is held back.
Framed == MessagesExact /\ BufferIsPrefix

\* The peer's packets up to k are in the stream, and their records are closed.
Sent(k) == peer.pkt > k /\ unsealed = 0

\* A packet that the peer has sent is decoded, unless the connection is closed,
\* without the help of any later packet.
Decoded == \A k \in Packets : Sent(k) ~> handled >= k \/ fd = "closed"

PeerAtFault ==
  ended \/ \E k \in Packets : MaxBodyLength > 0 /\ bodies[k] > MaxBodyLength

\* The poller closes a connection only if the peer has ended it or sends a body
\* beyond the limit, provided that every header arrives in one piece.
ClosedForCause == [][fd' # fd => PeerAtFault \/ splits]_vars

\* The end of the stream closes the connection; a peer that leaves a TLS record
\* unfinished is not noticed.
EndIsNoticed == ended ~> fd = "closed" \/ unsealed > 0

\* Nothing that has arrived is left waiting: no packet, and no end of the stream.
NothingWaits == Decoded /\ EndIsNoticed
=============================================================================
