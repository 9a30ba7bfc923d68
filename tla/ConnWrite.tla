----------------------------- MODULE ConnWrite -----------------------------
(***************************************************************************)
(* The write path of one connection (server/baseconnect.go): Send / Write  *)
(* called by handler goroutines, and ProceedWrite called by the poller     *)
(* that owns the connection, over the fields state, writeQ and writeBuff   *)
(* that no lock protects as a whole (only the queue has a mutex).          *)
(*                                                                         *)
(* One step is one shared access of the code: a read or a write of the     *)
(* field state, a locked queue operation, or a system call.  A packet is   *)
(* PacketLen bytes; what is left of it is always a suffix, so a chunk is   *)
(* [pkt, from]: the bytes from..PacketLen of packet pkt.  Every system     *)
(* call that moves bytes appends one segment [pkt, from, to] to wire.      *)
(*                                                                         *)
(* The plain (non-TLS) mode is modelled, the fd is not reused after it is  *)
(* closed (module ConnLifecycle is about that), and Close is one step.     *)
(***************************************************************************)
EXTENDS Integers, Sequences

CONSTANTS
  Writers,        \* goroutines that call Send on this connection
  PollerWriters,  \* those that run on the poller's own goroutine (pong, ...)
  MaxSend,        \* bound: packets each goroutine sends
  PacketLen,      \* bytes of a packet
  SockBuf,        \* bytes the kernel's send buffer holds
  NoPacket        \* writeBuff before the first packet is popped

ASSUME ConnWriteAssumption ==
  /\ PollerWriters \subseteq Writers
  /\ MaxSend \in Nat
  /\ PacketLen \in Nat \ {0}
  /\ SockBuf \in Nat \ {0}
  /\ NoPacket \notin Writers \X (1..MaxSend)

VARIABLES
  state,      \* c.state
  interest,   \* the event the poller's epoll watches the fd for
  writeQ,     \* c.writeQ, a sequence of chunks
  writeBuff,  \* c.writeBuff, the chunk the poller is sending
  poller,     \* where the poller's goroutine is
  pc,         \* where each sender is
  sent,       \* number of packets each sender has begun
  off,        \* first byte of its packet a sender has not yet written
  wire,       \* segments the kernel accepted, in order
  room,       \* free bytes of the kernel's send buffer
  fd,         \* the file descriptor
  peer        \* the other end

vars == <<state, interest, writeQ, writeBuff, poller, pc, sent, off,
          wire, room, fd, peer>>
connVars == <<state, interest, writeQ, writeBuff>>
kernelVars == <<wire, room, fd, peer>>

Packets == Writers \X (1..MaxSend)
Chunks == [pkt : Packets, from : 1..PacketLen]
Segments ==
  {s \in [pkt : Packets, from : 1..PacketLen, to : 1..PacketLen] : s.from <= s.to}

Lesser(a, b) == IF a <= b THEN a ELSE b

\* len(c.writeBuff); the packet a sender is sending, and what is left of it.
Left(chunk) == PacketLen + 1 - chunk.from
Current(w) == <<w, sent[w]>>
Rest(w) == [pkt |-> Current(w), from |-> off[w]]

\* What a write(2) of chunk returns when the buffer has room: a positive n.
Accepted(chunk) == Lesser(room, Left(chunk))
Segment(chunk) == [pkt |-> chunk.pkt, from |-> chunk.from,
                   to |-> chunk.from + Accepted(chunk) - 1]

\* The poller's goroutine is in epoll_wait.
PollerFree == poller = "wait" /\ \A w \in PollerWriters : pc[w] = "idle"

Init ==
  /\ state = "OnLine"
  /\ interest = "in"
  /\ writeQ = <<>>
  /\ writeBuff = [pkt |-> NoPacket, from |-> PacketLen + 1]
  /\ poller = "wait"
  /\ pc = [w \in Writers |-> "idle"]
  /\ sent = [w \in Writers |-> 0]
  /\ off = [w \in Writers |-> 1]
  /\ wire = <<>>
  /\ room = SockBuf
  /\ fd = "open"
  /\ peer = "up"

-----------------------------------------------------------------------------
(* Write, called by Send.                                                  *)

Goto(w, from, to) == pc[w] = from /\ pc' = [pc EXCEPT ![w] = to]

\* A handler packs a message and enters Write.
Send(w) ==
  /\ Goto(w, "idle", "check")
  /\ w \in PollerWriters => PollerFree
  /\ sent[w] < MaxSend
  /\ sent' = [sent EXCEPT ![w] = @ + 1]
  /\ off' = [off EXCEPT ![w] = 1]
  /\ UNCHANGED <<connVars, kernelVars, poller>>

\* Mutant: the check of the state is missing.
CheckStateMissing(w) ==
  /\ Goto(w, "check", "write")
  /\ UNCHANGED <<connVars, kernelVars, poller, sent, off>>

\* if c.state == common.EPollOUT
CheckState(w) ==
  /\ Goto(w, "check", IF state = "EPollOUT" THEN "enqueue" ELSE "write")
  /\ UNCHANGED <<connVars, kernelVars, poller, sent, off>>

\* The whole packet waits behind the ones already queued.
Enqueue(w) ==
  /\ Goto(w, "enqueue", "idle")
  /\ writeQ' = Append(writeQ, Rest(w))
  /\ UNCHANGED <<state, interest, writeBuff, kernelVars, poller, sent, off>>

\* unix.Write accepts everything or a part.
WriteSome(w) ==
  /\ fd = "open" /\ peer = "up" /\ room > 0
  /\ Goto(w, "write", IF Accepted(Rest(w)) = Left(Rest(w)) THEN "idle" ELSE "setout")
  /\ wire' = Append(wire, Segment(Rest(w)))
  /\ room' = room - Accepted(Rest(w))
  /\ off' = [off EXCEPT ![w] = @ + Accepted(Rest(w))]
  /\ UNCHANGED <<connVars, fd, peer, poller, sent>>

\* unix.Write returns -1 with an error other than EBADF and EPIPE: EAGAIN when
\* the buffer is full, ECONNRESET when the peer is gone.
WriteAgain(w) ==
  /\ fd = "open" /\ (peer = "up" => room = 0)
  /\ Goto(w, "write", "setout")
  /\ UNCHANGED <<connVars, kernelVars, poller, sent, off>>

\* EBADF or EPIPE: Write returns -1, the packet is given up.
WriteFailed(w) ==
  /\ fd = "closed" \/ peer = "gone"
  /\ Goto(w, "write", "idle")
  /\ UNCHANGED <<connVars, kernelVars, poller, sent, off>>

\* Mutant: the state is not set.
SetOutMissing(w) ==
  /\ Goto(w, "setout", "pushrest")
  /\ UNCHANGED <<connVars, kernelVars, poller, sent, off>>

\* c.SetState(common.EPollOUT)
SetOut(w) ==
  /\ Goto(w, "setout", "pushrest")
  /\ state' = "EPollOUT"
  /\ UNCHANGED <<interest, writeQ, writeBuff, kernelVars, poller, sent, off>>

\* Mutant: c.writeQ.Push(dataPack[n+1:])
PushAfterRest(w) ==
  /\ Goto(w, "pushrest", "modwrite")
  /\ writeQ' = Append(writeQ, [Rest(w) EXCEPT !.from = @ + 1])
  /\ UNCHANGED <<state, interest, writeBuff, kernelVars, poller, sent, off>>

\* c.writeQ.Push(dataPack[n:])
PushRest(w) ==
  /\ Goto(w, "pushrest", "modwrite")
  /\ writeQ' = Append(writeQ, Rest(w))
  /\ UNCHANGED <<state, interest, writeBuff, kernelVars, poller, sent, off>>

\* c.poller.ModWrite; its error (the fd is no longer registered) is ignored.
ModWrite(w) ==
  /\ Goto(w, "modwrite", "idle")
  /\ interest' = IF interest = "none" THEN "none" ELSE "out"
  /\ UNCHANGED <<state, writeQ, writeBuff, kernelVars, poller, sent, off>>

WriteStep(w) ==
  \/ CheckState(w) \/ Enqueue(w) \/ WriteSome(w) \/ WriteAgain(w)
  \/ WriteFailed(w) \/ SetOut(w) \/ PushRest(w) \/ ModWrite(w)

-----------------------------------------------------------------------------
(* The poller: ProceedWrite on EPOLLOUT, and the end of the connection.    *)

\* What Close does to the write path: epoll forgets the fd, then it is closed.
CloseConn == interest' = "none" /\ fd' = "closed"

\* epoll_wait reports EPOLLOUT: there is room, or the socket is shut down.  The
\* look-up of the connection that follows is part of this step.
WriteEvent ==
  /\ PollerFree
  /\ interest = "out"
  /\ room > 0 \/ peer = "gone"
  /\ poller' = "getbuff"
  /\ UNCHANGED <<connVars, kernelVars, pc, sent, off>>

\* Mutant: an empty queue means that nothing is left to send.
EmptyByQueueOnly ==
  /\ poller = "getbuff"
  /\ \/ /\ writeQ # <<>>
        /\ poller' = "flush"
        /\ IF Left(writeBuff) >= 1
           THEN UNCHANGED <<writeBuff, writeQ>>
           ELSE writeBuff' = Head(writeQ) /\ writeQ' = Tail(writeQ)
     \/ /\ writeQ = <<>>
        /\ poller' = "modread"
        /\ UNCHANGED <<writeBuff, writeQ>>
  /\ UNCHANGED <<state, interest, kernelVars, pc, sent, off>>

\* GetWriteBuff: what is left of the last packet, else the next one.
GetWriteBuff ==
  /\ poller = "getbuff"
  /\ \/ /\ Left(writeBuff) >= 1
        /\ poller' = "flush"
        /\ UNCHANGED <<writeBuff, writeQ>>
     \/ /\ Left(writeBuff) = 0 /\ writeQ # <<>>
        /\ poller' = "flush"
        /\ writeBuff' = Head(writeQ)
        /\ writeQ' = Tail(writeQ)
     \/ /\ Left(writeBuff) = 0 /\ writeQ = <<>>
        /\ poller' = "modread"
        /\ UNCHANGED <<writeBuff, writeQ>>
  /\ UNCHANGED <<state, interest, kernelVars, pc, sent, off>>

\* Nothing was queued: ModRead.  It fails, and Wait closes the connection,
\* when the fd is no longer registered.
ModRead ==
  /\ poller = "modread"
  /\ \/ /\ interest # "none"
        /\ interest' = "in"
        /\ poller' = "setin"
        /\ UNCHANGED fd
     \/ /\ interest = "none"
        /\ CloseConn
        /\ poller' = "wait"
  /\ UNCHANGED <<state, writeQ, writeBuff, wire, room, peer, pc, sent, off>>

\* Mutant: the state is not synchronised after ModRead.
SetInMissing ==
  /\ poller = "setin"
  /\ poller' = "wait"
  /\ UNCHANGED <<connVars, kernelVars, pc, sent, off>>

\* c.SetState(common.EPollIN)
SetIn ==
  /\ poller = "setin"
  /\ state' = "EPollIN"
  /\ poller' = "wait"
  /\ UNCHANGED <<interest, writeQ, writeBuff, kernelVars, pc, sent, off>>

\* Mutant: SetWriteBuff is missing, the bytes written are sent again.
FlushKeepsBuff ==
  /\ poller = "flush"
  /\ fd = "open" /\ peer = "up" /\ room > 0
  /\ wire' = Append(wire, Segment(writeBuff))
  /\ room' = room - Accepted(writeBuff)
  /\ poller' = "wait"
  /\ UNCHANGED <<connVars, fd, peer, pc, sent, off>>

\* Mutant: back to read events as soon as the queue is empty.
FlushThenRead ==
  /\ poller = "flush"
  /\ fd = "open" /\ peer = "up" /\ room > 0
  /\ wire' = Append(wire, Segment(writeBuff))
  /\ room' = room - Accepted(writeBuff)
  /\ writeBuff' = [writeBuff EXCEPT !.from = @ + Accepted(writeBuff)]
  /\ interest' = IF writeQ = <<>> THEN "in" ELSE interest
  /\ poller' = "wait"
  /\ UNCHANGED <<state, writeQ, fd, peer, pc, sent, off>>

\* unix.Write of writeBuff and SetWriteBuff(dataBuff[n:]).
Flush ==
  /\ poller = "flush"
  /\ fd = "open" /\ peer = "up" /\ room > 0
  /\ wire' = Append(wire, Segment(writeBuff))
  /\ room' = room - Accepted(writeBuff)
  /\ writeBuff' = [writeBuff EXCEPT !.from = @ + Accepted(writeBuff)]
  /\ poller' = "wait"
  /\ UNCHANGED <<state, interest, writeQ, fd, peer, pc, sent, off>>

\* Any error of that write, EAGAIN too, makes Wait close the connection.
FlushFailed ==
  /\ poller = "flush"
  /\ fd = "closed" \/ peer = "gone" \/ room = 0
  /\ CloseConn
  /\ poller' = "wait"
  /\ UNCHANGED <<state, writeQ, writeBuff, wire, room, peer, pc, sent, off>>

\* The poller reads the end of the stream and closes.  (A peer that only shuts
\* down its sending side ends the same way: CloseByOther.)
ReadEOF ==
  /\ PollerFree
  /\ interest = "in" /\ peer = "gone"
  /\ CloseConn
  /\ UNCHANGED <<state, writeQ, writeBuff, wire, room, peer, poller, pc, sent, off>>

PollerStep ==
  WriteEvent \/ GetWriteBuff \/ ModRead \/ SetIn \/ Flush \/ FlushFailed \/ ReadEOF

-----------------------------------------------------------------------------
(* The rest of the program and the peer.                                   *)

\* A handler, or the heartbeat check, closes the connection.
CloseByOther ==
  /\ fd = "open"
  /\ CloseConn
  /\ UNCHANGED <<state, writeQ, writeBuff, wire, room, peer, poller, pc, sent, off>>

PeerReads ==
  /\ fd = "open" /\ peer = "up" /\ room < SockBuf
  /\ room' = room + 1
  /\ UNCHANGED <<connVars, wire, fd, peer, poller, pc, sent, off>>

PeerGone ==
  /\ peer = "up"
  /\ peer' = "gone"
  /\ UNCHANGED <<connVars, wire, room, fd, poller, pc, sent, off>>

Next ==
  \/ \E w \in Writers : Send(w) \/ WriteStep(w)
  \/ PollerStep
  \/ CloseByOther \/ PeerReads \/ PeerGone

Spec == Init /\ [][Next]_vars

\* The Go scheduler runs every goroutine that can run, and a peer that stays
\* connected keeps reading.  Nobody has to send, close or disconnect.
Fairness ==
  /\ \A w \in Writers : WF_vars(WriteStep(w))
  /\ WF_vars(PollerStep)
  /\ WF_vars(PeerReads)

FairSpec == Spec /\ Fairness

-----------------------------------------------------------------------------
(* Properties.                                                             *)

TypeOK ==
  /\ state \in {"OnLine", "EPollOUT", "EPollIN"}
  /\ interest \in {"in", "out", "none"}
  /\ writeQ \in Seq(Chunks)
  /\ writeBuff \in [pkt : Packets \cup {NoPacket}, from : 1..PacketLen + 1]
  /\ poller \in {"wait", "getbuff", "flush", "modread", "setin"}
  /\ pc \in [Writers -> {"idle", "check", "enqueue", "write", "setout",
                         "pushrest", "modwrite"}]
  /\ sent \in [Writers -> 0..MaxSend]
  /\ off \in [Writers -> 1..PacketLen + 1]
  /\ wire \in Seq(Segments)
  /\ room \in 0..SockBuf
  /\ fd \in {"open", "closed"}
  /\ peer \in {"up", "gone"}

\* A packet, or the rest of it, can be with its sender, in the queue or in
\* writeBuff.
InHand(w) == pc[w] \in {"check", "enqueue", "write", "setout", "pushrest"}
InQueue(p) == \E i \in DOMAIN writeQ : writeQ[i].pkt = p
InBuff == Left(writeBuff) >= 1
Buffered(p) == InBuff /\ writeBuff.pkt = p

\* Byte b of packet p is on the wire; a chunk starts at the next byte to send.
Carries(segments, p, b) ==
  \E i \in DOMAIN segments :
    segments[i].pkt = p /\ b \in segments[i].from..segments[i].to
OnWire(p, b) == Carries(wire, p, b)
IsNext(chunk) == \A b \in 1..PacketLen : OnWire(chunk.pkt, b) <=> b < chunk.from

\* The bytes of one packet leave in order, without a gap and never twice,
\* whoever sends them: the handler in Write, the poller in ProceedWrite, or
\* first the one and then the other after a partial write.
InOrder(segments) ==
  \A j \in DOMAIN segments :
    LET s == segments[j] IN
    /\ \A i \in 1..j - 1 : segments[i].pkt = s.pkt => segments[i].to < s.from
    /\ \A b \in 1..s.from - 1 :
         \E i \in 1..j - 1 :
           segments[i].pkt = s.pkt /\ b \in segments[i].from..segments[i].to
PacketOrder == InOrder(wire)

\* The unsent rest of a packet is in one place only, and starts at the byte
\* after the last one on the wire: a partial write keeps what it has to keep,
\* and the hand-over from Write to ProceedWrite never duplicates a packet.
OneHome ==
  /\ \A w \in Writers : InHand(w) =>
       IsNext(Rest(w)) /\ ~InQueue(Current(w)) /\ ~Buffered(Current(w))
  /\ \A i \in DOMAIN writeQ :
       /\ IsNext(writeQ[i]) /\ ~Buffered(writeQ[i].pkt)
       /\ \A j \in DOMAIN writeQ : writeQ[j].pkt = writeQ[i].pkt => j = i
  /\ InBuff => IsNext(writeBuff)

\* While the connection is up, a packet whose Send has begun is on the wire to
\* its last byte, or its rest is waiting somewhere.
NothingLost ==
  (fd = "open" /\ peer = "up") =>
    \A w \in Writers : \A k \in 1..sent[w] :
      \/ OnWire(<<w, k>>, PacketLen)
      \/ InHand(w) /\ k = sent[w]
      \/ InQueue(<<w, k>>)
      \/ Buffered(<<w, k>>)

\* Whoever sends its bytes and however the writes are cut: each packet's bytes
\* leave in order and once, its rest has exactly one place, and none is lost.
BytesKept == PacketOrder /\ OneHome /\ NothingLost

\* The poller never goes back to read events with a half-sent packet in
\* writeBuff: the rest would have no event that sends it.
HalfSentIsWatched == InBuff => interest \in {"out", "none"}

\* writeBuff is refilled only when its packet is completely sent.
NoOverwrite == [][InBuff => writeBuff'.pkt = writeBuff.pkt]_vars

\* A packet that has reached writeBuff is sent to its last byte unless the
\* connection ends.
HalfSentIsFinished == InBuff ~> (~InBuff \/ fd = "closed")

Quiet == poller = "wait" /\ \A w \in Writers : pc[w] = "idle"

\* "There is no unsent data in the queue: change the connection to the readable
\* event" (comment in ProceedWrite): at rest, read interest means nothing waits.
NothingStranded == Quiet /\ interest = "in" => writeQ = <<>>

\* Only one goroutine has used the connection so far.
OneSender == \A v, w \in Writers : sent[v] > 0 /\ sent[w] > 0 => v = w

\* While only one goroutine sends: "only one state at a time, either readable or
\* writable; epoll can be understood as a state machine" (comment in Write), at
\* rest the field state says EPollOUT exactly when epoll watches for writability;
\* and "after the kernel notifies that the fd is writable, go on writing": the
\* poller does not close a connection whose peer is up.
OneSenderIsServed ==
  /\ [](OneSender /\ Quiet /\ interest # "none" => (state = "EPollOUT" <=> interest = "out"))
  /\ [][OneSender /\ poller = "flush" /\ poller' = "wait" /\ fd = "open" /\ peer = "up"
          => fd' = "open"]_vars

=============================================================================
