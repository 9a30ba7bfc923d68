-------------------------- MODULE ConnWriteProofs --------------------------
(***************************************************************************)
(* Proofs that the safety properties of ConnWrite hold for any number of   *)
(* goroutines, packets, packet bytes and any size of the socket buffer.    *)
(*                                                                         *)
(* The inductive invariant has three layers.  TypeInv adds to TypeOK that  *)
(* a chunk that is about to be written has a packet and at least one byte. *)
(* Watched adds where the poller is when writeBuff holds bytes.  HomeInv   *)
(* adds that a packet whose Send has not begun is nowhere.  The last part  *)
(* proves that ConnWriteStream implements PacketStream, from two more      *)
(* invariants: Polled, for senders on the poller's goroutine, and Listed.  *)
(***************************************************************************)
EXTENDS ConnWriteStream, SequenceTheorems, FiniteSetTheorems, TLAPS

Begun == \A w \in Writers : InHand(w) => sent[w] >= 1 /\ off[w] <= PacketLen

FlushHasBytes ==
  /\ poller = "flush" => InBuff
  /\ InBuff => writeBuff.pkt # NoPacket

TypeInv == TypeOK /\ Begun /\ FlushHasBytes

Watched ==
  /\ HalfSentIsWatched
  /\ poller \in {"getbuff", "flush"} => interest # "in"
  /\ poller \in {"modread", "setin"} => ~InBuff

\* A packet whose Send has not begun is nowhere.
Fresh ==
  \A w \in Writers : \A k \in 1..MaxSend : k > sent[w] =>
    /\ ~InQueue(<<w, k>>) /\ ~Buffered(<<w, k>>)
    /\ \A b \in 1..PacketLen : ~OnWire(<<w, k>>, b)

HomeInv == PacketOrder /\ OneHome /\ Fresh /\ NothingLost

-----------------------------------------------------------------------------
(* What one system call writes.                                            *)

\* A write takes at least one byte of the chunk and never more than it has.
LEMMA AcceptedBound ==
  ASSUME NEW chunk \in Chunks, room \in 1..SockBuf
  PROVE  /\ Accepted(chunk) \in 1..Left(chunk)
         /\ Accepted(chunk) \in 1..room
         /\ Left(chunk) \in 1..PacketLen
         /\ Segment(chunk) \in Segments
<1>1. Left(chunk) \in 1..PacketLen /\ chunk.from \in 1..PacketLen
  BY ConnWriteAssumption DEF Chunks, Left
<1>2. Accepted(chunk) \in 1..Left(chunk) /\ Accepted(chunk) \in 1..room
  BY <1>1, ConnWriteAssumption DEF Accepted, Lesser
<1>3. chunk.from + Accepted(chunk) - 1 \in chunk.from..PacketLen
  BY <1>1, <1>2, ConnWriteAssumption DEF Left
<1>4. Segment(chunk) \in Segments
  BY <1>1, <1>3, ConnWriteAssumption DEF Segment, Segments, Chunks
<1> QED
  BY <1>1, <1>2, <1>4

\* The rest of the packet in a sender's hand is a chunk.
LEMMA RestIsChunk ==
  ASSUME TypeInv, NEW w \in Writers, InHand(w)
  PROVE  Rest(w) \in Chunks
BY ConnWriteAssumption DEF TypeInv, TypeOK, Begun, Rest, Current, Chunks, Packets

\* So is what the poller is about to write.
LEMMA BuffIsChunk ==
  ASSUME TypeInv, InBuff
  PROVE  writeBuff \in Chunks
BY ConnWriteAssumption DEF TypeInv, TypeOK, FlushHasBytes, InBuff, Left, Chunks

-----------------------------------------------------------------------------
(* Type correctness.                                                       *)

\* The types hold initially ...
LEMMA TypeInit == Init => TypeInv
BY ConnWriteAssumption DEF Init, TypeInv, TypeOK, Begun, FlushHasBytes, InHand, InBuff, Left

\* ... and every step keeps them.
LEMMA TypeStep == TypeInv /\ [Next]_vars => TypeInv'
<1> SUFFICES ASSUME TypeInv, [Next]_vars PROVE TypeInv'
  OBVIOUS
<1> USE ConnWriteAssumption DEF TypeInv, TypeOK
<1>1. ASSUME NEW w \in Writers, Send(w) PROVE TypeInv'
  BY <1>1 DEF Send, Goto, connVars, kernelVars, Begun, FlushHasBytes, InHand, InBuff, Left
<1>2. ASSUME NEW w \in Writers, CheckState(w) PROVE TypeInv'
  BY <1>2 DEF CheckState, Goto, connVars, kernelVars, Begun, FlushHasBytes, InHand, InBuff, Left
<1>3. ASSUME NEW w \in Writers, Enqueue(w) \/ PushRest(w) PROVE TypeInv'
  <2>1. Rest(w) \in Chunks
    BY <1>3, RestIsChunk DEF Enqueue, PushRest, Goto, InHand
  <2>2. writeQ' = Append(writeQ, Rest(w))
    BY <1>3 DEF Enqueue, PushRest
  <2>3. writeQ' \in Seq(Chunks)
    BY <2>1, <2>2, AppendProperties
  <2>4. CASE Enqueue(w)
    BY <2>4, <2>3 DEF Enqueue, Goto, kernelVars, Begun, FlushHasBytes, InHand, InBuff, Left
  <2>5. CASE PushRest(w)
    BY <2>5, <2>3 DEF PushRest, Goto, kernelVars, Begun, FlushHasBytes, InHand, InBuff, Left
  <2> QED
    BY <1>3, <2>4, <2>5
<1>4. ASSUME NEW w \in Writers, WriteSome(w) PROVE TypeInv'
  <2>1. Rest(w) \in Chunks /\ room \in 1..SockBuf
    BY <1>4, RestIsChunk DEF WriteSome, Goto, InHand
  <2>2. /\ Accepted(Rest(w)) \in 1..Left(Rest(w))
        /\ Accepted(Rest(w)) \in 1..room
        /\ Segment(Rest(w)) \in Segments
    BY <2>1, AcceptedBound
  <2>3. wire' \in Seq(Segments) /\ room' \in 0..SockBuf
    BY <1>4, <2>2 DEF WriteSome
  <2>4. Left(Rest(w)) = PacketLen + 1 - off[w]
    BY DEF Left, Rest
  <2>5. /\ off' \in [Writers -> 1..PacketLen + 1]
        /\ \A v \in Writers : v # w => off'[v] = off[v]
        /\ off'[w] = off[w] + Accepted(Rest(w))
    <3>1. off' = [off EXCEPT ![w] = off[w] + Accepted(Rest(w))]
      BY <1>4 DEF WriteSome
    <3>2. off \in [Writers -> 1..PacketLen + 1]
      OBVIOUS
    <3>3. off[w] + Accepted(Rest(w)) \in 1..PacketLen + 1
      <4>1. off[w] \in 1..PacketLen + 1 /\ PacketLen \in Nat
        BY <3>2, ConnWriteAssumption
      <4> QED BY ONLY <4>1, <2>2, <2>4
    <3> QED BY ONLY <3>1, <3>2, <3>3
  <2>6. pc' \in [Writers -> {"idle", "check", "enqueue", "write", "setout", "pushrest", "modwrite"}]
    BY <1>4 DEF WriteSome, Goto
  <2>7. Begun'
    <3>1. ASSUME NEW v \in Writers, InHand(v)' PROVE sent[v] >= 1 /\ off'[v] <= PacketLen
      <4>1. CASE v # w
        BY <4>1, <3>1, <2>5, <1>4 DEF WriteSome, Goto, Begun, InHand
      <4>2. CASE v = w
        <5>1. Accepted(Rest(w)) # Left(Rest(w)) /\ sent[w] >= 1
          BY <4>2, <3>1, <1>4 DEF WriteSome, Goto, Begun, InHand
        <5>2. /\ off[w] \in Nat /\ Left(Rest(w)) = PacketLen + 1 - off[w]
              /\ Accepted(Rest(w)) \in 1..Left(Rest(w)) - 1
          BY <5>1, <2>2, <2>4, SMTT(60)
        <5>3. off[w] + Accepted(Rest(w)) <= PacketLen
          BY <5>2
        <5> QED
          BY <4>2, <5>1, <5>3, <2>5
      <4> QED
        BY <4>1, <4>2
    <3> QED
      BY <3>1, <1>4 DEF Begun, WriteSome
  <2> QED
    BY <1>4, <2>3, <2>5, <2>6, <2>7 DEF WriteSome, connVars, FlushHasBytes, InBuff, Left
<1>5. ASSUME NEW w \in Writers, WriteAgain(w) \/ WriteFailed(w) \/ SetOut(w) \/ ModWrite(w) PROVE TypeInv'
  <2>1. CASE WriteAgain(w)
    BY <2>1 DEF WriteAgain, Goto, connVars, kernelVars, Begun, FlushHasBytes, InHand, InBuff, Left
  <2>2. CASE WriteFailed(w)
    BY <2>2 DEF WriteFailed, Goto, connVars, kernelVars, Begun, FlushHasBytes, InHand, InBuff, Left
  <2>3. CASE SetOut(w)
    BY <2>3 DEF SetOut, Goto, connVars, kernelVars, Begun, FlushHasBytes, InHand, InBuff, Left
  <2>4. CASE ModWrite(w)
    BY <2>4 DEF ModWrite, Goto, connVars, kernelVars, Begun, FlushHasBytes, InHand, InBuff, Left
  <2> QED
    BY <1>5, <2>1, <2>2, <2>3, <2>4
<1>6. CASE WriteEvent
  BY <1>6 DEF WriteEvent, connVars, kernelVars, Begun, FlushHasBytes, InHand, InBuff, Left
<1>7. CASE GetWriteBuff
  <2>1. CASE Left(writeBuff) = 0 /\ writeQ # <<>> /\ writeBuff' = Head(writeQ) /\ writeQ' = Tail(writeQ)
             /\ poller' = "flush"
    <3>1. Head(writeQ) \in Chunks /\ Tail(writeQ) \in Seq(Chunks)
      BY <2>1
    <3>2. writeBuff'.pkt \in Packets /\ writeBuff'.from \in 1..PacketLen
      BY <2>1, <3>1 DEF Chunks
    <3>3. FlushHasBytes'
      BY <3>2 DEF FlushHasBytes, InBuff, Left, Packets
    <3>4. writeBuff' \in [pkt : Packets \cup {NoPacket}, from : 1..PacketLen + 1]
      BY <2>1, <3>1 DEF Chunks
    <3> QED
      BY <1>7, <2>1, <3>1, <3>3, <3>4 DEF GetWriteBuff, kernelVars, Begun, InHand
  <2>2. CASE UNCHANGED <<writeBuff, writeQ>>
    BY <1>7, <2>2 DEF GetWriteBuff, kernelVars, Begun, FlushHasBytes, InHand, InBuff, Left
  <2> QED
    BY <1>7, <2>1, <2>2 DEF GetWriteBuff
<1>8. CASE Flush
  <2>1. writeBuff \in Chunks /\ room \in 1..SockBuf
    BY <1>8, BuffIsChunk DEF Flush, FlushHasBytes
  <2>2. /\ Accepted(writeBuff) \in 1..Left(writeBuff)
        /\ Accepted(writeBuff) \in 1..room
        /\ Segment(writeBuff) \in Segments
    BY <2>1, AcceptedBound
  <2>3. wire' \in Seq(Segments) /\ room' \in 0..SockBuf
    BY <1>8, <2>2 DEF Flush
  <2>a. /\ writeBuff.pkt \in Packets /\ writeBuff.from \in 1..PacketLen
        /\ writeBuff = [pkt |-> writeBuff.pkt, from |-> writeBuff.from]
    BY <2>1 DEF Chunks
  <2>b. writeBuff' = [pkt |-> writeBuff.pkt, from |-> writeBuff.from + Accepted(writeBuff)]
    BY <1>8, <2>a DEF Flush
  <2>c. writeBuff.from + Accepted(writeBuff) \in 1..PacketLen + 1
    BY <2>2, <2>a DEF Left
  <2>4. /\ writeBuff' \in [pkt : Packets \cup {NoPacket}, from : 1..PacketLen + 1]
        /\ writeBuff'.pkt = writeBuff.pkt
        /\ writeBuff.pkt \in Packets
    BY <2>a, <2>b, <2>c
  <2>5. FlushHasBytes'
    BY <1>8, <2>4 DEF Flush, FlushHasBytes, Packets
  <2> QED
    BY <1>8, <2>3, <2>4, <2>5 DEF Flush, Begun, InHand
<1>9. CASE ModRead \/ SetIn \/ FlushFailed \/ ReadEOF \/ CloseByOther
  BY <1>9 DEF ModRead, SetIn, FlushFailed, ReadEOF, CloseByOther, CloseConn, kernelVars,
     Begun, FlushHasBytes, InHand, InBuff, Left
<1>10. CASE PeerReads \/ PeerGone
  BY <1>10 DEF PeerReads, PeerGone, connVars, Begun, FlushHasBytes, InHand, InBuff, Left
<1>11. CASE UNCHANGED vars
  BY <1>11 DEF vars, Begun, FlushHasBytes, InHand, InBuff, Left
<1> QED
  BY <1>1, <1>2, <1>3, <1>4, <1>5, <1>6, <1>7, <1>8, <1>9, <1>10, <1>11
  DEF Next, WriteStep, PollerStep

\* The fields of the connection, the goroutines and the kernel stay in their
\* types, and every write is of one to Left bytes of a packet.
THEOREM TypeCorrect == Spec => []TypeOK
<1>1. Spec => []TypeInv
  BY TypeInit, TypeStep, PTL DEF Spec
<1>2. TypeInv => TypeOK
  BY DEF TypeInv
<1> QED
  BY <1>1, <1>2, PTL

-----------------------------------------------------------------------------
(* Where the poller is when writeBuff holds bytes.                         *)

\* writeBuff is empty initially ...
LEMMA WatchedInit == Init => Watched
BY ConnWriteAssumption DEF Init, Watched, HalfSentIsWatched, InBuff, Left

\* ... and every step keeps write interest while it is not.
LEMMA WatchedStep == TypeInv /\ Watched /\ [Next]_vars => Watched'
<1> SUFFICES ASSUME TypeInv, Watched, [Next]_vars PROVE Watched'
  OBVIOUS
<1> USE DEF TypeInv, TypeOK, Watched, HalfSentIsWatched
<1>1. ASSUME NEW w \in Writers, Send(w) \/ WriteStep(w) PROVE Watched'
  <2>1. /\ UNCHANGED <<writeBuff, poller>>
        /\ interest' = interest \/ interest' \in {"out", "none"}
    BY <1>1 DEF Send, WriteStep, CheckState, Enqueue, WriteSome, WriteAgain, WriteFailed,
       SetOut, PushRest, ModWrite, connVars, kernelVars
  <2> QED
    BY <2>1 DEF InBuff, Left
<1>2. CASE WriteEvent
  BY <1>2 DEF WriteEvent, connVars, kernelVars, InBuff, Left
<1>3. CASE GetWriteBuff
  <2>1. interest' = interest /\ interest \in {"out", "none"} /\ poller' \in {"flush", "modread"}
    BY <1>3 DEF GetWriteBuff
  <2>2. poller' = "modread" => ~InBuff'
    BY <1>3, ConnWriteAssumption DEF GetWriteBuff, InBuff, Left
  <2> QED
    BY <2>1, <2>2
<1>4. CASE Flush
  BY <1>4 DEF Flush
<1>5. CASE ModRead \/ SetIn
  BY <1>5 DEF ModRead, SetIn, CloseConn, kernelVars, InBuff, Left
<1>6. CASE FlushFailed \/ ReadEOF \/ CloseByOther
  BY <1>6 DEF FlushFailed, ReadEOF, CloseByOther, CloseConn, InBuff, Left
<1>7. CASE PeerReads \/ PeerGone \/ UNCHANGED vars
  BY <1>7 DEF PeerReads, PeerGone, connVars, vars, InBuff, Left
<1> QED
  BY <1>1, <1>2, <1>3, <1>4, <1>5, <1>6, <1>7 DEF Next, PollerStep

\* No step, of any goroutine, leaves half a packet in writeBuff while epoll
\* waits for read events only.
THEOREM NeverHalfSentUnwatched == Spec => []HalfSentIsWatched
<1>1. Init => TypeInv /\ Watched
  BY TypeInit, WatchedInit
<1>2. TypeInv /\ Watched /\ [Next]_vars => (TypeInv /\ Watched)'
  BY TypeStep, WatchedStep
<1>3. Watched => HalfSentIsWatched
  BY DEF Watched
<1> QED
  BY <1>1, <1>2, <1>3, PTL DEF Spec

\* ProceedWrite replaces writeBuff only when every byte of it has been sent.
THEOREM NeverOverwritten == Spec => NoOverwrite
<1>1. TypeInv /\ [Next]_vars => [InBuff => writeBuff'.pkt = writeBuff.pkt]_vars
  <2> SUFFICES ASSUME TypeInv, Next, InBuff PROVE writeBuff'.pkt = writeBuff.pkt
    OBVIOUS
  <2>1. CASE Flush
    BY <2>1 DEF Flush, TypeInv, TypeOK
  <2>2. CASE GetWriteBuff
    BY <2>2 DEF GetWriteBuff, InBuff
  <2>3. CASE ~Flush /\ ~GetWriteBuff
    BY <2>3 DEF Next, Send, WriteStep, CheckState, Enqueue, WriteSome, WriteAgain, WriteFailed,
       SetOut, PushRest, ModWrite, PollerStep, WriteEvent, ModRead, SetIn, FlushFailed, ReadEOF,
       CloseByOther, PeerReads, PeerGone, connVars
  <2> QED
    BY <2>1, <2>2, <2>3
<1> QED
  BY <1>1, TypeInit, TypeStep, PTL DEF Spec, NoOverwrite

-----------------------------------------------------------------------------
(* Where every packet is.                                                  *)

\* A system call adds its bytes to those on the wire.
LEMMA CarriesAppend ==
  ASSUME NEW segments \in Seq(Segments), NEW s \in Segments, NEW p, NEW b
  PROVE  Carries(Append(segments, s), p, b)
           <=> Carries(segments, p, b) \/ (s.pkt = p /\ b \in s.from..s.to)
<1> DEFINE after == Append(segments, s)
<1>1. /\ Len(after) = Len(segments) + 1
      /\ \A i \in 1..Len(segments) : after[i] = segments[i]
      /\ after[Len(segments) + 1] = s
      /\ DOMAIN segments = 1..Len(segments)
      /\ DOMAIN after = 1..Len(segments) + 1
      /\ Len(segments) \in Nat
  BY AppendProperties
<1> HIDE DEF after
<1>2. ASSUME Carries(after, p, b)
      PROVE  Carries(segments, p, b) \/ (s.pkt = p /\ b \in s.from..s.to)
  <2>1. PICK i \in 1..Len(segments) + 1 : after[i].pkt = p /\ b \in after[i].from..after[i].to
    BY <1>1, <1>2 DEF Carries
  <2>2. CASE i \in 1..Len(segments)
    BY <1>1, <2>1, <2>2 DEF Carries
  <2>3. CASE i = Len(segments) + 1
    BY <1>1, <2>1, <2>3
  <2> QED
    BY <1>1, <2>2, <2>3
<1>3. ASSUME Carries(segments, p, b) PROVE Carries(after, p, b)
  <2>1. PICK i \in 1..Len(segments) : segments[i].pkt = p /\ b \in segments[i].from..segments[i].to
    BY <1>1, <1>3 DEF Carries
  <2>2. i \in DOMAIN after /\ after[i] = segments[i]
    BY <1>1, <2>1
  <2> QED
    BY <2>1, <2>2 DEF Carries
<1>4. ASSUME s.pkt = p, b \in s.from..s.to PROVE Carries(after, p, b)
  <2>1. Len(segments) + 1 \in DOMAIN after
    BY <1>1
  <2> QED
    BY <1>1, <1>4, <2>1 DEF Carries
<1>5. Carries(after, p, b) <=> Carries(segments, p, b) \/ (s.pkt = p /\ b \in s.from..s.to)
  BY <1>2, <1>3, <1>4
<1> QED
  BY <1>5 DEF after

\* ... and keeps them in order when it starts at the packet's next byte.
LEMMA InOrderAppend ==
  ASSUME NEW segments \in Seq(Segments), NEW s \in Segments, InOrder(segments),
         \A b \in 1..PacketLen : Carries(segments, s.pkt, b) <=> b < s.from
  PROVE  InOrder(Append(segments, s))
<1> DEFINE after == Append(segments, s)
<1>1. /\ \A i \in 1..Len(segments) : after[i] = segments[i]
      /\ after[Len(segments) + 1] = s
      /\ DOMAIN segments = 1..Len(segments)
      /\ DOMAIN after = 1..Len(segments) + 1
      /\ Len(segments) \in Nat
      /\ \A i \in 1..Len(segments) : segments[i] \in Segments
  BY AppendProperties, ElementOfSeq
<1> HIDE DEF after
<1>2. s.from \in 1..PacketLen
  BY DEF Segments
<1>3. ASSUME NEW j \in 1..Len(segments) + 1
      PROVE  /\ \A i \in 1..j - 1 : after[i].pkt = after[j].pkt => after[i].to < after[j].from
             /\ \A b \in 1..after[j].from - 1 :
                  \E i \in 1..j - 1 : /\ after[i].pkt = after[j].pkt
                                      /\ b \in after[i].from..after[i].to
  <2>1. CASE j \in 1..Len(segments)
    <3>1. \A i \in 1..j - 1 : after[i] = segments[i]
      BY <1>1, <2>1
    <3>2. after[j] = segments[j] /\ j \in DOMAIN segments
      BY <1>1, <2>1
    <3>3. /\ \A i \in 1..j - 1 : segments[i].pkt = segments[j].pkt => segments[i].to < segments[j].from
          /\ \A b \in 1..segments[j].from - 1 :
               \E i \in 1..j - 1 : /\ segments[i].pkt = segments[j].pkt
                                   /\ b \in segments[i].from..segments[i].to
      BY <3>2 DEF InOrder
    <3> QED
      BY <3>1, <3>2, <3>3
  <2>2. CASE j = Len(segments) + 1
    <3>1. after[j] = s /\ 1..j - 1 = 1..Len(segments)
      BY <1>1, <2>2
    <3>2. ASSUME NEW i \in 1..Len(segments), segments[i].pkt = s.pkt PROVE segments[i].to < s.from
      <4>1. segments[i].to \in 1..PacketLen /\ segments[i].to \in segments[i].from..segments[i].to
        BY <1>1, <3>2, ConnWriteAssumption DEF Segments
      <4>2. Carries(segments, s.pkt, segments[i].to)
        BY <1>1, <3>2, <4>1 DEF Carries
      <4> QED
        BY <4>1, <4>2
    <3>3. ASSUME NEW b \in 1..s.from - 1
          PROVE  \E i \in 1..Len(segments) : /\ segments[i].pkt = s.pkt
                                             /\ b \in segments[i].from..segments[i].to
      <4>1. b \in 1..PacketLen /\ b < s.from
        BY <1>2, ConnWriteAssumption
      <4>2. Carries(segments, s.pkt, b)
        BY <4>1
      <4> QED
        BY <1>1, <4>2 DEF Carries
    <3> QED
      BY <1>1, <3>1, <3>2, <3>3
  <2> QED
    BY <1>1, <2>1, <2>2
<1>4. InOrder(after)
  BY <1>1, <1>3 DEF InOrder
<1> QED
  BY <1>4 DEF after

\* Writing a chunk that starts at its packet's next byte.
LEMMA EmitChunk ==
  ASSUME TypeOK, PacketOrder, room \in 1..SockBuf, NEW chunk \in Chunks,
         \A b \in 1..PacketLen : Carries(wire, chunk.pkt, b) <=> b < chunk.from
  PROVE  /\ InOrder(Append(wire, Segment(chunk)))
         /\ \A p : p # chunk.pkt => \A b : Carries(Append(wire, Segment(chunk)), p, b)
                                           <=> Carries(wire, p, b)
         /\ \A b \in 1..PacketLen : Carries(Append(wire, Segment(chunk)), chunk.pkt, b)
                                       <=> b < chunk.from + Accepted(chunk)
<1>1. /\ Segment(chunk) \in Segments
      /\ Accepted(chunk) \in 1..Left(chunk)
      /\ chunk.from \in 1..PacketLen
      /\ wire \in Seq(Segments)
  BY AcceptedBound DEF TypeOK, Chunks
<1>2. /\ Segment(chunk).pkt = chunk.pkt
      /\ Segment(chunk).from = chunk.from
      /\ Segment(chunk).to = chunk.from + Accepted(chunk) - 1
  BY DEF Segment
<1>3. InOrder(Append(wire, Segment(chunk)))
  BY <1>1, <1>2, InOrderAppend DEF PacketOrder
<1>4. \A p, b : Carries(Append(wire, Segment(chunk)), p, b)
          <=> Carries(wire, p, b)
                \/ (chunk.pkt = p /\ b \in chunk.from..(chunk.from + Accepted(chunk) - 1))
  BY <1>1, <1>2, CarriesAppend
<1>5. ASSUME NEW b \in 1..PacketLen
      PROVE  Carries(Append(wire, Segment(chunk)), chunk.pkt, b) <=> b < chunk.from + Accepted(chunk)
  <2>1. b < chunk.from \/ b \in chunk.from..(chunk.from + Accepted(chunk) - 1)
          <=> b < chunk.from + Accepted(chunk)
    BY <1>1, ConnWriteAssumption DEF Left
  <2> QED
    BY <1>4, <2>1
<1> QED
  BY <1>3, <1>4, <1>5

\* No packet has been sent initially ...
LEMMA HomeInit == Init => HomeInv
BY ConnWriteAssumption DEF Init, HomeInv, PacketOrder, InOrder, OneHome, Fresh, NothingLost,
   InHand, InQueue, Buffered, InBuff, Left, OnWire, Carries

\* Steps that move no packet: a sender may give its packet up when the
\* connection has ended.
LEMMA HomeStill ==
  ASSUME HomeInv, UNCHANGED <<wire, writeQ, writeBuff, sent, off>>,
         \A w \in Writers : InHand(w)' => InHand(w),
         (fd' = "open" /\ peer' = "up") =>
           fd = "open" /\ peer = "up" /\ \A w \in Writers : InHand(w) => InHand(w)'
  PROVE  HomeInv'
<1>1. /\ \A p : InQueue(p)' <=> InQueue(p)
      /\ \A p : Buffered(p)' <=> Buffered(p)
      /\ \A p, b : OnWire(p, b)' <=> OnWire(p, b)
      /\ InBuff' <=> InBuff
  BY DEF InQueue, Buffered, InBuff, Left, OnWire
<1>2. PacketOrder'
  BY DEF HomeInv, PacketOrder
<1>3. OneHome'
  BY DEF HomeInv, OneHome, IsNext, OnWire, InQueue, Buffered, InBuff, Left, Rest, Current
<1>4. Fresh'
  BY DEF HomeInv, Fresh, OnWire, InQueue, Buffered, InBuff, Left
<1>5. NothingLost'
  BY <1>1 DEF HomeInv, NothingLost
<1> QED
  BY <1>2, <1>3, <1>4, <1>5 DEF HomeInv

\* A packet whose Send begins is nowhere yet.
LEMMA HomeSend ==
  ASSUME TypeInv, HomeInv, NEW w \in Writers, Send(w)
  PROVE  HomeInv'
<1>1. /\ UNCHANGED <<wire, writeQ, writeBuff, fd, peer>>
      /\ sent' = [sent EXCEPT ![w] = @ + 1] /\ sent[w] < MaxSend
      /\ off' = [off EXCEPT ![w] = 1]
      /\ ~InHand(w)
      /\ \A v \in Writers \ {w} : InHand(v)' <=> InHand(v)
      /\ InHand(w)'
  BY DEF Send, Goto, connVars, kernelVars, InHand, TypeInv, TypeOK
<1>2. /\ sent[w] \in Nat /\ sent'[w] = sent[w] + 1 /\ sent'[w] \in 1..MaxSend /\ off'[w] = 1
      /\ \A v \in Writers \ {w} : sent'[v] = sent[v] /\ off'[v] = off[v]
  BY <1>1, ConnWriteAssumption DEF TypeInv, TypeOK
<1>3. PacketOrder'
  BY <1>1 DEF HomeInv, PacketOrder
<1>4. /\ ~InQueue(<<w, sent'[w]>>) /\ ~Buffered(<<w, sent'[w]>>)
      /\ \A b \in 1..PacketLen : ~Carries(wire, <<w, sent'[w]>>, b)
  BY <1>2 DEF HomeInv, Fresh, OnWire
<1>5. ASSUME NEW v \in Writers, InHand(v)'
      PROVE  (IsNext(Rest(v)) /\ ~InQueue(Current(v)) /\ ~Buffered(Current(v)))'
  <2>1. CASE v = w
    BY <1>1, <1>2, <1>4, <2>1 DEF IsNext, OnWire, Rest, Current, InQueue, Buffered, InBuff, Left
  <2>2. CASE v # w
    BY <1>1, <1>2, <1>5, <2>2 DEF HomeInv, OneHome, IsNext, OnWire, Rest, Current, InQueue,
       Buffered, InBuff, Left
  <2> QED
    BY <2>1, <2>2
<1>6. OneHome'
  BY <1>1, <1>5 DEF HomeInv, OneHome, IsNext, OnWire, Buffered, InBuff, Left
<1>7. Fresh'
  <2> SUFFICES ASSUME NEW v \in Writers, NEW k \in 1..MaxSend, k > sent'[v]
               PROVE  /\ ~InQueue(<<v, k>>)' /\ ~Buffered(<<v, k>>)'
                      /\ \A b \in 1..PacketLen : ~OnWire(<<v, k>>, b)'
    BY DEF Fresh
  <2>1. k > sent[v]
    BY <1>2
  <2> QED
    BY <1>1, <2>1 DEF HomeInv, Fresh, OnWire, InQueue, Buffered, InBuff, Left
<1>8. NothingLost'
  <2> SUFFICES ASSUME fd = "open", peer = "up", NEW v \in Writers, NEW k \in 1..sent'[v]
               PROVE  (OnWire(<<v, k>>, PacketLen) \/ (InHand(v) /\ k = sent[v])
                         \/ InQueue(<<v, k>>) \/ Buffered(<<v, k>>))'
    BY <1>1 DEF NothingLost
  <2>1. CASE v = w /\ k = sent'[w]
    BY <1>1, <2>1
  <2>2. CASE ~(v = w /\ k = sent'[w])
    <3>1. k \in 1..sent[v]
      BY <1>2, <2>2
    <3>2. OnWire(<<v, k>>, PacketLen) \/ (InHand(v) /\ k = sent[v])
            \/ InQueue(<<v, k>>) \/ Buffered(<<v, k>>)
      BY <3>1 DEF HomeInv, NothingLost
    <3>3. v = w => ~InHand(v)
      BY <1>1
    <3>4. v # w => (InHand(v)' <=> InHand(v)) /\ sent'[v] = sent[v]
      BY <1>1, <1>2
    <3> QED
      BY <1>1, <3>2, <3>3, <3>4 DEF OnWire, InQueue, Buffered, InBuff, Left
  <2> QED
    BY <2>1, <2>2
<1> QED
  BY <1>3, <1>6, <1>7, <1>8 DEF HomeInv

\* A packet, or its rest, goes from its sender to the end of the queue.
LEMMA HomePush ==
  ASSUME TypeInv, HomeInv, NEW w \in Writers, Enqueue(w) \/ PushRest(w)
  PROVE  HomeInv'
<1>1. /\ UNCHANGED <<wire, writeBuff, sent, off, fd, peer>>
      /\ writeQ' = Append(writeQ, Rest(w))
      /\ InHand(w) /\ ~InHand(w)'
      /\ \A v \in Writers \ {w} : InHand(v)' <=> InHand(v)
  BY DEF Enqueue, PushRest, Goto, kernelVars, InHand, TypeInv, TypeOK
<1>2. Rest(w) \in Chunks /\ Rest(w).pkt = Current(w) /\ writeQ \in Seq(Chunks)
  BY <1>1, RestIsChunk DEF Rest, TypeInv, TypeOK
<1>3. /\ \A i \in 1..Len(writeQ) : writeQ'[i] = writeQ[i]
      /\ writeQ'[Len(writeQ) + 1] = Rest(w)
      /\ DOMAIN writeQ = 1..Len(writeQ)
      /\ DOMAIN writeQ' = 1..Len(writeQ) + 1
      /\ Len(writeQ) \in Nat
  BY <1>1, <1>2, AppendProperties
<1>4. \A p : InQueue(p)' <=> InQueue(p) \/ p = Current(w)
  <2> SUFFICES ASSUME NEW p PROVE InQueue(p)' <=> InQueue(p) \/ p = Current(w)
    OBVIOUS
  <2>1. InQueue(p)' <=> \E i \in 1..Len(writeQ) + 1 : writeQ'[i].pkt = p
    BY <1>3 DEF InQueue
  <2>2. InQueue(p) <=> \E i \in 1..Len(writeQ) : writeQ[i].pkt = p
    BY <1>3 DEF InQueue
  <2>3. \A i \in 1..Len(writeQ) + 1 : i \in 1..Len(writeQ) \/ i = Len(writeQ) + 1
    BY <1>3
  <2>4. 1..Len(writeQ) \subseteq 1..Len(writeQ) + 1 /\ Len(writeQ) + 1 \in 1..Len(writeQ) + 1
    BY <1>3
  <2> QED
    BY <1>2, <1>3, <2>1, <2>2, <2>3, <2>4
<1>5. /\ \A p : Buffered(p)' <=> Buffered(p)
      /\ \A p, b : OnWire(p, b)' <=> OnWire(p, b)
      /\ InBuff' <=> InBuff
  BY <1>1 DEF Buffered, InBuff, Left, OnWire
<1>6. IsNext(Rest(w)) /\ ~InQueue(Current(w)) /\ ~Buffered(Current(w))
  BY <1>1 DEF HomeInv, OneHome
<1>7. PacketOrder'
  BY <1>1 DEF HomeInv, PacketOrder
<1>8. ASSUME NEW v \in Writers, InHand(v)'
      PROVE  (IsNext(Rest(v)) /\ ~InQueue(Current(v)) /\ ~Buffered(Current(v)))'
  <2>1. v # w /\ InHand(v)
    BY <1>1, <1>8
  <2>2. IsNext(Rest(v)) /\ ~InQueue(Current(v)) /\ ~Buffered(Current(v))
    BY <2>1 DEF HomeInv, OneHome
  <2>3. Current(v) # Current(w)
    BY <2>1 DEF Current
  <2>4. IsNext(Rest(v))' /\ ~Buffered(Current(v))'
    BY <1>1, <2>2 DEF IsNext, OnWire, Rest, Current, Buffered, InBuff, Left
  <2>5. ~InQueue(Current(v))'
    <3>1. ~InQueue(<<v, sent[v]>>) /\ <<v, sent[v]>> # Current(w)
      BY <2>2, <2>3 DEF Current
    <3>2. \A p : p = <<v, sent[v]>> => ~InQueue(p)'
      BY <1>4, <3>1
    <3> QED
      BY <1>1, <3>2 DEF InQueue, Current
  <2> QED
    BY <2>4, <2>5
<1>9. ASSUME NEW i \in DOMAIN writeQ'
      PROVE  /\ IsNext(writeQ[i])' /\ ~Buffered(writeQ[i].pkt)'
             /\ \A j \in DOMAIN writeQ' : writeQ'[j].pkt = writeQ'[i].pkt => j = i
  <2>1. CASE i \in 1..Len(writeQ)
    <3>1. /\ IsNext(writeQ[i]) /\ ~Buffered(writeQ[i].pkt)
          /\ \A j \in 1..Len(writeQ) : writeQ[j].pkt = writeQ[i].pkt => j = i
      BY <1>3, <2>1 DEF HomeInv, OneHome
    <3>2. writeQ[i].pkt # Current(w)
      BY <1>3, <1>6, <2>1 DEF InQueue
    <3>3. \A j \in DOMAIN writeQ' : writeQ'[j].pkt = writeQ'[i].pkt => j = i
      BY <1>2, <1>3, <2>1, <3>1, <3>2
    <3>4. IsNext(writeQ[i])' /\ ~Buffered(writeQ[i].pkt)'
      BY <1>1, <1>3, <2>1, <3>1 DEF IsNext, OnWire, Buffered, InBuff, Left
    <3> QED
      BY <3>3, <3>4
  <2>2. CASE i = Len(writeQ) + 1
    <3>1. writeQ'[i] = Rest(w)
      BY <1>3, <2>2
    <3>2. \A j \in 1..Len(writeQ) : writeQ[j].pkt # Current(w)
      BY <1>3, <1>6 DEF InQueue
    <3>3. \A j \in DOMAIN writeQ' : writeQ'[j].pkt = writeQ'[i].pkt => j = i
      BY <1>2, <1>3, <2>2, <3>1, <3>2
    <3>4. IsNext(writeQ[i])' /\ ~Buffered(writeQ[i].pkt)'
      BY <1>1, <1>2, <1>6, <3>1 DEF IsNext, OnWire, Buffered, InBuff, Left
    <3> QED
      BY <3>3, <3>4
  <2> QED
    BY <1>3, <2>1, <2>2
<1>10. (InBuff => IsNext(writeBuff))'
  BY <1>1 DEF HomeInv, OneHome, IsNext, OnWire, InBuff, Left
<1>11. OneHome'
  BY <1>8, <1>9, <1>10 DEF OneHome
<1>12. Fresh'
  <2> SUFFICES ASSUME NEW v \in Writers, NEW k \in 1..MaxSend, k > sent[v]
               PROVE  /\ ~InQueue(<<v, k>>)' /\ ~Buffered(<<v, k>>)'
                      /\ \A b \in 1..PacketLen : ~OnWire(<<v, k>>, b)'
    BY <1>1 DEF Fresh
  <2>1. /\ ~InQueue(<<v, k>>) /\ ~Buffered(<<v, k>>)
        /\ \A b \in 1..PacketLen : ~OnWire(<<v, k>>, b)
    BY DEF HomeInv, Fresh
  <2>2. <<v, k>> # Current(w)
    BY DEF Current, TypeInv, TypeOK
  <2> QED
    BY <1>4, <1>5, <2>1, <2>2
<1>13. NothingLost'
  <2> SUFFICES ASSUME fd = "open", peer = "up", NEW v \in Writers, NEW k \in 1..sent[v]
               PROVE  (OnWire(<<v, k>>, PacketLen) \/ (InHand(v) /\ k = sent[v])
                         \/ InQueue(<<v, k>>) \/ Buffered(<<v, k>>))'
    BY <1>1 DEF NothingLost
  <2>1. OnWire(<<v, k>>, PacketLen) \/ (InHand(v) /\ k = sent[v])
          \/ InQueue(<<v, k>>) \/ Buffered(<<v, k>>)
    BY DEF HomeInv, NothingLost
  <2>2. v = w /\ k = sent[v] => InQueue(<<v, k>>)'
    BY <1>4 DEF Current
  <2>3. v # w => (InHand(v)' <=> InHand(v))
    BY <1>1
  <2> QED
    BY <1>1, <1>4, <1>5, <2>1, <2>2, <2>3
<1> QED
  BY <1>7, <1>11, <1>12, <1>13 DEF HomeInv

\* A sender's write: the packet is on the wire, or its rest stays in hand.
LEMMA HomeWrite ==
  ASSUME TypeInv, HomeInv, NEW w \in Writers, WriteSome(w)
  PROVE  HomeInv'
<1>1. /\ UNCHANGED <<writeQ, writeBuff, sent, fd, peer>>
      /\ wire' = Append(wire, Segment(Rest(w)))
      /\ off' = [off EXCEPT ![w] = @ + Accepted(Rest(w))]
      /\ room \in 1..SockBuf
      /\ InHand(w)
      /\ \A v \in Writers \ {w} : (InHand(v)' <=> InHand(v)) /\ off'[v] = off[v]
      /\ InHand(w)' <=> Accepted(Rest(w)) # Left(Rest(w))
  BY DEF WriteSome, Goto, connVars, InHand, TypeInv, TypeOK
<1>2. /\ Rest(w) \in Chunks /\ Rest(w).pkt = Current(w) /\ Rest(w).from = off[w]
      /\ off'[w] = off[w] + Accepted(Rest(w))
      /\ Left(Rest(w)) = PacketLen + 1 - off[w]
      /\ off[w] \in 1..PacketLen
      /\ Accepted(Rest(w)) \in 1..Left(Rest(w))
  BY <1>1, RestIsChunk, AcceptedBound DEF Rest, Left, TypeInv, TypeOK, Begun
<1>3. IsNext(Rest(w)) /\ ~InQueue(Current(w)) /\ ~Buffered(Current(w))
  BY <1>1 DEF HomeInv, OneHome
<1>4. /\ PacketOrder'
      /\ \A p : p # Current(w) => \A b : Carries(wire', p, b) <=> Carries(wire, p, b)
      /\ \A b \in 1..PacketLen : Carries(wire', Current(w), b) <=> b < off'[w]
  BY <1>1, <1>2, <1>3, EmitChunk DEF IsNext, OnWire, HomeInv, TypeInv, PacketOrder
<1>5. /\ \A p : InQueue(p)' <=> InQueue(p)
      /\ \A p : Buffered(p)' <=> Buffered(p)
      /\ InBuff' <=> InBuff
  BY <1>1 DEF Buffered, InBuff, Left, InQueue
<1>6. ASSUME NEW v \in Writers, InHand(v)'
      PROVE  (IsNext(Rest(v)) /\ ~InQueue(Current(v)) /\ ~Buffered(Current(v)))'
  <2>1. CASE v = w
    <3>1. IsNext(Rest(v))'
      BY <1>1, <1>4, <2>1 DEF IsNext, OnWire, Rest, Current
    <3>2. ~InQueue(Current(v))' /\ ~Buffered(Current(v))'
      BY <1>1, <1>3, <2>1 DEF Current, InQueue, Buffered, InBuff, Left
    <3> QED
      BY <3>1, <3>2
  <2>2. CASE v # w
    <3>1. /\ IsNext(Rest(v)) /\ ~InQueue(Current(v)) /\ ~Buffered(Current(v))
          /\ off'[v] = off[v] /\ Current(v) # Current(w)
      BY <1>1, <1>6, <2>2 DEF HomeInv, OneHome, Current
    <3>2. IsNext(Rest(v))'
      BY <1>1, <1>4, <3>1 DEF IsNext, OnWire, Rest, Current
    <3>3. ~InQueue(Current(v))' /\ ~Buffered(Current(v))'
      BY <1>1, <3>1 DEF Current, InQueue, Buffered, InBuff, Left
    <3> QED
      BY <3>2, <3>3
  <2> QED
    BY <2>1, <2>2
<1>7. ASSUME NEW i \in DOMAIN writeQ
      PROVE  /\ IsNext(writeQ[i])' /\ ~Buffered(writeQ[i].pkt)'
             /\ \A j \in DOMAIN writeQ : writeQ[j].pkt = writeQ[i].pkt => j = i
  <2>1. /\ IsNext(writeQ[i]) /\ ~Buffered(writeQ[i].pkt)
        /\ \A j \in DOMAIN writeQ : writeQ[j].pkt = writeQ[i].pkt => j = i
        /\ writeQ[i].pkt # Current(w)
    BY <1>3 DEF HomeInv, OneHome, InQueue
  <2>2. IsNext(writeQ[i])' /\ ~Buffered(writeQ[i].pkt)'
    BY <1>1, <1>4, <2>1 DEF IsNext, OnWire, Buffered, InBuff, Left
  <2> QED
    BY <2>1, <2>2
<1>8. (InBuff => IsNext(writeBuff))'
  BY <1>1, <1>3, <1>4, <1>5 DEF HomeInv, OneHome, IsNext, OnWire, Buffered
<1>9. OneHome'
  BY <1>1, <1>6, <1>7, <1>8 DEF OneHome
<1>10. Fresh'
  <2> SUFFICES ASSUME NEW v \in Writers, NEW k \in 1..MaxSend, k > sent[v]
               PROVE  /\ ~InQueue(<<v, k>>)' /\ ~Buffered(<<v, k>>)'
                      /\ \A b \in 1..PacketLen : ~OnWire(<<v, k>>, b)'
    BY <1>1 DEF Fresh
  <2>1. /\ ~InQueue(<<v, k>>) /\ ~Buffered(<<v, k>>)
        /\ \A b \in 1..PacketLen : ~OnWire(<<v, k>>, b)
    BY DEF HomeInv, Fresh
  <2>2. <<v, k>> # Current(w)
    BY DEF Current, TypeInv, TypeOK
  <2> QED
    BY <1>4, <1>5, <2>1, <2>2 DEF OnWire
<1>11. NothingLost'
  <2> SUFFICES ASSUME fd = "open", peer = "up", NEW v \in Writers, NEW k \in 1..sent[v]
               PROVE  (OnWire(<<v, k>>, PacketLen) \/ (InHand(v) /\ k = sent[v])
                         \/ InQueue(<<v, k>>) \/ Buffered(<<v, k>>))'
    BY <1>1 DEF NothingLost
  <2>1. OnWire(<<v, k>>, PacketLen) \/ (InHand(v) /\ k = sent[v])
          \/ InQueue(<<v, k>>) \/ Buffered(<<v, k>>)
    BY DEF HomeInv, NothingLost
  <2>2. CASE <<v, k>> = Current(w)
    <3>1. v = w /\ k = sent[v]
      BY <2>2 DEF Current
    <3>2. CASE Accepted(Rest(w)) # Left(Rest(w))
      BY <1>1, <3>1, <3>2
    <3>3. CASE Accepted(Rest(w)) = Left(Rest(w))
      <4>1. off'[w] = PacketLen + 1 /\ PacketLen \in 1..PacketLen
        BY <1>2, <3>3, ConnWriteAssumption
      <4>2. Carries(wire', Current(w), PacketLen)
        BY <1>4, <4>1, ConnWriteAssumption
      <4> QED
        BY <2>2, <4>2 DEF OnWire
    <3> QED
      BY <3>2, <3>3
  <2>3. CASE <<v, k>> # Current(w)
    <3>1. InHand(v) /\ k = sent[v] => InHand(v)' /\ sent'[v] = sent[v]
      BY <1>1, <2>3 DEF Current
    <3>2. OnWire(<<v, k>>, PacketLen)' <=> OnWire(<<v, k>>, PacketLen)
      BY <1>4, <2>3 DEF OnWire
    <3> QED
      BY <1>1, <1>5, <2>1, <3>1, <3>2
  <2> QED
    BY <2>2, <2>3
<1> QED
  BY <1>4, <1>9, <1>10, <1>11 DEF HomeInv

\* The poller takes the packet at the head of the queue.
LEMMA HomePop ==
  ASSUME TypeInv, HomeInv, GetWriteBuff
  PROVE  HomeInv'
<1>1. UNCHANGED <<wire, sent, off, pc, fd, peer>>
  BY DEF GetWriteBuff, kernelVars
<1>2. CASE UNCHANGED <<writeBuff, writeQ>>
  BY <1>1, <1>2, HomeStill DEF InHand
<1>3. CASE /\ Left(writeBuff) = 0 /\ writeQ # <<>>
           /\ writeBuff' = Head(writeQ) /\ writeQ' = Tail(writeQ)
  <2>1. /\ writeQ \in Seq(Chunks)
        /\ DOMAIN writeQ = 1..Len(writeQ) /\ Len(writeQ) \in Nat \ {0}
        /\ writeBuff' = writeQ[1]
        /\ DOMAIN writeQ' = 1..(Len(writeQ) - 1)
        /\ \A i \in 1..(Len(writeQ) - 1) : writeQ'[i] = writeQ[i + 1]
        /\ writeQ[1] \in Chunks
    BY <1>3, HeadTailProperties, ElementOfSeq DEF TypeInv, TypeOK
  <2>2. ~InBuff /\ InBuff'
    BY <1>3, <2>1, ConnWriteAssumption DEF InBuff, Left, Chunks
  <2>3. \A p : InQueue(p) <=> InQueue(p)' \/ p = writeQ[1].pkt
    <3> SUFFICES ASSUME NEW p PROVE InQueue(p) <=> InQueue(p)' \/ p = writeQ[1].pkt
      OBVIOUS
    <3>1. InQueue(p)' <=> \E i \in 1..(Len(writeQ) - 1) : writeQ[i + 1].pkt = p
      BY <2>1 DEF InQueue
    <3>2. InQueue(p) <=> \E i \in 1..Len(writeQ) : writeQ[i].pkt = p
      BY <2>1 DEF InQueue
    <3>3. ASSUME NEW i \in 1..Len(writeQ), writeQ[i].pkt = p
          PROVE  p = writeQ[1].pkt \/ \E j \in 1..(Len(writeQ) - 1) : writeQ[j + 1].pkt = p
      <4>1. CASE i = 1
        BY <3>3, <4>1
      <4>2. CASE i # 1
        <5>1. i - 1 \in 1..(Len(writeQ) - 1) /\ (i - 1) + 1 = i
          BY <2>1, <4>2
        <5> QED
          BY <3>3, <5>1
      <4> QED
        BY <4>1, <4>2
    <3>4. ASSUME NEW j \in 1..(Len(writeQ) - 1), writeQ[j + 1].pkt = p PROVE InQueue(p)
      <4>1. j + 1 \in 1..Len(writeQ)
        BY <2>1
      <4> QED
        BY <3>2, <3>4, <4>1
    <3>5. p = writeQ[1].pkt => InQueue(p)
      BY <2>1, <3>2
    <3> QED
      BY <3>1, <3>2, <3>3, <3>4, <3>5
  <2>4. \A p : ~Buffered(p) /\ (Buffered(p)' <=> p = writeQ[1].pkt)
    BY <2>1, <2>2 DEF Buffered
  <2>5. \A i \in 1..Len(writeQ) :
          /\ IsNext(writeQ[i])
          /\ \A j \in 1..Len(writeQ) : writeQ[j].pkt = writeQ[i].pkt => j = i
    BY <2>1 DEF HomeInv, OneHome
  <2>6. PacketOrder'
    BY <1>1 DEF HomeInv, PacketOrder
  <2>7. ASSUME NEW v \in Writers, InHand(v)'
        PROVE  (IsNext(Rest(v)) /\ ~InQueue(Current(v)) /\ ~Buffered(Current(v)))'
    <3>1. IsNext(Rest(v)) /\ ~InQueue(Current(v))
      BY <1>1, <2>7 DEF HomeInv, OneHome, InHand
    <3>2. IsNext(Rest(v))'
      BY <1>1, <3>1 DEF IsNext, OnWire, Rest, Current
    <3>3. ~InQueue(<<v, sent[v]>>)' /\ ~Buffered(<<v, sent[v]>>)'
      <4>1. \A p : p = <<v, sent[v]>> => ~InQueue(p)
        BY <3>1 DEF Current
      <4>2. \A p : p = <<v, sent[v]>> => ~InQueue(p)' /\ ~Buffered(p)'
        BY <2>3, <2>4, <4>1
      <4> QED
        BY <1>1, <4>2 DEF InQueue, Buffered, InBuff, Left
    <3> QED
      BY <1>1, <3>2, <3>3 DEF Current, InQueue, Buffered, InBuff, Left
  <2>8. ASSUME NEW i \in DOMAIN writeQ'
        PROVE  /\ IsNext(writeQ[i])' /\ ~Buffered(writeQ[i].pkt)'
               /\ \A j \in DOMAIN writeQ' : writeQ'[j].pkt = writeQ'[i].pkt => j = i
    <3>1. i \in 1..(Len(writeQ) - 1) /\ i + 1 \in 1..Len(writeQ) /\ i + 1 # 1
          /\ writeQ'[i] = writeQ[i + 1]
      BY <2>1
    <3>2. IsNext(writeQ[i])'
      BY <1>1, <2>5, <3>1 DEF IsNext, OnWire
    <3>3. writeQ[1].pkt # writeQ[i + 1].pkt
      BY <2>1, <2>5, <3>1
    <3>4. ~Buffered(writeQ[i].pkt)'
      BY <2>1, <3>1, <3>3 DEF Buffered
    <3>5. ASSUME NEW j \in 1..(Len(writeQ) - 1), writeQ[j + 1].pkt = writeQ[i + 1].pkt PROVE j = i
      <4>1. j + 1 \in 1..Len(writeQ)
        BY <2>1
      <4>2. j + 1 = i + 1
        BY <2>5, <3>1, <3>5, <4>1
      <4> QED
        BY <3>1, <4>2
    <3> QED
      BY <2>1, <3>1, <3>2, <3>4, <3>5
  <2>9. (InBuff => IsNext(writeBuff))'
    BY <1>1, <2>1, <2>5 DEF IsNext, OnWire
  <2>10. OneHome'
    BY <2>7, <2>8, <2>9 DEF OneHome
  <2>11. Fresh'
    <3> SUFFICES ASSUME NEW v \in Writers, NEW k \in 1..MaxSend, k > sent[v]
                 PROVE  /\ ~InQueue(<<v, k>>)' /\ ~Buffered(<<v, k>>)'
                        /\ \A b \in 1..PacketLen : ~OnWire(<<v, k>>, b)'
      BY <1>1 DEF Fresh
    <3>1. ~InQueue(<<v, k>>) /\ \A b \in 1..PacketLen : ~OnWire(<<v, k>>, b)
      BY DEF HomeInv, Fresh
    <3> QED
      BY <1>1, <2>3, <2>4, <3>1 DEF OnWire
  <2>12. NothingLost'
    <3> SUFFICES ASSUME fd = "open", peer = "up", NEW v \in Writers, NEW k \in 1..sent[v]
                 PROVE  (OnWire(<<v, k>>, PacketLen) \/ (InHand(v) /\ k = sent[v])
                           \/ InQueue(<<v, k>>) \/ Buffered(<<v, k>>))'
      BY <1>1 DEF NothingLost
    <3>1. OnWire(<<v, k>>, PacketLen) \/ (InHand(v) /\ k = sent[v])
            \/ InQueue(<<v, k>>)
      BY <2>4 DEF HomeInv, NothingLost
    <3>2. OnWire(<<v, k>>, PacketLen) => OnWire(<<v, k>>, PacketLen)'
      BY <1>1 DEF OnWire
    <3>3. InHand(v) <=> InHand(v)'
      BY <1>1 DEF InHand
    <3> QED
      BY <1>1, <2>3, <2>4, <3>1, <3>2, <3>3
  <2> QED
    BY <2>6, <2>10, <2>11, <2>12 DEF HomeInv
<1> QED
  BY <1>2, <1>3 DEF GetWriteBuff

\* The poller's write: writeBuff keeps what was not accepted.
LEMMA HomeFlush ==
  ASSUME TypeInv, HomeInv, Flush
  PROVE  HomeInv'
<1> DEFINE head == writeBuff.pkt
<1>1. /\ UNCHANGED <<writeQ, sent, off, pc, fd, peer>>
      /\ wire' = Append(wire, Segment(writeBuff))
      /\ room \in 1..SockBuf
      /\ InBuff
  BY DEF Flush, TypeInv, TypeOK, FlushHasBytes
<1>2. writeBuff \in Chunks
  BY <1>1, BuffIsChunk
<1>3. /\ Accepted(writeBuff) \in 1..Left(writeBuff)
      /\ Left(writeBuff) = PacketLen + 1 - writeBuff.from
      /\ writeBuff.from \in 1..PacketLen
      /\ writeBuff'.pkt = head
      /\ writeBuff'.from = writeBuff.from + Accepted(writeBuff)
  BY <1>1, <1>2, AcceptedBound DEF Flush, Left, Chunks
<1>4. IsNext(writeBuff)
  BY <1>1 DEF HomeInv, OneHome
<1>5. /\ PacketOrder'
      /\ \A p : p # head => \A b : Carries(wire', p, b) <=> Carries(wire, p, b)
      /\ \A b \in 1..PacketLen : Carries(wire', head, b) <=> b < writeBuff'.from
  BY <1>1, <1>2, <1>3, <1>4, EmitChunk DEF IsNext, OnWire, HomeInv, TypeInv, PacketOrder
<1>6. InBuff' <=> writeBuff'.from <= PacketLen
  BY <1>3, ConnWriteAssumption DEF InBuff, Left
<1>7. /\ \A p : InQueue(p)' <=> InQueue(p)
      /\ \A v \in Writers : InHand(v)' <=> InHand(v)
      /\ \A p : Buffered(p) <=> p = head
      /\ \A p : Buffered(p)' <=> p = head /\ InBuff'
  BY <1>1, <1>3 DEF InQueue, InHand, Buffered
<1> HIDE DEF head
<1>8. ASSUME NEW v \in Writers, InHand(v)'
      PROVE  (IsNext(Rest(v)) /\ ~InQueue(Current(v)) /\ ~Buffered(Current(v)))'
  <2>1. IsNext(Rest(v)) /\ ~InQueue(Current(v)) /\ <<v, sent[v]>> # head
    BY <1>7, <1>8 DEF HomeInv, OneHome, Current
  <2>2. IsNext(Rest(v))'
    BY <1>1, <1>5, <2>1 DEF IsNext, OnWire, Rest, Current
  <2>3. ~InQueue(Current(v))'
    BY <1>1, <2>1 DEF InQueue, Current
  <2>4. ~Buffered(Current(v))'
    BY <1>1, <1>3, <2>1 DEF Buffered, Current, head
  <2> QED
    BY <2>2, <2>3, <2>4
<1>9. ASSUME NEW i \in DOMAIN writeQ
      PROVE  /\ IsNext(writeQ[i])' /\ ~Buffered(writeQ[i].pkt)'
             /\ \A j \in DOMAIN writeQ : writeQ[j].pkt = writeQ[i].pkt => j = i
  <2>1. /\ IsNext(writeQ[i]) /\ writeQ[i].pkt # head
        /\ \A j \in DOMAIN writeQ : writeQ[j].pkt = writeQ[i].pkt => j = i
    BY <1>7 DEF HomeInv, OneHome
  <2>2. IsNext(writeQ[i])'
    BY <1>1, <1>5, <2>1 DEF IsNext, OnWire
  <2>3. ~Buffered(writeQ[i].pkt)'
    BY <1>1, <1>3, <2>1 DEF Buffered, head
  <2> QED
    BY <2>1, <2>2, <2>3
<1>10. (InBuff => IsNext(writeBuff))'
  BY <1>3, <1>5 DEF IsNext, OnWire, head
<1>11. OneHome'
  BY <1>1, <1>8, <1>9, <1>10 DEF OneHome
<1>12. Fresh'
  <2> SUFFICES ASSUME NEW v \in Writers, NEW k \in 1..MaxSend, k > sent[v]
               PROVE  /\ ~InQueue(<<v, k>>)' /\ ~Buffered(<<v, k>>)'
                      /\ \A b \in 1..PacketLen : ~OnWire(<<v, k>>, b)'
    BY <1>1 DEF Fresh
  <2>1. /\ ~InQueue(<<v, k>>) /\ <<v, k>> # head
        /\ \A b \in 1..PacketLen : ~OnWire(<<v, k>>, b)
    BY <1>7 DEF HomeInv, Fresh
  <2> QED
    BY <1>5, <1>7, <2>1 DEF OnWire
<1>13. NothingLost'
  <2> SUFFICES ASSUME fd = "open", peer = "up", NEW v \in Writers, NEW k \in 1..sent[v]
               PROVE  (OnWire(<<v, k>>, PacketLen) \/ (InHand(v) /\ k = sent[v])
                         \/ InQueue(<<v, k>>) \/ Buffered(<<v, k>>))'
    BY <1>1 DEF NothingLost
  <2>1. OnWire(<<v, k>>, PacketLen) \/ (InHand(v) /\ k = sent[v])
          \/ InQueue(<<v, k>>) \/ <<v, k>> = head
    BY <1>7 DEF HomeInv, NothingLost
  <2>2. CASE <<v, k>> = head
    <3>1. CASE InBuff'
      BY <1>7, <2>2, <3>1
    <3>2. CASE ~InBuff'
      <4>1. PacketLen < writeBuff'.from /\ PacketLen \in 1..PacketLen
        BY <1>3, <1>6, <3>2, ConnWriteAssumption
      <4> QED
        BY <1>5, <2>2, <4>1 DEF OnWire
    <3> QED
      BY <3>1, <3>2
  <2>3. CASE <<v, k>> # head
    <3>1. OnWire(<<v, k>>, PacketLen)' <=> OnWire(<<v, k>>, PacketLen)
      BY <1>5, <2>3 DEF OnWire
    <3> QED
      BY <1>1, <1>7, <2>1, <2>3, <3>1
  <2> QED
    BY <2>2, <2>3
<1> QED
  BY <1>5, <1>11, <1>12, <1>13 DEF HomeInv

\* Every step keeps each packet in its place.
LEMMA HomeStep == TypeInv /\ HomeInv /\ [Next]_vars => HomeInv'
<1> SUFFICES ASSUME TypeInv, HomeInv, [Next]_vars PROVE HomeInv'
  OBVIOUS
<1>1. ASSUME NEW w \in Writers, CheckState(w) \/ WriteAgain(w) \/ SetOut(w) \/ ModWrite(w)
      PROVE  HomeInv'
  <2>1. UNCHANGED <<wire, writeQ, writeBuff, sent, off, fd, peer>>
    BY <1>1 DEF CheckState, WriteAgain, SetOut, ModWrite, connVars, kernelVars
  <2>2. \A v \in Writers : InHand(v)' <=> InHand(v)
    BY <1>1 DEF CheckState, WriteAgain, SetOut, ModWrite, Goto, InHand, TypeInv, TypeOK
  <2> QED
    BY <2>1, <2>2, HomeStill
<1>2. ASSUME NEW w \in Writers, WriteFailed(w) PROVE HomeInv'
  <2>1. /\ UNCHANGED <<wire, writeQ, writeBuff, sent, off, fd, peer>>
        /\ ~(fd' = "open" /\ peer' = "up")
    BY <1>2 DEF WriteFailed, connVars, kernelVars
  <2>2. \A v \in Writers : InHand(v)' => InHand(v)
    BY <1>2 DEF WriteFailed, Goto, InHand, TypeInv, TypeOK
  <2> QED
    BY <2>1, <2>2, HomeStill
<1>3. CASE WriteEvent \/ ModRead \/ SetIn \/ FlushFailed \/ ReadEOF \/ CloseByOther
           \/ PeerReads \/ PeerGone \/ UNCHANGED vars
  <2>1. /\ UNCHANGED <<wire, writeQ, writeBuff, sent, off, pc>>
        /\ (fd' = "open" /\ peer' = "up") => (fd = "open" /\ peer = "up")
    BY <1>3 DEF WriteEvent, ModRead, SetIn, FlushFailed, ReadEOF, CloseByOther, CloseConn,
       PeerReads, PeerGone, connVars, kernelVars, vars
  <2>2. \A v \in Writers : InHand(v)' <=> InHand(v)
    BY <2>1 DEF InHand
  <2> QED
    BY <2>1, <2>2, HomeStill
<1> QED
  BY <1>1, <1>2, <1>3, HomeSend, HomePush, HomeWrite, HomePop, HomeFlush
  DEF Next, WriteStep, PollerStep

\* Whoever sends its bytes and however the writes are cut, each packet's bytes
\* leave in order and once; its unsent rest has exactly one place, which starts
\* at the next byte; and no packet is lost while the connection is up.
THEOREM PacketsKept == Spec => []BytesKept
<1>1. Init => TypeInv /\ HomeInv
  BY TypeInit, HomeInit
<1>2. TypeInv /\ HomeInv /\ [Next]_vars => (TypeInv /\ HomeInv)'
  BY TypeStep, HomeStep
<1>3. HomeInv => BytesKept
  BY DEF HomeInv, BytesKept
<1> QED
  BY <1>1, <1>2, <1>3, PTL DEF Spec

-----------------------------------------------------------------------------
(* The write path as PacketStream, when every Send runs on the poller's    *)
(* goroutine: then only one operation is under way at a time, a packet is  *)
(* written directly only when nothing is waiting, and so only the first    *)
(* chunk of the backlog can be cut.                                        *)

OnePoller == PollerWriters = Writers

Polled ==
  /\ \A v, w \in Writers : pc[v] # "idle" /\ pc[w] # "idle" => v = w
  /\ \A w \in Writers : pc[w] # "idle" => poller = "wait"
  /\ \A w \in Writers : pc[w] \in {"check", "enqueue", "write"} => off[w] = 1
  /\ \A w \in Writers : pc[w] \in {"write", "setout", "pushrest"} => ~InBuff /\ writeQ = <<>>
  /\ \A w \in Writers : pc[w] \in {"enqueue", "pushrest"} => state = "EPollOUT"
  /\ state # "EPollOUT" => ~InBuff /\ writeQ = <<>>
  /\ poller \in {"modread", "setin"} => ~InBuff /\ writeQ = <<>>
  /\ \A i \in 1..Len(writeQ) : writeQ[i].from = 1 \/ (i = 1 /\ ~InBuff)

\* Nothing is under way initially.
LEMMA PolledInit == Init => Polled
BY ConnWriteAssumption DEF Init, Polled, InBuff, Left

\* Every step of the senders, one at a time, keeps the operations apart.
LEMMA PolledStep == OnePoller /\ TypeInv /\ TypeInv' /\ Polled /\ [Next]_vars => Polled'
<1> SUFFICES ASSUME OnePoller, TypeInv, TypeInv', Polled, [Next]_vars PROVE Polled'
  OBVIOUS
<1> USE ConnWriteAssumption
<1>1. /\ pc \in [Writers -> {"idle", "check", "enqueue", "write", "setout", "pushrest", "modwrite"}]
      /\ off \in [Writers -> 1..PacketLen + 1] /\ writeQ \in Seq(Chunks)
  BY DEF TypeInv, TypeOK
<1>2. ASSUME NEW w \in Writers, Send(w) PROVE Polled'
  <2>1. poller = "wait" /\ \A v \in Writers : pc[v] = "idle"
    BY <1>2 DEF Send, PollerFree, OnePoller
  <2>2. /\ pc' = [pc EXCEPT ![w] = "check"] /\ off' = [off EXCEPT ![w] = 1]
        /\ UNCHANGED <<state, interest, writeQ, writeBuff, poller>>
    BY <1>2 DEF Send, Goto, connVars
  <2> QED
    BY <1>1, <2>1, <2>2 DEF Polled, InBuff, Left
<1>3. ASSUME NEW w \in Writers, CheckState(w) \/ WriteAgain(w) \/ WriteFailed(w) \/ ModWrite(w)
      PROVE  Polled'
  <2>1. /\ \E to \in {"enqueue", "write", "setout", "idle"} :
             /\ pc' = [pc EXCEPT ![w] = to]
             /\ to = "enqueue" => pc[w] = "check" /\ state = "EPollOUT"
             /\ to = "write" => pc[w] = "check" /\ state # "EPollOUT"
             /\ to = "setout" => pc[w] = "write"
        /\ pc[w] # "idle"
        /\ UNCHANGED <<state, writeQ, writeBuff, poller, off>>
    <3>1. CASE CheckState(w)
      BY <3>1 DEF CheckState, Goto, connVars
    <3>2. CASE WriteAgain(w) \/ WriteFailed(w)
      BY <3>2 DEF WriteAgain, WriteFailed, Goto, connVars
    <3>3. CASE ModWrite(w)
      BY <3>3 DEF ModWrite, Goto
    <3> QED
      BY <1>3, <3>1, <3>2, <3>3
  <2> QED
    BY <1>1, <2>1 DEF Polled, InBuff, Left
<1>4. ASSUME NEW w \in Writers, Enqueue(w) \/ PushRest(w) PROVE Polled'
  <2>1. /\ \E to \in {"idle", "modwrite"} : pc' = [pc EXCEPT ![w] = to]
        /\ pc[w] \in {"enqueue", "pushrest"}
        /\ writeQ' = Append(writeQ, Rest(w))
        /\ UNCHANGED <<state, interest, writeBuff, poller, off>>
    BY <1>4 DEF Enqueue, PushRest, Goto
  <2>2. state = "EPollOUT"
    BY <2>1 DEF Polled
  <2>3. Rest(w) \in Chunks /\ (writeQ = <<>> \/ Rest(w).from = 1) /\ (InBuff => Rest(w).from = 1)
    BY <2>1, RestIsChunk DEF Polled, Rest, InHand
  <2>4. /\ Len(writeQ') = Len(writeQ) + 1 /\ Len(writeQ) \in Nat
        /\ \A i \in 1..Len(writeQ) : writeQ'[i] = writeQ[i]
        /\ writeQ'[Len(writeQ) + 1] = Rest(w)
    BY <1>1, <2>1, <2>3, AppendProperties
  <2>5. InBuff' <=> InBuff
    BY <2>1 DEF InBuff, Left
  <2>6. ASSUME NEW i \in 1..Len(writeQ') PROVE writeQ'[i].from = 1 \/ (i = 1 /\ ~InBuff)
    <3>1. CASE i \in 1..Len(writeQ)
      BY <2>4, <3>1 DEF Polled
    <3>2. CASE i = Len(writeQ) + 1
      BY <1>1, <2>3, <2>4, <3>2, EmptySeq
    <3> QED
      BY <2>4, <3>1, <3>2
  <2>7. \A v \in Writers : pc[v] # "idle" => v = w
    BY <2>1 DEF Polled
  <2>8. \A v \in Writers : pc'[v] \in {"idle", "modwrite"} /\ (pc'[v] # "idle" => v = w)
    BY <1>1, <2>1, <2>7
  <2>9. poller = "wait"
    BY <2>1 DEF Polled
  <2> QED
    BY <2>1, <2>2, <2>5, <2>6, <2>7, <2>8, <2>9 DEF Polled
<1>5. ASSUME NEW w \in Writers, WriteSome(w) \/ SetOut(w) PROVE Polled'
  <2>1. /\ \E to \in {"idle", "setout", "pushrest"} : pc' = [pc EXCEPT ![w] = to]
        /\ pc[w] \in {"write", "setout"}
        /\ state' \in {state, "EPollOUT"} /\ (pc'[w] = "pushrest" => state' = "EPollOUT")
        /\ \A v \in Writers \ {w} : off'[v] = off[v]
        /\ UNCHANGED <<writeQ, writeBuff, poller>>
    BY <1>1, <1>5 DEF WriteSome, SetOut, Goto, connVars
  <2> QED
    BY <1>1, <2>1 DEF Polled, InBuff, Left
<1>6. CASE CloseByOther \/ PeerReads \/ PeerGone \/ ReadEOF \/ UNCHANGED vars
  <2>1. UNCHANGED <<state, writeQ, writeBuff, poller, pc, off>>
    BY <1>6 DEF CloseByOther, PeerReads, PeerGone, ReadEOF, connVars, vars
  <2> QED
    BY <2>1 DEF Polled, InBuff, Left
<1>7. CASE PollerStep /\ ~ReadEOF
  <2>1. UNCHANGED <<pc, off>>
    BY <1>7 DEF PollerStep, WriteEvent, GetWriteBuff, ModRead, SetIn, Flush, FlushFailed
  <2>2. \A w \in Writers : pc[w] = "idle"
    BY <1>7 DEF PollerStep, WriteEvent, GetWriteBuff, ModRead, SetIn, Flush, FlushFailed, Polled,
       PollerFree, OnePoller
  <2>3. CASE WriteEvent \/ FlushFailed \/ ModRead
    <3>1. /\ UNCHANGED <<state, writeQ, writeBuff>>
          /\ poller' # "modread" /\ (poller' = "setin" => poller = "modread")
      BY <2>3 DEF WriteEvent, FlushFailed, ModRead, connVars
    <3> QED
      BY <2>1, <2>2, <3>1 DEF Polled, InBuff, Left
  <2>4. CASE SetIn
    <3>1. UNCHANGED <<writeQ, writeBuff>> /\ poller = "setin" /\ poller' = "wait"
      BY <2>4 DEF SetIn
    <3> QED
      BY <2>1, <2>2, <3>1 DEF Polled, InBuff, Left
  <2>5. CASE GetWriteBuff
    <3>1. poller = "getbuff" /\ UNCHANGED state
      BY <2>5 DEF GetWriteBuff, connVars
    <3>2. CASE UNCHANGED <<writeQ, writeBuff>>
      <4>1. poller' = "flush" \/ (poller' = "modread" /\ Left(writeBuff) = 0 /\ writeQ = <<>>)
        BY <2>5 DEF GetWriteBuff
      <4> QED
        BY <2>1, <2>2, <3>1, <3>2, <4>1 DEF Polled, InBuff, Left
    <3>3. CASE Left(writeBuff) = 0 /\ writeQ # <<>> /\ poller' = "flush" /\ writeQ' = Tail(writeQ)
      <4>1. /\ Len(writeQ') = Len(writeQ) - 1 /\ Len(writeQ) \in Nat /\ Len(writeQ) # 0
            /\ \A i \in 1..Len(writeQ') : writeQ'[i] = writeQ[i + 1]
        BY <1>1, <3>3, HeadTailProperties, EmptySeq
      <4>2. \A i \in 1..Len(writeQ') : writeQ'[i].from = 1
        BY <4>1 DEF Polled
      <4>3. state = "EPollOUT"
        BY <3>3 DEF Polled
      <4> QED
        BY <2>1, <2>2, <3>1, <3>3, <4>2, <4>3 DEF Polled
    <3> QED
      BY <2>5, <3>2, <3>3 DEF GetWriteBuff
  <2>6. CASE Flush
    <3>1. poller' = "wait" /\ UNCHANGED <<state, writeQ>> /\ poller = "flush"
      BY <2>6 DEF Flush
    <3>2. InBuff
      BY <3>1 DEF TypeInv, FlushHasBytes
    <3> QED
      BY <2>1, <2>2, <3>1, <3>2 DEF Polled
  <2> QED
    BY <1>7, <2>3, <2>4, <2>5, <2>6 DEF PollerStep
<1> QED
  BY <1>2, <1>3, <1>4, <1>5, <1>6, <1>7 DEF Next, WriteStep

\* The chunks that are not with a sender.
Waiting == (IF InBuff THEN <<writeBuff>> ELSE <<>>) \o writeQ

\* The backlog, by where its chunks are; only its first chunk can be cut.
Laid ==
  /\ Waiting \in Seq(Chunks) /\ Backlog \in Seq(Chunks)
  /\ InBuff => /\ writeBuff \in Chunks /\ Len(Waiting) = Len(writeQ) + 1 /\ Waiting[1] = writeBuff
               /\ \A i \in 1..Len(writeQ) : Waiting[i + 1] = writeQ[i]
  /\ ~InBuff => Waiting = writeQ
  /\ (\A w \in Writers : ~InHand(w)) => Backlog = Waiting
  /\ \A w \in Writers : InHand(w) => Rest(w) \in Chunks /\ Backlog = Append(Waiting, Rest(w))
  /\ \A i \in 2..Len(Backlog) : Backlog[i].from = 1

\* The invariants say how the backlog is laid out.
LEMMA BacklogLaid == TypeInv /\ Polled => Laid
<1> SUFFICES ASSUME TypeInv, Polled PROVE Laid
  OBVIOUS
<1> USE ConnWriteAssumption
<1>1. writeQ \in Seq(Chunks) /\ Len(writeQ) \in Nat /\ (InBuff => writeBuff \in Chunks)
  BY BuffIsChunk DEF TypeInv, TypeOK
<1>2. /\ InBuff => /\ Len(Waiting) = Len(writeQ) + 1 /\ Waiting[1] = writeBuff
                   /\ \A i \in 1..Len(writeQ) : Waiting[i + 1] = writeQ[i]
      /\ ~InBuff => Waiting = writeQ
      /\ Waiting \in Seq(Chunks)
  <2>1. CASE InBuff
    <3>1. Waiting = <<writeBuff>> \o writeQ /\ <<writeBuff>> \in Seq(Chunks) /\ Len(<<writeBuff>>) = 1
          /\ <<writeBuff>>[1] = writeBuff
      BY <1>1, <2>1 DEF Waiting
    <3>2. /\ Waiting \in Seq(Chunks) /\ Len(Waiting) = 1 + Len(writeQ)
          /\ \A i \in 1..1 + Len(writeQ) :
               Waiting[i] = IF i <= 1 THEN <<writeBuff>>[i] ELSE writeQ[i - 1]
      BY <1>1, <3>1, ConcatProperties
    <3>3. Waiting[1] = writeBuff
      BY <1>1, <3>1, <3>2
    <3>4. ASSUME NEW i \in 1..Len(writeQ) PROVE Waiting[i + 1] = writeQ[i]
      <4>1. i + 1 \in 1..1 + Len(writeQ) /\ ~(i + 1 <= 1) /\ (i + 1) - 1 = i
        BY <1>1
      <4> QED
        BY <3>2, <4>1
    <3> QED
      BY <2>1, <3>2, <3>3, <3>4, <1>1
  <2>2. CASE ~InBuff
    BY <1>1, <2>2, ConcatEmptySeq DEF Waiting
  <2> QED
    BY <2>1, <2>2
<1>3. /\ Backlog \in Seq(Chunks)
      /\ (\A w \in Writers : ~InHand(w)) => Backlog = Waiting
      /\ \A w \in Writers : InHand(w) => Rest(w) \in Chunks /\ Backlog = Append(Waiting, Rest(w))
  <2>1. CASE \A w \in Writers : ~InHand(w)
    <3>1. Sending = {}
      BY <2>1 DEF Sending
    <3>2. Backlog = Waiting \o <<>>
      <4>1. Backlog = ((IF InBuff THEN <<writeBuff>> ELSE <<>>) \o writeQ) \o <<>>
        BY <3>1 DEF Backlog
      <4> QED
        BY <4>1 DEF Waiting
    <3> QED
      BY <1>2, <2>1, <3>2, ConcatEmptySeq
  <2>2. ASSUME NEW w \in Writers, InHand(w)
        PROVE  Rest(w) \in Chunks /\ Backlog = Append(Waiting, Rest(w)) /\ Backlog \in Seq(Chunks)
    <3>1. Sending = {w}
      BY <2>2 DEF Sending, Polled, InHand
    <3>2. Backlog = Waiting \o <<Rest(w)>>
      <4>1. (CHOOSE v \in {w} : TRUE) = w
        OBVIOUS
      <4>2. Backlog = ((IF InBuff THEN <<writeBuff>> ELSE <<>>) \o writeQ) \o <<Rest(w)>>
        BY <3>1, <4>1 DEF Backlog
      <4> QED
        BY <4>2 DEF Waiting
    <3>3. Rest(w) \in Chunks
      BY <2>2, RestIsChunk
    <3>4. Append(Waiting, Rest(w)) = Waiting \o <<Rest(w)>>
      BY <1>2, <3>3, AppendIsConcat
    <3> QED
      BY <1>2, <3>2, <3>3, <3>4, AppendProperties
  <2> QED
    BY <2>1, <2>2
<1>4. \A i \in 2..Len(Waiting) : Waiting[i].from = 1
  <2> SUFFICES ASSUME NEW i \in 2..Len(Waiting) PROVE Waiting[i].from = 1
    OBVIOUS
  <2>1. CASE InBuff
    <3>1. i - 1 \in 1..Len(writeQ) /\ (i - 1) + 1 = i
      BY <1>1, <1>2, <2>1
    <3>2. writeQ[i - 1].from = 1
      BY <2>1, <3>1 DEF Polled
    <3> QED
      BY <1>2, <2>1, <3>1, <3>2
  <2>2. CASE ~InBuff
    BY <1>1, <1>2, <2>2 DEF Polled
  <2> QED
    BY <2>1, <2>2
<1>5. \A i \in 2..Len(Backlog) : Backlog[i].from = 1
  <2>1. CASE \A w \in Writers : ~InHand(w)
    BY <1>3, <1>4, <2>1
  <2>2. ASSUME NEW w \in Writers, InHand(w), NEW i \in 2..Len(Backlog) PROVE Backlog[i].from = 1
    <3>1. /\ Rest(w) \in Chunks /\ Backlog = Append(Waiting, Rest(w)) /\ Len(Waiting) \in Nat
          /\ Len(Backlog) = Len(Waiting) + 1
          /\ \A j \in 1..Len(Waiting) : Backlog[j] = Waiting[j]
          /\ Backlog[Len(Waiting) + 1] = Rest(w)
      BY <1>2, <1>3, <2>2, AppendProperties
    <3>2. CASE i \in 2..Len(Waiting)
      BY <1>4, <3>1, <3>2
    <3>3. CASE i = Len(Waiting) + 1
      <4>1. Len(Waiting) # 0
        BY <3>1, <3>3
      <4>2. InBuff \/ writeQ # <<>>
        BY <1>1, <1>2, <4>1
      <4>3. off[w] = 1
        BY <2>2, <4>2 DEF Polled, InHand
      <4> QED
        BY <3>1, <3>3, <4>3 DEF Rest
    <3> QED
      BY <3>1, <3>2, <3>3
  <2> QED
    BY <2>1, <2>2
<1> QED
  BY <1>1, <1>2, <1>3, <1>5 DEF Laid

-----------------------------------------------------------------------------
(* What one more segment finishes.                                         *)

\* Only the last segment can be a new end.
LEMMA EndsGrow ==
  ASSUME wire \in Seq(Segments), NEW segment \in Segments, wire' = Append(wire, segment),
         NEW n \in Nat, n = Len(wire)
  PROVE  /\ Len(wire') = n + 1 /\ wire'[n + 1] = segment
         /\ \A i \in 1..n : wire'[i] = wire[i]
         /\ \A i \in 0..n : Ends(i)' = Ends(i)
         /\ Ends(n + 1)' = IF segment.to = PacketLen THEN Ends(n) \cup {n + 1} ELSE Ends(n)
<1>1. /\ Len(wire') = n + 1 /\ wire'[n + 1] = segment
      /\ \A i \in 1..n : wire'[i] = wire[i]
  BY AppendProperties
<1>2. ASSUME NEW i \in 0..n PROVE Ends(i)' = Ends(i)
  <2>1. \A j \in 1..i : wire'[j] = wire[j]
    BY <1>1
  <2> QED
    BY <2>1 DEF Ends
<1>3. 1..n + 1 = (1..n) \cup {n + 1} /\ n + 1 \notin 1..n
  OBVIOUS
<1>4. Ends(n + 1)' = IF segment.to = PacketLen THEN Ends(n) \cup {n + 1} ELSE Ends(n)
  BY <1>1, <1>3 DEF Ends
<1> QED
  BY <1>1, <1>2, <1>4

\* The ends so far are finitely many, and no more than all of them.
LEMMA EndsFinite ==
  ASSUME NEW n \in Nat
  PROVE  /\ IsFiniteSet(Ends(n)) /\ Cardinality(Ends(n)) \in Nat
         /\ \A i \in 0..n : Cardinality(Ends(i)) \in Nat /\ Cardinality(Ends(i)) <= Cardinality(Ends(n))
<1>1. ASSUME NEW i \in Nat PROVE IsFiniteSet(Ends(i)) /\ Cardinality(Ends(i)) \in Nat
  <2>1. IsFiniteSet(1..i)
    BY FS_Interval
  <2>2. Ends(i) \in SUBSET (1..i)
    BY DEF Ends
  <2> QED
    BY <2>1, <2>2, FS_Subset, FS_CardinalityType
<1>2. ASSUME NEW i \in 0..n PROVE Cardinality(Ends(i)) <= Cardinality(Ends(n))
  <2>1. Ends(i) \in SUBSET Ends(n)
    BY DEF Ends
  <2> QED
    BY <1>1, <2>1, FS_Subset
<1> QED
  BY <1>1, <1>2

\* The segment that ends the k-th packet exists.
LastOf(k) == CHOOSE i \in Ends(Len(wire)) : Cardinality(Ends(i)) = k
Listed ==
  \A k \in 1..Cardinality(Ends(Len(wire))) :
    \E i \in Ends(Len(wire)) : Cardinality(Ends(i)) = k

\* A segment that does not end its packet finishes none ...
LEMMA FinishedStill ==
  ASSUME wire \in Seq(Segments), NEW segment \in Segments, wire' = Append(wire, segment),
         segment.to # PacketLen, Listed
  PROVE  Listed' /\ Finished' = Finished
<1>1. PICK n \in Nat : n = Len(wire)
  OBVIOUS
<1>2. /\ Len(wire') = n + 1
      /\ \A i \in 1..n : wire'[i] = wire[i]
      /\ \A i \in 0..n : Ends(i)' = Ends(i)
      /\ Ends(n + 1)' = Ends(n)
  BY <1>1, EndsGrow
<1>3. \A i \in Ends(n) : i \in 1..n
  BY DEF Ends
<1>4. Ends(Len(wire))' = Ends(n)
  BY <1>2 DEF Ends
<1>5. Listed'
  BY <1>1, <1>2, <1>3, <1>4 DEF Listed
<1>6. ASSUME NEW k \in 1..Cardinality(Ends(n)) PROVE wire'[LastOf(k)'] = wire[LastOf(k)]
  <2>1. LastOf(k) = CHOOSE i \in Ends(n) : Cardinality(Ends(i)) = k
    BY <1>1 DEF LastOf
  <2>2. LastOf(k)' = CHOOSE i \in Ends(n) : Cardinality(Ends(i)') = k
    BY <1>4 DEF LastOf
  <2>3. \A i \in Ends(n) : Ends(i)' = Ends(i)
    BY <1>2, <1>3
  <2>4. LastOf(k)' = LastOf(k)
    BY <2>1, <2>2, <2>3
  <2>5. LastOf(k) \in Ends(n)
    BY <1>1, <2>1 DEF Listed
  <2> QED
    BY <1>2, <1>3, <2>4, <2>5
<1>7. Finished = [k \in 1..Cardinality(Ends(n)) |-> wire[LastOf(k)]]
  BY <1>1 DEF Finished, LastOf
<1>8. Finished' = [k \in 1..Cardinality(Ends(n)) |-> wire'[LastOf(k)']]
  BY <1>4 DEF Finished, LastOf
<1> QED
  BY <1>5, <1>6, <1>7, <1>8

\* ... and one that does finishes that packet, after the others.
LEMMA FinishedGrows ==
  ASSUME wire \in Seq(Segments), NEW segment \in Segments, wire' = Append(wire, segment),
         segment.to = PacketLen, Listed
  PROVE  /\ Listed'
         /\ PacketsOf(Finished)' = Append(PacketsOf(Finished), segment.pkt)
<1>1. PICK n \in Nat : n = Len(wire)
  OBVIOUS
<1>2. /\ Len(wire') = n + 1 /\ wire'[n + 1] = segment
      /\ \A i \in 1..n : wire'[i] = wire[i]
      /\ \A i \in 0..n : Ends(i)' = Ends(i)
      /\ Ends(n + 1)' = Ends(n) \cup {n + 1}
  BY <1>1, EndsGrow
<1>3. PICK m \in Nat : m = Cardinality(Ends(n))
  BY EndsFinite
<1>4. \A i \in Ends(n) : i \in 1..n
  BY DEF Ends
<1>5. Cardinality(Ends(n) \cup {n + 1}) = m + 1
  <2>1. n + 1 \notin Ends(n)
    BY <1>4
  <2> QED
    BY <1>3, <2>1, EndsFinite, FS_AddElement
<1>6. Ends(Len(wire))' = Ends(n) \cup {n + 1}
  BY <1>2 DEF Ends
<1>7. /\ \A i \in Ends(n) : Ends(i)' = Ends(i) /\ Cardinality(Ends(i)) \in Nat /\ Cardinality(Ends(i)) <= m
      /\ Cardinality(Ends(n + 1)') = m + 1
  <2>1. ASSUME NEW i \in Ends(n)
        PROVE  /\ Ends(i)' = Ends(i) /\ Cardinality(Ends(i)) \in Nat
               /\ Cardinality(Ends(i)) <= Cardinality(Ends(n))
    <3>1. i \in 0..n
      BY <1>4
    <3> QED
      BY <1>2, <3>1, EndsFinite
  <2> QED
    BY <1>2, <1>3, <1>5, <2>1
<1>8. \A k \in 1..m : \E i \in Ends(n) : Cardinality(Ends(i)) = k
  BY <1>1, <1>3 DEF Listed
<1>9. Listed'
  <2>1. ASSUME NEW k \in 1..m + 1 PROVE \E i \in Ends(n) \cup {n + 1} : Cardinality(Ends(i)') = k
    <3>1. CASE k = m + 1
      BY <1>7, <3>1
    <3>2. CASE k # m + 1
      <4>1. PICK i \in Ends(n) : Cardinality(Ends(i)) = k
        BY <1>8, <3>2
      <4> QED
        BY <1>7, <4>1
    <3> QED
      BY <3>1, <3>2
  <2> QED
    BY <1>5, <1>6, <2>1 DEF Listed
<1>10. ASSUME NEW k \in 1..m + 1
       PROVE  LastOf(k)' = CHOOSE i \in Ends(n) \cup {n + 1} : Cardinality(Ends(i)') = k
  BY <1>6 DEF LastOf
<1>11. ASSUME NEW k \in 1..m PROVE wire'[LastOf(k)'] = wire[LastOf(k)]
  <2>1. LastOf(k) = CHOOSE i \in Ends(n) : Cardinality(Ends(i)) = k
    BY <1>1 DEF LastOf
  <2>2. k # m + 1 /\ k \in 1..m + 1
    OBVIOUS
  <2>3. \A i : (i \in Ends(n) /\ Cardinality(Ends(i)) = k)
               <=> (i \in Ends(n) \cup {n + 1} /\ Cardinality(Ends(i)') = k)
    BY <1>4, <1>7, <2>2
  <2>4. LastOf(k)' = LastOf(k)
    BY <1>10, <2>1, <2>2, <2>3
  <2>5. LastOf(k) \in Ends(n)
    BY <1>8, <2>1
  <2> QED
    BY <1>2, <1>4, <2>4, <2>5
<1>12. wire'[LastOf(m + 1)'] = segment
  <2>1. m + 1 \in 1..m + 1
    OBVIOUS
  <2>2. \A i \in Ends(n) \cup {n + 1} : Cardinality(Ends(i)') = m + 1 <=> i = n + 1
    BY <1>4, <1>7
  <2>3. LastOf(m + 1)' = n + 1
    BY <1>10, <2>1, <2>2
  <2> QED
    BY <1>2, <2>3
<1>13. Finished = [k \in 1..m |-> wire[LastOf(k)]]
  BY <1>1, <1>3 DEF Finished, LastOf
<1>14. Finished' = [k \in 1..m + 1 |-> wire'[LastOf(k)']]
  BY <1>5, <1>6 DEF Finished, LastOf
<1>15. PICK old : /\ old = PacketsOf(Finished)
                  /\ old = [k \in 1..m |-> old[k]]
                  /\ \A k \in 1..m : old[k] = wire[LastOf(k)].pkt
  <2>1. PacketsOf(Finished) = [k \in 1..m |-> wire[LastOf(k)].pkt]
    BY <1>13 DEF PacketsOf
  <2>2. PICK f : f = [k \in 1..m |-> wire[LastOf(k)].pkt]
    OBVIOUS
  <2>3. \A k \in 1..m : f[k] = wire[LastOf(k)].pkt
    BY <2>2
  <2>4. f = [k \in 1..m |-> f[k]]
    BY <2>2
  <2> QED
    BY <2>1, <2>2, <2>3, <2>4
<1>16. PICK new : /\ new = PacketsOf(Finished)'
                  /\ new = [k \in 1..m + 1 |-> new[k]]
                  /\ \A k \in 1..m : new[k] = old[k]
                  /\ new[m + 1] = segment.pkt
  <2>1. PICK g : g = Finished' /\ g = [k \in 1..m + 1 |-> wire'[LastOf(k)']]
    BY <1>14
  <2>2. DOMAIN g = 1..m + 1 /\ \A k \in 1..m + 1 : g[k] = wire'[LastOf(k)']
    BY <2>1
  <2>3. ASSUME NEW k \in 1..m PROVE g[k].pkt = old[k]
    <3>1. k \in 1..m + 1
      OBVIOUS
    <3>2. g[k] = wire'[LastOf(k)']
      BY <2>1, <3>1
    <3>3. g[k] = wire[LastOf(k)]
      BY <1>11, <3>2
    <3> QED
      BY <1>15, <3>3
  <2>4. g[m + 1] = segment
    <3>1. m + 1 \in 1..m + 1
      OBVIOUS
    <3>2. g[m + 1] = wire'[LastOf(m + 1)']
      BY <2>1, <3>1
    <3> QED
      BY <1>12, <3>2
  <2>5. PICK f : f = [k \in DOMAIN g |-> g[k].pkt]
    OBVIOUS
  <2>6. f = PacketsOf(Finished)'
    BY <2>1, <2>5 DEF PacketsOf
  <2>7. DOMAIN f = 1..m + 1 /\ \A k \in 1..m + 1 : f[k] = g[k].pkt
    BY <2>2, <2>5
  <2>8. f = [k \in 1..m + 1 |-> f[k]]
    BY <2>2, <2>5, <2>7
  <2> QED
    BY <2>3, <2>4, <2>6, <2>7, <2>8
<1>17. new = Append(old, segment.pkt)
  <2> DEFINE S == {old[k] : k \in 1..m} \cup {segment.pkt}
  <2>1. \A k \in 1..m : old[k] \in S
    OBVIOUS
  <2>2. segment.pkt \in S
    OBVIOUS
  <2>3. \A k \in 1..m + 1 : new[k] \in S
    <3>1. \A k \in 1..m + 1 : k \in 1..m \/ k = m + 1
      OBVIOUS
    <3> QED
      BY <1>16, <2>1, <2>2, <3>1
  <2> HIDE DEF S
  <2>4. old \in [1..m -> S] /\ new \in [1..m + 1 -> S]
    BY <1>15, <1>16, <2>1, <2>3
  <2>5. old \in Seq(S) /\ Len(old) = m /\ new \in Seq(S) /\ Len(new) = m + 1
    BY <2>4
  <2>6. /\ Append(old, segment.pkt) \in Seq(S) /\ Len(Append(old, segment.pkt)) = m + 1
        /\ \A k \in 1..m : Append(old, segment.pkt)[k] = old[k]
        /\ Append(old, segment.pkt)[m + 1] = segment.pkt
    BY <2>2, <2>5, AppendProperties
  <2>7. \A k \in 1..m + 1 : new[k] = Append(old, segment.pkt)[k]
    <3>1. \A k \in 1..m + 1 : k \in 1..m \/ k = m + 1
      OBVIOUS
    <3> QED
      BY <1>16, <2>6, <3>1
  <2> QED
    BY <2>5, <2>6, <2>7, SeqEqual
<1> QED
  BY <1>9, <1>15, <1>16, <1>17

-----------------------------------------------------------------------------
(* Each step is one of PacketStream, or none.                              *)

Cursor == IF Backlog = <<>> THEN 0 ELSE Backlog[1].from - 1

\* The packets of a sequence of chunks.
LEMMA PacketsAre ==
  ASSUME NEW b \in Seq(Chunks)
  PROVE  /\ PacketsOf(b) \in Seq(Packets) /\ Len(PacketsOf(b)) = Len(b)
         /\ \A i \in 1..Len(b) : PacketsOf(b)[i] = b[i].pkt
<1>1. Len(b) \in Nat /\ DOMAIN b = 1..Len(b) /\ \A i \in 1..Len(b) : b[i].pkt \in Packets
  <2>1. Len(b) \in Nat /\ DOMAIN b = 1..Len(b) /\ \A i \in 1..Len(b) : b[i] \in Chunks
    OBVIOUS
  <2> QED
    BY <2>1 DEF Chunks
<1>2. PacketsOf(b) \in [1..Len(b) -> Packets] /\ \A i \in 1..Len(b) : PacketsOf(b)[i] = b[i].pkt
  BY <1>1 DEF PacketsOf
<1> HIDE DEF Packets
<1> QED
  BY <1>1, <1>2

\* One chunk more is one packet more.
LEMMA PacketsAppend ==
  ASSUME NEW b \in Seq(Chunks), NEW c \in Chunks
  PROVE  PacketsOf(Append(b, c)) = Append(PacketsOf(b), c.pkt)
<1>1. c.pkt \in Packets
  BY DEF Chunks
<1>2. /\ Append(b, c) \in Seq(Chunks) /\ Len(Append(b, c)) = Len(b) + 1 /\ Len(b) \in Nat
      /\ \A i \in 1..Len(b) : Append(b, c)[i] = b[i]
      /\ Append(b, c)[Len(b) + 1] = c
  BY AppendProperties
<1>3. /\ PacketsOf(b) \in Seq(Packets) /\ Len(PacketsOf(b)) = Len(b)
      /\ \A i \in 1..Len(b) : PacketsOf(b)[i] = b[i].pkt
  BY PacketsAre
<1>4. /\ PacketsOf(Append(b, c)) \in Seq(Packets) /\ Len(PacketsOf(Append(b, c))) = Len(b) + 1
      /\ \A i \in 1..Len(b) + 1 : PacketsOf(Append(b, c))[i] = Append(b, c)[i].pkt
  BY <1>2, PacketsAre
<1>5. /\ Append(PacketsOf(b), c.pkt) \in Seq(Packets)
      /\ Len(Append(PacketsOf(b), c.pkt)) = Len(b) + 1
      /\ \A i \in 1..Len(b) : Append(PacketsOf(b), c.pkt)[i] = b[i].pkt
      /\ Append(PacketsOf(b), c.pkt)[Len(b) + 1] = c.pkt
  BY <1>1, <1>3, AppendProperties
<1>6. \A i \in 1..Len(b) + 1 : PacketsOf(Append(b, c))[i] = Append(PacketsOf(b), c.pkt)[i]
  <2>1. \A i \in 1..Len(b) + 1 : i \in 1..Len(b) \/ i = Len(b) + 1
    BY <1>2
  <2> QED
    BY <1>2, <1>4, <1>5, <2>1
<1> QED
  BY <1>4, <1>5, <1>6, SeqEqual

\* The first chunk gone, its packet is gone.
LEMMA PacketsTail ==
  ASSUME NEW b \in Seq(Chunks), b # <<>>, NEW c \in Seq(Chunks), Len(c) = Len(b) - 1,
         \A i \in 1..Len(c) : c[i] = b[i + 1]
  PROVE  PacketsOf(c) = Tail(PacketsOf(b)) /\ Head(PacketsOf(b)) = b[1].pkt
<1>1. Len(b) \in Nat /\ Len(b) # 0 /\ Len(c) \in Nat
  BY EmptySeq
<1>2. /\ PacketsOf(b) \in Seq(Packets) /\ Len(PacketsOf(b)) = Len(b)
      /\ \A i \in 1..Len(b) : PacketsOf(b)[i] = b[i].pkt
  BY PacketsAre
<1>3. /\ PacketsOf(c) \in Seq(Packets) /\ Len(PacketsOf(c)) = Len(c)
      /\ \A i \in 1..Len(c) : PacketsOf(c)[i] = c[i].pkt
  BY PacketsAre
<1>4. PacketsOf(b) # <<>>
  BY <1>1, <1>2, EmptySeq
<1>5. /\ Tail(PacketsOf(b)) \in Seq(Packets) /\ Len(Tail(PacketsOf(b))) = Len(b) - 1
      /\ \A i \in 1..Len(b) - 1 : Tail(PacketsOf(b))[i] = PacketsOf(b)[i + 1]
      /\ Head(PacketsOf(b)) = PacketsOf(b)[1]
  BY <1>2, <1>4, HeadTailProperties
<1>6. \A i \in 1..Len(c) : PacketsOf(c)[i] = Tail(PacketsOf(b))[i]
  <2> SUFFICES ASSUME NEW i \in 1..Len(c) PROVE PacketsOf(c)[i] = Tail(PacketsOf(b))[i]
    OBVIOUS
  <2>1. i + 1 \in 1..Len(b) /\ i \in 1..Len(b) - 1
    BY <1>1
  <2> QED
    BY <1>2, <1>3, <1>5, <2>1
<1>7. PacketsOf(c) = Tail(PacketsOf(b))
  BY <1>3, <1>5, <1>6, SeqEqual
<1>8. 1 \in 1..Len(b)
  BY <1>1
<1> QED
  BY <1>2, <1>5, <1>7, <1>8

\* A chunk that is cut is still its packet.
LEMMA PacketsCut ==
  ASSUME NEW b \in Seq(Chunks), NEW c \in Seq(Chunks), Len(c) = Len(b),
         \A i \in 1..Len(b) : c[i].pkt = b[i].pkt
  PROVE  PacketsOf(c) = PacketsOf(b)
<1>1. /\ PacketsOf(b) \in Seq(Packets) /\ Len(PacketsOf(b)) = Len(b)
      /\ \A i \in 1..Len(b) : PacketsOf(b)[i] = b[i].pkt
  BY PacketsAre
<1>2. /\ PacketsOf(c) \in Seq(Packets) /\ Len(PacketsOf(c)) = Len(b)
      /\ \A i \in 1..Len(b) : PacketsOf(c)[i] = c[i].pkt
  BY PacketsAre
<1> QED
  BY <1>1, <1>2, SeqEqual

\* The mapping depends on the backlog, the wire and the two ends.
LEMMA FinishedKept == UNCHANGED wire => Finished' = Finished /\ PacketsOf(Finished)' = PacketsOf(Finished)
BY DEF Finished, Ends, PacketsOf

LEMMA StreamStill == UNCHANGED <<Backlog, wire, fd, peer>> => UNCHANGED Stream!vars
BY FinishedKept DEF Stream!vars, PacketsOf

\* A chunk that has nothing of it sent joins the backlog.
LEMMA StreamAccept ==
  ASSUME Laid, NEW c \in Chunks, c.from = 1, Backlog' = Append(Backlog, c),
         UNCHANGED <<wire, fd, peer>>
  PROVE  Stream!Accept(c.pkt)
<1>1. /\ Len(Backlog) \in Nat /\ Len(Backlog') = Len(Backlog) + 1
      /\ \A i \in 1..Len(Backlog) : Backlog'[i] = Backlog[i]
      /\ Backlog'[Len(Backlog) + 1] = c
  BY AppendProperties DEF Laid
<1>2. PacketsOf(Backlog)' = Append(PacketsOf(Backlog), c.pkt)
  <2>1. PICK b \in Seq(Chunks) : b = Backlog
    BY DEF Laid
  <2>2. PICK d : d = Backlog'
    OBVIOUS
  <2>3. PacketsOf(d) = Append(PacketsOf(b), c.pkt)
    BY <2>1, <2>2, PacketsAppend
  <2>4. PacketsOf(Backlog)' = PacketsOf(d)
    BY <2>2 DEF PacketsOf
  <2> QED
    BY <2>1, <2>3, <2>4
<1>3. Cursor' = Cursor
  <2>1. Backlog' # <<>>
    BY <1>1
  <2>2. CASE Backlog = <<>>
    BY <1>1, <2>1, <2>2 DEF Cursor
  <2>3. CASE Backlog # <<>>
    <3>1. 1 \in 1..Len(Backlog)
      BY <1>1, <2>3, EmptySeq DEF Laid
    <3> QED
      BY <1>1, <2>1, <2>3, <3>1 DEF Cursor
  <2> QED
    BY <2>2, <2>3
<1> QED
  BY <1>2, <1>3, FinishedKept DEF Stream!Accept, Cursor

\* The first chunk is sent, in part or to its end.
LEMMA StreamTransmit ==
  ASSUME Laid, Laid', wire \in Seq(Segments), Listed,
         fd = "open", peer = "up", UNCHANGED <<fd, peer>>, Backlog # <<>>,
         NEW c \in Chunks, c = Backlog[1],
         NEW n \in 1..PacketLen, n <= Left(c),
         wire' = Append(wire, [pkt |-> c.pkt, from |-> c.from, to |-> c.from + n - 1]),
         n = Left(c) => /\ Len(Backlog') = Len(Backlog) - 1
                        /\ \A i \in 1..Len(Backlog') : Backlog'[i] = Backlog[i + 1],
         n # Left(c) => /\ Len(Backlog') = Len(Backlog)
                        /\ Backlog'[1] = [pkt |-> c.pkt, from |-> c.from + n]
                        /\ \A i \in 2..Len(Backlog) : Backlog'[i] = Backlog[i]
  PROVE  Listed' /\ Stream!Transmit(n)
<1> USE ConnWriteAssumption
<1>1. /\ c.pkt \in Packets /\ c.from \in 1..PacketLen /\ Left(c) = PacketLen - (c.from - 1)
      /\ Left(c) \in Nat
  BY DEF Chunks, Left
<1>2. /\ Len(Backlog) \in Nat /\ Len(Backlog) # 0 /\ Len(Backlog') \in Nat
      /\ Backlog \in Seq(Chunks) /\ Backlog' \in Seq(Chunks)
  BY EmptySeq DEF Laid
<1>3. Cursor = c.from - 1
  BY DEF Cursor
<1>4. PICK segment \in Segments :
        /\ segment = [pkt |-> c.pkt, from |-> c.from, to |-> c.from + n - 1]
        /\ wire' = Append(wire, segment) /\ segment.pkt = c.pkt
        /\ (segment.to = PacketLen <=> n = Left(c))
  <2>1. c.from + n - 1 \in c.from..PacketLen /\ (c.from + n - 1 = PacketLen <=> n = Left(c))
    <3>1. PICK f \in 1..PacketLen : f = c.from /\ Left(c) = PacketLen - (f - 1)
      BY <1>1
    <3>2. n <= PacketLen - (f - 1)
      BY <3>1
    <3>3. f + n - 1 \in f..PacketLen /\ (f + n - 1 = PacketLen <=> n = PacketLen - (f - 1))
      BY <3>2
    <3> QED
      BY <3>1, <3>3
  <2>2. [pkt |-> c.pkt, from |-> c.from, to |-> c.from + n - 1] \in Segments
    BY <1>1, <2>1 DEF Segments
  <2> QED
    BY <2>1, <2>2
<1>5. PICK b \in Seq(Chunks) : b = Backlog
  BY <1>2
<1>6. PICK d \in Seq(Chunks) : d = Backlog'
  BY <1>2
<1>7. PacketsOf(Backlog)' = PacketsOf(d)
  BY <1>6 DEF PacketsOf
<1>8. (fd = "open" /\ peer = "up") /\ UNCHANGED (fd = "open" /\ peer = "up")
  OBVIOUS
<1>9. CASE n = Left(c)
  <2>1. Listed' /\ PacketsOf(Finished)' = Append(PacketsOf(Finished), c.pkt)
    BY <1>4, <1>9, FinishedGrows
  <2>2. PacketsOf(d) = Tail(PacketsOf(b)) /\ Head(PacketsOf(b)) = c.pkt
    BY <1>2, <1>5, <1>6, <1>9, PacketsTail
  <2>3. PacketsOf(Backlog)' = Tail(PacketsOf(Backlog)) /\ Head(PacketsOf(Backlog)) = c.pkt
    BY <1>5, <1>7, <2>2
  <2>4. Cursor' = 0
    <3>1. CASE Backlog' = <<>>
      BY <3>1 DEF Cursor
    <3>2. CASE Backlog' # <<>>
      <4>1. Len(Backlog') # 0
        BY <1>2, <3>2, EmptySeq
      <4>2. 1 \in 1..Len(Backlog') /\ 2 \in 2..Len(Backlog) /\ 1 + 1 = 2
        BY <1>2, <1>9, <4>1
      <4>3. Backlog[2].from = 1
        BY <4>2 DEF Laid
      <4>4. Backlog'[1] = Backlog[2]
        <5>1. Backlog'[1] = Backlog[1 + 1]
          BY <1>9, <4>2
        <5> QED
          BY <4>2, <5>1
      <4>5. Backlog'[1].from = 1
        BY <4>3, <4>4
      <4> QED
        BY <3>2, <4>5 DEF Cursor
    <3> QED
      BY <3>1, <3>2
  <2>5. Cursor + n = PacketLen /\ n \in 1..PacketLen - Cursor
    BY <1>1, <1>3, <1>9
  <2>6. PacketsOf(Backlog) # <<>>
    BY <1>2, <1>5, PacketsAre, EmptySeq
  <2> QED
    BY <1>8, <2>1, <2>3, <2>4, <2>5, <2>6 DEF Stream!Transmit, Cursor
<1>10. CASE n # Left(c)
  <2>1. Listed' /\ Finished' = Finished
    BY <1>4, <1>10, FinishedStill
  <2>2. PacketsOf(Finished)' = PacketsOf(Finished)
    BY <2>1 DEF PacketsOf
  <2>3. PacketsOf(d) = PacketsOf(b)
    <3>1. \A i \in 1..Len(b) : d[i].pkt = b[i].pkt
      <4>1. \A i \in 1..Len(b) : i = 1 \/ i \in 2..Len(b)
        BY <1>2, <1>5
      <4> QED
        BY <1>5, <1>6, <1>10, <4>1
    <3> QED
      BY <1>5, <1>6, <1>10, <3>1, PacketsCut
  <2>4. PacketsOf(Backlog)' = PacketsOf(Backlog)
    BY <1>5, <1>7, <2>3
  <2>5. Cursor' = Cursor + n
    <3>1. Backlog' # <<>>
      BY <1>2, <1>10, EmptySeq
    <3>2. Cursor' = (c.from + n) - 1
      BY <1>10, <3>1 DEF Cursor
    <3> QED
      BY <1>1, <1>3, <3>2, SMTT(60)
  <2>6. Cursor + n < PacketLen /\ n \in 1..PacketLen - Cursor
    BY <1>1, <1>3, <1>10
  <2>7. PacketsOf(Backlog) # <<>>
    BY <1>2, <1>5, PacketsAre, EmptySeq
  <2> QED
    BY <1>8, <2>1, <2>2, <2>4, <2>5, <2>6, <2>7 DEF Stream!Transmit, Cursor
<1> QED
  BY <1>9, <1>10

\* No chunk moves: the backlog stays.
LEMMA BacklogStill ==
  ASSUME Laid, Laid', UNCHANGED <<writeQ, writeBuff, sent, off>>,
         \A w \in Writers : InHand(w)' <=> InHand(w)
  PROVE  Backlog' = Backlog
<1>1. Waiting' = Waiting
  BY DEF Waiting, InBuff, Left
<1>2. CASE \A w \in Writers : ~InHand(w)
  <2>1. \A w \in Writers : ~InHand(w)'
    BY <1>2
  <2>2. Backlog = Waiting /\ Backlog' = Waiting'
    BY <1>2, <2>1 DEF Laid
  <2> QED
    BY <1>1, <2>2
<1>3. ASSUME NEW w \in Writers, InHand(w) PROVE Backlog' = Backlog
  <2>1. Rest(w)' = Rest(w)
    BY DEF Rest, Current
  <2>2. Backlog = Append(Waiting, Rest(w)) /\ Backlog' = Append(Waiting', Rest(w)')
    BY <1>3 DEF Laid
  <2> QED
    BY <1>1, <2>1, <2>2
<1> QED
  BY <1>2, <1>3

\* The last chunk leaves its sender's hand for the queue: the backlog stays.
LEMMA BacklogPush ==
  ASSUME TypeInv, Polled, Polled', Laid, Laid', NEW w \in Writers, InHand(w),
         \A v \in Writers : ~InHand(v)',
         UNCHANGED writeBuff, writeQ' = Append(writeQ, Rest(w))
  PROVE  Backlog' = Backlog
<1>1. Rest(w) \in Chunks /\ Backlog = Append(Waiting, Rest(w)) /\ Backlog' = Waiting'
  BY DEF Laid
<1>2. writeQ \in Seq(Chunks) /\ (InBuff => writeBuff \in Chunks)
  BY BuffIsChunk DEF TypeInv, TypeOK
<1>3. PICK s \in Seq(Chunks) : s = IF InBuff THEN <<writeBuff>> ELSE <<>>
  <2>1. CASE InBuff
    <3>1. <<writeBuff>> \in Seq(Chunks)
      BY <1>2, <2>1
    <3> QED
      BY <2>1, <3>1
  <2>2. CASE ~InBuff
    <3>1. <<>> \in Seq(Chunks)
      OBVIOUS
    <3> QED
      BY <2>2, <3>1
  <2> QED
    BY <2>1, <2>2
<1>4. Waiting = s \o writeQ /\ Waiting' = s \o Append(writeQ, Rest(w))
  BY <1>3 DEF Waiting, InBuff, Left
<1>5. PICK r \in Chunks : r = Rest(w)
  BY <1>1
<1>6. s \o (writeQ \o <<r>>) = (s \o writeQ) \o <<r>>
  BY <1>2, ConcatAssociative
<1>7. Append(writeQ, r) = writeQ \o <<r>> /\ Append(s \o writeQ, r) = (s \o writeQ) \o <<r>>
  BY <1>2, AppendIsConcat, ConcatProperties
<1> QED
  BY <1>1, <1>4, <1>5, <1>6, <1>7

\* The first chunk leaves the queue for writeBuff: the backlog stays.
LEMMA BacklogPop ==
  ASSUME TypeInv, TypeInv', Laid, Laid', \A v \in Writers : ~InHand(v) /\ ~InHand(v)',
         ~InBuff, writeQ # <<>>, writeBuff' = Head(writeQ), writeQ' = Tail(writeQ)
  PROVE  Backlog' = Backlog
<1> USE ConnWriteAssumption
<1>1. Backlog = writeQ /\ Backlog' = Waiting'
  BY DEF Laid
<1>2. writeQ \in Seq(Chunks)
  BY DEF TypeInv, TypeOK
<1>3. /\ Len(writeQ) \in Nat /\ Len(writeQ) # 0 /\ Len(writeQ') = Len(writeQ) - 1
      /\ writeBuff' = writeQ[1] /\ writeQ[1] \in Chunks
      /\ \A i \in 1..Len(writeQ) - 1 : writeQ'[i] = writeQ[i + 1]
  <2>1. Len(writeQ) \in Nat /\ Len(writeQ) # 0
    BY <1>2, EmptySeq
  <2>2. 1 \in 1..Len(writeQ)
    BY <2>1
  <2> QED
    BY <1>2, <2>1, <2>2, HeadTailProperties, ElementOfSeq
<1>4. InBuff'
  <2>1. writeBuff'.from \in 1..PacketLen
    BY <1>3 DEF Chunks
  <2> QED
    BY <2>1 DEF InBuff, Left
<1>5. /\ Waiting' \in Seq(Chunks) /\ Len(Waiting') = Len(writeQ)
      /\ Waiting'[1] = writeQ[1] /\ \A i \in 1..Len(writeQ) - 1 : Waiting'[i + 1] = writeQ[i + 1]
  BY <1>3, <1>4 DEF Laid
<1>6. ASSUME NEW i \in 1..Len(writeQ) PROVE Waiting'[i] = writeQ[i]
  <2>1. i = 1 \/ (i - 1 \in 1..Len(writeQ) - 1 /\ (i - 1) + 1 = i)
    BY <1>3
  <2> QED
    BY <1>5, <2>1
<1> QED
  BY <1>1, <1>2, <1>5, <1>6, SeqEqual

\* A connection ends, or ends again.
LEMMA StreamEnd ==
  ASSUME Backlog' = Backlog, UNCHANGED wire,
         (fd' = "open" /\ peer' = "up") => (fd = "open" /\ peer = "up")
  PROVE  Stream!End \/ UNCHANGED Stream!vars
<1>1. UNCHANGED <<PacketsOf(Backlog), Cursor, PacketsOf(Finished)>>
  BY FinishedKept DEF PacketsOf, Cursor
<1>2. CASE (fd' = "open" /\ peer' = "up") <=> (fd = "open" /\ peer = "up")
  BY <1>1, <1>2 DEF Stream!vars, Cursor
<1>3. CASE (fd = "open" /\ peer = "up") /\ ~(fd' = "open" /\ peer' = "up")
  BY <1>1, <1>3 DEF Stream!End, Cursor
<1> QED
  BY <1>2, <1>3

Streaming == TypeInv /\ Polled /\ Laid

\* Send accepts a packet.
LEMMA SendStreams ==
  ASSUME OnePoller, Streaming, Streaming', NEW w \in Writers, Send(w)
  PROVE  Stream!Next
<1> USE ConnWriteAssumption
<1>1. /\ pc \in [Writers -> {"idle", "check", "enqueue", "write", "setout", "pushrest", "modwrite"}]
      /\ off \in [Writers -> 1..PacketLen + 1] /\ sent \in [Writers -> 0..MaxSend]
  BY DEF Streaming, TypeInv, TypeOK
<1>2. /\ \A v \in Writers : pc[v] = "idle"
      /\ pc' = [pc EXCEPT ![w] = "check"] /\ off' = [off EXCEPT ![w] = 1]
      /\ UNCHANGED <<writeQ, writeBuff, wire, fd, peer>>
  BY DEF Send, PollerFree, OnePoller, Goto, connVars, kernelVars
<1>3. InHand(w)' /\ \A v \in Writers : ~InHand(v)
  BY <1>1, <1>2 DEF InHand
<1>4. Waiting' = Waiting
  BY <1>2 DEF Waiting, InBuff, Left
<1>5. Rest(w)' \in Chunks /\ Backlog' = Append(Waiting', Rest(w)') /\ Backlog = Waiting
  BY <1>3 DEF Streaming, Laid
<1>6. Rest(w)'.from = 1
  BY <1>1, <1>2 DEF Rest
<1>7. PICK c \in Chunks : c = Rest(w)'
  BY <1>5
<1>8. Stream!Accept(c.pkt)
  BY <1>2, <1>4, <1>5, <1>6, <1>7, StreamAccept DEF Streaming
<1>9. c.pkt \in Packets
  BY DEF Chunks
<1> QED
  BY <1>8, <1>9 DEF Stream!Next

\* A sender that has nothing to put anywhere changes nothing.
LEMMA SenderStill ==
  ASSUME Streaming, Streaming', NEW w \in Writers,
         CheckState(w) \/ WriteAgain(w) \/ SetOut(w) \/ ModWrite(w)
  PROVE  UNCHANGED wire /\ UNCHANGED Stream!vars
<1>1. pc \in [Writers -> {"idle", "check", "enqueue", "write", "setout", "pushrest", "modwrite"}]
  BY DEF Streaming, TypeInv, TypeOK
<1>2. /\ UNCHANGED <<writeQ, writeBuff, sent, off, wire, fd, peer>>
      /\ \/ /\ pc[w] \in {"check", "write", "setout"}
            /\ \E to \in {"enqueue", "write", "setout", "pushrest"} : pc' = [pc EXCEPT ![w] = to]
         \/ pc[w] = "modwrite" /\ pc' = [pc EXCEPT ![w] = "idle"]
  <2>1. CASE CheckState(w)
    BY <2>1 DEF CheckState, Goto, connVars, kernelVars
  <2>2. CASE WriteAgain(w)
    BY <2>2 DEF WriteAgain, Goto, connVars, kernelVars
  <2>3. CASE SetOut(w)
    BY <2>3 DEF SetOut, Goto, kernelVars
  <2>4. CASE ModWrite(w)
    BY <2>4 DEF ModWrite, Goto, kernelVars
  <2> QED
    BY <2>1, <2>2, <2>3, <2>4
<1>3. \A v \in Writers : InHand(v)' <=> InHand(v)
  BY <1>1, <1>2 DEF InHand
<1>4. Backlog' = Backlog
  BY <1>2, <1>3, BacklogStill DEF Streaming
<1> QED
  BY <1>2, <1>4, StreamStill

\* What a sender has to queue stays in the backlog.
LEMMA PushStreams ==
  ASSUME Streaming, Streaming', NEW w \in Writers, Enqueue(w) \/ PushRest(w)
  PROVE  UNCHANGED wire /\ UNCHANGED Stream!vars
<1>1. pc \in [Writers -> {"idle", "check", "enqueue", "write", "setout", "pushrest", "modwrite"}]
  BY DEF Streaming, TypeInv, TypeOK
<1>2. /\ UNCHANGED <<writeBuff, wire, fd, peer>> /\ writeQ' = Append(writeQ, Rest(w))
      /\ pc[w] \in {"enqueue", "pushrest"}
      /\ \E to \in {"idle", "modwrite"} : pc' = [pc EXCEPT ![w] = to]
  BY DEF Enqueue, PushRest, Goto, kernelVars
<1>3. \A v \in Writers : pc[v] # "idle" => v = w
  BY <1>2 DEF Streaming, Polled
<1>4. InHand(w) /\ \A v \in Writers : ~InHand(v)'
  BY <1>1, <1>2, <1>3 DEF InHand
<1>5. Backlog' = Backlog
  BY <1>2, <1>4, BacklogPush DEF Streaming
<1> QED
  BY <1>2, <1>5, StreamStill

\* The direct write transmits: nothing was waiting.
LEMMA WriteStreams ==
  ASSUME Streaming, Streaming', Listed, NEW w \in Writers, WriteSome(w)
  PROVE  Listed' /\ Stream!Next
<1> USE ConnWriteAssumption
<1>1. /\ pc \in [Writers -> {"idle", "check", "enqueue", "write", "setout", "pushrest", "modwrite"}]
      /\ off \in [Writers -> 1..PacketLen + 1] /\ wire \in Seq(Segments) /\ room \in 0..SockBuf
  BY DEF Streaming, TypeInv, TypeOK
<1>2. PICK c \in Chunks : c = Rest(w) /\ c.from = off[w]
  <2>1. InHand(w)
    BY DEF WriteSome, Goto, InHand
  <2> QED
    BY <2>1, RestIsChunk DEF Streaming, Rest
<1>3. PICK n \in 1..PacketLen : n = Accepted(c) /\ n <= Left(c)
  BY <1>1, AcceptedBound DEF WriteSome
<1>4. /\ fd = "open" /\ peer = "up" /\ pc[w] = "write"
      /\ pc' = [pc EXCEPT ![w] = IF n = Left(c) THEN "idle" ELSE "setout"]
      /\ wire' = Append(wire, Segment(c)) /\ off' = [off EXCEPT ![w] = @ + n]
      /\ UNCHANGED <<writeQ, writeBuff, sent, fd, peer>>
  BY <1>2, <1>3 DEF WriteSome, Goto, connVars
<1>5. wire' = Append(wire, [pkt |-> c.pkt, from |-> c.from, to |-> c.from + n - 1])
  BY <1>3, <1>4 DEF Segment
<1>6. ~InBuff /\ writeQ = <<>> /\ \A v \in Writers : pc[v] # "idle" => v = w
  BY <1>4 DEF Streaming, Polled
<1>7. Waiting = <<>> /\ Waiting' = <<>>
  <2>1. ~InBuff' /\ writeQ' = <<>>
    BY <1>4, <1>6 DEF InBuff, Left
  <2> QED
    BY <1>6, <2>1 DEF Streaming, Laid
<1>8. Backlog # <<>> /\ Len(Backlog) = 1 /\ Backlog[1] = c
  <2>1. InHand(w)
    BY <1>4 DEF InHand
  <2>2. Backlog = Append(<<>>, c)
    BY <1>2, <1>7, <2>1 DEF Streaming, Laid
  <2> QED
    BY <2>2
<1>9. n = Left(c) => /\ Len(Backlog') = Len(Backlog) - 1
                     /\ \A i \in 1..Len(Backlog') : Backlog'[i] = Backlog[i + 1]
  <2> SUFFICES ASSUME n = Left(c)
               PROVE  /\ Len(Backlog') = Len(Backlog) - 1
                      /\ \A i \in 1..Len(Backlog') : Backlog'[i] = Backlog[i + 1]
    OBVIOUS
  <2>1. \A v \in Writers : ~InHand(v)'
    BY <1>1, <1>4, <1>6 DEF InHand
  <2>2. Backlog' = <<>>
    BY <1>7, <2>1 DEF Streaming, Laid
  <2> QED
    BY <1>8, <2>2
<1>10. n # Left(c) => /\ Len(Backlog') = Len(Backlog)
                      /\ Backlog'[1] = [pkt |-> c.pkt, from |-> c.from + n]
                      /\ \A i \in 2..Len(Backlog) : Backlog'[i] = Backlog[i]
  <2> SUFFICES ASSUME n # Left(c)
               PROVE  /\ Len(Backlog') = Len(Backlog)
                      /\ Backlog'[1] = [pkt |-> c.pkt, from |-> c.from + n]
                      /\ \A i \in 2..Len(Backlog) : Backlog'[i] = Backlog[i]
    OBVIOUS
  <2>1. InHand(w)'
    BY <1>1, <1>4 DEF InHand
  <2>2. Rest(w)' = [pkt |-> c.pkt, from |-> c.from + n]
    BY <1>1, <1>2, <1>4 DEF Rest, Current
  <2>3. Backlog' = Append(<<>>, Rest(w)')
    BY <1>7, <2>1 DEF Streaming, Laid
  <2> QED
    BY <1>8, <2>2, <2>3
<1>11. Listed' /\ Stream!Transmit(n)
  BY <1>1, <1>3, <1>4, <1>5, <1>8, <1>9, <1>10, StreamTransmit DEF Streaming
<1> QED
  BY <1>11 DEF Stream!Next

\* A packet that cannot be written is refused.
LEMMA FailedStreams ==
  ASSUME Streaming, Streaming', NEW w \in Writers, WriteFailed(w)
  PROVE  UNCHANGED wire /\ Stream!Next
<1> USE ConnWriteAssumption
<1>1. pc \in [Writers -> {"idle", "check", "enqueue", "write", "setout", "pushrest", "modwrite"}]
  BY DEF Streaming, TypeInv, TypeOK
<1>2. /\ ~(fd = "open" /\ peer = "up") /\ pc[w] = "write" /\ pc' = [pc EXCEPT ![w] = "idle"]
      /\ UNCHANGED <<writeQ, writeBuff, wire, fd, peer>>
  BY DEF WriteFailed, Goto, connVars, kernelVars
<1>3. ~InBuff /\ writeQ = <<>> /\ off[w] = 1 /\ \A v \in Writers : pc[v] # "idle" => v = w
  BY <1>2 DEF Streaming, Polled
<1>4. Waiting = <<>> /\ Waiting' = <<>>
  <2>1. ~InBuff' /\ writeQ' = <<>>
    BY <1>2, <1>3 DEF InBuff, Left
  <2> QED
    BY <1>3, <2>1 DEF Streaming, Laid
<1>5. InHand(w) /\ \A v \in Writers : ~InHand(v)'
  BY <1>1, <1>2, <1>3 DEF InHand
<1>6. PICK c \in Chunks : c = Rest(w) /\ c.from = 1
  BY <1>3, <1>5, RestIsChunk DEF Streaming, Rest
<1>7. Backlog = Append(<<>>, c) /\ Backlog' = <<>>
  BY <1>4, <1>5, <1>6 DEF Streaming, Laid
<1>8. Cursor = 0 /\ Cursor' = 0
  BY <1>6, <1>7 DEF Cursor
<1>9. PacketsOf(Backlog) = <<c.pkt>> /\ PacketsOf(Backlog)' = <<>>
  BY <1>7 DEF PacketsOf
<1>10. SubSeq(<<c.pkt>>, 1, Len(<<c.pkt>>) - 1) = <<>> /\ <<c.pkt>> # <<>>
  OBVIOUS
<1>11. Stream!Refuse
  BY <1>2, <1>8, <1>9, <1>10, FinishedKept DEF Stream!Refuse, Cursor
<1> QED
  BY <1>2, <1>11 DEF Stream!Next

\* The write of the poller transmits the first chunk.
LEMMA FlushStreams ==
  ASSUME Streaming, Streaming', Listed, Flush
  PROVE  Listed' /\ Stream!Next
<1> USE ConnWriteAssumption
<1>1. /\ wire \in Seq(Segments) /\ room \in 0..SockBuf /\ writeQ \in Seq(Chunks) /\ Len(writeQ) \in Nat
      /\ writeBuff \in [pkt : Packets \cup {NoPacket}, from : 1..PacketLen + 1]
  BY DEF Streaming, TypeInv, TypeOK
<1>2. /\ fd = "open" /\ peer = "up" /\ room > 0 /\ poller = "flush"
      /\ wire' = Append(wire, Segment(writeBuff))
      /\ writeBuff' = [writeBuff EXCEPT !.from = @ + Accepted(writeBuff)]
      /\ UNCHANGED <<writeQ, pc, fd, peer>>
  BY DEF Flush
<1>3. InBuff /\ \A v \in Writers : ~InHand(v) /\ ~InHand(v)'
  BY <1>2 DEF Streaming, TypeInv, FlushHasBytes, Polled, InHand
<1>4. PICK c \in Chunks : c = writeBuff
  BY <1>3, BuffIsChunk DEF Streaming
<1>5. PICK n \in 1..PacketLen : n = Accepted(c) /\ n <= Left(c)
  BY <1>1, <1>2, AcceptedBound
<1>6. wire' = Append(wire, [pkt |-> c.pkt, from |-> c.from, to |-> c.from + n - 1])
  BY <1>2, <1>4, <1>5 DEF Segment
<1>7. writeBuff' = [pkt |-> c.pkt, from |-> c.from + n]
  BY <1>2, <1>4, <1>5 DEF Chunks
<1>8. /\ Len(Backlog) = Len(writeQ) + 1 /\ Backlog[1] = c
      /\ \A i \in 1..Len(writeQ) : Backlog[i + 1] = writeQ[i]
  BY <1>3, <1>4 DEF Streaming, Laid
<1>9. Backlog # <<>>
  BY <1>1, <1>8
<1>10. InBuff' <=> n # Left(c)
  <2>1. PICK f \in 1..PacketLen : f = c.from
    BY DEF Chunks
  <2>2. writeBuff'.from = f + n
    BY <1>7, <2>1
  <2>3. PacketLen + 1 - (f + n) >= 1 <=> n # PacketLen + 1 - f
    BY <1>5, <2>1 DEF Left
  <2> QED
    BY <2>1, <2>2, <2>3 DEF InBuff, Left
<1>11. n = Left(c) => /\ Len(Backlog') = Len(Backlog) - 1
                      /\ \A i \in 1..Len(Backlog') : Backlog'[i] = Backlog[i + 1]
  <2> SUFFICES ASSUME n = Left(c)
               PROVE  /\ Len(Backlog') = Len(Backlog) - 1
                      /\ \A i \in 1..Len(Backlog') : Backlog'[i] = Backlog[i + 1]
    OBVIOUS
  <2>1. Backlog' = writeQ'
    BY <1>3, <1>10 DEF Streaming, Laid
  <2> QED
    BY <1>1, <1>2, <1>8, <2>1
<1>12. n # Left(c) => /\ Len(Backlog') = Len(Backlog)
                      /\ Backlog'[1] = [pkt |-> c.pkt, from |-> c.from + n]
                      /\ \A i \in 2..Len(Backlog) : Backlog'[i] = Backlog[i]
  <2> SUFFICES ASSUME n # Left(c)
               PROVE  /\ Len(Backlog') = Len(Backlog)
                      /\ Backlog'[1] = [pkt |-> c.pkt, from |-> c.from + n]
                      /\ \A i \in 2..Len(Backlog) : Backlog'[i] = Backlog[i]
    OBVIOUS
  <2>1. /\ Len(Backlog') = Len(writeQ') + 1 /\ Backlog'[1] = writeBuff'
        /\ \A i \in 1..Len(writeQ') : Backlog'[i + 1] = writeQ'[i]
    BY <1>3, <1>10 DEF Streaming, Laid
  <2>2. \A i \in 1..Len(writeQ) : Backlog'[i + 1] = Backlog[i + 1]
    BY <1>2, <1>8, <2>1
  <2>3. ASSUME NEW i \in 2..Len(Backlog) PROVE Backlog'[i] = Backlog[i]
    <3>1. i - 1 \in 1..Len(writeQ) /\ (i - 1) + 1 = i
      BY <1>1, <1>8
    <3> QED
      BY <2>2, <3>1
  <2> QED
    BY <1>2, <1>7, <1>8, <2>1, <2>3
<1>13. Listed' /\ Stream!Transmit(n)
  BY <1>1, <1>2, <1>5, <1>6, <1>8, <1>9, <1>11, <1>12, StreamTransmit DEF Streaming
<1> QED
  BY <1>13 DEF Stream!Next

\* GetWriteBuff only moves the first chunk.
LEMMA GetStreams ==
  ASSUME Streaming, Streaming', GetWriteBuff
  PROVE  UNCHANGED wire /\ UNCHANGED Stream!vars
<1>1. poller = "getbuff" /\ UNCHANGED <<wire, fd, peer, pc, sent, off>>
  BY DEF GetWriteBuff, kernelVars
<1>2. \A v \in Writers : ~InHand(v) /\ ~InHand(v)'
  BY <1>1 DEF Streaming, Polled, InHand
<1>3. CASE UNCHANGED <<writeQ, writeBuff>>
  BY <1>1, <1>2, <1>3, BacklogStill, StreamStill DEF Streaming
<1>4. CASE Left(writeBuff) = 0 /\ writeQ # <<>> /\ writeBuff' = Head(writeQ) /\ writeQ' = Tail(writeQ)
  <2>1. ~InBuff
    BY <1>4 DEF InBuff
  <2>2. Backlog' = Backlog
    BY <1>2, <1>4, <2>1, BacklogPop DEF Streaming
  <2> QED
    BY <1>1, <2>2, StreamStill
<1> QED
  BY <1>3, <1>4 DEF GetWriteBuff

\* The other steps of the poller, of the program and of the peer move nothing,
\* and some of them end the connection.
LEMMA OthersStream ==
  ASSUME Streaming, Streaming',
         \/ WriteEvent \/ ModRead \/ SetIn \/ FlushFailed \/ ReadEOF
         \/ CloseByOther \/ PeerReads \/ PeerGone \/ UNCHANGED vars
  PROVE  UNCHANGED wire /\ (Stream!End \/ UNCHANGED Stream!vars)
<1>1. /\ UNCHANGED <<writeQ, writeBuff, pc, sent, off, wire>>
      /\ fd' \in {fd, "closed"} /\ peer' \in {peer, "gone"}
  <2>1. CASE WriteEvent
    BY <2>1 DEF WriteEvent, connVars, kernelVars
  <2>2. CASE ModRead
    BY <2>2 DEF ModRead, CloseConn
  <2>3. CASE SetIn
    BY <2>3 DEF SetIn, kernelVars
  <2>4. CASE FlushFailed \/ ReadEOF \/ CloseByOther
    BY <2>4 DEF FlushFailed, ReadEOF, CloseByOther, CloseConn
  <2>5. CASE PeerReads \/ PeerGone
    BY <2>5 DEF PeerReads, PeerGone, connVars
  <2>6. CASE UNCHANGED vars
    BY <2>6 DEF vars
  <2> QED
    BY <2>1, <2>2, <2>3, <2>4, <2>5, <2>6
<1>2. \A v \in Writers : InHand(v)' <=> InHand(v)
  BY <1>1 DEF InHand
<1>3. Backlog' = Backlog
  BY <1>1, <1>2, BacklogStill DEF Streaming
<1>4. (fd' = "open" /\ peer' = "up") => (fd = "open" /\ peer = "up")
  BY <1>1
<1> QED
  BY <1>1, <1>3, <1>4, StreamEnd

\* Every step is one of PacketStream, or none.
LEMMA StreamStep ==
  OnePoller /\ Streaming /\ Streaming' /\ Listed /\ [Next]_vars
    => Listed' /\ [Stream!Next]_(Stream!vars)
<1> SUFFICES ASSUME OnePoller, Streaming, Streaming', Listed, [Next]_vars
             PROVE  Listed' /\ [Stream!Next]_(Stream!vars)
  OBVIOUS
<1>1. UNCHANGED wire => Listed'
  BY DEF Listed, Ends
<1>2. ASSUME NEW w \in Writers, Send(w) PROVE Listed' /\ Stream!Next
  BY <1>1, <1>2, SendStreams DEF Send, kernelVars
<1>3. ASSUME NEW w \in Writers, WriteStep(w) PROVE Listed' /\ [Stream!Next]_(Stream!vars)
  BY <1>1, <1>3, SenderStill, PushStreams, WriteStreams, FailedStreams DEF WriteStep
<1>4. CASE PollerStep
  <2>1. Stream!End => Stream!Next
    BY DEF Stream!Next
  <2> QED
    BY <1>1, <1>4, <2>1, FlushStreams, GetStreams, OthersStream DEF PollerStep
<1>5. CASE CloseByOther \/ PeerReads \/ PeerGone \/ UNCHANGED vars
  <2>1. Stream!End => Stream!Next
    BY DEF Stream!Next
  <2> QED
    BY <1>1, <1>5, <2>1, OthersStream
<1> QED
  BY <1>2, <1>3, <1>4, <1>5 DEF Next

\* Nothing is waiting and nothing is delivered initially.
LEMMA StreamInit == Init => Listed /\ Stream!Init
<1> SUFFICES ASSUME Init PROVE Listed /\ Stream!Init
  OBVIOUS
<1> USE ConnWriteAssumption
<1>1. wire = <<>> /\ Len(wire) = 0 /\ fd = "open" /\ peer = "up"
  BY DEF Init
<1>2. Ends(0) = {}
  BY DEF Ends
<1>3. Cardinality(Ends(Len(wire))) = 0
  BY <1>1, <1>2, FS_EmptySet
<1>4. Listed
  BY <1>3 DEF Listed
<1>5. Finished = <<>>
  <2>1. Finished = [k \in 1..0 |-> wire[LastOf(k)]]
    BY <1>3 DEF Finished, LastOf
  <2> QED
    BY <2>1
<1>6. Backlog = <<>>
  <2>1. ~InBuff /\ writeQ = <<>>
    BY DEF Init, InBuff, Left
  <2>2. Sending = {}
    BY DEF Init, Sending, InHand
  <2> QED
    BY <2>1, <2>2 DEF Backlog
<1>7. PacketsOf(Backlog) = <<>> /\ PacketsOf(Finished) = <<>>
  BY <1>5, <1>6 DEF PacketsOf
<1> QED
  BY <1>1, <1>4, <1>6, <1>7 DEF Stream!Init

\* When every Send runs on the poller's goroutine, the write path implements
\* PacketStream: the packets leave in the order of the calls, each in one piece
\* and once, whatever partial writes, events and failures there are.
THEOREM StreamImplemented == OnePoller => (Spec => ImplementsStream)
<1> SUFFICES ASSUME OnePoller PROVE Spec => ImplementsStream
  OBVIOUS
<1>1. TypeInv /\ [Next]_vars => TypeInv'
  BY TypeStep
<1>2. TypeInv /\ TypeInv' /\ Polled /\ [Next]_vars => Polled'
  BY PolledStep
<1>3. Streaming /\ Streaming' /\ Listed /\ [Next]_vars => Listed' /\ [Stream!Next]_(Stream!vars)
  BY StreamStep
<1>4. TypeInv /\ Polled => Streaming
  BY BacklogLaid DEF Streaming
<1> QED
  BY <1>1, <1>2, <1>3, <1>4, TypeInit, PolledInit, StreamInit, PTL
     DEF Spec, ImplementsStream, Stream!Spec


-----------------------------------------------------------------------------
(* One goroutine that sends, and the poller: the field state and the       *)
(* interest of the poller change hands as the comment in Write says.       *)

\* Whoever is in Write has begun a packet.
Active == \A w \in Writers : pc[w] # "idle" => sent[w] > 0

\* While the sender is between its check of the state and the end of ModWrite,
\* the poller waits for readable events; then the poller has the turn.
Turns ==
  /\ \A w \in Writers :
       /\ pc[w] \in {"write", "setout"} => state # "EPollOUT" /\ poller = "wait" /\ interest # "out"
       /\ pc[w] \in {"pushrest", "modwrite"} => state = "EPollOUT" /\ poller = "wait" /\ interest # "out"
  /\ poller = "wait" /\ (\A w \in Writers : pc[w] \in {"idle", "check", "enqueue"})
       => interest = "none" \/ (state = "EPollOUT" <=> interest = "out")
  /\ poller \in {"getbuff", "flush", "modread"} => state = "EPollOUT" /\ interest # "in"
  /\ poller = "setin" => state = "EPollOUT" /\ interest # "out"
  /\ poller \in {"getbuff", "flush"} => room > 0 \/ fd = "closed" \/ peer = "gone"

InStep == Active /\ (OneSender => Turns)

\* Nobody is sending, and the connection is readable, initially.
LEMMA InStepInit == Init => InStep
BY ConnWriteAssumption DEF Init, InStep, Active, Turns

\* No other goroutine sends while one does, so the turns are kept.
LEMMA InStepStep == TypeInv /\ TypeInv' /\ InStep /\ [Next]_vars => InStep'
<1> SUFFICES ASSUME TypeInv, TypeInv', InStep, [Next]_vars PROVE InStep'
  OBVIOUS
<1> USE ConnWriteAssumption
<1>1. /\ pc \in [Writers -> {"idle", "check", "enqueue", "write", "setout", "pushrest", "modwrite"}]
      /\ sent \in [Writers -> 0..MaxSend] /\ sent' \in [Writers -> 0..MaxSend]
      /\ room \in 0..SockBuf /\ room' \in 0..SockBuf
  BY DEF TypeInv, TypeOK
<1>2. \A w \in Writers : sent[w] <= sent'[w]
  <2>1. ASSUME NEW w \in Writers, Send(w) PROVE sent' = [sent EXCEPT ![w] = @ + 1]
    BY <2>1 DEF Send
  <2>2. ASSUME NEW w \in Writers, WriteStep(w) PROVE sent' = sent
    BY <2>2 DEF WriteStep, CheckState, Enqueue, WriteSome, WriteAgain, WriteFailed, SetOut,
                PushRest, ModWrite
  <2>3. CASE PollerStep
    BY <1>1, <2>3 DEF PollerStep, WriteEvent, GetWriteBuff, ModRead, SetIn, Flush, FlushFailed, ReadEOF
  <2>4. CASE CloseByOther \/ PeerReads \/ PeerGone \/ UNCHANGED vars
    BY <1>1, <2>4 DEF CloseByOther, PeerReads, PeerGone, vars
  <2> QED
    BY <1>1, <2>1, <2>2, <2>3, <2>4 DEF Next
<1>3. OneSender' => OneSender
  <2> SUFFICES ASSUME OneSender', NEW v \in Writers, NEW w \in Writers, sent[v] > 0, sent[w] > 0
               PROVE  v = w
    BY DEF OneSender
  <2>1. sent'[v] > 0 /\ sent'[w] > 0
    BY <1>1, <1>2
  <2> QED
    BY <2>1 DEF OneSender
<1>4. Active'
  <2>1. ASSUME NEW w \in Writers, Send(w) PROVE Active'
    <3>1. pc' = [pc EXCEPT ![w] = "check"] /\ sent' = [sent EXCEPT ![w] = @ + 1]
      BY <2>1 DEF Send, Goto
    <3> QED
      BY <1>1, <3>1 DEF InStep, Active
  <2>2. ASSUME NEW w \in Writers, WriteStep(w) PROVE Active'
    <3>1. sent' = sent /\ pc[w] # "idle" /\ \E to : pc' = [pc EXCEPT ![w] = to]
      BY <2>2 DEF WriteStep, CheckState, Enqueue, WriteSome, WriteAgain, WriteFailed, SetOut,
                  PushRest, ModWrite, Goto
    <3> QED
      BY <1>1, <3>1 DEF InStep, Active
  <2>3. CASE PollerStep
    <3>1. UNCHANGED <<pc, sent>>
      BY <2>3 DEF PollerStep, WriteEvent, GetWriteBuff, ModRead, SetIn, Flush, FlushFailed, ReadEOF
    <3> QED
      BY <3>1 DEF InStep, Active
  <2>4. CASE CloseByOther \/ PeerReads \/ PeerGone \/ UNCHANGED vars
    <3>1. UNCHANGED <<pc, sent>>
      BY <2>4 DEF CloseByOther, PeerReads, PeerGone, vars
    <3> QED
      BY <3>1 DEF InStep, Active
  <2> QED
    BY <2>1, <2>2, <2>3, <2>4 DEF Next
<1> SUFFICES ASSUME OneSender' PROVE Turns'
  BY <1>4 DEF InStep
<1>5. OneSender /\ Turns
  BY <1>3 DEF InStep
<1>6. \A v, w \in Writers : pc[v] # "idle" /\ pc[w] # "idle" => v = w
  BY <1>5 DEF InStep, Active, OneSender
<1>7. \A v, w \in Writers : pc'[v] # "idle" /\ pc'[w] # "idle" => v = w
  BY <1>4 DEF Active, OneSender
<1>8. ASSUME NEW w \in Writers, Send(w) PROVE Turns'
  <2>1. /\ pc[w] = "idle" /\ pc' = [pc EXCEPT ![w] = "check"]
        /\ UNCHANGED <<state, interest, poller, room, fd, peer>>
    BY <1>8 DEF Send, Goto, connVars, kernelVars
  <2>2. \A v \in Writers : pc[v] = "idle"
    BY <1>1, <1>7, <2>1
  <2> QED
    BY <1>1, <1>5, <2>1, <2>2 DEF Turns
<1>9. ASSUME NEW w \in Writers, CheckState(w) \/ Enqueue(w) PROVE Turns'
  <2>1. /\ pc[w] \in {"check", "enqueue"} /\ \A v \in Writers : v # w => pc[v] = "idle"
        /\ \E to \in {"idle", "enqueue", "write"} :
             pc' = [pc EXCEPT ![w] = to] /\ (to = "write" => state # "EPollOUT")
        /\ UNCHANGED <<state, interest, poller, room, fd, peer>>
    BY <1>6, <1>9 DEF CheckState, Enqueue, Goto, connVars, kernelVars
  <2>2. \A v \in Writers : pc[v] \in {"idle", "check", "enqueue"}
    BY <2>1
  <2> QED
    BY <1>1, <1>5, <2>1, <2>2 DEF Turns, TypeInv, TypeOK
<1>10. ASSUME NEW w \in Writers, WriteSome(w) \/ WriteAgain(w) \/ WriteFailed(w) PROVE Turns'
  <2>1. /\ pc[w] = "write" /\ \A v \in Writers : v # w => pc[v] = "idle"
        /\ \E to \in {"idle", "setout"} : pc' = [pc EXCEPT ![w] = to]
        /\ UNCHANGED <<state, interest, poller, fd, peer>>
    BY <1>6, <1>10 DEF WriteSome, WriteAgain, WriteFailed, Goto, connVars, kernelVars
  <2> QED
    BY <1>1, <1>5, <2>1 DEF Turns
<1>11. ASSUME NEW w \in Writers, SetOut(w) \/ PushRest(w) \/ ModWrite(w) PROVE Turns'
  <2>1. /\ pc[w] \in {"setout", "pushrest", "modwrite"} /\ \A v \in Writers : v # w => pc[v] = "idle"
        /\ UNCHANGED <<poller, fd, peer, room>>
        /\ \/ pc' = [pc EXCEPT ![w] = "pushrest"] /\ state' = "EPollOUT" /\ UNCHANGED interest
           \/ /\ pc[w] = "pushrest" /\ pc' = [pc EXCEPT ![w] = "modwrite"]
              /\ UNCHANGED <<state, interest>>
           \/ /\ pc[w] = "modwrite" /\ pc' = [pc EXCEPT ![w] = "idle"] /\ UNCHANGED state
              /\ interest' \in {"none", "out"}
    BY <1>6, <1>11 DEF SetOut, PushRest, ModWrite, Goto, kernelVars
  <2> QED
    BY <1>1, <1>5, <2>1 DEF Turns
<1>12. CASE PollerStep
  <2>1. UNCHANGED pc /\ \A w \in Writers : poller # "wait" => pc[w] \in {"idle", "check", "enqueue"}
    <3>1. UNCHANGED pc
      BY <1>12 DEF PollerStep, WriteEvent, GetWriteBuff, ModRead, SetIn, Flush, FlushFailed, ReadEOF
    <3> QED
      BY <1>1, <1>5, <3>1 DEF Turns
  <2>2. CASE WriteEvent
    <3>1. /\ poller = "wait" /\ interest = "out" /\ poller' = "getbuff" /\ (room > 0 \/ peer = "gone")
          /\ UNCHANGED <<state, interest, room, fd, peer>>
      BY <2>2 DEF WriteEvent, PollerFree, connVars, kernelVars
    <3>2. \A w \in Writers : pc[w] \in {"idle", "check", "enqueue"}
      BY <1>1, <1>5, <3>1 DEF Turns
    <3> QED
      BY <1>1, <1>5, <2>1, <3>1, <3>2 DEF Turns
  <2>3. CASE GetWriteBuff
    <3>1. /\ poller = "getbuff" /\ poller' \in {"flush", "modread"}
          /\ UNCHANGED <<state, interest, room, fd, peer>>
      BY <2>3 DEF GetWriteBuff, kernelVars
    <3> QED
      BY <1>1, <1>5, <2>1, <3>1 DEF Turns
  <2>4. CASE ModRead
    <3>1. /\ poller = "modread" /\ UNCHANGED <<state, room, peer>>
          /\ \/ interest' = "in" /\ poller' = "setin"
             \/ interest' = "none" /\ poller' = "wait"
      BY <2>4 DEF ModRead, CloseConn
    <3> QED
      BY <1>1, <1>5, <2>1, <3>1 DEF Turns
  <2>5. CASE SetIn
    <3>1. /\ poller = "setin" /\ state' = "EPollIN" /\ poller' = "wait" /\ UNCHANGED interest
      BY <2>5 DEF SetIn
    <3> QED
      BY <1>1, <1>5, <2>1, <3>1 DEF Turns
  <2>6. CASE Flush
    <3>1. poller = "flush" /\ poller' = "wait" /\ UNCHANGED <<state, interest>>
      BY <2>6 DEF Flush
    <3> QED
      BY <1>1, <1>5, <2>1, <3>1 DEF Turns, TypeInv, TypeOK
  <2>7. CASE FlushFailed \/ ReadEOF
    <3>1. /\ poller \in {"flush", "wait"} /\ poller' = "wait" /\ interest' = "none" /\ UNCHANGED state
          /\ poller = "wait" => interest = "in"
      BY <2>7 DEF FlushFailed, ReadEOF, CloseConn, PollerFree
    <3> QED
      BY <1>1, <1>5, <2>1, <3>1 DEF Turns
  <2> QED
    BY <1>12, <2>2, <2>3, <2>4, <2>5, <2>6, <2>7 DEF PollerStep
<1>13. CASE CloseByOther \/ PeerReads \/ PeerGone \/ UNCHANGED vars
  <2>1. /\ UNCHANGED <<pc, state, poller>>
        /\ interest' \in {interest, "none"}
        /\ (room > 0 \/ fd = "closed" \/ peer = "gone") => (room' > 0 \/ fd' = "closed" \/ peer' = "gone")
    <3>1. CASE CloseByOther
      BY <3>1 DEF CloseByOther, CloseConn
    <3>2. CASE PeerReads
      BY <1>1, <3>2 DEF PeerReads, connVars
    <3>3. CASE PeerGone
      BY <3>3 DEF PeerGone, connVars
    <3>4. CASE UNCHANGED vars
      BY <3>4 DEF vars
    <3> QED
      BY <1>13, <3>1, <3>2, <3>3, <3>4
  <2> QED
    BY <1>5, <2>1 DEF Turns
<1> QED
  BY <1>8, <1>9, <1>10, <1>11, <1>12, <1>13 DEF Next, WriteStep

\* While one goroutine sends, only one of the two states holds at a time: at
\* rest the field state says EPollOUT exactly when the poller watches for
\* writability, and the poller never finds the buffer full and closes a
\* connection whose peer is up.
THEOREM OneSenderServed == Spec => OneSenderIsServed
<1>1. TypeInv /\ [Next]_vars => TypeInv'
  BY TypeStep
<1>2. TypeInv /\ TypeInv' /\ InStep /\ [Next]_vars => InStep'
  BY InStepStep
<1>3. TypeInv /\ InStep => (OneSender /\ Quiet /\ interest # "none" => (state = "EPollOUT" <=> interest = "out"))
  BY DEF InStep, Turns, Quiet
<1>4. TypeInv /\ InStep /\ [Next]_vars
        => [OneSender /\ poller = "flush" /\ poller' = "wait" /\ fd = "open" /\ peer = "up" => fd' = "open"]_vars
  <2> SUFFICES ASSUME TypeInv, InStep, [Next]_vars, OneSender,
                      poller = "flush", poller' = "wait", fd = "open", peer = "up"
               PROVE  fd' = "open"
    OBVIOUS
  <2>1. room > 0 /\ room \in Nat
    BY ConnWriteAssumption DEF InStep, Turns, TypeInv, TypeOK
  <2>2. CASE Flush
    BY <2>2 DEF Flush
  <2>3. ~FlushFailed
    BY <2>1 DEF FlushFailed
  <2>4. ASSUME NEW w \in Writers PROVE ~Send(w) /\ ~WriteStep(w)
    BY DEF Send, WriteStep, CheckState, Enqueue, WriteSome, WriteAgain, WriteFailed, SetOut,
           PushRest, ModWrite
  <2>5. /\ ~WriteEvent /\ ~GetWriteBuff /\ ~ModRead /\ ~SetIn /\ ~ReadEOF
        /\ ~CloseByOther /\ ~PeerReads /\ ~PeerGone /\ ~UNCHANGED vars
    BY DEF WriteEvent, PollerFree, GetWriteBuff, ModRead, SetIn, ReadEOF, CloseByOther, PeerReads,
           PeerGone, vars
  <2> QED
    BY <2>2, <2>3, <2>4, <2>5 DEF Next, PollerStep
<1> QED
  BY <1>1, <1>2, <1>3, <1>4, TypeInit, InStepInit, PTL DEF Spec, OneSenderIsServed
=============================================================================
