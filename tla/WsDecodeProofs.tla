--------------------------- MODULE WsDecodeProofs ---------------------------
(***************************************************************************)
(* Proofs about WsDecode, for any set of frames, any number of them, any   *)
(* lengths of payloads, of lengths and of masking keys, and any sizes of   *)
(* segments.                                                               *)
(*                                                                         *)
(* The inductive invariant has three layers: where the decoder is in the   *)
(* stream (Located, which holds of every peer); what it knows of the frame *)
(* it reads (Parsing, of a peer whose long headers are not cut); and what  *)
(* the frames it has read amount to (Gathering, of a peer that obeys the   *)
(* protocol).                                                              *)
(***************************************************************************)
EXTENDS WsDecode, SequenceTheorems, WellFoundedInduction, TLAPS

-----------------------------------------------------------------------------
(* The inductive invariant.                                                *)

\* Before the handshake nothing but the request is under way.
Unshaken ==
  /\ frames = <<>> /\ at = [frame |-> 0, byte |-> 0]
  /\ inbound + ahead = RequestLen
  /\ ~splits => inbound \in {0, RequestLen}
  /\ ~parseHeader /\ headerBytes = 0 /\ masks = 0 /\ parseHeaderStep = 0 /\ opcode = 0
  /\ rBuffer = <<>> /\ continueBuffer = <<>> /\ messageMode = 0
  /\ emitted = <<>> /\ pushed = <<>>
  /\ pc \in {"wait", "handshake"}

\* What has not been read of the stream is in the kernel or has not arrived:
\* there is a place where each frame begins.
Accounted ==
  \E begin \in [1..Len(frames) + 1 -> Nat] :
    /\ \A i \in 1..Len(frames) : begin[i + 1] = begin[i] + Size(frames[i])
    /\ \A i, j \in 1..Len(frames) + 1 : i <= j => begin[i] <= begin[j]
    /\ inbound + ahead + begin[at.frame] + at.byte = begin[Len(frames) + 1]

\* The decoder is inside of a frame that the peer has begun to send.
Inside ==
  /\ at.frame \in 1..Len(frames) + 1
  /\ headerBytes > 0 \/ masks > 0 \/ parseHeader \/ pc \in {"length", "masks", "frame"} =>
       at.frame <= Len(frames)
  /\ parseHeader \/ pc \in {"length", "masks"} => fragmentLength <= Len(frames[at.frame].data)
  /\ parseHeader => Len(rBuffer) <= fragmentLength
  /\ parseHeader => fragmentLength = 0 \/ Len(rBuffer) < fragmentLength
  /\ pc = "frame" => parseHeader
  /\ pc \in {"head", "length", "masks"} => ~parseHeader
  /\ pc = "length" => headerBytes = HeadLen
  /\ ~parseHeader => rBuffer = <<>>
  /\ pc # "handshake"

\* What holds of every stream, cut or not.
Located ==
  /\ packetBuffer = <<>>
  /\ opcode \in {TEXTMODE, BINMODE} => messageMode = opcode
  /\ conn = "closed" => pc = "wait"
  /\ conn = "open" /\ ~isHandleShake => Unshaken
  /\ conn = "open" /\ isHandleShake =>
       /\ Accounted /\ Inside
       /\ IF frames = <<>> THEN ahead = 0 ELSE ahead <= Size(frames[Len(frames)])

\* No segment ends inside of a header with an extended length.
Uncut ==
  frames # <<>> =>
    LET f == frames[Len(frames)] IN
    Len(f.data) > Short => Size(f) - ahead \notin HeadLen + 1..PayloadStart(f) - 1

\* Less than the two bytes of a header have been read.
InHead ==
  /\ masks = 0 /\ parseHeaderStep = 0 /\ opcode = 0
  /\ at.byte = headerBytes
  /\ pc \in {"wait", "head"}

\* They have been read, but not the whole header of f.
InHeader(f) ==
  /\ ~f.rsv /\ opcode = f.op /\ final = f.fin
  /\ masks < MaskLen /\ (masks > 0 => f.masked)
  /\ at.byte = IF parseHeaderStep = 1 THEN MaskStart(f) + masks ELSE HeadLen
  /\ parseHeaderStep \in {0, 1}
  /\ Len(f.data) <= Short => parseHeaderStep = 1 /\ fragmentLength = Len(f.data)
  /\ Len(f.data) > Short => masks = 0 /\ (parseHeaderStep = 0 \/ pc = "masks" \/ ~f.masked)
  /\ pc = "length" => Len(f.data) > Short /\ parseHeaderStep = 0
  /\ pc = "masks" => f.masked /\ parseHeaderStep = 1 /\ fragmentLength = Len(f.data)
  /\ pc \in {"wait", "head", "length", "masks"}

\* The header of f has been read, and the payload up to what rBuffer holds.
InPayload(f) ==
  /\ ~f.rsv /\ f.masked
  /\ opcode = f.op /\ final = f.fin /\ fragmentLength = Len(f.data)
  /\ headerBytes = 0
  /\ at.byte = PayloadStart(f) + Len(rBuffer)
  /\ rBuffer = SubSeq(f.data, 1, Len(rBuffer))
  /\ pc \in {"wait", "frame"}

\* Where the decoder is in the frame it reads.
Parsing ==
  ~splits /\ conn = "open" /\ isHandleShake =>
    /\ Uncut
    /\ ~parseHeader /\ headerBytes < HeadLen => InHead
    /\ ~parseHeader /\ headerBytes = HeadLen => InHeader(frames[at.frame])
    /\ parseHeader => InPayload(frames[at.frame])

\* All frames but the last one are good ones.
Civil ==
  \A k \in 1..Len(frames) - 1 : ~Broken(k) /\ ~NotUtf8(k) /\ frames[k].op # CLOSE

\* The payloads of some of the first frames, one after the other.
Payloads(K, n) == FlattenSeq([i \in 1..n |-> IF i \in K THEN frames[i].data ELSE <<>>])

\* What the data frames of the unfinished message amount to, and its mode.
Gathered(k) == Payloads(Open(k), k - 1)
ModeAt(k) == IF InMessage(k) THEN frames[Min(Open(k))].op ELSE 0

\* What the decoder has made of the frames it has read.
Gathering ==
  ~splits /\ Obeyed /\ conn = "open" =>
    /\ continueBuffer = Gathered(at.frame)
    /\ messageMode = IF opcode \in {TEXTMODE, BINMODE} THEN opcode ELSE ModeAt(at.frame)
    /\ InMessage(at.frame) => ModeAt(at.frame) # 0
    /\ emitted = Messages(at.frame - 1)
    /\ pushed = Answers(at.frame - 1)

Told == ~splits /\ Obeyed /\ conn = "closed" => IsPrefix(emitted, Messages(at.frame - 1))

-----------------------------------------------------------------------------
(* The numbers, and the parts of a frame.                                  *)

\* What the proofs use of the assumption.
LEMMA Numbers ==
  /\ Short \in Nat /\ Short >= 2
  /\ LengthLen \in Nat \ {0} /\ MaskLen \in Nat \ {0}
  /\ HeadLen = 2 /\ RequestLen = 2 /\ MaxFrame \in Nat \ {0}
  BY WsDecodeAssumption DEF WsDecodeAssumption, HeadLen, RequestLen

\* The parts of a frame follow each other.
LEMMA FrameIs ==
  ASSUME NEW f \in Frames
  PROVE  /\ f.op \in 0..15 /\ f.fin \in BOOLEAN /\ f.rsv \in BOOLEAN /\ f.masked \in BOOLEAN
         /\ f.data \in Seq(Nat) /\ Len(f.data) \in Nat
         /\ MaskStart(f) \in Nat /\ PayloadStart(f) \in Nat /\ Size(f) \in Nat
         /\ MaskStart(f) = IF Len(f.data) > Short THEN HeadLen + LengthLen ELSE HeadLen
         /\ PayloadStart(f) = IF f.masked THEN MaskStart(f) + MaskLen ELSE MaskStart(f)
         /\ Size(f) = PayloadStart(f) + Len(f.data)
<1>1. f \in [op : 0..15, fin : BOOLEAN, rsv : BOOLEAN, masked : BOOLEAN, data : Seq(Nat)]
  BY WsDecodeAssumption DEF WsDecodeAssumption
<1>2. f.data \in Seq(Nat) /\ Len(f.data) \in Nat BY <1>1
<1>3. /\ MaskStart(f) \in Nat
      /\ MaskStart(f) = IF Len(f.data) > Short THEN HeadLen + LengthLen ELSE HeadLen
  BY <1>2, Numbers DEF MaskStart
<1>4. /\ PayloadStart(f) \in Nat
      /\ PayloadStart(f) = IF f.masked THEN MaskStart(f) + MaskLen ELSE MaskStart(f)
  BY <1>3, Numbers DEF PayloadStart
<1>5. Size(f) \in Nat /\ Size(f) = PayloadStart(f) + Len(f.data) BY <1>2, <1>4 DEF Size
<1> QED BY <1>1, <1>2, <1>3, <1>4, <1>5

\* Where the decoder is.
LEMMA Places ==
  ASSUME TypeOK
  PROVE  /\ frames \in Seq(Frames) /\ Len(frames) \in 0..MaxFrame
         /\ \A k \in 1..Len(frames) : frames[k] \in Frames
         /\ at.frame \in 0..MaxFrame + 1 /\ at.byte \in Nat
         /\ at = [frame |-> at.frame, byte |-> at.byte]
         /\ inbound \in Nat /\ ahead \in Nat
<1>1. frames \in Seq(Frames) /\ Len(frames) <= MaxFrame /\ inbound \in Nat /\ ahead \in Nat
      /\ at \in [frame : 0..MaxFrame + 1, byte : Nat]
  BY DEF TypeOK
<1>2. Len(frames) \in Nat /\ \A k \in 1..Len(frames) : frames[k] \in Frames BY <1>1
<1>3. at.frame \in 0..MaxFrame + 1 /\ at.byte \in Nat /\ at = [frame |-> at.frame, byte |-> at.byte]
  BY <1>1
<1> QED BY <1>1, <1>2, <1>3, Numbers

\* While something can be read the decoder is not behind the last frame.
LEMMA HasFrame ==
  ASSUME TypeOK, Accounted, at.frame \in 1..Len(frames) + 1, inbound > 0
  PROVE  at.frame \in 1..Len(frames)
<1>1. PICK n \in Nat : n = Len(frames) BY Places
<1>2. PICK begin \in [1..n + 1 -> Nat] :
        inbound + ahead + begin[at.frame] + at.byte = begin[n + 1]
  BY <1>1 DEF Accounted
<1>3. begin[n + 1] \in Nat BY <1>1, <1>2
<1>4. at.frame # n + 1 BY <1>2, <1>3, Places
<1> QED BY <1>1, <1>4, Places

\* Reading m bytes of a frame, perhaps its last ones.
LEMMA Moves ==
  ASSUME TypeOK, Accounted, at.frame \in 1..Len(frames),
         UNCHANGED <<frames, ahead>>,
         NEW m \in Nat, m <= inbound, inbound' = inbound - m,
         \/ at' = [at EXCEPT !.byte = @ + m]
         \/ /\ at.byte + m = Size(frames[at.frame])
            /\ at' = [frame |-> at.frame + 1, byte |-> 0]
  PROVE  /\ Accounted' /\ inbound' \in Nat
         /\ at' \in [frame : 0..MaxFrame + 1, byte : Nat]
         /\ at'.frame \in at.frame..Len(frames) + 1
<1>1. PICK n \in Nat : n = Len(frames) /\ n <= MaxFrame BY Places
<1>2. PICK begin \in [1..n + 1 -> Nat] :
        /\ \A i \in 1..n : begin[i + 1] = begin[i] + Size(frames[i])
        /\ \A i, j \in 1..n + 1 : i <= j => begin[i] <= begin[j]
        /\ inbound + ahead + begin[at.frame] + at.byte = begin[n + 1]
  BY <1>1 DEF Accounted
<1>3. PICK k \in 1..n : k = at.frame BY <1>1
<1>4. PICK b \in Nat : b = at.byte BY Places
<1>5. PICK x \in Nat, y \in Nat, z \in Nat : x = begin[k] /\ y = begin[k + 1] /\ z = begin[n + 1]
  <2>1. k \in 1..n + 1 /\ k + 1 \in 1..n + 1 /\ n + 1 \in 1..n + 1 BY <1>3
  <2> QED BY <1>2, <2>1, SMTT(60)
<1>6. inbound' \in Nat /\ inbound \in Nat /\ ahead \in Nat BY Places
<1>10. inbound + ahead + x + b = z BY <1>2, <1>3, <1>4, <1>5
<1>11. inbound' = inbound - m /\ ahead' = ahead OBVIOUS
<1>7. inbound' + ahead' + begin[at'.frame] + at'.byte = begin[n + 1]
  <2>1. CASE at' = [at EXCEPT !.byte = @ + m]
    <3>1. at'.frame = k /\ at'.byte = b + m BY <2>1, <1>3, <1>4, Places
    <3>2. (inbound - m) + ahead + x + (b + m) = z BY <1>6, <1>10
    <3> QED BY <3>1, <3>2, <1>5, <1>11
  <2>2. CASE b + m = Size(frames[k]) /\ at' = [frame |-> k + 1, byte |-> 0]
    <3>1. at'.frame = k + 1 /\ at'.byte = 0 BY <2>2
    <3>2. y = x + (b + m)
      <4>1. begin[k + 1] = begin[k] + Size(frames[k]) BY <1>2
      <4> QED BY <1>5, <2>2, <4>1
    <3>3. (inbound - m) + ahead + y + 0 = z BY <3>2, <1>6, <1>10
    <3> QED BY <3>1, <3>3, <1>5, <1>11
  <2> QED BY <1>3, <1>4, <2>1, <2>2
<1>8. Accounted' BY <1>1, <1>2, <1>7 DEF Accounted
<1>9. at' \in [frame : 0..MaxFrame + 1, byte : Nat] /\ at'.frame \in k..n + 1
  <2>1. CASE at' = [at EXCEPT !.byte = @ + m]
    <3>1. at' = [frame |-> k, byte |-> b + m] BY <2>1, <1>3, <1>4, Places
    <3>2. k \in 0..MaxFrame + 1 BY <1>1, <1>3, Numbers, SMTT(60)
    <3> QED BY <3>1, <3>2
  <2>2. CASE at' = [frame |-> k + 1, byte |-> 0]
    <3>1. k + 1 \in 0..MaxFrame + 1 /\ k + 1 \in k..n + 1
      BY <1>1, <1>3, Numbers, SMTT(60)
    <3> QED BY <2>2, <3>1
  <2> QED BY <1>3, <2>1, <2>2
<1> QED BY <1>1, <1>3, <1>6, <1>8, <1>9

-----------------------------------------------------------------------------
(* The types, and the place in the stream.                                 *)

\* A poller that is in the middle of a DecodePacket after the handshake.
LEMMA Running ==
  ASSUME Located, pc \notin {"wait", "handshake"}, TypeOK
  PROVE  /\ conn = "open" /\ isHandleShake /\ Accounted /\ Inside
         /\ IF frames = <<>> THEN ahead = 0 ELSE ahead <= Size(frames[Len(frames)])
<1>1. conn = "open" BY DEF Located, TypeOK
<1>2. isHandleShake BY <1>1 DEF Located, Unshaken
<1> QED BY <1>1, <1>2 DEF Located

\* What a step of the poller leaves as it is, and what it does to the rest, make
\* up the types.
LEMMA TypesFollow ==
  ASSUME TypeOK, UNCHANGED peerVars,
         inbound' \in Nat, at' \in [frame : 0..MaxFrame + 1, byte : Nat],
         isHandleShake' \in BOOLEAN,
         headerBytes' \in 0..HeadLen, parseHeader' \in BOOLEAN, parseHeaderStep' \in 0..2,
         opcode' \in 0..15, final' \in BOOLEAN, fragmentLength' \in Nat, masks' \in 0..MaskLen,
         rBuffer' \in Seq(Nat), packetBuffer' \in Seq(Nat), continueBuffer' \in Seq(Nat),
         messageMode' \in {0, TEXTMODE, BINMODE},
         pc' \in {"wait", "handshake", "head", "length", "masks", "frame", "lost"},
         emitted' \in Seq([opcode : {TEXTMODE, BINMODE}, data : Seq(Nat)]),
         pushed' \in Seq([opcode : {CLOSE, PONG}, data : Seq(Nat)]),
         conn' \in {"open", "closed"}
  PROVE  TypeOK'
<1>1. splits' = splits /\ frames' = frames /\ ahead' = ahead /\ ended' = ended BY DEF peerVars
<1> QED BY <1>1 DEF TypeOK

\* The step that closes the connection.
LEMMA Closes ==
  ASSUME TypeOK, NEW code \in Nat, CloseCode(code), UNCHANGED peerVars,
         UNCHANGED isHandleShake, inbound' \in Nat,
         at' \in [frame : 0..MaxFrame + 1, byte : Nat]
  PROVE  TypeOK' /\ Located'
<1>1. /\ pushed' = Append(pushed, [opcode |-> CLOSE, data |-> <<code>>])
      /\ conn' = "closed" /\ pc' = "wait"
      /\ parseHeader' = FALSE /\ parseHeaderStep' = 0 /\ headerBytes' = 0
      /\ opcode' = 0 /\ fragmentLength' = 0 /\ masks' = 0
      /\ rBuffer' = <<>> /\ packetBuffer' = <<>> /\ continueBuffer' = <<>> /\ messageMode' = 0
      /\ final' = final /\ emitted' = emitted
  BY DEF CloseCode, Reset
<1>2. pushed' \in Seq([opcode : {CLOSE, PONG}, data : Seq(Nat)])
  <2>1. pushed \in Seq([opcode : {CLOSE, PONG}, data : Seq(Nat)]) BY DEF TypeOK
  <2>2. [opcode |-> CLOSE, data |-> <<code>>] \in [opcode : {CLOSE, PONG}, data : Seq(Nat)]
    OBVIOUS
  <2> QED BY <1>1, <2>1, <2>2
<1>3. /\ isHandleShake' \in BOOLEAN /\ final' \in BOOLEAN
      /\ emitted' \in Seq([opcode : {TEXTMODE, BINMODE}, data : Seq(Nat)])
  BY <1>1 DEF TypeOK
<1>4. 0 \in 0..HeadLen /\ 0 \in 0..2 /\ 0 \in 0..15 /\ 0 \in 0..MaskLen /\ 0 \in Nat BY Numbers
<1>7. /\ headerBytes' \in 0..HeadLen /\ parseHeader' \in BOOLEAN /\ parseHeaderStep' \in 0..2
      /\ opcode' \in 0..15 /\ fragmentLength' \in Nat /\ masks' \in 0..MaskLen
  BY <1>1, <1>4
<1>8. /\ rBuffer' \in Seq(Nat) /\ packetBuffer' \in Seq(Nat) /\ continueBuffer' \in Seq(Nat)
      /\ messageMode' \in {0, TEXTMODE, BINMODE}
      /\ pc' \in {"wait", "handshake", "head", "length", "masks", "frame", "lost"}
      /\ conn' \in {"open", "closed"}
  BY <1>1
<1>5. TypeOK' BY <1>2, <1>3, <1>7, <1>8, TypesFollow, Zenon
<1>6. Located' BY <1>1 DEF Located, TEXTMODE, BINMODE
<1> QED BY <1>5, <1>6

\* Nothing but the place in DecodePacket changes.
LEMMA PlaceOnly ==
  ASSUME TypeOK, Located, Event \/ Again \/ Derail
  PROVE  TypeOK' /\ Located'
<1>1. UNCHANGED <<peerVars, inbound, at, isHandleShake, header, buffers, out>>
  BY DEF Event, Again, Derail
<1>2. pc' \in {"wait", "handshake", "head", "frame", "lost"} BY DEF Event, Again, Derail
<1>3. TypeOK'
  BY <1>1, <1>2 DEF TypeOK, peerVars, header, buffers, out
<1>4. /\ packetBuffer' = <<>>
      /\ opcode' \in {TEXTMODE, BINMODE} => messageMode' = opcode'
      /\ conn' = "closed" => pc' = "wait"
  <2>1. /\ conn' = conn /\ opcode' = opcode /\ messageMode' = messageMode
        /\ packetBuffer' = packetBuffer
    BY <1>1 DEF header, buffers, out
  <2>2. pc' # "wait" => conn = "open"
    BY DEF Event, Again, Derail, Reading, Located, TypeOK
  <2> QED BY <2>1, <2>2 DEF Located, TypeOK
<1>5. ASSUME conn' = "open", ~isHandleShake' PROVE Unshaken'
  <2>1. conn = "open" /\ ~isHandleShake /\ Unshaken BY <1>1, <1>5 DEF out, Located
  <2>2. ~Derail BY <2>1 DEF Derail, Reading, Due, Unshaken
  <2>3. pc' \in {"wait", "handshake"} BY <2>1, <2>2 DEF Event, Again
  <2> QED BY <1>1, <2>1, <2>3 DEF Unshaken, peerVars, header, buffers, out
<1>6. ASSUME conn' = "open", isHandleShake' = TRUE
      PROVE  /\ Accounted' /\ Inside'
             /\ IF frames' = <<>> THEN ahead' = 0 ELSE ahead' <= Size(frames'[Len(frames')])
  <2>1. conn = "open" /\ isHandleShake /\ frames' = frames /\ ahead' = ahead
        /\ inbound' = inbound /\ at' = at
    BY <1>1, <1>6 DEF out, peerVars
  <2>2. /\ Accounted /\ Inside
        /\ IF frames = <<>> THEN ahead = 0 ELSE ahead <= Size(frames[Len(frames)])
    BY <2>1 DEF Located
  <2>3. Accounted' BY <2>1, <2>2 DEF Accounted
  <2>4. Inside'
    <3>1. pc' \notin {"length", "masks", "handshake"}
          /\ (pc' = "frame" => parseHeader) /\ (pc' = "head" => ~parseHeader)
      BY <2>1 DEF Event, Again, Derail
    <3> QED BY <1>1, <2>1, <2>2, <3>1 DEF Inside, header, buffers
  <2> QED BY <2>1, <2>2, <2>3, <2>4
<1> QED BY <1>3, <1>4, <1>5, <1>6 DEF Located, TypeOK

\* The types of the variables of the decoder.
LEMMA Header ==
  ASSUME TypeOK
  PROVE  /\ headerBytes \in 0..HeadLen /\ parseHeader \in BOOLEAN /\ parseHeaderStep \in 0..2
         /\ opcode \in 0..15 /\ final \in BOOLEAN /\ fragmentLength \in Nat /\ masks \in 0..MaskLen
         /\ rBuffer \in Seq(Nat) /\ packetBuffer \in Seq(Nat) /\ continueBuffer \in Seq(Nat)
         /\ messageMode \in {0, TEXTMODE, BINMODE}
         /\ pc \in {"wait", "handshake", "head", "length", "masks", "frame", "lost"}
         /\ emitted \in Seq([opcode : {TEXTMODE, BINMODE}, data : Seq(Nat)])
         /\ pushed \in Seq([opcode : {CLOSE, PONG}, data : Seq(Nat)])
         /\ conn \in {"open", "closed"} /\ isHandleShake \in BOOLEAN
  BY DEF TypeOK

\* What a read gets is not more than what it asks for, or than there is.
LEMMA GotIs ==
  ASSUME TypeOK, NEW n \in Nat
  PROVE  /\ Got(n) \in Nat /\ Got(n) <= n /\ Got(n) <= inbound
         /\ inbound > 0 /\ n > 0 => Got(n) > 0
         /\ n <= inbound => Got(n) = n
         /\ inbound < n => Got(n) = inbound
  BY Places DEF Got, Lesser

\* After a step of the decoder in an open connection.
LEMMA StaysOpen ==
  ASSUME Located, conn = "open", isHandleShake' = TRUE, UNCHANGED <<peerVars, conn>>,
         isHandleShake = TRUE, packetBuffer' = <<>>, Accounted', Inside',
         opcode' \in {TEXTMODE, BINMODE} => messageMode' = opcode'
  PROVE  Located'
  BY DEF Located, peerVars

\* The request: the first frame is read next.
LEMMA HandShakeTyped ==
  ASSUME TypeOK, Located, HandShake
  PROVE  TypeOK' /\ Located'
<1>1. pc = "handshake" /\ inbound' = 0 /\ UNCHANGED peerVars BY DEF HandShake, Reads
<1>2. conn = "open" /\ ~isHandleShake /\ Unshaken
  BY <1>1, Header DEF Located, Inside
<1>3. CASE inbound = RequestLen /\ at' = [frame |-> 1, byte |-> 0] /\ isHandleShake' = TRUE
           /\ pc' = "wait" /\ UNCHANGED <<header, buffers, out>>
  <2>1. ahead = 0 /\ frames = <<>> BY <1>2, <1>3, Places, Numbers DEF Unshaken
  <2>2. 1 \in 0..MaxFrame + 1 BY Numbers
  <2>3. at' \in [frame : 0..MaxFrame + 1, byte : Nat] BY <1>3, <2>2
  <2>4. TypeOK' BY <1>1, <1>3, <2>3, Header, TypesFollow DEF header, buffers, out
  <2>5. Accounted'
    <3>1. frames' = <<>> /\ ahead' = 0 /\ inbound' = 0 /\ at'.frame = 1 /\ at'.byte = 0
      BY <1>1, <1>3, <2>1 DEF peerVars
    <3>2. PICK begin : begin = [i \in 1..1 |-> 0] OBVIOUS
    <3>3. begin \in [1..0 + 1 -> Nat] /\ begin[1] = 0 BY <3>2
    <3>4. \A i, j \in 1..0 + 1 : i <= j => begin[i] <= begin[j] BY <3>2
    <3>5. Len(frames') = 0 BY <3>1
    <3> QED BY <3>1, <3>3, <3>4, <3>5 DEF Accounted
  <2>6. Inside'
    <3>1. UNCHANGED <<headerBytes, masks, parseHeader, rBuffer>> BY <1>3 DEF header, buffers
    <3>2. Len(frames') = 0 BY <1>1, <2>1 DEF peerVars
    <3> QED BY <1>2, <1>3, <3>1, <3>2 DEF Inside, Unshaken
  <2>7. Located'
    <3>1. conn' = "open" /\ packetBuffer' = packetBuffer /\ opcode' = opcode
      BY <1>2, <1>3 DEF out, header, buffers
    <3>2. frames' = <<>> /\ ahead' = 0 BY <1>1, <2>1 DEF peerVars
    <3> QED BY <1>2, <1>3, <2>5, <2>6, <3>1, <3>2 DEF Located, Unshaken, TEXTMODE, BINMODE
  <2> QED BY <2>4, <2>7
<1>4. CASE CloseCode(1000) /\ UNCHANGED <<at, isHandleShake>>
  <2>1. at' \in [frame : 0..MaxFrame + 1, byte : Nat] BY <1>4 DEF TypeOK
  <2> QED BY <1>1, <1>4, <2>1, Closes
<1> QED BY <1>3, <1>4 DEF HandShake

\* A part of the first two bytes.
LEMMA HeadPartTyped ==
  ASSUME TypeOK, Located, HeadPart
  PROVE  TypeOK' /\ Located'
<1>1. /\ pc = "head" /\ inbound > 0 /\ pc' = "wait" /\ UNCHANGED peerVars
      /\ UNCHANGED <<isHandleShake, parseHeader, parseHeaderStep, opcode, final, fragmentLength,
                     masks, buffers, out>>
  BY DEF HeadPart, Reads
<1>2. /\ conn = "open" /\ isHandleShake /\ Accounted /\ Inside BY <1>1, Running
<1>3. PICK n \in Nat : /\ n = Got(HeadLen - headerBytes) /\ n <= inbound
                       /\ headerBytes + n < HeadLen /\ Skip(n) /\ headerBytes' = headerBytes + n
  <2>1. HeadLen - headerBytes \in Nat BY Header, Numbers
  <2> QED BY <2>1, GotIs DEF HeadPart
<1>4. at.frame \in 1..Len(frames) BY <1>1, <1>2, HasFrame DEF Inside
<1>5. frames' = frames /\ ahead' = ahead BY <1>1 DEF peerVars
<1>6. /\ Accounted' /\ inbound' \in Nat /\ at' \in [frame : 0..MaxFrame + 1, byte : Nat]
  BY <1>2, <1>3, <1>4, <1>5, Moves DEF Skip
<1>7. at'.frame = at.frame BY <1>3, Places DEF Skip
<1>8. headerBytes' \in 0..HeadLen BY <1>3, Header, Numbers
<1>9. TypeOK' BY <1>1, <1>6, <1>8, Header, TypesFollow DEF buffers, out
<1>10. Inside'
  BY <1>1, <1>2, <1>4, <1>5, <1>7 DEF Inside, buffers
<1>11. packetBuffer' = <<>> /\ (opcode' \in {TEXTMODE, BINMODE} => messageMode' = opcode')
  BY <1>1 DEF Located, buffers
<1>12. conn' = conn /\ isHandleShake = TRUE /\ isHandleShake' = TRUE BY <1>1, <1>2, Header DEF out
<1> QED BY <1>1, <1>2, <1>6, <1>9, <1>10, <1>11, <1>12, StaysOpen

\* The first two bytes, read now or before.
LEMMA HeadParseTyped ==
  ASSUME TypeOK, Located, HeadParse
  PROVE  TypeOK' /\ Located'
<1>1. PICK f, n : f = frames[at.frame] /\ n = HeadLen - headerBytes OBVIOUS
<1>2. /\ pc = "head" /\ UNCHANGED <<peerVars, isHandleShake>> /\ Skip(n)
      /\ n = 0 \/ (inbound > 0 /\ n <= inbound)
  BY <1>1 DEF HeadParse, Reads
<1>3. /\ conn = "open" /\ isHandleShake /\ Accounted /\ Inside BY <1>2, Running
<1>4. n \in Nat /\ n <= inbound BY <1>1, <1>2, Header, Numbers, Places, SMTT(60)
<1>5. at.frame \in 1..Len(frames)
  <2>1. CASE n = 0
    <3>1. headerBytes > 0 BY <1>1, <2>1, Header, Numbers
    <3> QED BY <1>3, <3>1, Places DEF Inside
  <2>2. CASE n # 0 BY <1>2, <1>3, <2>2, HasFrame DEF Inside
  <2> QED BY <2>1, <2>2
<1>6. f \in Frames BY <1>1, <1>5, Places
<1>7. frames' = frames /\ ahead' = ahead BY <1>2 DEF peerVars
<1>8. /\ Accounted' /\ inbound' \in Nat /\ at' \in [frame : 0..MaxFrame + 1, byte : Nat]
  BY <1>2, <1>3, <1>4, <1>5, <1>7, Moves DEF Skip
<1>9. at'.frame = at.frame BY <1>2, Places DEF Skip
<1>10. CASE f.rsv /\ CloseCode(1002)
  BY <1>2, <1>8, <1>10, Closes
<1>11. CASE /\ headerBytes' = HeadLen
            /\ opcode' = f.op /\ final' = f.fin
            /\ fragmentLength' = Lesser(Len(f.data), Short + 1)
            /\ messageMode' = IF f.op \in {TEXTMODE, BINMODE} THEN f.op ELSE messageMode
            /\ parseHeaderStep' = IF Len(f.data) > Short THEN parseHeaderStep ELSE 1
            /\ pc' = AfterHead(f)
            /\ UNCHANGED <<parseHeader, masks, rBuffer, packetBuffer, continueBuffer, out>>
  <2>1. f.op \in 0..15 /\ f.fin \in BOOLEAN /\ Len(f.data) \in Nat BY <1>6, FrameIs
  <2>2. fragmentLength' \in Nat /\ fragmentLength' <= Len(f.data)
    BY <1>11, <2>1, Numbers DEF Lesser
  <2>3. pc' \in {"wait", "length", "masks"} BY <1>11 DEF AfterHead, AfterLength
  <2>4. /\ headerBytes' \in 0..HeadLen /\ parseHeaderStep' \in 0..2
        /\ messageMode' \in {0, TEXTMODE, BINMODE}
    BY <1>11, <2>1, Header, Numbers
  <2>5. TypeOK' BY <1>2, <1>8, <1>11, <2>1, <2>2, <2>3, <2>4, Header, TypesFollow DEF out
  <2>6. ~parseHeader BY <1>2, <1>3 DEF Inside
  <2>7. Inside'
    BY <1>1, <1>3, <1>5, <1>7, <1>9, <1>11, <2>2, <2>3, <2>6 DEF Inside
  <2>8. packetBuffer' = <<>> /\ (opcode' \in {TEXTMODE, BINMODE} => messageMode' = opcode')
    BY <1>11 DEF Located
  <2>9. conn' = conn /\ isHandleShake = TRUE /\ isHandleShake' = TRUE
    BY <1>2, <1>3, <1>11, Header DEF out
  <2> QED BY <1>2, <1>3, <1>8, <2>5, <2>7, <2>8, <2>9, StaysOpen
<1> QED BY <1>1, <1>10, <1>11 DEF HeadParse

\* The length, or a part of it.
LEMMA LengthReadTyped ==
  ASSUME TypeOK, Located, LengthRead
  PROVE  TypeOK' /\ Located'
<1>1. PICK f, n : f = frames[at.frame] /\ n = Got(LengthLen) OBVIOUS
<1>2. /\ pc = "length" /\ inbound > 0 /\ pc' = AfterLength(f) /\ Skip(n)
      /\ UNCHANGED <<peerVars, isHandleShake, headerBytes, parseHeader, opcode, final, masks,
                     buffers, out>>
      /\ \/ fragmentLength' = Len(f.data) /\ parseHeaderStep' = 1
         \/ UNCHANGED <<fragmentLength, parseHeaderStep>>
  BY <1>1 DEF LengthRead, Reads
<1>3. /\ conn = "open" /\ isHandleShake /\ Accounted /\ Inside BY <1>2, Running
<1>4. n \in Nat /\ n <= inbound BY <1>1, GotIs, Numbers
<1>5. at.frame \in 1..Len(frames) BY <1>2, <1>3, HasFrame DEF Inside
<1>6. f \in Frames /\ Len(f.data) \in Nat BY <1>1, <1>5, Places, FrameIs
<1>7. frames' = frames /\ ahead' = ahead BY <1>2 DEF peerVars
<1>8. /\ Accounted' /\ inbound' \in Nat /\ at' \in [frame : 0..MaxFrame + 1, byte : Nat]
  BY <1>2, <1>3, <1>4, <1>5, <1>7, Moves DEF Skip
<1>9. at'.frame = at.frame BY <1>2, Places DEF Skip
<1>10. pc' \in {"wait", "masks"} BY <1>2 DEF AfterLength
<1>11. fragmentLength' \in Nat /\ parseHeaderStep' \in 0..2 BY <1>2, <1>6, Header
<1>12. TypeOK' BY <1>2, <1>8, <1>10, <1>11, Header, TypesFollow DEF buffers, out
<1>13. fragmentLength' <= Len(f.data) BY <1>1, <1>2, <1>3, <1>6, Header DEF Inside
<1>14. ~parseHeader BY <1>2, <1>3 DEF Inside
<1>15. Inside'
  BY <1>1, <1>2, <1>3, <1>5, <1>7, <1>9, <1>10, <1>13, <1>14 DEF Inside, buffers
<1>16. packetBuffer' = <<>> /\ (opcode' \in {TEXTMODE, BINMODE} => messageMode' = opcode')
  BY <1>2 DEF Located, buffers
<1>17. conn' = conn /\ isHandleShake = TRUE /\ isHandleShake' = TRUE BY <1>2, <1>3, Header DEF out
<1> QED BY <1>2, <1>3, <1>8, <1>12, <1>15, <1>16, <1>17, StaysOpen

\* The masking key, or a part of it.
LEMMA MasksReadTyped ==
  ASSUME TypeOK, Located, MasksRead
  PROVE  TypeOK' /\ Located'
<1>1. PICK n, whole : n = Got(MasksMissing) /\ whole = (masks + n = MaskLen) OBVIOUS
<1>2. /\ pc = "masks" /\ inbound > 0 /\ Skip(n) /\ masks' = masks + n
      /\ parseHeaderStep' = IF whole THEN 2 ELSE parseHeaderStep
      /\ parseHeader' = whole
      /\ headerBytes' = IF whole THEN 0 ELSE headerBytes
      /\ pc' = IF whole THEN "frame" ELSE "wait"
      /\ UNCHANGED <<peerVars, isHandleShake, opcode, final, fragmentLength, buffers, out>>
  BY <1>1, Zenon DEF MasksRead, Reads
<1>3. /\ conn = "open" /\ isHandleShake /\ Accounted /\ Inside BY <1>2, Running
<1>4. MasksMissing \in Nat /\ MasksMissing = MaskLen - masks BY Header, Numbers DEF MasksMissing
<1>5. n \in Nat /\ n <= inbound /\ masks + n \in 0..MaskLen
  <2>1. n \in Nat /\ n <= inbound /\ n <= MasksMissing BY <1>1, <1>4, GotIs
  <2> QED BY <1>4, <2>1, Header, Numbers
<1>6. at.frame \in 1..Len(frames) BY <1>2, <1>3, HasFrame DEF Inside
<1>7. frames' = frames /\ ahead' = ahead BY <1>2 DEF peerVars
<1>8. /\ Accounted' /\ inbound' \in Nat /\ at' \in [frame : 0..MaxFrame + 1, byte : Nat]
  BY <1>2, <1>3, <1>5, <1>6, <1>7, Moves DEF Skip
<1>9. at'.frame = at.frame BY <1>2, Places DEF Skip
<1>10. whole \in BOOLEAN BY <1>1
<1>11. headerBytes' \in 0..HeadLen /\ parseHeaderStep' \in 0..2 BY <1>2, Header, Numbers
<1>12. TypeOK' BY <1>2, <1>5, <1>8, <1>10, <1>11, Header, TypesFollow DEF buffers, out
<1>13. rBuffer = <<>> /\ fragmentLength <= Len(frames[at.frame].data)
  BY <1>2, <1>3 DEF Inside
<1>14. Len(rBuffer) = 0 BY <1>13
<1>15. rBuffer' = rBuffer /\ fragmentLength' = fragmentLength BY <1>2 DEF buffers
<1>16. Inside'
  <2>1. fragmentLength' \in Nat /\ Len(rBuffer') = 0 BY <1>14, <1>15, Header
  <2>2. CASE whole BY <1>2, <1>6, <1>7, <1>9, <1>13, <1>15, <2>1, <2>2 DEF Inside
  <2>3. CASE ~whole BY <1>2, <1>6, <1>7, <1>9, <1>13, <1>15, <2>1, <2>3, <1>10 DEF Inside
  <2> QED BY <2>2, <2>3
<1>17. packetBuffer' = <<>> /\ (opcode' \in {TEXTMODE, BINMODE} => messageMode' = opcode')
  BY <1>2 DEF Located, buffers
<1>18. conn' = conn /\ isHandleShake = TRUE /\ isHandleShake' = TRUE BY <1>2, <1>3, Header DEF out
<1> QED BY <1>2, <1>3, <1>8, <1>12, <1>16, <1>17, <1>18, StaysOpen

\* What is read of the payload follows what rBuffer holds.
LEMMA Payload ==
  ASSUME TypeOK, Located, NextFrame
  PROVE  /\ conn = "open" /\ isHandleShake = TRUE /\ parseHeader = TRUE /\ Accounted /\ Inside
         /\ UNCHANGED <<peerVars, isHandleShake>>
         /\ at.frame \in 1..Len(frames) /\ frames[at.frame] \in Frames
         /\ Taken \in Nat /\ Len(rBuffer) + Taken <= fragmentLength
         /\ Fragment \in Seq(Nat) /\ Len(Fragment) = Len(rBuffer) + Taken
         /\ rBuffer = SubSeq(frames[at.frame].data, 1, Len(rBuffer)) =>
              Fragment = SubSeq(frames[at.frame].data, 1, Len(Fragment))
         /\ Accounted' /\ inbound' \in Nat
         /\ at' \in [frame : 0..MaxFrame + 1, byte : Nat] /\ at'.frame \in at.frame..Len(frames) + 1
         /\ at.byte + Taken # Size(frames[at.frame]) => at'.frame = at.frame
<1>1. /\ pc = "frame" /\ inbound' = inbound - Taken /\ UNCHANGED <<peerVars, isHandleShake>>
      /\ at' = IF at.byte + Taken = Size(frames[at.frame])
                 THEN [frame |-> at.frame + 1, byte |-> 0]
                 ELSE [at EXCEPT !.byte = @ + Taken]
  BY DEF NextFrame
<1>2. conn = "open" /\ isHandleShake /\ Accounted /\ Inside BY <1>1, Running
<1>3. parseHeader /\ at.frame \in 1..Len(frames) BY <1>1, <1>2, Places DEF Inside
<1>4. PICK f \in Frames : f = frames[at.frame] BY <1>3, Places
<1>5. /\ Len(rBuffer) \in Nat /\ Len(rBuffer) <= fragmentLength /\ fragmentLength <= Len(f.data)
      /\ fragmentLength \in Nat
  BY <1>2, <1>3, <1>4, Header DEF Inside
<1>6. PICK l \in Nat, m \in Nat : /\ l = Len(rBuffer) /\ m = Taken
                                  /\ l + m <= fragmentLength /\ m <= inbound
  <2>1. fragmentLength - Len(rBuffer) \in Nat BY <1>5
  <2>2. /\ Taken \in Nat /\ Taken <= inbound /\ Taken <= fragmentLength - Len(rBuffer)
    BY <2>1, GotIs DEF Taken
  <2> QED BY <1>5, <2>2
<1>7. f.data \in Seq(Nat) /\ Len(f.data) \in Nat /\ l + m <= Len(f.data)
  BY <1>4, <1>5, <1>6, FrameIs
<1>8. PICK g : g = SubSeq(f.data, l + 1, l + m) OBVIOUS
<1>9. g \in Seq(Nat) /\ Len(g) = m /\ \A i \in 1..m : g[i] = f.data[l + i]
  <2>1. CASE m = 0 BY <1>6, <1>7, <1>8, <2>1
  <2>2. CASE m > 0
    <3>1. l + 1 \in 1..Len(f.data) /\ l + m \in 1..Len(f.data) BY <1>6, <1>7, <2>2
    <3>2. (l + m) - (l + 1) + 1 = m BY <1>6
    <3>3. PICK s \in Seq(Nat) : s = f.data BY <1>7
    <3>4. /\ g \in Seq(Nat) /\ Len(g) = (l + m) - (l + 1) + 1
          /\ \A i \in 1..(l + m) - (l + 1) + 1 : g[i] = s[((l + 1) + i) - 1]
      BY <1>8, <3>1, <3>3, SubSeqProperties
    <3>5. \A i \in 1..m : ((l + 1) + i) - 1 = l + i BY <1>6
    <3> QED BY <3>2, <3>3, <3>4, <3>5
  <2> QED BY <1>6, <2>1, <2>2
<1>10. Fragment = rBuffer \o g BY <1>4, <1>6, <1>8 DEF Fragment
<1>11. Fragment \in Seq(Nat) /\ Len(Fragment) = l + m
  BY <1>6, <1>9, <1>10, Header, ConcatProperties
<1>12. ASSUME rBuffer = SubSeq(f.data, 1, l) PROVE Fragment = SubSeq(f.data, 1, l + m)
  <2>1. PICK h : h = SubSeq(f.data, 1, l + m) OBVIOUS
  <2>2. h \in Seq(Nat) /\ Len(h) = l + m /\ \A i \in 1..l + m : h[i] = f.data[i]
    BY <1>6, <1>7, <2>1
  <2>3. \A i \in 1..l : rBuffer[i] = f.data[i] BY <1>6, <1>7, <1>12
  <2>4. ASSUME NEW i \in 1..l + m PROVE Fragment[i] = f.data[i]
    <3>1. CASE i \in 1..l BY <1>6, <1>9, <1>10, <2>3, <3>1, Header
    <3>2. CASE i > l
      <4>1. i - l \in 1..m /\ l + (i - l) = i BY <1>6, <3>2
      <4>2. Fragment[i] = g[i - l] BY <1>6, <1>9, <1>10, <3>2, Header
      <4> QED BY <1>9, <4>1, <4>2
    <3> QED BY <1>6, <3>1, <3>2
  <2>5. \A i \in 1..l + m : Fragment[i] = h[i] BY <2>2, <2>4
  <2> QED BY <1>11, <2>1, <2>2, <2>5, SeqEqual
<1>13. frames' = frames /\ ahead' = ahead BY <1>1 DEF peerVars
<1>14. /\ Accounted' /\ inbound' \in Nat
       /\ at' \in [frame : 0..MaxFrame + 1, byte : Nat] /\ at'.frame \in at.frame..Len(frames) + 1
  <2>1. inbound' = inbound - m BY <1>1, <1>6
  <2>2. \/ at' = [at EXCEPT !.byte = @ + m]
        \/ /\ at.byte + m = Size(frames[at.frame])
           /\ at' = [frame |-> at.frame + 1, byte |-> 0]
    BY <1>1, <1>6
  <2> QED BY <1>2, <1>3, <1>6, <1>13, <2>1, <2>2, Moves
<1>15. at.byte + Taken # Size(frames[at.frame]) => at'.frame = at.frame BY <1>1, Places
<1>16. isHandleShake = TRUE /\ parseHeader = TRUE BY <1>2, <1>3, Header
<1> QED BY <1>1, <1>2, <1>3, <1>4, <1>6, <1>11, <1>12, <1>14, <1>15, <1>16

\* A part of the payload.
LEMMA FramePartTyped ==
  ASSUME TypeOK, Located, FramePart
  PROVE  TypeOK' /\ Located' /\ at'.frame = at.frame /\ at'.byte = at.byte + Taken
<1>1. /\ NextFrame /\ Len(Fragment) < fragmentLength /\ rBuffer' = Fragment /\ pc' = "wait"
      /\ UNCHANGED <<header, packetBuffer, continueBuffer, messageMode, out>>
  BY DEF FramePart
<1>2. PICK f \in Frames : f = frames[at.frame] BY <1>1, Payload
<1>3. /\ conn = "open" /\ isHandleShake = TRUE /\ parseHeader = TRUE /\ Inside
      /\ UNCHANGED <<peerVars, isHandleShake>>
      /\ at.frame \in 1..Len(frames) /\ Taken \in Nat
      /\ Fragment \in Seq(Nat) /\ Len(Fragment) = Len(rBuffer) + Taken
      /\ Accounted' /\ inbound' \in Nat
      /\ at' \in [frame : 0..MaxFrame + 1, byte : Nat]
      /\ at.byte + Taken # Size(frames[at.frame]) => at'.frame = at.frame
  BY <1>1, Payload
<1>4. fragmentLength \in Nat /\ Len(rBuffer) \in Nat BY Header
<1>5. fragmentLength <= Len(f.data) BY <1>2, <1>3 DEF Inside
<1>6. at.byte + Taken # Size(f)
  <2>1. fragmentLength # 0 BY <1>1, <1>3, <1>4
  <2>2. at.byte = Due /\ pc = "frame" BY <1>1, <2>1 DEF NextFrame, Reads
  <2>3. at.byte = PayloadStart(f) + Len(rBuffer) BY <1>2, <2>2 DEF Due
  <2>4. PayloadStart(f) \in Nat /\ Size(f) = PayloadStart(f) + Len(f.data) /\ Len(f.data) \in Nat
    BY FrameIs
  <2> QED BY <1>1, <1>3, <1>4, <1>5, <2>3, <2>4
<1>7. at'.frame = at.frame BY <1>2, <1>3, <1>6
<1>8. at'.byte = at.byte + Taken BY <1>1, <1>2, <1>6, Places DEF NextFrame
<1>9. TypeOK'
  <2>1. pc' \in {"wait", "handshake", "head", "length", "masks", "frame", "lost"} BY <1>1
  <2> QED BY <1>1, <1>3, <2>1, Header, TypesFollow DEF header, out
<1>10. frames' = frames BY <1>3 DEF peerVars
<1>11. Len(rBuffer') < fragmentLength' /\ fragmentLength' = fragmentLength /\ parseHeader' = TRUE
  BY <1>1, <1>3 DEF header
<1>12. Inside'
  BY <1>1, <1>2, <1>3, <1>4, <1>5, <1>7, <1>10, <1>11 DEF Inside
<1>13. packetBuffer' = <<>> /\ (opcode' \in {TEXTMODE, BINMODE} => messageMode' = opcode')
  BY <1>1 DEF Located, header
<1>14. conn' = conn BY <1>1 DEF out
<1> QED BY <1>3, <1>7, <1>8, <1>9, <1>12, <1>13, <1>14, StaysOpen

\* The end of a frame that does not close the connection.
LEMMA FrameDone ==
  ASSUME TypeOK, Located, NextFrame, Reset, packetBuffer' = <<>>, pc' = "wait",
         final' = final, conn' = conn, continueBuffer' \in Seq(Nat),
         messageMode' \in {0, TEXTMODE, BINMODE},
         emitted' \in Seq([opcode : {TEXTMODE, BINMODE}, data : Seq(Nat)]),
         pushed' \in Seq([opcode : {CLOSE, PONG}, data : Seq(Nat)])
  PROVE  TypeOK' /\ Located'
<1>1. /\ parseHeader' = FALSE /\ parseHeaderStep' = 0 /\ headerBytes' = 0
      /\ opcode' = 0 /\ fragmentLength' = 0 /\ masks' = 0 /\ rBuffer' = <<>>
  BY DEF Reset
<1>2. /\ conn = "open" /\ isHandleShake = TRUE /\ Accounted'
      /\ UNCHANGED <<peerVars, isHandleShake>> /\ inbound' \in Nat
      /\ at' \in [frame : 0..MaxFrame + 1, byte : Nat] /\ at'.frame \in at.frame..Len(frames) + 1
      /\ at.frame \in 1..Len(frames)
  BY Payload
<1>3. 0 \in 0..HeadLen /\ 0 \in 0..2 /\ 0 \in 0..15 /\ 0 \in 0..MaskLen /\ 0 \in Nat BY Numbers
<1>4. TypeOK'
  <2>1. /\ headerBytes' \in 0..HeadLen /\ parseHeader' \in BOOLEAN /\ parseHeaderStep' \in 0..2
        /\ opcode' \in 0..15 /\ fragmentLength' \in Nat /\ masks' \in 0..MaskLen
    BY <1>1, <1>3
  <2>2. /\ rBuffer' \in Seq(Nat) /\ packetBuffer' \in Seq(Nat)
        /\ pc' \in {"wait", "handshake", "head", "length", "masks", "frame", "lost"}
        /\ conn' \in {"open", "closed"} /\ final' \in BOOLEAN /\ isHandleShake' \in BOOLEAN
    BY <1>1, <1>2, Header
  <2> QED BY <1>2, <2>1, <2>2, TypesFollow, Zenon
<1>5. frames' = frames BY <1>2 DEF peerVars
<1>6. at'.frame \in 1..Len(frames) + 1
  <2>1. Len(frames) \in Nat BY Places
  <2> QED BY <1>2, <2>1
<1>7. Inside' BY <1>1, <1>5, <1>6 DEF Inside
<1>8. opcode' \notin {TEXTMODE, BINMODE} BY <1>1 DEF TEXTMODE, BINMODE
<1> QED BY <1>2, <1>4, <1>7, <1>8, StaysOpen

\* The ends of a frame.
LEMMA FrameEndsTyped ==
  ASSUME TypeOK, Located,
         FrameRefused \/ FrameFragment \/ FrameNotUtf8 \/ FrameMessage \/ FramePing \/ FramePong
           \/ FrameClose
  PROVE  TypeOK' /\ Located'
<1>1. CASE FrameRefused
  <2>1. UNCHANGED <<peerVars, inbound, at, isHandleShake>> BY <1>1 DEF FrameRefused
  <2>2. inbound' \in Nat /\ at' \in [frame : 0..MaxFrame + 1, byte : Nat]
    BY <2>1 DEF TypeOK
  <2> QED BY <1>1, <2>1, <2>2, Closes DEF FrameRefused
<1>2. CASE FrameNotUtf8 \/ FrameClose
  <2>1. NextFrame BY <1>2 DEF FrameNotUtf8, FrameClose, Complete
  <2>2. PICK code \in {1000, 1002, 1007} : CloseCode(code) BY <1>2 DEF FrameNotUtf8, FrameClose
  <2> QED BY <2>1, <2>2, Payload, Closes
<1>3. CASE FrameFragment
  <2>1. /\ NextFrame /\ Reset /\ continueBuffer' = continueBuffer \o Packet /\ packetBuffer' = <<>>
        /\ pc' = "wait" /\ UNCHANGED <<final, messageMode, out>>
    BY <1>3 DEF FrameFragment, Complete
  <2>2. continueBuffer' \in Seq(Nat)
    <3>1. Packet \in Seq(Nat) BY <2>1, Payload, Header DEF Packet
    <3> QED BY <2>1, <3>1, Header
  <2>3. /\ messageMode' \in {0, TEXTMODE, BINMODE} /\ conn' = conn
        /\ emitted' \in Seq([opcode : {TEXTMODE, BINMODE}, data : Seq(Nat)])
        /\ pushed' \in Seq([opcode : {CLOSE, PONG}, data : Seq(Nat)])
    BY <2>1, Header DEF out
  <2> QED BY <2>1, <2>2, <2>3, FrameDone
<1>4. CASE FrameMessage \/ FramePing \/ FramePong
  <2>1. /\ NextFrame /\ Reset /\ packetBuffer' = <<>> /\ pc' = "wait"
        /\ continueBuffer' = IF Joins THEN <<>> ELSE continueBuffer
        /\ final' = final /\ conn' = conn
    BY <1>4 DEF FrameMessage, FramePing, FramePong, Accept, Complete, out
  <2>2. continueBuffer' \in Seq(Nat) BY <2>1, Header
  <2>3. messageMode' \in {0, TEXTMODE, BINMODE}
    BY <1>4, Header DEF FrameMessage, FramePing, FramePong
  <2>4. Message.data \in Seq(Nat) /\ Message = [opcode |-> messageMode, data |-> Message.data]
    <3>1. Packet \in Seq(Nat) BY <2>1, Payload, Header DEF Packet
    <3>2. continueBuffer \o Packet \in Seq(Nat) BY <3>1, Header
    <3> QED BY <3>1, <3>2 DEF Message
  <2>5. emitted' \in Seq([opcode : {TEXTMODE, BINMODE}, data : Seq(Nat)])
    <3>1. CASE emitted' = emitted BY <3>1, Header
    <3>2. CASE FrameMessage
      <4>1. opcode \in DataOps /\ ~OpcodeFails /\ emitted' = Append(emitted, Message)
        BY <3>2 DEF FrameMessage, Accept, Complete, NextFrame
      <4>2. messageMode \in {TEXTMODE, BINMODE}
        BY <4>1, Header DEF OpcodeFails, DataOps, Located, TEXTMODE, BINMODE, CONTINUATION
      <4>3. Message \in [opcode : {TEXTMODE, BINMODE}, data : Seq(Nat)] BY <2>4, <4>2
      <4> QED BY <4>1, <4>3, Header
    <3> QED BY <1>4, <3>1, <3>2 DEF FramePing, FramePong, out
  <2>6. pushed' \in Seq([opcode : {CLOSE, PONG}, data : Seq(Nat)])
    <3>1. CASE pushed' = pushed BY <3>1, Header
    <3>2. CASE FramePing
      <4>1. [opcode |-> PONG, data |-> Message.data] \in [opcode : {CLOSE, PONG}, data : Seq(Nat)]
        BY <2>4
      <4> QED BY <3>2, <4>1, Header DEF FramePing
    <3> QED BY <1>4, <3>1, <3>2 DEF FrameMessage, FramePong, out
  <2> QED BY <2>1, <2>2, <2>3, <2>5, <2>6, FrameDone
<1> QED BY <1>1, <1>2, <1>3, <1>4

\* The peer begins a frame.
LEMMA PeerSendsTyped ==
  ASSUME TypeOK, Located, NEW f \in Frames, PeerSends(f)
  PROVE  TypeOK' /\ Located'
<1>1. /\ conn = "open" /\ ahead = 0 /\ isHandleShake
      /\ Len(frames) < IF splits THEN 1 ELSE MaxFrame
      /\ frames' = Append(frames, f) /\ ahead' = Size(f)
      /\ UNCHANGED <<splits, ended, inbound, at, isHandleShake, header, buffers, pc, out>>
  BY DEF PeerSends
<1>2. PICK n \in Nat : n = Len(frames) /\ n < MaxFrame BY <1>1, Places, Numbers
<1>3. /\ frames' \in Seq(Frames) /\ Len(frames') = n + 1 /\ frames'[n + 1] = f
      /\ \A i \in 1..n : frames'[i] = frames[i]
  BY <1>1, <1>2, Places
<1>4. Size(f) \in Nat BY FrameIs
<1>5. TypeOK'
  <2>1. /\ frames' \in Seq(Frames) /\ Len(frames') <= MaxFrame /\ ahead' \in Nat
    BY <1>1, <1>2, <1>3, <1>4, Numbers
  <2>2. UNCHANGED <<splits, ended, inbound, at, isHandleShake, headerBytes, parseHeader,
                    parseHeaderStep, opcode, final, fragmentLength, masks, rBuffer, packetBuffer,
                    continueBuffer, messageMode, pc, emitted, pushed, conn>>
    BY <1>1 DEF header, buffers, out
  <2> QED BY <2>1, <2>2, ZenonT(60) DEF TypeOK
<1>6. Accounted /\ Inside BY <1>1, Header DEF Located
<1>7. PICK begin \in [1..n + 1 -> Nat] :
        /\ \A i \in 1..n : begin[i + 1] = begin[i] + Size(frames[i])
        /\ \A i, j \in 1..n + 1 : i <= j => begin[i] <= begin[j]
        /\ inbound + ahead + begin[at.frame] + at.byte = begin[n + 1]
  BY <1>2, <1>6 DEF Accounted
<1>8. PICK e \in Nat, s \in Nat : e = begin[n + 1] /\ s = Size(f) BY <1>2, <1>4, <1>7
<1>9. PICK b : b = [i \in 1..(n + 1) + 1 |-> IF i = (n + 1) + 1 THEN e + s ELSE begin[i]]
  OBVIOUS
<1>10. /\ b \in [1..(n + 1) + 1 -> Nat] /\ b[(n + 1) + 1] = e + s
       /\ \A i \in 1..n + 1 : b[i] = begin[i]
  <2>1. ASSUME NEW i \in 1..(n + 1) + 1
        PROVE  (IF i = (n + 1) + 1 THEN e + s ELSE begin[i]) \in Nat
    <3>1. i = (n + 1) + 1 \/ i \in 1..n + 1 BY <1>2
    <3> QED BY <3>1, <1>7, <1>8
  <2>2. \A i \in 1..n + 1 : i \in 1..(n + 1) + 1 /\ i # (n + 1) + 1 BY <1>2
  <2>3. (n + 1) + 1 \in 1..(n + 1) + 1 BY <1>2
  <2> QED BY <1>9, <2>1, <2>2, <2>3
<1>11. ASSUME NEW i \in 1..n + 1 PROVE b[i + 1] = b[i] + Size(frames'[i])
  <2>1. CASE i \in 1..n
    <3>1. i + 1 \in 1..n + 1 BY <1>2, <2>1
    <3> QED BY <1>3, <1>7, <1>10, <2>1, <3>1
  <2>2. CASE i = n + 1 BY <1>3, <1>8, <1>10, <2>2
  <2> QED BY <1>2, <2>1, <2>2
<1>12. ASSUME NEW i \in 1..(n + 1) + 1, NEW j \in 1..(n + 1) + 1, i <= j PROVE b[i] <= b[j]
  <2>1. CASE j \in 1..n + 1
    <3>1. i \in 1..n + 1 BY <1>2, <1>12, <2>1
    <3> QED BY <1>7, <1>10, <1>12, <2>1, <3>1
  <2>2. CASE i \in 1..n + 1 /\ j = (n + 1) + 1
    <3>1. n + 1 \in 1..n + 1 /\ i <= n + 1 BY <1>2, <2>2
    <3>2. begin[i] <= e /\ begin[i] \in Nat BY <1>7, <1>8, <2>2, <3>1
    <3> QED BY <1>8, <1>10, <2>2, <3>2
  <2>3. CASE i = (n + 1) + 1 /\ j = (n + 1) + 1 BY <1>8, <1>10, <2>3
  <2>4. \/ j \in 1..n + 1 \/ (i \in 1..n + 1 /\ j = (n + 1) + 1)
        \/ (i = (n + 1) + 1 /\ j = (n + 1) + 1)
    BY <1>2, <1>12
  <2> QED BY <2>1, <2>2, <2>3, <2>4
<1>13. Accounted'
  <2>1. PICK k \in 1..n + 1 : k = at.frame BY <1>2, <1>6 DEF Inside
  <2>2. begin[k] \in Nat BY <1>7, <2>1
  <2>3. inbound + 0 + begin[k] + at.byte = e BY <1>1, <1>7, <1>8, <2>1
  <2>4. inbound + s + begin[k] + at.byte = e + s BY <1>8, <2>2, <2>3, Places
  <2>5. inbound' = inbound /\ ahead' = s /\ at' = at BY <1>1, <1>8
  <2>6. inbound' + ahead' + b[at'.frame] + at'.byte = b[(n + 1) + 1]
    BY <1>10, <2>1, <2>4, <2>5
  <2>7. Len(frames') = n + 1 BY <1>3
  <2> QED BY <1>10, <1>11, <1>12, <2>6, <2>7 DEF Accounted
<1>14. Inside'
  <2>1. at.frame \in 1..n + 1 /\ (at.frame <= n => frames'[at.frame] = frames[at.frame])
    BY <1>2, <1>3, <1>6 DEF Inside
  <2>2. at.frame <= n => at.frame <= n + 1 BY <1>2, <2>1
  <2>3. UNCHANGED <<at, headerBytes, masks, parseHeader, pc, fragmentLength, rBuffer>>
    BY <1>1 DEF header, buffers
  <2>4. at.frame \in 1..(n + 1) + 1 BY <1>2, <2>1
  <2> QED BY <1>2, <1>3, <1>6, <2>1, <2>2, <2>3, <2>4 DEF Inside
<1>15. /\ packetBuffer' = <<>>
       /\ opcode' \in {TEXTMODE, BINMODE} => messageMode' = opcode'
       /\ conn' = "open" /\ isHandleShake' = TRUE
  BY <1>1, Header DEF Located, header, buffers, out
<1>16. frames' # <<>> /\ ahead' <= Size(frames'[Len(frames')]) BY <1>1, <1>2, <1>3, <1>4
<1> QED BY <1>5, <1>13, <1>14, <1>15, <1>16 DEF Located

\* The end of the stream.
LEMMA EndOfStreamTyped ==
  ASSUME TypeOK, EndOfStream
  PROVE  TypeOK' /\ Located'
<1>1. CloseCode(1000) /\ UNCHANGED <<peerVars, inbound, at, isHandleShake>> BY DEF EndOfStream
<1>2. inbound' \in Nat /\ at' \in [frame : 0..MaxFrame + 1, byte : Nat] BY <1>1 DEF TypeOK
<1> QED BY <1>1, <1>2, Closes

\* Bytes arrive, or the peer leaves.
LEMMA ArriveTyped ==
  ASSUME TypeOK, Located, PeerEnds \/ (\E n \in 1..ahead : Arrive(n))
  PROVE  TypeOK' /\ Located'
<1>1. PICK n \in Nat : /\ n <= ahead /\ ahead' = ahead - n /\ inbound' = inbound + n
                       /\ n = 0 \/ MayCut((IF frames = <<>> THEN RequestLen
                                           ELSE Size(Last(frames))) - (ahead - n))
  <2>1. CASE PeerEnds BY <2>1, Places DEF PeerEnds
  <2>2. ASSUME NEW m \in 1..ahead, Arrive(m)
        PROVE  /\ m \in Nat /\ m <= ahead /\ ahead' = ahead - m /\ inbound' = inbound + m
               /\ MayCut((IF frames = <<>> THEN RequestLen ELSE Size(Last(frames))) - (ahead - m))
    BY <2>2, Places DEF Arrive
  <2> QED BY <2>1, <2>2
<1>2. /\ conn = "open" /\ ended' \in BOOLEAN
      /\ UNCHANGED <<splits, frames, at, isHandleShake, header, buffers, pc, out>>
  BY DEF PeerEnds, Arrive, TypeOK
<1>3. ahead' \in Nat /\ inbound' \in Nat /\ ahead' <= ahead /\ inbound' + ahead' = inbound + ahead
  BY <1>1, Places
<1>4. TypeOK' BY <1>2, <1>3 DEF TypeOK, header, buffers, out
<1>5. ASSUME ~isHandleShake PROVE Unshaken'
  <2>1. Unshaken BY <1>2, <1>5 DEF Located
  <2>2. ~splits => inbound' \in {0, RequestLen}
    <3>1. CASE n = 0 BY <1>1, <2>1, <3>1, Places DEF Unshaken
    <3>2. CASE n # 0 /\ ~splits
      <4>1. RequestLen - (ahead - n) = RequestLen BY <1>1, <2>1, <3>2 DEF MayCut, Unshaken
      <4> QED BY <1>1, <2>1, <4>1, Places, Numbers DEF Unshaken
    <3> QED BY <3>1, <3>2
  <2> QED BY <1>2, <1>3, <2>1, <2>2 DEF Unshaken, header, buffers, out
<1>6. ASSUME isHandleShake = TRUE
      PROVE  /\ Accounted' /\ Inside'
             /\ IF frames' = <<>> THEN ahead' = 0 ELSE ahead' <= Size(frames'[Len(frames')])
  <2>1. /\ Accounted /\ Inside
        /\ IF frames = <<>> THEN ahead = 0 ELSE ahead <= Size(frames[Len(frames)])
    BY <1>2, <1>6 DEF Located
  <2>2. Accounted'
    <3>1. PICK begin \in [1..Len(frames) + 1 -> Nat] :
            /\ \A i \in 1..Len(frames) : begin[i + 1] = begin[i] + Size(frames[i])
            /\ \A i, j \in 1..Len(frames) + 1 : i <= j => begin[i] <= begin[j]
            /\ inbound + ahead + begin[at.frame] + at.byte = begin[Len(frames) + 1]
      BY <2>1 DEF Accounted
    <3>2. inbound' + ahead' + begin[at'.frame] + at'.byte = begin[Len(frames') + 1]
      BY <1>2, <1>3, <3>1
    <3> QED BY <1>2, <3>1, <3>2 DEF Accounted
  <2>3. Inside' BY <1>2, <2>1 DEF Inside, header, buffers
  <2>4. frames # <<>> => Size(frames[Len(frames)]) \in Nat
    <3>1. frames # <<>> => Len(frames) \in 1..Len(frames) BY Places, EmptySeq
    <3> QED BY <3>1, Places, FrameIs
  <2> QED BY <1>2, <1>3, <2>1, <2>2, <2>3, <2>4, Places
<1>7. /\ packetBuffer' = <<>>
      /\ opcode' \in {TEXTMODE, BINMODE} => messageMode' = opcode'
      /\ conn' = "open"
  BY <1>2 DEF Located, header, buffers, out
<1>8. isHandleShake' = isHandleShake /\ isHandleShake \in BOOLEAN BY <1>2, Header
<1> QED BY <1>4, <1>5, <1>6, <1>7, <1>8 DEF Located

\* Every step keeps both, and so they hold always.
LEMMA NextTyped == TypeOK /\ Located /\ [Next]_vars => TypeOK' /\ Located'
<1> SUFFICES ASSUME TypeOK, Located, [Next]_vars PROVE TypeOK' /\ Located' OBVIOUS
<1>1. CASE UNCHANGED vars
  <2>1. UNCHANGED <<splits, frames, ahead, ended, inbound, at, isHandleShake, headerBytes,
                    parseHeader, parseHeaderStep, opcode, final, fragmentLength, masks,
                    rBuffer, packetBuffer, continueBuffer, messageMode, pc, emitted, pushed, conn>>
    BY <1>1 DEF vars, peerVars, header, buffers, out
  <2>2. TypeOK' BY <2>1 DEF TypeOK
  <2>3. Located' BY <2>1 DEF Located, Unshaken, Accounted, Inside
  <2> QED BY <2>2, <2>3
<1>2. CASE PollerStep
  BY <1>2, PlaceOnly, HandShakeTyped, HeadPartTyped, HeadParseTyped, LengthReadTyped,
     MasksReadTyped, FramePartTyped, FrameEndsTyped, EndOfStreamTyped DEF PollerStep
<1> QED BY <1>1, <1>2, PeerSendsTyped, ArriveTyped DEF Next

LEMMA AlwaysLocated == Spec => [](TypeOK /\ Located)
<1>1. Init => TypeOK /\ Located
  <2> SUFFICES ASSUME Init PROVE TypeOK /\ Located OBVIOUS
  <2>1. TypeOK
    <3>1. /\ frames \in Seq(Frames) /\ Len(frames) <= MaxFrame
          /\ emitted \in Seq([opcode : {TEXTMODE, BINMODE}, data : Seq(Nat)])
          /\ pushed \in Seq([opcode : {CLOSE, PONG}, data : Seq(Nat)])
          /\ rBuffer \in Seq(Nat) /\ packetBuffer \in Seq(Nat) /\ continueBuffer \in Seq(Nat)
      BY Numbers DEF Init
    <3>2. ahead \in Nat /\ inbound \in Nat /\ at \in [frame : 0..MaxFrame + 1, byte : Nat]
      BY Numbers DEF Init
    <3>3. /\ splits \in BOOLEAN /\ ended \in BOOLEAN /\ isHandleShake \in BOOLEAN
          /\ parseHeader \in BOOLEAN /\ final \in BOOLEAN
          /\ pc \in {"wait", "handshake", "head", "length", "masks", "frame", "lost"}
          /\ conn \in {"open", "closed"} /\ messageMode \in {0, TEXTMODE, BINMODE}
      BY DEF Init
    <3>4. /\ headerBytes \in 0..HeadLen /\ parseHeaderStep \in 0..2 /\ opcode \in 0..15
          /\ fragmentLength \in Nat /\ masks \in 0..MaskLen
      BY Numbers DEF Init
    <3> QED BY <3>1, <3>2, <3>3, <3>4 DEF TypeOK
  <2>2. Located BY Numbers DEF Init, Located, Unshaken, TEXTMODE, BINMODE
  <2> QED BY <2>1, <2>2
<1> QED BY <1>1, NextTyped, PTL DEF Spec

\* Every variable keeps its type, also when headers come in pieces: no read goes
\* beyond the frame that is decoded, the counts of what has come of a header
\* stay in it, and messages have a mode (websocket.go:82-302).
THEOREM WsDecodeTypeCorrect == Spec => []TypeOK
  BY AlwaysLocated, PTL

-----------------------------------------------------------------------------
(* The header and the payload, of a stream whose long headers are not cut.  *)

\* What has arrived of a frame of s bytes that is followed by others, or of the
\* last one, of which h bytes have not arrived.
LEMMA Lengths ==
  ASSUME NEW b \in Nat, NEW i \in Nat, NEW h \in Nat, NEW s \in Nat, NEW l \in Nat,
         NEW x \in Nat, NEW y \in Nat, NEW z \in Nat, NEW e \in Nat,
         y = x + s, e = z + l, ((i + h) + x) + b = e, h <= l
  PROVE  /\ y <= z => b + i >= s
         /\ y = e => b + i = s - h
OBVIOUS

\* A frame with an extended length has all of its header in the kernel, or not
\* more than its first two bytes.
LEMMA Available ==
  ASSUME TypeOK, Accounted, Uncut, at.frame \in 1..Len(frames),
         ahead <= Size(frames[Len(frames)]),
         NEW f, f = frames[at.frame], Len(f.data) > Short
  PROVE  at.byte + inbound \notin HeadLen + 1..PayloadStart(f) - 1
<1>1. PICK n \in Nat : n = Len(frames) BY Places
<1>2. PICK begin \in [1..n + 1 -> Nat] :
        /\ \A i \in 1..n : begin[i + 1] = begin[i] + Size(frames[i])
        /\ \A i, j \in 1..n + 1 : i <= j => begin[i] <= begin[j]
        /\ inbound + ahead + begin[at.frame] + at.byte = begin[n + 1]
  BY <1>1 DEF Accounted
<1>3. PICK k \in 1..n : k = at.frame BY <1>1
<1>4. n \in 1..n /\ frames[n] \in Frames /\ f \in Frames BY <1>1, <1>3, Places
<1>5. /\ Size(f) \in Nat /\ Size(frames[n]) \in Nat /\ PayloadStart(f) \in Nat
      /\ PayloadStart(f) <= Size(f)
  <2>1. Size(f) \in Nat /\ PayloadStart(f) \in Nat /\ Len(f.data) \in Nat
        /\ Size(f) = PayloadStart(f) + Len(f.data)
    BY <1>4, FrameIs
  <2>2. Size(frames[n]) \in Nat BY <1>4, FrameIs
  <2> QED BY <2>1, <2>2
<1>6. PICK b \in Nat, i \in Nat, h \in Nat, s \in Nat, l \in Nat :
        b = at.byte /\ i = inbound /\ h = ahead /\ s = Size(f) /\ l = Size(frames[n])
  BY <1>5, Places
<1>9. k \in 1..n + 1 /\ k + 1 \in 1..n + 1 /\ n \in 1..n + 1 /\ n + 1 \in 1..n + 1
  BY <1>3, <1>4
<1>10. PICK x \in Nat, y \in Nat, z \in Nat, e \in Nat :
         x = begin[k] /\ y = begin[k + 1] /\ z = begin[n] /\ e = begin[n + 1]
  BY <1>2, <1>9
<1>11. y = x + s BY <1>2, <1>3, <1>6, <1>10
<1>12. e = z + l BY <1>2, <1>4, <1>6, <1>10
<1>13. ((i + h) + x) + b = e BY <1>2, <1>3, <1>6, <1>10
<1>14. h <= l BY <1>1, <1>6
<1>7. CASE k < n
  <2>1. k + 1 <= n BY <1>3, <1>7
  <2>2. y <= z BY <1>2, <1>9, <1>10, <2>1
  <2>3. b + i >= s BY <1>11, <1>12, <1>13, <1>14, <2>2, Lengths, Zenon
  <2> QED BY <1>5, <1>6, <2>3, Numbers, SMTT(60)
<1>8. CASE k = n
  <2>1. y = e BY <1>8, <1>10
  <2>4. b + i = s - h BY <1>11, <1>12, <1>13, <1>14, <2>1, Lengths
  <2>5. s - h \notin HeadLen + 1..PayloadStart(f) - 1
    <3>1. frames # <<>> BY <1>1, <1>4
    <3> QED BY <1>1, <1>3, <1>8, <3>1, <1>6 DEF Uncut
  <2> QED BY <1>6, <2>4, <2>5
<1> QED BY <1>3, <1>7, <1>8

\* In an orderly stream, where the decoder is.
LEMMA Orderly ==
  ASSUME TypeOK, Located, Parsing, ~splits, pc \notin {"wait", "handshake"}
  PROVE  /\ conn = "open" /\ isHandleShake /\ Accounted /\ Inside /\ Uncut
         /\ at.frame <= Len(frames) => ahead <= Size(frames[Len(frames)])
         /\ pc # "lost"
         /\ pc = "head" => /\ ~parseHeader /\ rBuffer = <<>>
                           /\ headerBytes < HeadLen => InHead
                           /\ headerBytes = HeadLen => InHeader(frames[at.frame])
         /\ pc \in {"length", "masks"} =>
              /\ ~parseHeader /\ rBuffer = <<>> /\ headerBytes = HeadLen
              /\ at.frame \in 1..Len(frames) /\ InHeader(frames[at.frame])
         /\ pc = "frame" => /\ parseHeader /\ at.frame \in 1..Len(frames)
                            /\ InPayload(frames[at.frame])
<1>1. /\ conn = "open" /\ isHandleShake /\ Accounted /\ Inside
      /\ IF frames = <<>> THEN ahead = 0 ELSE ahead <= Size(frames[Len(frames)])
  BY Running
<1>2. /\ Uncut
      /\ ~parseHeader /\ headerBytes < HeadLen => InHead
      /\ ~parseHeader /\ headerBytes = HeadLen => InHeader(frames[at.frame])
      /\ parseHeader => InPayload(frames[at.frame])
  BY <1>1 DEF Parsing
<1>3. headerBytes < HeadLen \/ headerBytes = HeadLen BY Header, Numbers
<1>4. at.frame <= Len(frames) => frames # <<>> BY <1>1, Places DEF Inside
<1>5. pc # "lost" BY <1>2, <1>3 DEF InHead, InHeader, InPayload
<1>6. pc = "head" => ~parseHeader /\ rBuffer = <<>> BY <1>1 DEF Inside
<1>7. pc \in {"length", "masks"} =>
        /\ ~parseHeader /\ rBuffer = <<>> /\ headerBytes = HeadLen
        /\ at.frame \in 1..Len(frames) /\ InHeader(frames[at.frame])
  <2>1. pc \in {"length", "masks"} => ~parseHeader /\ rBuffer = <<>> /\ at.frame \in 1..Len(frames)
    BY <1>1, Places DEF Inside
  <2>2. pc \in {"length", "masks"} => ~InHead BY DEF InHead
  <2> QED BY <1>2, <1>3, <2>1, <2>2
<1>8. pc = "frame" => parseHeader /\ at.frame \in 1..Len(frames) BY <1>1, Places DEF Inside
<1> QED BY <1>1, <1>2, <1>4, <1>5, <1>6, <1>7, <1>8

\* No read takes bytes for something they are not.
LEMMA NeverLost ==
  ASSUME TypeOK, Located, Parsing, ~splits
  PROVE  ~Derail
<1> SUFFICES ASSUME Derail PROVE FALSE OBVIOUS
<1>1. Reading /\ inbound > 0 /\ at.byte # Due BY DEF Derail
<1>2. CASE pc = "handshake" BY <1>1, <1>2 DEF Due
<1>3. CASE pc = "head"
  <2>1. headerBytes < HeadLen BY <1>1, <1>3 DEF Reading
  <2> QED BY <1>1, <1>3, <2>1, Orderly DEF Due, InHead
<1>4. CASE pc = "length" BY <1>1, <1>4, Orderly, Numbers DEF Due, InHeader
<1>5. CASE pc = "masks"
  <2>1. PICK f \in Frames : f = frames[at.frame] /\ InHeader(f) BY <1>5, Orderly, Places
  <2>2. f.masked /\ at.byte = MaskStart(f) + masks BY <1>5, <2>1 DEF InHeader
  <2>3. PayloadStart(f) = MaskStart(f) + MaskLen /\ MaskStart(f) \in Nat BY <2>2, FrameIs
  <2>4. Due = PayloadStart(f) - MaskLen + masks BY <1>5, <2>1 DEF Due
  <2> QED BY <1>1, <2>2, <2>3, <2>4, Header, Numbers
<1>6. CASE pc = "frame" BY <1>1, <1>6, Orderly DEF Due, InPayload
<1> QED BY <1>1, <1>2, <1>3, <1>4, <1>5, <1>6 DEF Reading

\* The steps of the peer, and those that change only the place in DecodePacket.
LEMMA ParsingWaits ==
  ASSUME TypeOK, Located, Parsing, ~splits, Event \/ Again
  PROVE  Parsing'
<1>1. UNCHANGED <<peerVars, inbound, at, isHandleShake, header, buffers, out>>
  BY DEF Event, Again
<1>2. UNCHANGED <<splits, frames, ahead, at, isHandleShake, headerBytes, parseHeader,
                  parseHeaderStep, opcode, final, fragmentLength, masks, rBuffer, conn>>
  BY <1>1 DEF peerVars, header, buffers, out
<1> SUFFICES ASSUME conn = "open", isHandleShake = TRUE
             PROVE  /\ Uncut'
                    /\ ~parseHeader /\ headerBytes < HeadLen => InHead'
                    /\ ~parseHeader /\ headerBytes = HeadLen => InHeader(frames[at.frame])'
                    /\ parseHeader => InPayload(frames[at.frame])'
  BY <1>2 DEF Parsing
<1>3. /\ Uncut
      /\ ~parseHeader /\ headerBytes < HeadLen => InHead
      /\ ~parseHeader /\ headerBytes = HeadLen => InHeader(frames[at.frame])
      /\ parseHeader => InPayload(frames[at.frame])
  BY DEF Parsing
<1>4. Uncut' BY <1>2, <1>3 DEF Uncut
<1>5. pc' = "wait" \/ (pc = "wait" /\ pc' = IF parseHeader THEN "frame" ELSE "head")
  BY DEF Event, Again
<1>6. ~parseHeader /\ headerBytes < HeadLen => InHead'
  BY <1>2, <1>3, <1>5 DEF InHead
<1>7. parseHeader => InPayload(frames[at.frame])'
  BY <1>2, <1>3, <1>5 DEF InPayload
<1>8. ASSUME ~parseHeader, headerBytes = HeadLen PROVE InHeader(frames[at.frame])'
  <2>1. /\ Accounted /\ Inside
        /\ IF frames = <<>> THEN ahead = 0 ELSE ahead <= Size(frames[Len(frames)])
    BY DEF Located
  <2>2. headerBytes > 0 BY <1>8, Numbers
  <2>3. at.frame \in 1..Len(frames) BY <2>1, <2>2, Places DEF Inside
  <2>4. PICK f \in Frames : f = frames[at.frame] BY <2>3, Places
  <2>5. frames # <<>> /\ ahead <= Size(frames[Len(frames)]) BY <2>1, <2>3, Places
  <2>6. InHeader(f) BY <1>3, <1>8, <2>4
  <2>7. ~(pc = "masks" /\ pc' = "wait" /\ Len(f.data) > Short)
    <3> SUFFICES ASSUME pc = "masks", pc' = "wait", Len(f.data) > Short PROVE FALSE OBVIOUS
    <3>1. inbound = 0 BY DEF Event, Again
    <3>2. at.byte = MaskStart(f) /\ f.masked
      <4>1. masks = 0 /\ parseHeaderStep = 1 /\ f.masked /\ at.byte = MaskStart(f) + masks
        BY <2>6 DEF InHeader
      <4> QED BY <4>1, FrameIs
    <3>3. MaskStart(f) = HeadLen + LengthLen /\ PayloadStart(f) = MaskStart(f) + MaskLen
      BY <3>2, FrameIs
    <3>4. at.byte + inbound \in HeadLen + 1..PayloadStart(f) - 1
      BY <3>1, <3>2, <3>3, Numbers
    <3> QED BY <1>3, <2>1, <2>3, <2>4, <2>5, <3>4, Available
  <2>8. InHeader(f)' BY <1>2, <1>5, <1>8, <2>6, <2>7 DEF InHeader
  <2>9. frames'[at'.frame] = f BY <1>2, <2>4
  <2> QED BY <2>8, <2>9, <1>2, <2>4
<1> QED BY <1>4, <1>6, <1>7, <1>8

\* The request has been read.
LEMMA ParsingBegins ==
  ASSUME TypeOK, Located, HandShake
  PROVE  Parsing'
<1>1. pc = "handshake" /\ UNCHANGED peerVars BY DEF HandShake, Reads
<1>2. Unshaken BY <1>1, Header DEF Located, Inside
<1>3. CASE at' = [frame |-> 1, byte |-> 0] /\ pc' = "wait" /\ UNCHANGED <<header, buffers, out>>
  <2>1. frames' = <<>> /\ ~parseHeader' /\ headerBytes' = 0 /\ masks' = 0 /\ parseHeaderStep' = 0
        /\ opcode' = 0 /\ at'.byte = 0 /\ pc' = "wait"
    BY <1>1, <1>2, <1>3 DEF Unshaken, peerVars, header
  <2>2. Uncut' BY <2>1 DEF Uncut
  <2>3. InHead' BY <2>1 DEF InHead
  <2>4. headerBytes' # HeadLen BY <2>1 DEF HeadLen
  <2> QED BY <2>1, <2>2, <2>3, <2>4 DEF Parsing
<1>4. CASE CloseCode(1000) BY <1>4 DEF CloseCode, Parsing
<1> QED BY <1>3, <1>4 DEF HandShake

\* A part of the first two bytes is kept.
LEMMA ParsingHead ==
  ASSUME TypeOK, Located, Parsing, ~splits, HeadPart
  PROVE  Parsing'
<1>1. /\ pc = "head" /\ pc' = "wait" /\ UNCHANGED peerVars
      /\ UNCHANGED <<isHandleShake, parseHeader, parseHeaderStep, opcode, final, fragmentLength,
                     masks, buffers, out>>
  BY DEF HeadPart, Reads
<1>2. Uncut /\ (~parseHeader /\ headerBytes < HeadLen => InHead) BY <1>1, Orderly
<1>3. PICK n \in Nat : headerBytes + n < HeadLen /\ Skip(n) /\ headerBytes' = headerBytes + n
  <2>1. HeadLen - headerBytes \in Nat BY Header, Numbers
  <2> QED BY <2>1, GotIs DEF HeadPart
<1>4. headerBytes < HeadLen BY <1>3, Header, Numbers
<1>5. InHead /\ ~parseHeader BY <1>1, <1>2, <1>4, Orderly
<1>6. at'.byte = at.byte + n BY <1>3, Places DEF Skip
<1>7. InHead' BY <1>1, <1>3, <1>5, <1>6 DEF InHead
<1>8. Uncut' BY <1>1, <1>2 DEF Uncut, peerVars
<1>9. headerBytes' # HeadLen BY <1>3, Header, Numbers
<1> QED BY <1>1, <1>5, <1>7, <1>8, <1>9 DEF Parsing

\* Both bytes have been read, perhaps once more.
LEMMA ParsingParse ==
  ASSUME TypeOK, Located, Parsing, ~splits, HeadParse, TypeOK', Located'
  PROVE  Parsing'
<1>1. PICK f, n : f = frames[at.frame] /\ n = HeadLen - headerBytes OBVIOUS
<1>2. /\ pc = "head" /\ UNCHANGED <<peerVars, isHandleShake>> /\ Skip(n)
      /\ n = 0 \/ (inbound > 0 /\ n <= inbound)
  BY <1>1 DEF HeadParse, Reads
<1>3. CASE CloseCode(1002) BY <1>3 DEF CloseCode, Parsing
<1>4. CASE /\ ~f.rsv
           /\ headerBytes' = HeadLen
           /\ opcode' = f.op /\ final' = f.fin
           /\ fragmentLength' = Lesser(Len(f.data), Short + 1)
           /\ messageMode' = IF f.op \in {TEXTMODE, BINMODE} THEN f.op ELSE messageMode
           /\ parseHeaderStep' = IF Len(f.data) > Short THEN parseHeaderStep ELSE 1
           /\ pc' = AfterHead(f)
           /\ UNCHANGED <<parseHeader, masks, rBuffer, packetBuffer, continueBuffer, out>>
  <2>1. /\ conn = "open" /\ isHandleShake /\ Inside /\ Uncut /\ ~parseHeader
        /\ headerBytes < HeadLen => InHead
        /\ headerBytes = HeadLen => InHeader(f)
    BY <1>1, <1>2, Orderly
  <2>2. conn' = "open" /\ isHandleShake' = isHandleShake /\ at'.frame = at.frame /\ frames' = frames
    BY <1>2, <1>4, <2>1, Places DEF out, Skip, peerVars
  <2>3. at.frame \in 1..Len(frames)
    <3>1. headerBytes' > 0 /\ Inside' BY <1>4, <2>1, <2>2, Numbers DEF Located
    <3> QED BY <2>2, <3>1, Places DEF Inside
  <2>4. f \in Frames /\ Len(f.data) \in Nat BY <1>1, <2>3, Places, FrameIs
  <2>5. at'.byte = at.byte + n /\ n \in Nat
    <3>1. n \in Nat BY <1>1, Header, Numbers
    <3> QED BY <1>2, <3>1, Places DEF Skip
  <2>6. Len(f.data) <= Short => fragmentLength' = Len(f.data) BY <2>4, Numbers, <1>4 DEF Lesser
  <2>7. MaskStart(f) = (IF Len(f.data) > Short THEN HeadLen + LengthLen ELSE HeadLen)
        /\ MaskStart(f) \in Nat
    BY <2>4, FrameIs
  <2>8. pc' = IF parseHeaderStep = 0 /\ Len(f.data) > Short THEN "length"
              ELSE IF f.masked THEN "masks" ELSE "wait"
    BY <1>4 DEF AfterHead, AfterLength
  <2>9. Len(f.data) <= Short \/ Len(f.data) > Short BY <2>4, Numbers
  <2>10. InHeader(f)'
    <3>1. CASE headerBytes < HeadLen
      <4>1. masks = 0 /\ parseHeaderStep = 0 /\ at.byte = headerBytes BY <2>1, <3>1 DEF InHead
      <4>2. at'.byte = HeadLen BY <1>1, <2>5, <4>1, Header, Numbers
      <4>3. /\ masks' < MaskLen /\ (masks' > 0 => f.masked) /\ masks' = 0
            /\ at'.byte = IF parseHeaderStep' = 1 THEN MaskStart(f) + masks' ELSE HeadLen
            /\ parseHeaderStep' \in {0, 1}
        BY <1>4, <2>4, <2>7, <4>1, <4>2, Numbers
      <4>4. CASE Len(f.data) <= Short
        <5>1. parseHeaderStep' = 1 /\ ~(Len(f.data) > Short) BY <1>4, <2>4, <4>4, Numbers
        <5>2. pc' = IF f.masked THEN "masks" ELSE "wait" BY <2>8, <5>1
        <5> QED BY <1>4, <2>6, <4>3, <4>4, <5>1, <5>2, Zenon DEF InHeader
      <4>5. CASE Len(f.data) > Short
        <5>1. parseHeaderStep' = 0 /\ ~(Len(f.data) <= Short) BY <1>4, <2>4, <4>1, <4>5, Numbers
        <5>2. pc' = "length" BY <2>8, <4>1, <4>5
        <5> QED BY <1>4, <4>3, <4>5, <5>1, <5>2 DEF InHeader
      <4> QED BY <2>9, <4>4, <4>5
    <3>2. CASE headerBytes = HeadLen
      <4>1. InHeader(f) /\ at'.byte = at.byte BY <1>1, <2>1, <2>5, <3>2, Numbers, Places
      <4>2. CASE Len(f.data) <= Short
        <5>1. parseHeaderStep' = 1 /\ parseHeaderStep = 1 /\ ~(Len(f.data) > Short)
          BY <1>4, <2>4, <4>1, <4>2, Numbers DEF InHeader
        <5>2. pc' = IF f.masked THEN "masks" ELSE "wait" BY <2>8, <5>1
        <5> QED BY <1>4, <2>6, <4>1, <4>2, <5>1, <5>2 DEF InHeader
      <4>3. CASE Len(f.data) > Short
        <5>1. parseHeaderStep' = parseHeaderStep /\ ~(Len(f.data) <= Short)
          BY <1>4, <2>4, <4>1, <4>3, Numbers
        <5>2. masks = 0 /\ (parseHeaderStep = 0 \/ ~f.masked) /\ parseHeaderStep \in {0, 1}
          BY <1>2, <4>1, <4>3 DEF InHeader
        <5>3. CASE parseHeaderStep = 0
          <6>1. pc' = "length" BY <2>8, <4>3, <5>3
          <6> QED BY <1>4, <4>1, <4>3, <5>1, <5>2, <5>3, <6>1 DEF InHeader
        <5>4. CASE parseHeaderStep = 1
          <6>1. pc' = "wait" BY <2>8, <5>2, <5>4
          <6> QED BY <1>4, <4>1, <4>3, <5>1, <5>2, <5>4, <6>1 DEF InHeader
        <5> QED BY <5>2, <5>3, <5>4
      <4> QED BY <2>9, <4>2, <4>3
    <3> QED BY <3>1, <3>2, Header, Numbers
  <2>11. Uncut' BY <1>2, <2>1 DEF Uncut, peerVars
  <2>12. frames'[at'.frame] = f /\ ~parseHeader' /\ ~(headerBytes' < HeadLen)
    BY <1>1, <1>4, <2>1, <2>2, Numbers
  <2> QED BY <2>10, <2>11, <2>12 DEF Parsing
<1> QED BY <1>1, <1>3, <1>4 DEF HeadParse

\* The extended length comes whole.
LEMMA ParsingLength ==
  ASSUME TypeOK, Located, Parsing, ~splits, LengthRead
  PROVE  Parsing'
<1>1. PICK f, n : f = frames[at.frame] /\ n = Got(LengthLen) OBVIOUS
<1>2. /\ pc = "length" /\ inbound > 0 /\ at.byte = Due /\ pc' = AfterLength(f) /\ Skip(n)
      /\ UNCHANGED <<peerVars, isHandleShake, headerBytes, parseHeader, opcode, final, masks,
                     buffers, out>>
      /\ \/ n = LengthLen /\ fragmentLength' = Len(f.data) /\ parseHeaderStep' = 1
         \/ n < LengthLen /\ UNCHANGED <<fragmentLength, parseHeaderStep>>
  BY <1>1 DEF LengthRead, Reads
<1>3. /\ Accounted /\ Uncut /\ ~parseHeader /\ headerBytes = HeadLen /\ InHeader(f)
      /\ at.frame \in 1..Len(frames) /\ ahead <= Size(frames[Len(frames)])
  BY <1>1, <1>2, Orderly, Places
<1>4. f \in Frames /\ Len(f.data) > Short /\ parseHeaderStep = 0 /\ masks = 0
      /\ (masks > 0 => f.masked)
  BY <1>1, <1>2, <1>3, Places DEF InHeader
<1>5. at.byte = HeadLen BY <1>2 DEF Due
<1>6. /\ MaskStart(f) = HeadLen + LengthLen /\ PayloadStart(f) \in Nat
      /\ PayloadStart(f) = IF f.masked THEN MaskStart(f) + MaskLen ELSE MaskStart(f)
      /\ Len(f.data) \in Nat
  BY <1>4, FrameIs
<1>7. PayloadStart(f) >= HeadLen + LengthLen BY <1>6, Numbers
<1>8. at.byte + inbound \notin HeadLen + 1..PayloadStart(f) - 1
  BY <1>1, <1>3, <1>4, Available
<1>9. inbound >= LengthLen
  BY <1>2, <1>5, <1>6, <1>7, <1>8, Places, Numbers, SMTT(60)
<1>10. n = LengthLen /\ n \in Nat BY <1>1, <1>9, GotIs, Numbers, Places
<1>11. fragmentLength' = Len(f.data) /\ parseHeaderStep' = 1 BY <1>2, <1>10, Numbers
<1>12. at'.byte = MaskStart(f) + masks' /\ masks' = 0 /\ at'.frame = at.frame
  BY <1>2, <1>4, <1>5, <1>6, <1>10, Places, Numbers DEF Skip
<1>13. pc' = IF f.masked THEN "masks" ELSE "wait" BY <1>2 DEF AfterLength
<1>14. InHeader(f)'
  <2>1. ~(Len(f.data) <= Short) /\ 0 < MaskLen BY <1>4, <1>6, Numbers
  <2>2. ~f.rsv /\ opcode' = f.op /\ final' = f.fin BY <1>2, <1>3 DEF InHeader
  <2> QED BY <1>4, <1>11, <1>12, <1>13, <2>1, <2>2, Numbers DEF InHeader
<1>15. Uncut' BY <1>2, <1>3 DEF Uncut, peerVars
<1>16. frames'[at'.frame] = f /\ ~parseHeader' /\ ~(headerBytes' < HeadLen)
  BY <1>1, <1>2, <1>3, <1>12, Numbers DEF peerVars
<1> QED BY <1>14, <1>15, <1>16 DEF Parsing

\* The masking key of a long frame comes whole.
LEMMA ParsingMasks ==
  ASSUME TypeOK, Located, Parsing, ~splits, MasksRead
  PROVE  Parsing'
<1>1. PICK n, whole, f : /\ n = Got(MasksMissing) /\ whole = (masks + n = MaskLen)
                         /\ f = frames[at.frame]
  OBVIOUS
<1>2. /\ pc = "masks" /\ Skip(n) /\ masks' = masks + n
      /\ parseHeaderStep' = IF whole THEN 2 ELSE parseHeaderStep
      /\ parseHeader' = whole
      /\ headerBytes' = IF whole THEN 0 ELSE headerBytes
      /\ pc' = IF whole THEN "frame" ELSE "wait"
      /\ UNCHANGED <<peerVars, isHandleShake, opcode, final, fragmentLength, buffers, out>>
  BY <1>1, Zenon DEF MasksRead, Reads
<1>3. /\ Accounted /\ Uncut /\ ~parseHeader /\ headerBytes = HeadLen /\ InHeader(f)
      /\ at.frame \in 1..Len(frames) /\ ahead <= Size(frames[Len(frames)]) /\ rBuffer = <<>>
  BY <1>1, <1>2, Orderly, Places
<1>4. /\ f \in Frames /\ f.masked /\ ~f.rsv /\ opcode = f.op /\ final = f.fin
      /\ parseHeaderStep = 1 /\ fragmentLength = Len(f.data)
      /\ at.byte = MaskStart(f) + masks
      /\ Len(f.data) > Short => masks = 0
  BY <1>1, <1>2, <1>3, Places DEF InHeader
<1>5. /\ MaskStart(f) = (IF Len(f.data) > Short THEN HeadLen + LengthLen ELSE HeadLen)
      /\ MaskStart(f) \in Nat /\ Len(f.data) \in Nat
      /\ PayloadStart(f) = MaskStart(f) + MaskLen
  BY <1>4, FrameIs
<1>6. MasksMissing \in Nat /\ MasksMissing = MaskLen - masks BY Header, Numbers DEF MasksMissing
<1>7. n \in Nat /\ masks + n \in 0..MaskLen
  <2>1. n \in Nat /\ n <= MasksMissing BY <1>1, <1>6, GotIs
  <2> QED BY <1>6, <2>1, Header, Numbers
<1>8. at'.byte = (MaskStart(f) + masks) + n /\ at'.frame = at.frame
  BY <1>2, <1>4, <1>7, Places DEF Skip
<1>9. at'.byte = MaskStart(f) + (masks + n) BY <1>5, <1>7, <1>8, Header
<1>10. Uncut' BY <1>2, <1>3 DEF Uncut, peerVars
<1>11. frames'[at'.frame] = f /\ rBuffer' = <<>> /\ opcode' = f.op /\ final' = f.fin
       /\ fragmentLength' = Len(f.data)
  BY <1>1, <1>2, <1>3, <1>4, <1>8 DEF peerVars, buffers
<1>12. CASE whole
  <2>1. masks + n = MaskLen BY <1>1, <1>12
  <2>2. at'.byte = PayloadStart(f) + Len(rBuffer') BY <1>5, <1>9, <1>11, <2>1, Numbers
  <2>3. rBuffer' = SubSeq(f.data, 1, Len(rBuffer'))
    <3>1. f.data \in Seq(Nat) BY <1>4, FrameIs
    <3>2. Len(rBuffer') = 0 /\ SubSeq(f.data, 1, 0) = <<>> BY <1>11, <3>1
    <3> QED BY <1>11, <3>2
  <2>4. headerBytes' = 0 /\ pc' = "frame" /\ parseHeader' = TRUE BY <1>2, <1>12
  <2>5. InPayload(f)' BY <1>4, <1>11, <2>2, <2>3, <2>4 DEF InPayload
  <2> QED BY <1>10, <1>11, <2>4, <2>5 DEF Parsing
<1>13. CASE ~whole
  <2>1. masks + n # MaskLen BY <1>1, <1>13
  <2>2. n = inbound /\ masks' < MaskLen
    <3>1. n # MasksMissing BY <1>6, <1>7, <2>1, Header, Numbers
    <3>2. ~(MasksMissing <= inbound) BY <1>1, <1>6, <3>1, GotIs
    <3>3. inbound < MasksMissing BY <1>6, <3>2, Places
    <3>4. n = inbound BY <1>1, <1>6, <3>3, GotIs
    <3>5. masks + n < MaskLen BY <1>7, <2>1, Numbers
    <3> QED BY <1>2, <3>4, <3>5
  <2>3. ~(Len(f.data) > Short)
    <3> SUFFICES ASSUME Len(f.data) > Short PROVE FALSE OBVIOUS
    <3>1. at.byte + inbound \in HeadLen + 1..PayloadStart(f) - 1
      <4>1. masks = 0 /\ at.byte = MaskStart(f) /\ MaskStart(f) = HeadLen + LengthLen
        BY <1>4, <1>5
      <4> QED BY <1>2, <1>5, <2>2, <4>1, Numbers, Places, SMTT(60)
    <3> QED BY <1>1, <1>3, <1>4, <3>1, Available
  <2>4. parseHeaderStep' = 1 /\ pc' = "wait" /\ parseHeader' = FALSE /\ headerBytes' = headerBytes
    BY <1>2, <1>4, <1>13
  <2>5. at'.byte = MaskStart(f) + masks' BY <1>2, <1>9
  <2>6. InHeader(f)'
    BY <1>4, <1>11, <2>2, <2>3, <2>4, <2>5 DEF InHeader
  <2>7. ~(headerBytes' < HeadLen) BY <1>3, <2>4, Numbers
  <2> QED BY <1>10, <1>11, <2>4, <2>6, <2>7 DEF Parsing
<1> QED BY <1>1, <1>12, <1>13

\* The payload, or a part of it.
LEMMA ParsingPayload ==
  ASSUME TypeOK, Located, Parsing, ~splits, FramePart
  PROVE  Parsing'
<1>1. /\ NextFrame /\ pc = "frame" /\ rBuffer' = Fragment /\ pc' = "wait"
      /\ UNCHANGED <<header, packetBuffer, continueBuffer, messageMode, out>>
  BY DEF FramePart, NextFrame
<1>2. PICK f \in Frames : f = frames[at.frame] /\ InPayload(f) BY <1>1, Orderly, Places
<1>3. /\ UNCHANGED peerVars /\ Taken \in Nat
      /\ Fragment \in Seq(Nat) /\ Len(Fragment) = Len(rBuffer) + Taken
      /\ rBuffer = SubSeq(f.data, 1, Len(rBuffer)) => Fragment = SubSeq(f.data, 1, Len(Fragment))
  BY <1>1, <1>2, Payload
<1>4. at'.frame = at.frame /\ at'.byte = at.byte + Taken BY FramePartTyped
<1>5. at'.byte = PayloadStart(f) + Len(rBuffer')
  <2>1. PayloadStart(f) \in Nat /\ Len(rBuffer) \in Nat BY FrameIs, Header
  <2>2. at.byte = PayloadStart(f) + Len(rBuffer) BY <1>2 DEF InPayload
  <2>3. (PayloadStart(f) + Len(rBuffer)) + Taken = PayloadStart(f) + (Len(rBuffer) + Taken)
    BY <1>3, <2>1
  <2> QED BY <1>1, <1>3, <1>4, <2>2, <2>3
<1>6. rBuffer' = SubSeq(f.data, 1, Len(rBuffer')) BY <1>1, <1>2, <1>3 DEF InPayload
<1>7. InPayload(f)'
  <2>1. UNCHANGED <<opcode, final, fragmentLength, headerBytes>> BY <1>1 DEF header
  <2>2. /\ ~f.rsv /\ f.masked /\ opcode = f.op /\ final = f.fin /\ fragmentLength = Len(f.data)
        /\ headerBytes = 0
    BY <1>2 DEF InPayload
  <2> QED BY <1>1, <1>5, <1>6, <2>1, <2>2 DEF InPayload
<1>8. Uncut'
  <2>1. Uncut BY <1>1, Orderly
  <2> QED BY <1>3, <2>1 DEF Uncut, peerVars
<1>9. frames'[at'.frame] = f /\ parseHeader'
  <2>1. parseHeader BY <1>1, Orderly
  <2> QED BY <1>1, <1>2, <1>3, <1>4, <2>1 DEF peerVars, header
<1> QED BY <1>7, <1>8, <1>9 DEF Parsing

\* A frame whose payload is complete has been read as it was sent.
LEMMA Completed ==
  ASSUME TypeOK, Located, Parsing, ~splits, Complete
  PROVE  /\ at.frame \in 1..Len(frames) /\ frames[at.frame] \in Frames
         /\ Fragment = frames[at.frame].data
         /\ opcode = frames[at.frame].op /\ final = frames[at.frame].fin
         /\ fragmentLength = Len(frames[at.frame].data)
         /\ ~frames[at.frame].rsv /\ frames[at.frame].masked
         /\ at' = [frame |-> at.frame + 1, byte |-> 0]
         /\ ~OpcodeFails /\ ~NoPayload
<1>1. NextFrame /\ pc = "frame" /\ Len(Fragment) = fragmentLength /\ ~OpcodeFails /\ ~NoPayload
  BY DEF Complete, NextFrame
<1>2. PICK f \in Frames : f = frames[at.frame] /\ InPayload(f) BY <1>1, Orderly, Places
<1>3. /\ at.frame \in 1..Len(frames) /\ Taken \in Nat
      /\ Fragment \in Seq(Nat) /\ Len(Fragment) = Len(rBuffer) + Taken
      /\ rBuffer = SubSeq(f.data, 1, Len(rBuffer)) => Fragment = SubSeq(f.data, 1, Len(Fragment))
  BY <1>1, <1>2, Payload
<1>4. /\ ~f.rsv /\ f.masked /\ opcode = f.op /\ final = f.fin /\ fragmentLength = Len(f.data)
      /\ at.byte = PayloadStart(f) + Len(rBuffer)
      /\ rBuffer = SubSeq(f.data, 1, Len(rBuffer))
  BY <1>2 DEF InPayload
<1>5. /\ f.data \in Seq(Nat) /\ PayloadStart(f) \in Nat
      /\ Size(f) = PayloadStart(f) + Len(f.data) /\ Len(f.data) \in Nat
  BY FrameIs
<1>6. Fragment = f.data
  <2>1. Fragment = SubSeq(f.data, 1, Len(f.data)) BY <1>1, <1>3, <1>4
  <2> QED BY <1>5, <2>1
<1>7. at.byte + Taken = Size(f)
  <2>1. Len(rBuffer) \in Nat BY Header
  <2>2. Len(rBuffer) + Taken = Len(f.data) BY <1>1, <1>3, <1>4
  <2>3. (PayloadStart(f) + Len(rBuffer)) + Taken = PayloadStart(f) + (Len(rBuffer) + Taken)
    BY <1>3, <1>5, <2>1
  <2> QED BY <1>4, <1>5, <2>2, <2>3
<1>8. at' = [frame |-> at.frame + 1, byte |-> 0] BY <1>1, <1>2, <1>7 DEF NextFrame
<1> QED BY <1>1, <1>2, <1>3, <1>4, <1>6, <1>8

\* The end of a frame: the next one begins.
LEMMA ParsingDone ==
  ASSUME TypeOK, Located, Parsing, ~splits, Complete, Reset, pc' = "wait"
  PROVE  Parsing'
<1>1. NextFrame /\ pc = "frame" /\ UNCHANGED peerVars BY DEF Complete, NextFrame
<1>2. /\ parseHeader' = FALSE /\ headerBytes' = 0 /\ masks' = 0 /\ parseHeaderStep' = 0
      /\ opcode' = 0
  BY DEF Reset
<1>3. at'.byte = 0 BY Completed
<1>4. InHead' BY <1>2, <1>3 DEF InHead
<1>5. Uncut'
  <2>1. Uncut BY <1>1, Orderly
  <2> QED BY <1>1, <2>1 DEF Uncut, peerVars
<1>6. headerBytes' # HeadLen BY <1>2 DEF HeadLen
<1> QED BY <1>2, <1>4, <1>5, <1>6 DEF Parsing

\* The peer begins a frame, or a segment arrives.
LEMMA ParsingPeer ==
  ASSUME TypeOK, Located, Parsing, ~splits,
         PeerEnds \/ (\E f \in Frames : PeerSends(f)) \/ (\E n \in 1..ahead : Arrive(n))
  PROVE  Parsing'
<1>1. UNCHANGED <<splits, at, isHandleShake, headerBytes, parseHeader, parseHeaderStep, opcode,
                  final, fragmentLength, masks, rBuffer, pc, conn>>
  BY DEF PeerEnds, PeerSends, Arrive, header, buffers, out
<1> SUFFICES ASSUME conn = "open", isHandleShake = TRUE
             PROVE  /\ Uncut'
                    /\ ~parseHeader /\ headerBytes < HeadLen => InHead'
                    /\ ~parseHeader /\ headerBytes = HeadLen => InHeader(frames[at.frame])'
                    /\ parseHeader => InPayload(frames[at.frame])'
  BY <1>1 DEF Parsing
<1>2. /\ Uncut /\ Accounted /\ Inside
      /\ ~parseHeader /\ headerBytes < HeadLen => InHead
      /\ ~parseHeader /\ headerBytes = HeadLen => InHeader(frames[at.frame])
      /\ parseHeader => InPayload(frames[at.frame])
  BY DEF Parsing, Located
<1>3. \A k \in 1..Len(frames) : frames'[k] = frames[k]
  <2>1. CASE \E f \in Frames : PeerSends(f)
    <3>1. PICK f \in Frames : frames' = Append(frames, f) BY <2>1 DEF PeerSends
    <3> QED BY <3>1, Places
  <2> QED BY <2>1 DEF PeerEnds, Arrive
<1>4. headerBytes = HeadLen \/ parseHeader => frames'[at'.frame] = frames[at.frame]
  <2>1. headerBytes = HeadLen \/ parseHeader => at.frame \in 1..Len(frames)
    BY <1>2, Places, Numbers DEF Inside
  <2> QED BY <1>1, <1>3, <2>1
<1>5. ~parseHeader /\ headerBytes < HeadLen => InHead' BY <1>1, <1>2 DEF InHead
<1>6. ASSUME ~parseHeader, headerBytes = HeadLen PROVE InHeader(frames[at.frame])'
  <2>1. PICK f : f = frames[at.frame] OBVIOUS
  <2>2. InHeader(f)' BY <1>1, <1>2, <1>6, <2>1 DEF InHeader
  <2>3. frames'[at'.frame] = f BY <1>4, <1>6, <2>1
  <2> QED BY <2>2, <2>3
<1>7. ASSUME parseHeader PROVE InPayload(frames[at.frame])'
  <2>1. PICK f : f = frames[at.frame] OBVIOUS
  <2>2. InPayload(f)' BY <1>1, <1>2, <1>7, <2>1 DEF InPayload
  <2>3. frames'[at'.frame] = f BY <1>4, <1>7, <2>1
  <2> QED BY <2>2, <2>3
<1>8. Uncut'
  <2>1. CASE \E f \in Frames : PeerSends(f)
    <3>1. PICK f \in Frames : frames' = Append(frames, f) /\ ahead' = Size(f) BY <2>1 DEF PeerSends
    <3>2. frames'[Len(frames')] = f BY <3>1, Places
    <3>3. Size(f) - ahead' = 0 BY <3>1, FrameIs
    <3>4. PayloadStart(f) \in Nat BY FrameIs
    <3>5. 0 \notin HeadLen + 1..PayloadStart(f) - 1 BY <3>4, Numbers
    <3> QED BY <3>2, <3>3, <3>5 DEF Uncut
  <2>2. CASE \E n \in 1..ahead : Arrive(n)
    <3>1. PICK n \in 1..ahead :
            /\ frames' = frames /\ ahead' = ahead - n
            /\ MayCut((IF frames = <<>> THEN RequestLen ELSE Size(Last(frames))) - (ahead - n))
      BY <2>2 DEF Arrive
    <3>2. ASSUME frames # <<>>, NEW f, f = frames[Len(frames)], Len(f.data) > Short
          PROVE  Size(f) - ahead' \notin HeadLen + 1..PayloadStart(f) - 1
      <4>1. Last(frames) = f BY <3>2 DEF Last
      <4>2. MayCut(Size(f) - ahead') BY <3>1, <3>2, <4>1
      <4> QED BY <3>2, <4>1, <4>2 DEF MayCut
    <3> QED BY <3>1, <3>2 DEF Uncut
  <2>3. CASE PeerEnds BY <1>2, <2>3 DEF PeerEnds, Uncut
  <2> QED BY <2>1, <2>2, <2>3
<1> QED BY <1>5, <1>6, <1>7, <1>8

\* In a stream whose long headers are not cut, the decoder is always where it
\* takes itself to be.
LEMMA ParsingKept ==
  ASSUME TypeOK, Located, TypeOK', Located', Parsing, [Next]_vars
  PROVE  Parsing'
<1>1. splits' = splits BY DEF Next, vars, peerVars, PollerStep, PeerEnds, PeerSends, Arrive, Event,
        Again, EndOfStream, Derail, HandShake, HeadPart, HeadParse, LengthRead, MasksRead,
        FrameRefused, FramePart, FrameFragment, FrameNotUtf8, FrameMessage, FramePing, FramePong,
        FrameClose, Complete, Accept, NextFrame
<1>2. CASE splits BY <1>1, <1>2 DEF Parsing
<1>3. CASE ~splits
  <2>1. CASE UNCHANGED vars
    BY <2>1 DEF vars, peerVars, header, buffers, out, Parsing, Uncut, InHead, InHeader, InPayload
  <2>2. CASE PollerStep
    <3>1. CASE \E code \in Nat : CloseCode(code) BY <3>1 DEF CloseCode, Parsing
    <3>2. EndOfStream \/ FrameRefused \/ FrameNotUtf8 \/ FrameClose
          => \E code \in Nat : CloseCode(code)
      BY DEF EndOfStream, FrameRefused, FrameNotUtf8, FrameClose
    <3>3. FrameFragment \/ FrameMessage \/ FramePing \/ FramePong
          => Complete /\ Reset /\ pc' = "wait"
      BY DEF FrameFragment, FrameMessage, FramePing, FramePong, Accept
    <3> QED BY <1>3, <2>2, <3>1, <3>2, <3>3, NeverLost, ParsingWaits, ParsingBegins, ParsingHead,
               ParsingParse, ParsingLength, ParsingMasks, ParsingPayload, ParsingDone
            DEF PollerStep
  <2> QED BY <1>3, <2>1, <2>2, ParsingPeer DEF Next
<1> QED BY <1>2, <1>3

LEMMA AlwaysParsing == Spec => []Parsing
<1>1. Init => Parsing BY DEF Init, Parsing
<1>2. TypeOK /\ Located /\ (TypeOK /\ Located)' /\ Parsing /\ [Next]_vars => Parsing'
  BY ParsingKept
<1> QED BY <1>1, <1>2, AlwaysLocated, PTL DEF Spec

\* Then what is kept between two events is the beginning of the frame.
LEMMA ParsingResumes == TypeOK /\ Located /\ Parsing => Resumes
<1> SUFFICES ASSUME TypeOK, Located, Parsing, ~splits, conn = "open", isHandleShake
             PROVE  /\ pc # "lost"
                    /\ pc = "wait" /\ at.frame > Len(frames) =>
                         headerBytes = 0 /\ masks = 0 /\ ~parseHeader
                    /\ pc = "wait" /\ at.frame <= Len(frames) =>
                         LET f == frames[at.frame] IN
                         /\ at.byte = Held(f)
                         /\ rBuffer = SubSeq(f.data, 1, Len(rBuffer))
                         /\ parseHeader =>
                              <<opcode, final, fragmentLength>> = <<f.op, f.fin, Len(f.data)>>
  BY DEF Resumes
<1>1. /\ Inside
      /\ ~parseHeader /\ headerBytes < HeadLen => InHead
      /\ ~parseHeader /\ headerBytes = HeadLen => InHeader(frames[at.frame])
      /\ parseHeader => InPayload(frames[at.frame])
  BY DEF Located, Parsing
<1>2. headerBytes < HeadLen \/ headerBytes = HeadLen BY Header, Numbers
<1>3. pc # "lost" BY <1>1, <1>2 DEF InHead, InHeader, InPayload
<1>4. at.frame > Len(frames) => headerBytes = 0 /\ masks = 0 /\ ~parseHeader
  <2>1. headerBytes > 0 \/ masks > 0 \/ parseHeader => at.frame <= Len(frames)
    BY <1>1 DEF Inside
  <2> QED BY <2>1, Header, Places, Numbers, SMTT(60)
<1>5. ASSUME at.frame <= Len(frames), NEW f, f = frames[at.frame], pc = "wait"
      PROVE  /\ at.byte = Held(f)
             /\ rBuffer = SubSeq(f.data, 1, Len(rBuffer))
             /\ parseHeader =>
                  <<opcode, final, fragmentLength>> = <<f.op, f.fin, Len(f.data)>>
  <2>1. f \in Frames BY <1>1, <1>5, Places DEF Inside
  <2>2. /\ MaskStart(f) = (IF Len(f.data) > Short THEN HeadLen + LengthLen ELSE HeadLen)
        /\ f.data \in Seq(Nat) /\ Len(f.data) \in Nat
    BY <2>1, FrameIs
  <2>3. CASE parseHeader BY <1>1, <1>5, <2>3 DEF InPayload, Held
  <2>4. CASE ~parseHeader
    <3>1. rBuffer = <<>> /\ SubSeq(f.data, 1, 0) = <<>> BY <1>1, <2>2, <2>4 DEF Inside
    <3>2. at.byte = headerBytes + masks
                      + (IF Len(f.data) > Short /\ parseHeaderStep = 1 THEN LengthLen ELSE 0)
      <4>1. CASE headerBytes < HeadLen
        <5>1. masks = 0 /\ parseHeaderStep = 0 /\ at.byte = headerBytes
          BY <1>1, <2>4, <4>1 DEF InHead
        <5> QED BY <5>1, Header, Numbers
      <4>2. CASE headerBytes = HeadLen
        <5>1. InHeader(f) BY <1>1, <1>5, <2>4, <4>2
        <5>2. CASE parseHeaderStep = 1
          <6>1. at.byte = MaskStart(f) + masks BY <5>1, <5>2 DEF InHeader
          <6>2. masks \in Nat /\ HeadLen \in Nat /\ LengthLen \in Nat BY Header, Numbers
          <6>3. CASE Len(f.data) > Short
            <7>1. at.byte = (HeadLen + LengthLen) + masks BY <2>2, <6>1, <6>3
            <7> QED BY <4>2, <5>2, <6>2, <6>3, <7>1
          <6>4. CASE ~(Len(f.data) > Short)
            <7>1. at.byte = HeadLen + masks BY <2>2, <6>1, <6>4
            <7> QED BY <4>2, <5>2, <6>2, <6>4, <7>1
          <6> QED BY <6>3, <6>4
        <5>3. CASE parseHeaderStep = 0
          <6>1. at.byte = HeadLen /\ masks = 0 BY <2>2, <5>1, <5>3, Numbers DEF InHeader
          <6> QED BY <4>2, <5>3, <6>1, Numbers
        <5> QED BY <5>1, <5>2, <5>3 DEF InHeader
      <4> QED BY <1>2, <4>1, <4>2
    <3> QED BY <2>4, <3>1, <3>2 DEF Held
  <2> QED BY <2>3, <2>4, Header
<1> QED BY <1>3, <1>4, <1>5

-----------------------------------------------------------------------------
(* Concatenations, and the least element of a set.                         *)

\* Every set of natural numbers that is not empty has a least element: what
\* the proofs below use for induction.
LEMMA LeastNumber ==
  ASSUME NEW T \in SUBSET Nat, T # {}
  PROVE  Min(T) \in T /\ \A y \in T : Min(T) <= y
<1>1. PICK R : R = {ss \in Nat \X Nat : ss[1] < ss[2]} OBVIOUS
<1>2. IsWellFoundedOn(R, Nat) BY <1>1, NatLessThanWellFounded, Zenon DEF OpToRel
<1>3. PICK x \in T : \A y \in T : ~(<<y, x>> \in R) BY <1>2, WFMin
<1>4. ASSUME NEW y \in T PROVE x <= y
  <2>1. x \in Nat /\ y \in Nat /\ (x <= y \/ y < x) OBVIOUS
  <2>2. y < x => <<y, x>> \in R
    <3>1. y < x => <<y, x>>[1] < <<y, x>>[2] /\ <<y, x>> \in Nat \X Nat BY <2>1
    <3> QED BY <1>1, <3>1
  <2> QED BY <1>3, <2>1, <2>2
<1> QED BY <1>4 DEF Min

\* The least element of a set that has been given a larger one.
LEMMA MinKept ==
  ASSUME NEW T \in SUBSET Nat, NEW k \in Nat, \A i \in T : i < k
  PROVE  Min(T \cup {k}) = IF T = {} THEN k ELSE Min(T)
<1>1. PICK U \in SUBSET Nat : U = T \cup {k} OBVIOUS
<1>2. Min(U) \in U /\ \A y \in U : Min(U) <= y BY <1>1, LeastNumber
<1>3. CASE T = {} BY <1>1, <1>2, <1>3
<1>4. CASE T # {}
  <2>1. Min(T) \in T /\ \A y \in T : Min(T) <= y BY <1>4, LeastNumber
  <2>2. Min(T) \in U /\ Min(U) <= Min(T) /\ Min(T) < k BY <1>1, <1>2, <2>1
  <2>3. Min(U) # k
    <3>1. Min(T) \in Nat /\ Min(U) \in Nat BY <1>2, <2>1
    <3> QED BY <2>2, <3>1
  <2>4. Min(U) \in T BY <1>1, <1>2, <2>3
  <2>5. Min(T) <= Min(U) BY <2>1, <2>4
  <2>6. Min(T) \in Nat /\ Min(U) \in Nat BY <2>1, <2>4
  <2> QED BY <1>1, <1>4, <2>2, <2>5, <2>6
<1> QED BY <1>3, <1>4

\* What FlattenSeq makes of the first elements of s, step by step.
Joined(g, s, m) == g = [i \in 1..m |-> IF i = 1 THEN s[i] ELSE g[i - 1] \o s[i]]

\* The first elements are the same.
Agree(s, t, m) == \A i \in 1..m : s[i] = t[i]

\* There is such a function.
LEMMA JoinedExists ==
  ASSUME NEW s, NEW m \in Nat \ {0}
  PROVE  \E g : Joined(g, s, m)
<1> SUFFICES ASSUME \A g : ~Joined(g, s, m) PROVE FALSE OBVIOUS
<1>1. PICK T \in SUBSET Nat : T = {k \in Nat \ {0} : \A g : ~Joined(g, s, k)}
  <2>1. {k \in Nat \ {0} : \A g : ~Joined(g, s, k)} \in SUBSET Nat OBVIOUS
  <2> QED BY <2>1
<1>2. PICK t \in T : \A y \in T : t <= y BY <1>1, LeastNumber
<1>3. t \in Nat \ {0} BY <1>1
<1>4. CASE t = 1
  <2>1. PICK g : g = [i \in 1..1 |-> s[i]] OBVIOUS
  <2>2. [i \in 1..1 |-> IF i = 1 THEN s[i] ELSE g[i - 1] \o s[i]] = [i \in 1..1 |-> s[i]]
    OBVIOUS
  <2>3. Joined(g, s, 1) BY <2>1, <2>2 DEF Joined
  <2> QED BY <1>1, <1>4, <2>3
<1>5. CASE t > 1
  <2>1. t - 1 \in Nat \ {0} /\ ~(t <= t - 1) BY <1>3, <1>5
  <2>2. t - 1 \notin T BY <1>2, <2>1
  <2>3. PICK g : Joined(g, s, t - 1) BY <1>1, <2>1, <2>2
  <2>4. PICK h : h = [i \in 1..t |-> IF i = t THEN g[t - 1] \o s[t] ELSE g[i]] OBVIOUS
  <2>5. ASSUME NEW i \in 1..t PROVE h[i] = IF i = 1 THEN s[i] ELSE h[i - 1] \o s[i]
    <3>1. CASE i = t
      <4>1. t - 1 \in 1..t /\ t - 1 # t /\ t # 1 BY <1>3, <1>5
      <4>2. h[t - 1] = g[t - 1] BY <2>4, <4>1
      <4>3. h[t] = g[t - 1] \o s[t] BY <2>4, <3>1
      <4> QED BY <3>1, <4>1, <4>2, <4>3
    <3>2. CASE i # t
      <4>1. i \in 1..t - 1 BY <1>3, <3>2
      <4>2. g[i] = IF i = 1 THEN s[i] ELSE g[i - 1] \o s[i] BY <2>3, <4>1 DEF Joined
      <4>3. i # 1 => i - 1 \in 1..t /\ i - 1 # t BY <1>3, <3>2
      <4> QED BY <2>4, <3>2, <4>2, <4>3
    <3> QED BY <3>1, <3>2
  <2>6. h = [i \in 1..t |-> h[i]] BY <2>4
  <2>7. Joined(h, s, t) BY <2>5, <2>6 DEF Joined
  <2> QED BY <1>1, <2>7
<1> QED BY <1>3, <1>4, <1>5

\* It is the same for sequences that begin with the same elements.
LEMMA JoinedSame ==
  ASSUME NEW s, NEW t, NEW g, NEW h, NEW m \in Nat, NEW n \in Nat, m <= n,
         Joined(g, s, m), Joined(h, t, n), Agree(s, t, m)
  PROVE  Agree(g, h, m)
<1> USE DEF Agree
<1> SUFFICES ASSUME \E i \in 1..m : g[i] # h[i] PROVE FALSE OBVIOUS
<1>1. PICK T \in SUBSET Nat : T = {i \in 1..m : g[i] # h[i]}
  <2>1. {i \in 1..m : g[i] # h[i]} \in SUBSET Nat OBVIOUS
  <2> QED BY <2>1
<1>2. PICK k \in T : \A y \in T : k <= y BY <1>1, LeastNumber
<1>3. k \in 1..m /\ k \in 1..n /\ g[k] # h[k] BY <1>1
<1>4. g[k] = IF k = 1 THEN s[k] ELSE g[k - 1] \o s[k] BY <1>3 DEF Joined
<1>5. h[k] = IF k = 1 THEN t[k] ELSE h[k - 1] \o t[k] BY <1>3 DEF Joined
<1>6. CASE k = 1 BY <1>3, <1>4, <1>5, <1>6
<1>7. CASE k # 1
  <2>1. k - 1 \in 1..m /\ ~(k <= k - 1) BY <1>3, <1>7
  <2>2. g[k - 1] = h[k - 1] BY <1>1, <1>2, <2>1
  <2> QED BY <1>3, <1>4, <1>5, <1>7, <2>2
<1> QED BY <1>6, <1>7

\* FlattenSeq finds it.
LEMMA FlattenIs ==
  ASSUME NEW s, NEW m \in Nat \ {0}, Len(s) = m, NEW g, Joined(g, s, m)
  PROVE  FlattenSeq(s) = g[m]
<1> DEFINE flatten == CHOOSE f : Joined(f, s, m)
<1>1. FlattenSeq(s) = flatten[m] BY DEF FlattenSeq, Joined
<1>2. PICK f : f = flatten /\ Joined(f, s, m) OBVIOUS
<1>3. m \in 1..m /\ m \in Nat /\ m <= m OBVIOUS
<1>4. f[m] = g[m]
  <2>1. Agree(s, s, m) BY DEF Agree
  <2>2. Agree(f, g, m) BY <1>2, <1>3, <2>1, JoinedSame
  <2> QED BY <1>3, <2>2 DEF Agree
<1> QED BY <1>1, <1>2, <1>4

\* Of a sequence of sequences.
LEMMA FlattenTyped ==
  ASSUME NEW S, NEW m \in Nat, NEW s \in [1..m -> Seq(S)]
  PROVE  /\ FlattenSeq(s) \in Seq(S)
         /\ m = 0 => FlattenSeq(s) = <<>>
<1>1. Len(s) = m /\ s \in Seq(Seq(S)) BY LenProperties
<1>2. CASE m = 0
  <2>1. s = <<>> BY <1>1, <1>2, EmptySeq
  <2>2. FlattenSeq(s) = s BY <1>1, <1>2 DEF FlattenSeq
  <2>3. <<>> \in Seq(S) OBVIOUS
  <2> QED BY <2>1, <2>2, <2>3, Zenon
<1>3. CASE m # 0
  <2>1. PICK g : Joined(g, s, m) BY <1>3, JoinedExists
  <2>2. FlattenSeq(s) = g[m] BY <1>1, <1>3, <2>1, FlattenIs
  <2>3. \A i \in 1..m : g[i] \in Seq(S)
    <3> SUFFICES ASSUME \E i \in 1..m : g[i] \notin Seq(S) PROVE FALSE OBVIOUS
    <3>1. PICK T \in SUBSET Nat : T = {i \in 1..m : g[i] \notin Seq(S)}
      <4>1. {i \in 1..m : g[i] \notin Seq(S)} \in SUBSET Nat OBVIOUS
      <4> QED BY <4>1
    <3>2. PICK k \in T : \A y \in T : k <= y BY <3>1, LeastNumber
    <3>3. k \in 1..m /\ g[k] \notin Seq(S) BY <3>1
    <3>4. g[k] = IF k = 1 THEN s[k] ELSE g[k - 1] \o s[k] BY <2>1, <3>3 DEF Joined
    <3>5. s[k] \in Seq(S) BY <3>3
    <3>6. k # 1 BY <3>3, <3>4, <3>5
    <3>7. k - 1 \in 1..m /\ ~(k <= k - 1) BY <3>3, <3>6
    <3>8. g[k - 1] \in Seq(S) BY <3>1, <3>2, <3>7
    <3>9. g[k - 1] \o s[k] \in Seq(S) BY <3>5, <3>8, ConcatProperties
    <3> QED BY <3>3, <3>4, <3>6, <3>9
  <2>4. m \in 1..m BY <1>3
  <2> QED BY <1>3, <2>2, <2>3, <2>4
<1> QED BY <1>2, <1>3

\* One element more.
LEMMA FlattenStep ==
  ASSUME NEW S, NEW m \in Nat, NEW s \in [1..m -> Seq(S)], NEW t \in [1..m + 1 -> Seq(S)],
         \A i \in 1..m : t[i] = s[i]
  PROVE  FlattenSeq(t) = FlattenSeq(s) \o t[m + 1]
<1>1. Len(s) = m /\ Len(t) = m + 1 /\ m + 1 \in Nat \ {0} /\ m + 1 \in 1..m + 1
  BY LenProperties
<1>2. PICK h : Joined(h, t, m + 1) BY <1>1, JoinedExists
<1>3. FlattenSeq(t) = h[m + 1] BY <1>1, <1>2, FlattenIs
<1>4. h[m + 1] = IF m + 1 = 1 THEN t[m + 1] ELSE h[(m + 1) - 1] \o t[m + 1]
  BY <1>1, <1>2 DEF Joined
<1>5. CASE m = 0
  <2>1. FlattenSeq(s) = <<>> BY <1>5, FlattenTyped
  <2>2. t[m + 1] \in Seq(S) BY <1>1
  <2>3. <<>> \o t[m + 1] = t[m + 1] BY <2>2
  <2> QED BY <1>3, <1>4, <1>5, <2>1, <2>3
<1>6. CASE m # 0
  <2>1. PICK g : Joined(g, s, m) BY <1>6, JoinedExists
  <2>2. FlattenSeq(s) = g[m] BY <1>1, <1>6, <2>1, FlattenIs
  <2>3. m <= m + 1 /\ m \in 1..m /\ m + 1 # 1 /\ (m + 1) - 1 = m /\ m + 1 \in Nat BY <1>6
  <2>4. Agree(s, t, m) BY DEF Agree
  <2>5. PICK n \in Nat : n = m + 1 /\ m <= n /\ Joined(h, t, n) BY <1>2, <2>3
  <2>6. Agree(g, h, m) BY <2>1, <2>4, <2>5, JoinedSame
  <2>7. g[m] = h[m] BY <2>3, <2>6 DEF Agree
  <2> QED BY <1>3, <1>4, <2>2, <2>3, <2>7
<1> QED BY <1>5, <1>6

\* Nothing comes of nothing, and only of it.
LEMMA FlattenNothing ==
  ASSUME NEW S, NEW m \in Nat, NEW s \in [1..m -> Seq(S)]
  PROVE  FlattenSeq(s) = <<>> <=> \A i \in 1..m : s[i] = <<>>
<1> DEFINE Wrong(k) == \E r \in [1..k -> Seq(S)] :
             ~(FlattenSeq(r) = <<>> <=> \A i \in 1..k : r[i] = <<>>)
<1> SUFFICES ASSUME Wrong(m) PROVE FALSE OBVIOUS
<1>1. PICK T \in SUBSET Nat : T = {k \in Nat : Wrong(k)}
  <2>1. {k \in Nat : Wrong(k)} \in SUBSET Nat OBVIOUS
  <2> QED BY <2>1
<1>2. PICK k \in T : \A y \in T : k <= y BY <1>1, LeastNumber
<1>3. k \in Nat /\ Wrong(k) BY <1>1
<1>4. PICK t \in [1..k -> Seq(S)] : ~(FlattenSeq(t) = <<>> <=> \A i \in 1..k : t[i] = <<>>)
  BY <1>3
<1>5. k # 0 BY <1>3, <1>4, FlattenTyped
<1>6. PICK j \in Nat : k = j + 1 BY <1>3, <1>5
<1>7. j \notin T BY <1>2, <1>6
<1>8. PICK r \in [1..j -> Seq(S)] : \A i \in 1..j : r[i] = t[i]
  <2>1. PICK r : r = [i \in 1..j |-> t[i]] OBVIOUS
  <2>2. \A i \in 1..j : i \in 1..k BY <1>6
  <2>3. \A i \in 1..j : t[i] \in Seq(S) BY <2>2
  <2>4. r \in [1..j -> Seq(S)] BY <2>1, <2>3
  <2> QED BY <2>1, <2>4
<1>9. FlattenSeq(r) = <<>> <=> \A i \in 1..j : r[i] = <<>> BY <1>1, <1>7
<1> HIDE DEF Wrong
<1>10. t \in [1..j + 1 -> Seq(S)] BY <1>6
<1>11. FlattenSeq(t) = FlattenSeq(r) \o t[j + 1] BY <1>8, <1>10, FlattenStep
<1>12. PICK a \in Seq(S), b \in Seq(S) : a = FlattenSeq(r) /\ b = t[j + 1]
  <2>1. FlattenSeq(r) \in Seq(S) BY FlattenTyped
  <2>2. t[j + 1] \in Seq(S)
    <3>1. j + 1 \in 1..j + 1 OBVIOUS
    <3> QED BY <1>10, <3>1
  <2> QED BY <2>1, <2>2
<1>13. a \o b = <<>> <=> a = <<>> /\ b = <<>>
  <2>1. Len(a \o b) = Len(a) + Len(b) /\ Len(a) \in Nat /\ Len(b) \in Nat
        /\ a \o b \in Seq(S)
    BY ConcatProperties
  <2>2. \A c \in Seq(S) : c = <<>> <=> Len(c) = 0 BY EmptySeq
  <2> QED BY <2>1, <2>2
<1>14. (\A i \in 1..k : t[i] = <<>>) <=> (\A i \in 1..j : r[i] = <<>>) /\ b = <<>>
  <2>1. \A i \in 1..k : i \in 1..j \/ i = j + 1 BY <1>6
  <2>2. j + 1 \in 1..k /\ \A i \in 1..j : i \in 1..k BY <1>6
  <2> QED BY <1>8, <1>12, <2>1, <2>2
<1> QED BY <1>4, <1>9, <1>11, <1>12, <1>13, <1>14

-----------------------------------------------------------------------------
(* What the frames mean, from one to the next.                             *)

\* An unfinished message consists of data frames that have been read.
LEMMA OpenIs ==
  ASSUME NEW k \in Nat
  PROVE  Open(k) \subseteq 1..k - 1 /\ Open(k) \in SUBSET Nat /\ (k <= 1 => Open(k) = {})
<1>1. Open(k) \subseteq 1..k - 1 BY DEF Open
<1>2. 1..k - 1 \subseteq Nat OBVIOUS
<1>3. k <= 1 => 1..k - 1 = {} OBVIOUS
<1> QED BY <1>1, <1>2, <1>3

\* What frame k makes of the message that is unfinished before it.
LEMMA OpenStep ==
  ASSUME NEW k \in Nat \ {0}
  PROVE  Open(k + 1) = IF frames[k].op \in DataOps
                         THEN IF frames[k].fin THEN {} ELSE Open(k) \cup {k}
                         ELSE Open(k)
<1>1. /\ k + 1 - 1 = k /\ k \in 1..k /\ \A i \in 1..k : k \in i..k
      /\ \A i \in 1..k : i # k => i \in 1..k - 1
      /\ \A i \in 1..k - 1 : i \in 1..k /\ i # k
  OBVIOUS
<1>2. \A i \in 1..k : \A j \in i..k : j = k \/ j \in i..k - 1 OBVIOUS
<1>3. \A i \in 1..k : \A j \in i..k - 1 : j \in i..k OBVIOUS
<1>4. \A j \in k..k : j = k OBVIOUS
<1>5. \A i : i \in Open(k + 1) <=>
        /\ i \in 1..k /\ frames[i].op \in DataOps
        /\ \A j \in i..k : frames[j].op \in DataOps => ~frames[j].fin
  BY <1>1 DEF Open
<1>6. \A i : i \in Open(k) <=>
        /\ i \in 1..k - 1 /\ frames[i].op \in DataOps
        /\ \A j \in i..k - 1 : frames[j].op \in DataOps => ~frames[j].fin
  BY DEF Open
<1>7. CASE frames[k].op \in DataOps /\ frames[k].fin
  <2>1. \A i : i \notin Open(k + 1) BY <1>1, <1>5, <1>7
  <2> QED BY <1>7, <2>1
<1>8. CASE frames[k].op \in DataOps /\ ~frames[k].fin
  <2>1. ASSUME NEW i \in 1..k
        PROVE  (\A j \in i..k : frames[j].op \in DataOps => ~frames[j].fin)
                 <=> \A j \in i..k - 1 : frames[j].op \in DataOps => ~frames[j].fin
    BY <1>2, <1>3, <1>8
  <2>2. \A i : i \in Open(k + 1) <=> i \in Open(k) \/ i = k
    <3>1. k \in Open(k + 1) BY <1>1, <1>4, <1>5, <1>8
    <3> QED BY <1>1, <1>5, <1>6, <2>1, <3>1
  <2> QED BY <1>8, <2>2
<1>9. CASE frames[k].op \notin DataOps
  <2>1. ASSUME NEW i \in 1..k
        PROVE  (\A j \in i..k : frames[j].op \in DataOps => ~frames[j].fin)
                 <=> \A j \in i..k - 1 : frames[j].op \in DataOps => ~frames[j].fin
    BY <1>2, <1>3, <1>9
  <2>2. \A i : i \in Open(k + 1) <=> i \in Open(k) BY <1>1, <1>5, <1>6, <1>9, <2>1
  <2> QED BY <1>9, <2>2
<1> QED BY <1>7, <1>8, <1>9

\* The payloads of one frame more.
LEMMA PayloadsStep ==
  ASSUME frames \in Seq(Frames), NEW K, NEW n \in Nat, n <= Len(frames)
  PROVE  /\ Payloads(K, n) \in Seq(Nat)
         /\ Payloads(K, 0) = <<>>
         /\ n > 0 => Payloads(K, n) = Payloads(K, n - 1)
                       \o (IF n \in K THEN frames[n].data ELSE <<>>)
         /\ Payloads(K, n) = <<>> <=> \A i \in 1..n : i \in K => frames[i].data = <<>>
<1>1. ASSUME NEW m \in Nat, m <= Len(frames)
      PROVE  [i \in 1..m |-> IF i \in K THEN frames[i].data ELSE <<>>] \in [1..m -> Seq(Nat)]
  <2>1. ASSUME NEW i \in 1..m PROVE (IF i \in K THEN frames[i].data ELSE <<>>) \in Seq(Nat)
    <3>1. i \in 1..Len(frames) BY <1>1
    <3>2. frames[i] \in Frames BY <3>1
    <3>3. frames[i].data \in Seq(Nat) BY <3>2, FrameIs
    <3> QED BY <3>3
  <2> QED BY <2>1
<1>2. PICK s \in [1..n -> Seq(Nat)] :
        s = [i \in 1..n |-> IF i \in K THEN frames[i].data ELSE <<>>]
  BY <1>1
<1>3. Payloads(K, n) = FlattenSeq(s) BY <1>2 DEF Payloads
<1>4. Payloads(K, 0) = <<>>
  <2>1. 0 \in Nat /\ 0 <= Len(frames) OBVIOUS
  <2>2. [i \in 1..0 |-> IF i \in K THEN frames[i].data ELSE <<>>] \in [1..0 -> Seq(Nat)]
    BY <1>1, <2>1
  <2> QED BY <2>2, FlattenTyped DEF Payloads
<1>5. ASSUME n > 0
      PROVE  Payloads(K, n) = Payloads(K, n - 1) \o (IF n \in K THEN frames[n].data ELSE <<>>)
  <2>1. PICK m \in Nat : n = m + 1 /\ m <= Len(frames) /\ n - 1 = m BY <1>5
  <2>2. PICK r \in [1..m -> Seq(Nat)] :
          r = [i \in 1..m |-> IF i \in K THEN frames[i].data ELSE <<>>]
    BY <1>1, <2>1
  <2>3. s \in [1..m + 1 -> Seq(Nat)] /\ n \in 1..n /\ \A i \in 1..m : i \in 1..n BY <2>1
  <2>4. \A i \in 1..m : s[i] = r[i] BY <1>2, <2>2, <2>3
  <2>5. FlattenSeq(s) = FlattenSeq(r) \o s[m + 1] BY <2>3, <2>4, FlattenStep
  <2>6. Payloads(K, m) = FlattenSeq(r) BY <2>2 DEF Payloads
  <2>7. s[n] = IF n \in K THEN frames[n].data ELSE <<>> BY <1>2, <2>3
  <2> QED BY <1>3, <2>1, <2>5, <2>6, <2>7
<1>6. Payloads(K, n) = <<>> <=> \A i \in 1..n : i \in K => frames[i].data = <<>>
  <2>1. FlattenSeq(s) = <<>> <=> \A i \in 1..n : s[i] = <<>> BY FlattenNothing
  <2>2. \A i \in 1..n : s[i] = IF i \in K THEN frames[i].data ELSE <<>> BY <1>2
  <2> QED BY <1>3, <2>1, <2>2
<1> QED BY <1>3, <1>4, <1>5, <1>6, FlattenTyped

\* Frames that are not there add nothing.
LEMMA PayloadsSame ==
  ASSUME NEW K, NEW L, NEW n \in Nat, \A i \in 1..n : i \in K <=> i \in L
  PROVE  Payloads(K, n) = Payloads(L, n)
<1>1. [i \in 1..n |-> IF i \in K THEN frames[i].data ELSE <<>>]
        = [i \in 1..n |-> IF i \in L THEN frames[i].data ELSE <<>>]
  OBVIOUS
<1> QED BY <1>1 DEF Payloads

\* What frame k does to the message it belongs to, and to those that follow it.
LEMMA Meaning ==
  ASSUME frames \in Seq(Frames), NEW k \in 1..Len(frames), NEW f, f = frames[k]
  PROVE  /\ Gathered(k) \in Seq(Nat)
         /\ MessageOf(k) = [opcode |-> Started(k), data |-> Gathered(k) \o f.data]
         /\ Started(k) = IF InMessage(k) THEN ModeAt(k) ELSE f.op
         /\ Started(k) \in 0..15
         /\ Gathered(k + 1) = IF f.op \in DataOps
                                THEN IF f.fin THEN <<>> ELSE Gathered(k) \o f.data
                                ELSE Gathered(k)
         /\ ModeAt(k + 1) = IF f.op \in DataOps THEN IF f.fin THEN 0 ELSE Started(k)
                              ELSE ModeAt(k)
         /\ InMessage(k + 1) = IF f.op \in DataOps THEN ~f.fin ELSE InMessage(k)
         /\ ~InMessage(k) => Gathered(k) = <<>> /\ ModeAt(k) = 0
         /\ Gathered(k) = <<>> => \A i \in Parts(k) \ {k} : frames[i].data = <<>>
<1>1. /\ k \in Nat \ {0} /\ k - 1 \in Nat /\ k <= Len(frames) /\ k - 1 <= Len(frames)
      /\ (k + 1) - 1 = k /\ k \in 1..k
      /\ \A i \in 1..k - 1 : i \in 1..k /\ i # k /\ i < k /\ i \in 1..Len(frames)
  OBVIOUS
<1>2. f \in Frames /\ f.data \in Seq(Nat) /\ f.op \in 0..15 /\ f.fin \in BOOLEAN BY FrameIs
<1>3. PICK O \in SUBSET Nat : O = Open(k) /\ O \subseteq 1..k - 1 /\ k \notin O
  BY <1>1, OpenIs
<1>4. Open(k + 1) = IF f.op \in DataOps THEN IF f.fin THEN {} ELSE O \cup {k} ELSE O
  BY <1>1, <1>3, OpenStep
<1>5. PICK g \in Seq(Nat) : g = Gathered(k) /\ g = Payloads(O, k - 1)
  BY <1>1, <1>3, PayloadsStep DEF Gathered
<1>6. Payloads(O \cup {k}, k) = g \o f.data
  <2>1. Payloads(O \cup {k}, k) = Payloads(O \cup {k}, k - 1) \o f.data
    <3>1. PICK L : L = O \cup {k} /\ k \in L OBVIOUS
    <3>2. k \in Nat /\ k <= Len(frames) /\ k > 0 BY <1>1
    <3>3. Payloads(L, k) = Payloads(L, k - 1) \o (IF k \in L THEN frames[k].data ELSE <<>>)
      BY <3>2, PayloadsStep
    <3> QED BY <3>1, <3>3
  <2>2. Payloads(O \cup {k}, k - 1) = Payloads(O, k - 1)
    <3>1. \A i \in 1..k - 1 : i \in O \cup {k} <=> i \in O BY <1>1
    <3> QED BY <1>1, <3>1, PayloadsSame
  <2> QED BY <1>5, <2>1, <2>2
<1>7. Payloads(O, k) = g
  <2>1. k \in Nat /\ k <= Len(frames) /\ k > 0 BY <1>1
  <2>2. Payloads(O, k) = Payloads(O, k - 1) \o (IF k \in O THEN frames[k].data ELSE <<>>)
    BY <2>1, PayloadsStep
  <2>3. g \o <<>> = g OBVIOUS
  <2> QED BY <1>3, <1>5, <2>2, <2>3
<1>8. Payloads({}, k) = <<>> /\ (O = {} => g = <<>>) BY <1>1, <1>5, PayloadsStep
<1>9. MessageOf(k) = [opcode |-> Started(k), data |-> g \o f.data]
  <2>1. Parts(k) = O \cup {k} BY <1>3 DEF Parts
  <2> QED BY <1>6, <2>1 DEF MessageOf, Payloads
<1>10. Started(k) = IF InMessage(k) THEN ModeAt(k) ELSE f.op
  <2>1. Min(O \cup {k}) = IF O = {} THEN k ELSE Min(O) BY <1>1, <1>3, MinKept
  <2>2. Started(k) = frames[Min(O \cup {k})].op BY <1>3 DEF Started, Parts
  <2> QED BY <1>3, <2>1, <2>2 DEF InMessage, ModeAt
<1>11. Started(k) \in 0..15
  <2>1. CASE O = {} BY <1>2, <1>3, <1>10, <2>1 DEF InMessage
  <2>2. CASE O # {}
    <3>1. Min(O) \in O BY <2>2, LeastNumber
    <3>2. frames[Min(O)] \in Frames BY <1>1, <1>3, <3>1
    <3>3. frames[Min(O)].op \in 0..15 BY <3>2, FrameIs
    <3> QED BY <1>3, <1>10, <2>2, <3>3 DEF InMessage, ModeAt
  <2> QED BY <2>1, <2>2
<1>12. Gathered(k + 1) = IF f.op \in DataOps THEN IF f.fin THEN <<>> ELSE g \o f.data ELSE g
  <2>1. Gathered(k + 1) = Payloads(Open(k + 1), k) BY <1>1 DEF Gathered
  <2> QED BY <1>4, <1>6, <1>7, <1>8, <2>1
<1>13. ModeAt(k + 1) = IF f.op \in DataOps THEN IF f.fin THEN 0 ELSE Started(k) ELSE ModeAt(k)
  <2>1. f.op \in DataOps /\ ~f.fin => ModeAt(k + 1) = frames[Min(O \cup {k})].op
    BY <1>4 DEF ModeAt, InMessage
  <2>2. Started(k) = frames[Min(O \cup {k})].op BY <1>3 DEF Started, Parts
  <2>3. f.op \in DataOps /\ f.fin => ModeAt(k + 1) = 0 BY <1>4 DEF ModeAt, InMessage
  <2>4. f.op \notin DataOps => ModeAt(k + 1) = ModeAt(k) BY <1>3, <1>4 DEF ModeAt, InMessage
  <2> QED BY <2>1, <2>2, <2>3, <2>4
<1>14. InMessage(k + 1) = IF f.op \in DataOps THEN ~f.fin ELSE InMessage(k)
  BY <1>2, <1>3, <1>4 DEF InMessage
<1>15. ~InMessage(k) => g = <<>> /\ ModeAt(k) = 0 BY <1>3, <1>8 DEF InMessage, ModeAt
<1>16. ASSUME g = <<>> PROVE \A i \in Parts(k) \ {k} : frames[i].data = <<>>
  <2>1. \A i \in 1..k - 1 : i \in O => frames[i].data = <<>>
    <3>1. PICK m \in Nat : m = k - 1 /\ m <= Len(frames) BY <1>1
    <3>2. Payloads(O, m) = <<>> <=> \A i \in 1..m : i \in O => frames[i].data = <<>>
      BY <3>1, PayloadsStep
    <3> QED BY <1>5, <1>16, <3>1, <3>2
  <2> QED BY <1>3, <2>1 DEF Parts
<1> QED BY <1>5, <1>9, <1>10, <1>11, <1>12, <1>13, <1>14, <1>15, <1>16

\* The messages, and the answers, of the first frames.
LEMMA OutputTyped ==
  ASSUME frames \in Seq(Frames), NEW n \in Nat, n <= Len(frames),
         NEW Msg, Msg = [opcode : 0..15, data : Seq(Nat)]
  PROVE  /\ [k \in 1..n |-> IF EndsMessage(k) THEN <<MessageOf(k)>> ELSE <<>>]
              \in [1..n -> Seq(Msg)]
         /\ [k \in 1..n |-> AnswerTo(frames[k])] \in [1..n -> Seq(Msg)]
<1>1. ASSUME NEW k \in 1..n
      PROVE  /\ (IF EndsMessage(k) THEN <<MessageOf(k)>> ELSE <<>>) \in Seq(Msg)
             /\ AnswerTo(frames[k]) \in Seq(Msg)
  <2>1. k \in 1..Len(frames) OBVIOUS
  <2>2. PICK f \in Frames : f = frames[k] BY <2>1
  <2>3. f.data \in Seq(Nat) BY FrameIs
  <2>4. Gathered(k) \o f.data \in Seq(Nat) /\ Started(k) \in 0..15
        /\ MessageOf(k) = [opcode |-> Started(k), data |-> Gathered(k) \o f.data]
    <3>1. Gathered(k) \in Seq(Nat) /\ Started(k) \in 0..15
          /\ MessageOf(k) = [opcode |-> Started(k), data |-> Gathered(k) \o f.data]
      BY <2>1, <2>2, Meaning
    <3> QED BY <2>3, <3>1, ConcatProperties
  <2>5. MessageOf(k) \in Msg BY <2>4
  <2>6. [opcode |-> PONG, data |-> f.data] \in Msg BY <2>3 DEF PONG
  <2>7. (IF EndsMessage(k) THEN <<MessageOf(k)>> ELSE <<>>) \in Seq(Msg)
    <3>1. \A e \in Msg : <<e>> \in Seq(Msg) OBVIOUS
    <3>2. <<>> \in Seq(Msg) OBVIOUS
    <3> QED BY <2>5, <3>1, <3>2, Zenon
  <2>8. AnswerTo(f) \in Seq(Msg)
    <3>1. \A e \in Msg : <<e>> \in Seq(Msg) OBVIOUS
    <3>2. <<>> \in Seq(Msg) OBVIOUS
    <3> QED BY <2>6, <3>1, <3>2, Zenon DEF AnswerTo
  <2> QED BY <2>2, <2>7, <2>8
<1> QED BY <1>1

LEMMA OutputStep ==
  ASSUME frames \in Seq(Frames), NEW k \in 1..Len(frames)
  PROVE  /\ Messages(k - 1) \in Seq([opcode : 0..15, data : Seq(Nat)])
         /\ Messages(k) = IF EndsMessage(k) THEN Append(Messages(k - 1), MessageOf(k))
                          ELSE Messages(k - 1)
         /\ Answers(k) = IF frames[k].op = PING
                           THEN Append(Answers(k - 1), [opcode |-> PONG, data |-> frames[k].data])
                           ELSE Answers(k - 1)
<1>1. PICK Msg : Msg = [opcode : 0..15, data : Seq(Nat)] OBVIOUS
<1>2. PICK m \in Nat : k = m + 1 /\ k - 1 = m /\ m <= Len(frames) /\ k <= Len(frames) /\ k \in Nat
  OBVIOUS
<1>3. PICK s \in [1..m -> Seq(Msg)], t \in [1..k -> Seq(Msg)], a \in [1..m -> Seq(Msg)],
           b \in [1..k -> Seq(Msg)] :
        /\ s = [i \in 1..m |-> IF EndsMessage(i) THEN <<MessageOf(i)>> ELSE <<>>]
        /\ t = [i \in 1..k |-> IF EndsMessage(i) THEN <<MessageOf(i)>> ELSE <<>>]
        /\ a = [i \in 1..m |-> AnswerTo(frames[i])]
        /\ b = [i \in 1..k |-> AnswerTo(frames[i])]
  BY <1>1, <1>2, OutputTyped
<1>4. t \in [1..m + 1 -> Seq(Msg)] /\ b \in [1..m + 1 -> Seq(Msg)]
      /\ k \in 1..k /\ \A i \in 1..m : i \in 1..k
  BY <1>2, <1>3
<1>5. (\A i \in 1..m : t[i] = s[i]) /\ (\A i \in 1..m : b[i] = a[i]) BY <1>3, <1>4
<1>6. FlattenSeq(t) = FlattenSeq(s) \o t[m + 1] BY <1>4, <1>5, FlattenStep
<1>7. FlattenSeq(b) = FlattenSeq(a) \o b[m + 1] BY <1>4, <1>5, FlattenStep
<1>8. PICK x \in Seq(Msg), y \in Seq(Msg) : x = FlattenSeq(s) /\ y = FlattenSeq(a)
  BY FlattenTyped
<1>9. /\ Messages(k - 1) = x /\ Messages(k) = x \o t[k]
      /\ Answers(k - 1) = y /\ Answers(k) = y \o b[k]
  <2>1. Messages(m) = x /\ Messages(k) = FlattenSeq(t) BY <1>3, <1>8 DEF Messages
  <2>2. Answers(m) = y /\ Answers(k) = FlattenSeq(b) BY <1>3, <1>8 DEF Answers
  <2> QED BY <1>2, <1>6, <1>7, <1>8, <2>1, <2>2
<1>10. t[k] = (IF EndsMessage(k) THEN <<MessageOf(k)>> ELSE <<>>) /\ t[k] \in Seq(Msg)
  BY <1>3, <1>4
<1>11. b[k] = AnswerTo(frames[k]) /\ b[k] \in Seq(Msg) BY <1>3, <1>4
<1>12. x \o <<>> = x /\ y \o <<>> = y OBVIOUS
<1>13. ASSUME NEW z \in Seq(Msg), NEW e, <<e>> \in Seq(Msg) PROVE z \o <<e>> = Append(z, e)
  <2>1. e \in Msg
    <3>1. Len(<<e>>) = 1 /\ <<e>>[1] = e OBVIOUS
    <3> QED BY <1>13, <3>1
  <2> QED BY <2>1, AppendIsConcat
<1>14. Messages(k) = IF EndsMessage(k) THEN Append(x, MessageOf(k)) ELSE x
  BY <1>8, <1>9, <1>10, <1>12, <1>13
<1>15. Answers(k) = IF frames[k].op = PING
                     THEN Append(y, [opcode |-> PONG, data |-> frames[k].data]) ELSE y
  BY <1>8, <1>9, <1>11, <1>12, <1>13 DEF AnswerTo
<1> QED BY <1>1, <1>8, <1>9, <1>14, <1>15

\* Before the first frame.
LEMMA NothingYet ==
  ASSUME NEW k \in {0, 1}
  PROVE  /\ Messages(k - 1) = <<>> /\ Answers(k - 1) = <<>>
         /\ Gathered(k) = <<>> /\ ModeAt(k) = 0 /\ ~InMessage(k)
<1>1. 1..k - 1 = 1..0 OBVIOUS
<1>2. Open(k) = {} BY OpenIs
<1>3. [i \in 1..0 |-> IF EndsMessage(i) THEN <<MessageOf(i)>> ELSE <<>>] \in [1..0 -> Seq(Nat)]
  OBVIOUS
<1>4. [i \in 1..0 |-> AnswerTo(frames[i])] \in [1..0 -> Seq(Nat)] OBVIOUS
<1>5. [i \in 1..0 |-> IF i \in Open(k) THEN frames[i].data ELSE <<>>] \in [1..0 -> Seq(Nat)] OBVIOUS
<1>6. \A s \in [1..0 -> Seq(Nat)] : FlattenSeq(s) = <<>> BY FlattenTyped
<1>7. Messages(k - 1) = <<>> BY <1>1, <1>3, <1>6 DEF Messages
<1>8. Answers(k - 1) = <<>> BY <1>1, <1>4, <1>6 DEF Answers
<1>9. Gathered(k) = <<>> BY <1>1, <1>5, <1>6 DEF Gathered, Payloads
<1> QED BY <1>2, <1>7, <1>8, <1>9 DEF ModeAt, InMessage

-----------------------------------------------------------------------------
(* The meaning of the frames stays the same as others follow them.         *)

LEMMA Unchanged ==
  ASSUME frames' = frames, NEW k
  PROVE  /\ Gathered(k)' = Gathered(k) /\ ModeAt(k)' = ModeAt(k)
         /\ InMessage(k)' = InMessage(k)
         /\ Messages(k)' = Messages(k) /\ Answers(k)' = Answers(k)
         /\ Broken(k)' = Broken(k) /\ NotUtf8(k)' = NotUtf8(k) /\ Overlooked(k)' = Overlooked(k)
         /\ WronglyRefused(k)' = WronglyRefused(k)
<1>1. \A i : Open(i)' = Open(i) BY DEF Open
<1>2. \A i : InMessage(i)' = InMessage(i) /\ Parts(i)' = Parts(i) BY <1>1 DEF InMessage, Parts
<1>3. \A i : Started(i)' = Started(i) BY <1>2 DEF Started
<1>4. \A i : MessageOf(i)' = MessageOf(i) BY <1>2, <1>3 DEF MessageOf
<1>5. \A i : EndsMessage(i)' = EndsMessage(i) BY DEF EndsMessage
<1>6. Gathered(k)' = Gathered(k) /\ ModeAt(k)' = ModeAt(k)
  BY <1>1, <1>2 DEF Gathered, Payloads, ModeAt
<1>7. Messages(k)' = Messages(k) BY <1>4, <1>5 DEF Messages
<1>8. Answers(k)' = Answers(k) BY DEF Answers
<1>9. Broken(k)' = Broken(k) BY <1>2 DEF Broken
<1>10. NotUtf8(k)' = NotUtf8(k) BY <1>3, <1>4 DEF NotUtf8
<1>11. Overlooked(k)' = Overlooked(k) BY <1>2 DEF Overlooked
<1>12. WronglyRefused(k)' = WronglyRefused(k) BY <1>2, <1>3 DEF WronglyRefused, InText
<1> QED BY <1>2, <1>6, <1>7, <1>8, <1>9, <1>10, <1>11, <1>12

LEMMA Longer ==
  ASSUME frames \in Seq(Frames), NEW g \in Frames, frames' = Append(frames, g)
  PROVE  /\ \A k \in 0..Len(frames) + 1 :
              /\ Gathered(k)' = Gathered(k) /\ ModeAt(k)' = ModeAt(k)
              /\ InMessage(k)' = InMessage(k)
              /\ Messages(k - 1)' = Messages(k - 1) /\ Answers(k - 1)' = Answers(k - 1)
         /\ \A k \in 1..Len(frames) :
              /\ Broken(k)' = Broken(k) /\ NotUtf8(k)' = NotUtf8(k)
              /\ Overlooked(k)' = Overlooked(k) /\ WronglyRefused(k)' = WronglyRefused(k)
<1>1. PICK n \in Nat : n = Len(frames) OBVIOUS
<1>2. \A i \in 1..n : frames'[i] = frames[i] BY <1>1
<1>3. ASSUME NEW k \in 0..n + 1 PROVE Open(k)' = Open(k) /\ Open(k) \subseteq 1..n
  <2>1. \A i \in 1..k - 1 : i \in 1..n /\ \A j \in i..k - 1 : j \in 1..n BY <1>1
  <2>2. \A i : i \in Open(k)' <=>
          /\ i \in 1..k - 1 /\ frames'[i].op \in DataOps
          /\ \A j \in i..k - 1 : frames'[j].op \in DataOps => ~frames'[j].fin
    BY DEF Open
  <2>3. \A i : i \in Open(k) <=>
          /\ i \in 1..k - 1 /\ frames[i].op \in DataOps
          /\ \A j \in i..k - 1 : frames[j].op \in DataOps => ~frames[j].fin
    BY DEF Open
  <2>4. \A i : i \in Open(k)' <=> i \in Open(k) BY <1>2, <2>1, <2>2, <2>3
  <2> QED BY <2>1, <2>3, <2>4
<1>4. ASSUME NEW k \in 0..n + 1
      PROVE  /\ InMessage(k)' = InMessage(k) /\ Parts(k)' = Parts(k)
             /\ ModeAt(k)' = ModeAt(k) /\ Gathered(k)' = Gathered(k)
  <2>1. InMessage(k)' = InMessage(k) /\ Parts(k)' = Parts(k) BY <1>3 DEF InMessage, Parts
  <2>2. ModeAt(k)' = ModeAt(k)
    <3>1. InMessage(k) => Min(Open(k)) \in 1..n
      <4>1. Open(k) \in SUBSET Nat BY <1>3
      <4> QED BY <1>3, <4>1, LeastNumber DEF InMessage
    <3> QED BY <1>2, <1>3, <2>1, <3>1 DEF ModeAt
  <2>3. Gathered(k)' = Gathered(k)
    <3>1. [i \in 1..k - 1 |-> IF i \in Open(k) THEN frames'[i].data ELSE <<>>]
            = [i \in 1..k - 1 |-> IF i \in Open(k) THEN frames[i].data ELSE <<>>]
      BY <1>2, <1>3
    <3> QED BY <1>3, <3>1 DEF Gathered, Payloads
  <2> QED BY <2>1, <2>2, <2>3
<1>5. ASSUME NEW k \in 1..n
      PROVE  /\ Started(k)' = Started(k) /\ MessageOf(k)' = MessageOf(k)
             /\ EndsMessage(k)' = EndsMessage(k)
  <2>1. k \in 0..n + 1 /\ Parts(k) \in SUBSET Nat /\ Parts(k) # {} /\ Parts(k) \subseteq 1..n
    BY <1>3 DEF Parts
  <2>2. Min(Parts(k)) \in 1..n BY <2>1, LeastNumber
  <2>3. Started(k)' = Started(k) BY <1>2, <1>4, <2>1, <2>2 DEF Started
  <2>4. [i \in 1..k |-> IF i \in Parts(k) THEN frames'[i].data ELSE <<>>]
          = [i \in 1..k |-> IF i \in Parts(k) THEN frames[i].data ELSE <<>>]
    BY <1>2, <2>1
  <2>5. MessageOf(k)' = MessageOf(k) BY <1>4, <2>1, <2>3, <2>4 DEF MessageOf
  <2>6. EndsMessage(k)' = EndsMessage(k) BY <1>2 DEF EndsMessage
  <2> QED BY <2>3, <2>5, <2>6
<1>6. ASSUME NEW k \in 0..n + 1
      PROVE  Messages(k - 1)' = Messages(k - 1) /\ Answers(k - 1)' = Answers(k - 1)
  <2>1. \A i \in 1..k - 1 : i \in 1..n BY <1>1
  <2>2. Messages(k - 1)' = Messages(k - 1) BY <1>5, <2>1 DEF Messages
  <2>3. Answers(k - 1)' = Answers(k - 1) BY <1>2, <2>1 DEF Answers
  <2> QED BY <2>2, <2>3
<1>7. ASSUME NEW k \in 1..n
      PROVE  /\ Broken(k)' = Broken(k) /\ NotUtf8(k)' = NotUtf8(k)
             /\ Overlooked(k)' = Overlooked(k) /\ WronglyRefused(k)' = WronglyRefused(k)
  <2>1. k \in 0..n + 1 /\ frames'[k] = frames[k]
    <3>1. k \in 0..n + 1 OBVIOUS
    <3> QED BY <1>2, <3>1
  <2>2. Broken(k)' = Broken(k) BY <1>4, <2>1 DEF Broken
  <2>3. NotUtf8(k)' = NotUtf8(k) BY <1>5, <2>1 DEF NotUtf8
  <2>4. Overlooked(k)' = Overlooked(k)
    <3>1. Parts(k) \subseteq 1..n BY <1>3, <2>1 DEF Parts
    <3> QED BY <1>2, <1>4, <2>1, <3>1 DEF Overlooked
  <2>5. WronglyRefused(k)' = WronglyRefused(k)
    BY <1>4, <1>5, <2>1 DEF WronglyRefused, InText
  <2> QED BY <2>2, <2>3, <2>4, <2>5
<1> QED BY <1>1, <1>4, <1>6, <1>7

-----------------------------------------------------------------------------
(* What the decoder makes of the stream.                                   *)

\* The peer adds a frame, or none.
LEMMA FramesGrow ==
  ASSUME [Next]_vars
  PROVE  splits' = splits /\ (frames' = frames \/ \E f \in Frames : PeerSends(f))
  BY DEF Next, vars, peerVars, PollerStep, PeerEnds, PeerSends, Arrive, Event,
     Again, EndOfStream, Derail, HandShake, HeadPart, HeadParse, LengthRead, MasksRead,
     FrameRefused, FramePart, FrameFragment, FrameNotUtf8, FrameMessage, FramePing, FramePong,
     FrameClose, Complete, Accept, NextFrame

\* Nothing happens in a closed connection.
LEMMA Rests ==
  ASSUME TypeOK, Located, conn = "closed", [Next]_vars
  PROVE  UNCHANGED vars
<1>1. pc = "wait" BY DEF Located
<1>2. ~PollerStep
  BY <1>1 DEF PollerStep, Event, Again, EndOfStream, Derail, Reading, Reads, HandShake, HeadPart,
     HeadParse, LengthRead, MasksRead, FrameRefused, FramePart, FrameFragment, FrameNotUtf8,
     FrameMessage, FramePing, FramePong, FrameClose, Complete, Accept, NextFrame
<1> QED BY <1>2 DEF Next, PeerEnds, PeerSends, Arrive

\* The peer follows only good frames with another one.
LEMMA CivilKept ==
  ASSUME TypeOK, Civil, [Next]_vars
  PROVE  Civil'
<1>1. CASE frames' = frames
  <2>1. ASSUME NEW k \in 1..Len(frames) - 1
        PROVE  ~Broken(k)' /\ ~NotUtf8(k)' /\ frames'[k].op # CLOSE
    BY <1>1, Unchanged DEF Civil
  <2> QED BY <1>1, <2>1 DEF Civil
<1>2. ASSUME NEW f \in Frames, PeerSends(f) PROVE Civil'
  <2>1. /\ frames' = Append(frames, f)
        /\ \A k \in DOMAIN frames : ~Broken(k) /\ ~NotUtf8(k) /\ frames[k].op # CLOSE
    BY <1>2 DEF PeerSends
  <2>2. Len(frames') = Len(frames) + 1 /\ DOMAIN frames = 1..Len(frames)
        /\ frames \in Seq(Frames) /\ Len(frames) \in Nat
    BY <2>1, Places
  <2>3. ASSUME NEW k \in 1..Len(frames)
        PROVE  ~Broken(k)' /\ ~NotUtf8(k)' /\ frames'[k].op # CLOSE
    BY <2>1, <2>2, Longer
  <2>4. 1..Len(frames') - 1 = 1..Len(frames) BY <2>2
  <2> QED BY <2>3, <2>4 DEF Civil
<1> QED BY <1>1, <1>2, FramesGrow

\* As long as a frame is read, the ones before it are good.
LEMMA ReadsCivil ==
  ASSUME TypeOK, Civil, at.frame <= Len(frames)
  PROVE  Obeyed
<1>1. ASSUME NEW k \in 1..at.frame - 1 PROVE ~Broken(k)
  <2>1. k \in 1..Len(frames) - 1 BY Places
  <2> QED BY <2>1 DEF Civil
<1> QED BY <1>1 DEF Obeyed

LEMMA AlwaysCivil == Spec => []Civil
<1>1. Init => Civil
  <2>1. 1..0 - 1 = {} OBVIOUS
  <2> QED BY <2>1 DEF Init, Civil
<1>2. TypeOK /\ Civil /\ [Next]_vars => Civil' BY CivilKept
<1> QED BY <1>1, <1>2, AlwaysLocated, PTL DEF Spec

\* While no frame ends and none is parsed, what has been made of the stream
\* stays.
LEMMA GatheringStays ==
  ASSUME TypeOK, Located, Gathering, conn = "open", frames' = frames, at'.frame = at.frame,
         splits' = splits,
         UNCHANGED <<opcode, continueBuffer, messageMode, emitted, pushed>>
  PROVE  Gathering'
<1> SUFFICES ASSUME ~splits, Obeyed'
             PROVE  /\ continueBuffer = Gathered(at.frame)'
                    /\ messageMode = IF opcode \in {TEXTMODE, BINMODE} THEN opcode
                                     ELSE ModeAt(at.frame)'
                    /\ InMessage(at.frame)' => ModeAt(at.frame)' # 0
                    /\ emitted = Messages(at.frame - 1)'
                    /\ pushed = Answers(at.frame - 1)'
  BY DEF Gathering
<1>1. PICK k : k = at.frame OBVIOUS
<1>2. \A i \in 1..k - 1 : ~Broken(i)' BY <1>1 DEF Obeyed
<1>3. Obeyed BY <1>1, <1>2, Unchanged DEF Obeyed
<1>4. /\ continueBuffer = Gathered(k)
      /\ messageMode = IF opcode \in {TEXTMODE, BINMODE} THEN opcode ELSE ModeAt(k)
      /\ InMessage(k) => ModeAt(k) # 0
      /\ emitted = Messages(k - 1) /\ pushed = Answers(k - 1)
  BY <1>1, <1>3 DEF Gathering
<1>5. /\ Gathered(k)' = Gathered(k) /\ ModeAt(k)' = ModeAt(k) /\ InMessage(k)' = InMessage(k)
      /\ Messages(k - 1)' = Messages(k - 1) /\ Answers(k - 1)' = Answers(k - 1)
  BY Unchanged
<1>6. k = at'.frame BY <1>1
<1> QED BY <1>1, <1>4, <1>5, <1>6

\* The peer begins another frame.
LEMMA GatheringGrows ==
  ASSUME TypeOK, Located, Gathering, NEW f \in Frames, PeerSends(f)
  PROVE  Gathering'
<1>1. /\ conn = "open" /\ isHandleShake /\ frames' = Append(frames, f)
      /\ UNCHANGED <<splits, at, opcode, continueBuffer, messageMode, emitted, pushed, conn>>
  BY DEF PeerSends, header, buffers, out
<1> SUFFICES ASSUME ~splits, Obeyed'
             PROVE  /\ continueBuffer = Gathered(at.frame)'
                    /\ messageMode = IF opcode \in {TEXTMODE, BINMODE} THEN opcode
                                     ELSE ModeAt(at.frame)'
                    /\ InMessage(at.frame)' => ModeAt(at.frame)' # 0
                    /\ emitted = Messages(at.frame - 1)'
                    /\ pushed = Answers(at.frame - 1)'
  BY <1>1 DEF Gathering
<1>2. PICK k \in 0..Len(frames) + 1 : k = at.frame BY <1>1 DEF Located, Inside
<1>3. frames \in Seq(Frames) /\ Len(frames) \in Nat BY Places
<1>4. \A i \in 1..k - 1 : ~Broken(i)' BY <1>1, <1>2 DEF Obeyed
<1>5. \A i \in 1..k - 1 : i \in 1..Len(frames) BY <1>2, <1>3
<1>6. \A i \in 1..k - 1 : ~Broken(i) BY <1>1, <1>3, <1>4, <1>5, Longer
<1>7. /\ continueBuffer = Gathered(k)
      /\ messageMode = IF opcode \in {TEXTMODE, BINMODE} THEN opcode ELSE ModeAt(k)
      /\ InMessage(k) => ModeAt(k) # 0
      /\ emitted = Messages(k - 1) /\ pushed = Answers(k - 1)
  BY <1>1, <1>2, <1>6 DEF Gathering, Obeyed
<1>8. /\ Gathered(k)' = Gathered(k) /\ ModeAt(k)' = ModeAt(k) /\ InMessage(k)' = InMessage(k)
      /\ Messages(k - 1)' = Messages(k - 1) /\ Answers(k - 1)' = Answers(k - 1)
  BY <1>1, <1>3, Longer
<1>9. k = at'.frame BY <1>1, <1>2
<1> QED BY <1>2, <1>7, <1>8, <1>9

\* The request has been read.
LEMMA GatheringBegins ==
  ASSUME TypeOK, Located, HandShake
  PROVE  Gathering'
<1>1. pc = "handshake" /\ UNCHANGED peerVars BY DEF HandShake, Reads
<1>2. Unshaken BY <1>1, Header DEF Located, Inside
<1>3. CASE at' = [frame |-> 1, byte |-> 0] /\ UNCHANGED <<header, buffers, out>>
  <2>1. /\ frames' = frames /\ at'.frame = 1 /\ opcode' = 0 /\ continueBuffer' = <<>>
        /\ messageMode' = 0 /\ emitted' = <<>> /\ pushed' = <<>>
    BY <1>1, <1>2, <1>3 DEF Unshaken, peerVars, header, buffers, out
  <2>2. PICK k \in {0, 1} : k = at'.frame /\ k = 1 BY <2>1
  <2>3. /\ Messages(k - 1) = <<>> /\ Answers(k - 1) = <<>>
        /\ Gathered(k) = <<>> /\ ModeAt(k) = 0 /\ ~InMessage(k)
    BY NothingYet
  <2>4. /\ Messages(k - 1)' = <<>> /\ Answers(k - 1)' = <<>>
        /\ Gathered(k)' = <<>> /\ ModeAt(k)' = 0 /\ ~InMessage(k)'
    BY <2>1, <2>3, Unchanged
  <2> QED BY <2>1, <2>2, <2>4 DEF Gathering, TEXTMODE, BINMODE
<1>4. CASE CloseCode(1000) BY <1>4 DEF CloseCode, Gathering
<1> QED BY <1>3, <1>4 DEF HandShake

\* The header tells the mode of a message that begins.
LEMMA GatheringParse ==
  ASSUME TypeOK, Located, Parsing, Gathering, ~splits, HeadParse, TypeOK', Located'
  PROVE  Gathering'
<1>1. PICK f, n : f = frames[at.frame] /\ n = HeadLen - headerBytes OBVIOUS
<1>2. pc = "head" /\ UNCHANGED peerVars /\ Skip(n) BY <1>1 DEF HeadParse
<1>3. CASE CloseCode(1002) BY <1>3 DEF CloseCode, Gathering
<1>4. CASE /\ opcode' = f.op
           /\ messageMode' = IF f.op \in {TEXTMODE, BINMODE} THEN f.op ELSE messageMode
           /\ UNCHANGED <<continueBuffer, out>>
  <2> SUFFICES ASSUME Obeyed'
               PROVE  /\ continueBuffer' = Gathered(at.frame)'
                      /\ messageMode' = IF opcode' \in {TEXTMODE, BINMODE} THEN opcode'
                                        ELSE ModeAt(at.frame)'
                      /\ InMessage(at.frame)' => ModeAt(at.frame)' # 0
                      /\ emitted' = Messages(at.frame - 1)'
                      /\ pushed' = Answers(at.frame - 1)'
    BY DEF Gathering
  <2>1. PICK k : k = at.frame /\ k = at'.frame BY <1>2, Places DEF Skip
  <2>2. frames' = frames BY <1>2 DEF peerVars
  <2>3. \A i \in 1..k - 1 : ~Broken(i)' BY <2>1 DEF Obeyed
  <2>4. Obeyed BY <2>1, <2>2, <2>3, Unchanged DEF Obeyed
  <2>5. conn = "open" BY <1>2, Orderly
  <2>6. /\ continueBuffer = Gathered(k)
        /\ messageMode = IF opcode \in {TEXTMODE, BINMODE} THEN opcode ELSE ModeAt(k)
        /\ InMessage(k) => ModeAt(k) # 0
        /\ emitted = Messages(k - 1) /\ pushed = Answers(k - 1)
    BY <2>1, <2>4, <2>5 DEF Gathering
  <2>7. /\ Gathered(k)' = Gathered(k) /\ ModeAt(k)' = ModeAt(k) /\ InMessage(k)' = InMessage(k)
        /\ Messages(k - 1)' = Messages(k - 1) /\ Answers(k - 1)' = Answers(k - 1)
    BY <2>2, Unchanged
  <2>8. opcode \in {0, f.op}
    <3>1. headerBytes < HeadLen \/ headerBytes = HeadLen BY Header, Numbers
    <3> QED BY <1>1, <1>2, <3>1, Orderly DEF InHead, InHeader
  <2>9. f.op \notin {TEXTMODE, BINMODE} => messageMode = ModeAt(k)
    BY <2>6, <2>8 DEF TEXTMODE, BINMODE
  <2>10. messageMode' = IF opcode' \in {TEXTMODE, BINMODE} THEN opcode' ELSE ModeAt(k)
    BY <1>4, <2>9, Zenon
  <2>11. continueBuffer' = continueBuffer /\ emitted' = emitted /\ pushed' = pushed BY <1>4 DEF out
  <2> QED BY <2>1, <2>6, <2>7, <2>10, <2>11
<1> QED BY <1>1, <1>3, <1>4 DEF HeadParse

\* What is known of a frame whose payload is complete, and of the message it
\* belongs to.
LEMMA Accepted ==
  ASSUME TypeOK, Located, Parsing, Civil, Gathering, ~splits, Complete,
         NEW k, k = at.frame, NEW f, f = frames[k]
  PROVE  /\ k \in 1..Len(frames) /\ f \in Frames /\ at'.frame = k + 1 /\ frames' = frames
         /\ conn = "open" /\ Obeyed /\ opcode = f.op /\ final = f.fin /\ Packet = f.data
         /\ fragmentLength = Len(f.data) /\ ~OpcodeFails /\ ~NoPayload
         /\ ~f.rsv /\ f.masked
         /\ continueBuffer = Gathered(k)
         /\ messageMode = IF f.op \in {TEXTMODE, BINMODE} THEN f.op ELSE ModeAt(k)
         /\ InMessage(k) => ModeAt(k) # 0
         /\ emitted = Messages(k - 1) /\ pushed = Answers(k - 1)
<1>1. /\ k \in 1..Len(frames) /\ f \in Frames /\ Fragment = f.data
      /\ opcode = f.op /\ final = f.fin /\ fragmentLength = Len(f.data) /\ ~f.rsv /\ f.masked
      /\ at' = [frame |-> k + 1, byte |-> 0] /\ ~OpcodeFails /\ ~NoPayload
  BY Completed
<1>2. NextFrame BY DEF Complete
<1>3. conn = "open" /\ UNCHANGED peerVars BY <1>2, Payload
<1>4. Packet = f.data
  <2>1. packetBuffer = <<>> /\ f.data \in Seq(Nat) BY <1>1, FrameIs DEF Located
  <2> QED BY <1>1, <2>1 DEF Packet
<1>5. Obeyed BY <1>1, ReadsCivil, Places
<1>6. /\ continueBuffer = Gathered(k)
      /\ messageMode = IF opcode \in {TEXTMODE, BINMODE} THEN opcode ELSE ModeAt(k)
      /\ InMessage(k) => ModeAt(k) # 0
      /\ emitted = Messages(k - 1) /\ pushed = Answers(k - 1)
  BY <1>3, <1>5 DEF Gathering
<1> QED BY <1>1, <1>3, <1>4, <1>5, <1>6 DEF peerVars

\* The message that a data frame ends, and the payload of a control frame.
LEMMA MessageIs ==
  ASSUME TypeOK, Located, Parsing, Civil, Gathering, ~splits, Complete,
         NEW k, k = at.frame, NEW f, f = frames[k]
  PROVE  /\ f.op \notin DataOps => Message = [opcode |-> messageMode, data |-> f.data] /\ ~Joins
         /\ f.op \in DataOps /\ ~Broken(k) =>
              /\ Message = MessageOf(k) /\ messageMode = Started(k)
              /\ ~Joins => continueBuffer = <<>>
<1>1. /\ k \in 1..Len(frames) /\ f \in Frames
      /\ opcode = f.op /\ final = f.fin /\ Packet = f.data
      /\ continueBuffer = Gathered(k)
      /\ messageMode = IF f.op \in {TEXTMODE, BINMODE} THEN f.op ELSE ModeAt(k)
  BY Accepted
<1>2. /\ MessageOf(k) = [opcode |-> Started(k), data |-> Gathered(k) \o f.data]
      /\ Started(k) = IF InMessage(k) THEN ModeAt(k) ELSE f.op
      /\ ~InMessage(k) => Gathered(k) = <<>>
  BY <1>1, Meaning, Places
<1>3. <<>> \o f.data = f.data
  <2>1. f.data \in Seq(Nat) BY <1>1, FrameIs
  <2> QED BY <2>1
<1>4. CASE f.op \notin DataOps
  <2>1. ~Joins BY <1>1, <1>4 DEF Joins, DataOps
  <2> QED BY <1>1, <1>4, <2>1 DEF Message
<1>5. CASE f.op \in {TEXTMODE, BINMODE} /\ ~Broken(k)
  <2>1. ~InMessage(k) BY <1>5 DEF Broken
  <2>2. ~Joins BY <1>1, <1>5 DEF Joins, CONTINUATION, TEXTMODE, BINMODE
  <2>3. Started(k) = f.op /\ messageMode = f.op /\ continueBuffer = <<>> BY <1>1, <1>2, <1>5, <2>1
  <2> QED BY <1>1, <1>2, <1>3, <1>5, <2>1, <2>2, <2>3 DEF Message, DataOps
<1>6. CASE f.op = CONTINUATION /\ ~Broken(k)
  <2>1. InMessage(k) BY <1>6 DEF Broken
  <2>2. f.op \notin {TEXTMODE, BINMODE} BY <1>6 DEF CONTINUATION, TEXTMODE, BINMODE
  <2>3. Started(k) = ModeAt(k) /\ messageMode = ModeAt(k) BY <1>1, <1>2, <2>1, <2>2
  <2>4. ~Joins => continueBuffer = <<>> BY <1>1, <1>6 DEF Joins
  <2>5. Message.data = Gathered(k) \o f.data BY <1>1, <1>3, <2>4 DEF Message
  <2>6. Message = [opcode |-> messageMode, data |-> Message.data] BY DEF Message
  <2>7. Message = MessageOf(k)
    <3>1. PICK d : d = Message.data OBVIOUS
    <3>2. Message = [opcode |-> ModeAt(k), data |-> d] BY <2>3, <2>6, <3>1, Zenon
    <3>3. MessageOf(k) = [opcode |-> ModeAt(k), data |-> d] BY <1>2, <2>3, <2>5, <3>1, Zenon
    <3> QED BY <3>2, <3>3
  <2> QED BY <1>6, <2>2, <2>3, <2>4, <2>7 DEF DataOps
<1> QED BY <1>4, <1>5, <1>6 DEF DataOps

\* A frame that breaks a rule gets that far only when it is one of those that
\* are overlooked, or closes the connection.
LEMMA BrokenIsSeen ==
  ASSUME TypeOK, Located, Parsing, Civil, Gathering, ~splits, Complete,
         NEW k, k = at.frame, NEW f, f = frames[k], Broken(k), ~Overlooked(k)
  PROVE  f.op = CLOSE /\ final /\ f.data # <<>> /\ f.data[1] \notin GoodCodes
<1>1. /\ k \in 1..Len(frames) /\ f \in Frames
      /\ opcode = f.op /\ final = f.fin /\ fragmentLength = Len(f.data)
      /\ ~OpcodeFails /\ ~NoPayload /\ ~f.rsv /\ f.masked
      /\ continueBuffer = Gathered(k)
      /\ messageMode = IF f.op \in {TEXTMODE, BINMODE} THEN f.op ELSE ModeAt(k)
  BY Accepted
<1>2. /\ ~InMessage(k) => ModeAt(k) = 0
      /\ Gathered(k) = <<>> => \A i \in Parts(k) \ {k} : frames[i].data = <<>>
  BY <1>1, Meaning, Places
<1>3. f.op \in DataOps \cup ControlOps BY <1>1 DEF OpcodeFails
<1>4. ~(f.op = CONTINUATION /\ ~InMessage(k))
  BY <1>1, <1>2 DEF OpcodeFails, CONTINUATION, TEXTMODE, BINMODE
<1>5. ~(f.op \in {TEXTMODE, BINMODE} /\ InMessage(k))
  <2> SUFFICES ASSUME f.op \in {TEXTMODE, BINMODE}, InMessage(k) PROVE FALSE OBVIOUS
  <2>1. Gathered(k) = <<>> BY <1>1 DEF OpcodeFails
  <2> QED BY <1>2, <2>1 DEF Overlooked
<1>6. ~(f.op \in ControlOps /\ (~f.fin \/ Len(f.data) > Short))
  <2> SUFFICES ASSUME f.op \in ControlOps, ~f.fin \/ Len(f.data) > Short PROVE FALSE OBVIOUS
  <2>1. CASE f.op = CLOSE BY <1>1, <2>1 DEF OpcodeFails, Overlooked
  <2>2. CASE f.op = PING BY <1>1, <2>2 DEF OpcodeFails
  <2>3. CASE f.op = PONG BY <1>1, <2>3 DEF OpcodeFails, Overlooked
  <2> QED BY <2>1, <2>2, <2>3 DEF ControlOps
<1>7. f.op = CLOSE /\ (Len(f.data) = 1 \/ (f.data # <<>> /\ f.data[1] \notin GoodCodes))
  BY <1>1, <1>3, <1>4, <1>5, <1>6 DEF Broken
<1>8. Len(f.data) # 1 BY <1>1, <1>7 DEF OpcodeFails
<1>9. f.fin BY <1>7 DEF Overlooked
<1> QED BY <1>1, <1>7, <1>8, <1>9

\* The end of a frame that does not close the connection.
LEMMA GatheringDone ==
  ASSUME TypeOK, Located, Parsing, Civil, Gathering, ~splits,
         FrameFragment \/ FrameMessage \/ FramePing \/ FramePong
  PROVE  Gathering'
<1>1. PICK k, f : k = at.frame /\ f = frames[k] OBVIOUS
<1>2. Complete /\ Reset BY DEF FrameFragment, FrameMessage, FramePing, FramePong, Accept
<1>3. /\ k \in 1..Len(frames) /\ f \in Frames /\ at'.frame = k + 1 /\ frames' = frames
      /\ opcode = f.op /\ final = f.fin /\ Packet = f.data /\ ~OpcodeFails
      /\ continueBuffer = Gathered(k)
      /\ messageMode = IF f.op \in {TEXTMODE, BINMODE} THEN f.op ELSE ModeAt(k)
      /\ InMessage(k) => ModeAt(k) # 0
      /\ emitted = Messages(k - 1) /\ pushed = Answers(k - 1)
  BY <1>1, <1>2, Accepted
<1>4. frames \in Seq(Frames) BY Places
<1>5. /\ Started(k) = IF InMessage(k) THEN ModeAt(k) ELSE f.op
      /\ Gathered(k + 1) = IF f.op \in DataOps
                             THEN IF f.fin THEN <<>> ELSE Gathered(k) \o f.data
                             ELSE Gathered(k)
      /\ ModeAt(k + 1) = IF f.op \in DataOps THEN IF f.fin THEN 0 ELSE Started(k) ELSE ModeAt(k)
      /\ InMessage(k + 1) = IF f.op \in DataOps THEN ~f.fin ELSE InMessage(k)
  BY <1>1, <1>3, <1>4, Meaning
<1>6. /\ Messages(k) = IF EndsMessage(k) THEN Append(Messages(k - 1), MessageOf(k))
                        ELSE Messages(k - 1)
      /\ Answers(k) = IF f.op = PING THEN Append(Answers(k - 1), [opcode |-> PONG, data |-> f.data])
                       ELSE Answers(k - 1)
  BY <1>1, <1>3, <1>4, OutputStep
<1>7. EndsMessage(k) <=> f.op \in DataOps /\ f.fin BY <1>1 DEF EndsMessage
<1> SUFFICES ASSUME Obeyed'
             PROVE  /\ continueBuffer' = Gathered(k + 1)
                    /\ messageMode' = ModeAt(k + 1)
                    /\ InMessage(k + 1) => ModeAt(k + 1) # 0
                    /\ emitted' = Messages(k) /\ pushed' = Answers(k)
  <2>1. opcode' = 0 BY <1>2 DEF Reset
  <2>2. PICK m : m = k + 1 OBVIOUS
  <2>3. /\ Gathered(m)' = Gathered(m) /\ ModeAt(m)' = ModeAt(m) /\ InMessage(m)' = InMessage(m)
        /\ Messages(k)' = Messages(k) /\ Answers(k)' = Answers(k)
    BY <1>3, Unchanged
  <2>4. at'.frame = m /\ m - 1 = k BY <1>3, <2>2
  <2>5. opcode' \notin {TEXTMODE, BINMODE} BY <2>1 DEF TEXTMODE, BINMODE
  <2> QED BY <2>2, <2>3, <2>4, <2>5 DEF Gathering
<1>8. ~Broken(k)
  <2>1. k \in 1..at'.frame - 1 BY <1>3
  <2>2. ~Broken(k)' BY <2>1 DEF Obeyed
  <2> QED BY <1>3, <2>2, Unchanged
<1>9. InMessage(k + 1) => ModeAt(k + 1) # 0
  <2>1. f.op \in DataOps => Started(k) # 0
    <3>1. CASE InMessage(k) BY <1>3, <1>5, <3>1
    <3>2. CASE ~InMessage(k) /\ f.op \in DataOps
      <4>1. f.op # CONTINUATION BY <1>1, <1>8, <3>2 DEF Broken
      <4> QED BY <1>5, <3>2, <4>1 DEF DataOps, CONTINUATION
    <3> QED BY <3>1, <3>2
  <2> QED BY <1>3, <1>5, <2>1
<1>10. PING \notin DataOps /\ PONG \notin DataOps /\ CLOSE \notin DataOps /\ PING # PONG
  BY DEF DataOps, CONTINUATION, TEXTMODE, BINMODE, PING, PONG, CLOSE
<1>11. {TEXTMODE, BINMODE} \subseteq DataOps BY DEF DataOps
<1>12. /\ f.op \notin DataOps => Message = [opcode |-> messageMode, data |-> f.data] /\ ~Joins
       /\ f.op \in DataOps => /\ Message = MessageOf(k) /\ messageMode = Started(k)
                              /\ ~Joins => continueBuffer = <<>>
  BY <1>1, <1>2, <1>8, MessageIs
<1>13. CASE FrameFragment
  <2>1. /\ ~f.fin /\ continueBuffer' = continueBuffer \o Packet
        /\ messageMode' = messageMode /\ emitted' = emitted /\ pushed' = pushed
    BY <1>3, <1>13 DEF FrameFragment, out
  <2>2. f.op \in DataOps
    <3>1. f.op \in DataOps \cup ControlOps BY <1>3 DEF OpcodeFails
    <3>2. f.op \notin ControlOps BY <1>1, <1>8, <2>1 DEF Broken
    <3> QED BY <3>1, <3>2
  <2> QED BY <1>3, <1>5, <1>6, <1>7, <1>9, <1>10, <1>12, <2>1, <2>2
<1>14. CASE FrameMessage
  <2>1. /\ f.fin /\ f.op \in DataOps /\ messageMode' = 0 /\ emitted' = Append(emitted, Message)
        /\ continueBuffer' = (IF Joins THEN <<>> ELSE continueBuffer) /\ pushed' = pushed
    BY <1>3, <1>14 DEF FrameMessage, Accept
  <2> QED BY <1>3, <1>5, <1>6, <1>7, <1>9, <1>10, <1>12, <2>1
<1>15. CASE FramePing
  <2>1. /\ f.op = PING /\ messageMode' = messageMode /\ emitted' = emitted
        /\ pushed' = Append(pushed, [opcode |-> PONG, data |-> Message.data])
        /\ continueBuffer' = (IF Joins THEN <<>> ELSE continueBuffer)
    BY <1>3, <1>15 DEF FramePing, Accept
  <2>2. Message.data = f.data /\ ~Joins BY <1>10, <1>12, <2>1
  <2>3. f.op \notin {TEXTMODE, BINMODE} BY <1>10, <1>11, <2>1
  <2> QED BY <1>3, <1>5, <1>6, <1>7, <1>9, <1>10, <2>1, <2>2, <2>3
<1>16. CASE FramePong
  <2>1. /\ f.op = PONG /\ messageMode' = messageMode /\ emitted' = emitted /\ pushed' = pushed
        /\ continueBuffer' = (IF Joins THEN <<>> ELSE continueBuffer)
    BY <1>3, <1>16 DEF FramePong, Accept, out
  <2>2. ~Joins BY <1>10, <1>12, <2>1
  <2>3. f.op \notin {TEXTMODE, BINMODE} BY <1>10, <1>11, <2>1
  <2> QED BY <1>3, <1>5, <1>6, <1>7, <1>9, <1>10, <2>1, <2>2, <2>3
<1> QED BY <1>13, <1>14, <1>15, <1>16

\* Every step keeps what has been made of the stream.
LEMMA GatheringKept ==
  ASSUME TypeOK, Located, TypeOK', Located', Parsing, Civil, Gathering, [Next]_vars
  PROVE  Gathering'
<1>1. splits' = splits BY FramesGrow
<1>2. CASE splits \/ conn' # "open" BY <1>1, <1>2 DEF Gathering
<1>3. CASE conn # "open"
  <2>1. UNCHANGED vars BY <1>3, Rests, Header
  <2> QED BY <1>3, <2>1 DEF Gathering, vars, out
<1>4. CASE ~splits /\ conn = "open" /\ conn' = "open"
  <2>1. CASE \E f \in Frames : PeerSends(f) BY <2>1, GatheringGrows
  <2>2. CASE HandShake BY <2>2, GatheringBegins
  <2>3. CASE HeadParse BY <1>4, <2>3, GatheringParse
  <2>4. CASE FrameFragment \/ FrameMessage \/ FramePing \/ FramePong BY <1>4, <2>4, GatheringDone
  <2>5. ~(EndOfStream \/ FrameRefused \/ FrameNotUtf8 \/ FrameClose)
    BY <1>4 DEF EndOfStream, FrameRefused, FrameNotUtf8, FrameClose, CloseCode
  <2>6. CASE UNCHANGED vars \/ Event \/ Again \/ HeadPart \/ LengthRead \/ MasksRead \/ FramePart
             \/ PeerEnds \/ \E n \in 1..ahead : Arrive(n)
    <3>1. frames' = frames /\ UNCHANGED <<opcode, continueBuffer, messageMode, emitted, pushed>>
      BY <2>6 DEF vars, Event, Again, HeadPart, LengthRead, MasksRead, FramePart, NextFrame,
                  PeerEnds, Arrive, peerVars, header, buffers, out
    <3>2. at'.frame = at.frame
      BY <2>6, FramePartTyped, Places DEF vars, Event, Again, HeadPart, LengthRead, MasksRead,
                                  PeerEnds, Arrive, Skip
    <3> QED BY <1>1, <1>4, <3>1, <3>2, GatheringStays
  <2> QED BY <1>4, <2>1, <2>2, <2>3, <2>4, <2>5, <2>6, NeverLost DEF Next, PollerStep
<1> QED BY <1>2, <1>3, <1>4, Header

LEMMA AlwaysGathering == Spec => []Gathering
<1>1. Init => Gathering
  <2> SUFFICES ASSUME Init PROVE Gathering OBVIOUS
  <2>1. PICK k \in {0, 1} : k = at.frame BY DEF Init
  <2>2. /\ continueBuffer = <<>> /\ messageMode = 0 /\ opcode = 0 /\ emitted = <<>> /\ pushed = <<>>
    BY DEF Init
  <2> QED BY <2>1, <2>2, NothingYet DEF Gathering, TEXTMODE, BINMODE
<1>2. /\ TypeOK /\ Located /\ (TypeOK /\ Located)' /\ Parsing /\ Civil /\ Gathering /\ [Next]_vars
      => Gathering'
  BY GatheringKept
<1> QED BY <1>1, <1>2, AlwaysLocated, AlwaysParsing, AlwaysCivil, PTL DEF Spec

\* A connection that is closed had handed over the messages of the frames read
\* so far, or all but the last one.
LEMMA ToldKept ==
  ASSUME TypeOK, Located, TypeOK', Located', Parsing, Civil, Gathering, Told, [Next]_vars
  PROVE  Told'
<1>1. splits' = splits BY FramesGrow
<1>2. CASE splits \/ conn' # "closed" BY <1>1, <1>2 DEF Told
<1>3. CASE conn = "closed"
  <2>1. UNCHANGED vars BY <1>3, Rests
  <2>2. /\ splits' = splits /\ conn' = conn /\ emitted' = emitted /\ at' = at /\ frames' = frames
    BY <2>1 DEF vars, peerVars, out
  <2> SUFFICES ASSUME ~splits, Obeyed' PROVE IsPrefix(emitted, Messages(at.frame - 1)')
    BY <2>2 DEF Told
  <2>3. PICK k : k = at.frame OBVIOUS
  <2>4. \A i \in 1..k - 1 : ~Broken(i)' BY <2>2, <2>3 DEF Obeyed
  <2>5. Obeyed BY <2>2, <2>3, <2>4, Unchanged DEF Obeyed
  <2>6. IsPrefix(emitted, Messages(k - 1)) BY <1>3, <2>3, <2>5 DEF Told
  <2>7. Messages(k - 1)' = Messages(k - 1) BY <2>2, Unchanged
  <2>8. at'.frame = k BY <2>2, <2>3
  <2> QED BY <2>3, <2>6, <2>7, <2>8
<1>4. CASE ~splits /\ conn = "open" /\ conn' = "closed"
  <2>1. EndOfStream \/ HandShake \/ HeadParse \/ FrameRefused \/ FrameNotUtf8 \/ FrameClose
    BY <1>4 DEF Next, vars, PollerStep, PeerEnds, PeerSends, Arrive, Event, Again, Derail, HeadPart,
       LengthRead, MasksRead, FramePart, FrameFragment, FrameMessage, FramePing, FramePong, out
  <2>2. frames' = frames /\ emitted' = emitted
    BY <1>4, <2>1 DEF EndOfStream, HandShake, HeadParse, FrameRefused, FrameNotUtf8, FrameClose,
       Complete, NextFrame, CloseCode, peerVars, out
  <2> SUFFICES ASSUME Obeyed' PROVE IsPrefix(emitted, Messages(at.frame - 1)')
    BY <2>2 DEF Told
  <2>3. PICK k : k = at.frame OBVIOUS
  <2>4. /\ at'.frame = k \/ (Complete /\ at'.frame = k + 1)
        /\ k \in Nat
    <3>1. CASE HandShake
      <4>1. at' = at BY <1>4, <3>1 DEF HandShake, out
      <4> QED BY <2>3, <4>1, Places
    <3>2. CASE EndOfStream \/ FrameRefused
      <4>1. at' = at BY <3>2 DEF EndOfStream, FrameRefused
      <4> QED BY <2>3, <4>1, Places
    <3>3. CASE HeadParse BY <2>3, <3>3, Places DEF HeadParse, Skip
    <3>4. CASE FrameNotUtf8 \/ FrameClose
      <4>1. Complete BY <3>4 DEF FrameNotUtf8, FrameClose
      <4> QED BY <1>4, <2>3, <4>1, Completed, Places
    <3> QED BY <2>1, <3>1, <3>2, <3>3, <3>4
  <2>5. \A i \in 1..at'.frame - 1 : ~Broken(i)' BY DEF Obeyed
  <2>6. Obeyed
    <3>1. \A i \in 1..k - 1 : i \in 1..at'.frame - 1 BY <2>4
    <3>2. \A i \in 1..k - 1 : ~Broken(i) BY <2>2, <2>5, <3>1, Unchanged
    <3> QED BY <2>3, <3>2 DEF Obeyed
  <2>7. emitted = Messages(k - 1) BY <1>4, <2>3, <2>6 DEF Gathering
  <2>8. PICK Msg : Msg = [opcode : 0..15, data : Seq(Nat)] OBVIOUS
  <2>9. PICK e \in Seq(Msg) : e = emitted
    <3>1. emitted \in Seq([opcode : {TEXTMODE, BINMODE}, data : Seq(Nat)]) BY Header
    <3>2. [opcode : {TEXTMODE, BINMODE}, data : Seq(Nat)] \subseteq Msg
      BY <2>8 DEF TEXTMODE, BINMODE
    <3>3. PICK L : emitted \in Seq(L) /\ L \subseteq Msg BY <3>1, <3>2
    <3>4. emitted \in [1..Len(emitted) -> L] /\ Len(emitted) \in Nat BY <3>3, LenProperties
    <3>5. emitted \in [1..Len(emitted) -> Msg] BY <3>3, <3>4
    <3>6. emitted \in Seq(Msg) BY <3>4, <3>5
    <3> QED BY <3>6
  <2>10. IsPrefix(e, e) BY DEF IsPrefix
  <2>11. CASE at'.frame = k
    <3>1. Messages(k - 1)' = Messages(k - 1) BY <2>2, Unchanged
    <3> QED BY <2>7, <2>9, <2>10, <2>11, <3>1
  <2>12. CASE Complete /\ at'.frame = k + 1
    <3>1. k \in 1..Len(frames) BY <1>4, <2>3, <2>12, Completed
    <3>2. /\ Messages(k) = IF EndsMessage(k) THEN Append(Messages(k - 1), MessageOf(k))
                           ELSE Messages(k - 1)
      BY <3>1, OutputStep, Places
    <3>3. (k + 1) - 1 = k /\ Messages(k)' = Messages(k) BY <2>2, <2>4, Unchanged
    <3>4. CASE ~EndsMessage(k) BY <2>7, <2>9, <2>10, <2>12, <3>2, <3>3, <3>4
    <3>5. CASE EndsMessage(k)
      <4>1. PICK m : m = MessageOf(k) OBVIOUS
      <4>2. IsPrefix(e, Append(e, m))
        <5>1. PICK b : b = Append(e, m) OBVIOUS
        <5>2. Len(b) = Len(e) + 1 /\ \A i \in 1..Len(e) : b[i] = e[i] BY <5>1
        <5>3. SubSeq(e, 1, Len(e)) = SubSeq(b, 1, Len(e))
          <6>1. SubSeq(e, 1, Len(e)) = [i \in 1..Len(e) |-> e[i]]
                /\ SubSeq(b, 1, Len(e)) = [i \in 1..Len(e) |-> b[i]]
            BY <5>1, <5>2
          <6> QED BY <5>2, <6>1
        <5> QED BY <5>1, <5>2, <5>3 DEF IsPrefix
      <4> QED BY <2>7, <2>9, <2>12, <3>2, <3>3, <3>5, <4>1, <4>2
    <3> QED BY <3>4, <3>5
  <2> QED BY <2>4, <2>11, <2>12
<1> QED BY <1>2, <1>3, <1>4, Header

LEMMA AlwaysTold == Spec => []Told
<1>1. Init => Told BY DEF Init, Told
<1>2. /\ TypeOK /\ Located /\ (TypeOK /\ Located)' /\ Parsing /\ Civil /\ Gathering /\ Told
      /\ [Next]_vars
      => Told'
  BY ToldKept
<1> QED BY <1>1, <1>2, AlwaysLocated, AlwaysParsing, AlwaysCivil, AlwaysGathering, PTL DEF Spec

\* In a stream whose long headers are not cut, and that obeys the protocol, the
\* handlers get the messages the peer has sent, in order, once each, as they were
\* sent; every PING is answered with its own payload; and what has been read of
\* a frame is kept for the next event (websocket.go:82-302, websocket_frame.go:13-103).
THEOREM AlwaysExact == Spec => []Exact
<1>1. TypeOK /\ Located /\ Parsing /\ Gathering /\ Told => Exact
  <2> SUFFICES ASSUME TypeOK, Located, Parsing, Gathering, Told PROVE Exact OBVIOUS
  <2>1. Resumes BY ParsingResumes
  <2>2. PingsAnswered BY DEF Gathering, PingsAnswered
  <2>3. ~splits /\ Obeyed =>
          IF conn = "open" THEN emitted = Messages(at.frame - 1)
          ELSE IsPrefix(emitted, Messages(at.frame - 1))
    BY Header DEF Gathering, Told
  <2> QED BY <2>1, <2>2, <2>3 DEF Exact
<1> QED BY <1>1, AlwaysLocated, AlwaysParsing, AlwaysGathering, AlwaysTold, PTL

-----------------------------------------------------------------------------
(* What closes the connection.                                             *)

\* A good message of text is valid.
LEMMA JudgedRightly ==
  ASSUME TypeOK, Located, Parsing, Civil, Gathering, ~splits, Complete, final,
         NEW k, k = at.frame, NEW f, f = frames[k]
  PROVE  /\ f.op \in DataOps /\ ~Broken(k) => (MustUtf8 <=> NotUtf8(k))
         /\ f.op \in {PING, PONG} => (MustUtf8 <=> InText(k) /\ ~Valid(f.data))
<1>1. /\ k \in 1..Len(frames) /\ f \in Frames /\ final = f.fin
      /\ messageMode = IF f.op \in {TEXTMODE, BINMODE} THEN f.op ELSE ModeAt(k)
  BY Accepted
<1>2. /\ Started(k) = IF InMessage(k) THEN ModeAt(k) ELSE f.op
      /\ MessageOf(k) = [opcode |-> Started(k), data |-> Gathered(k) \o f.data]
      /\ ~InMessage(k) => ModeAt(k) = 0
  BY <1>1, Meaning, Places
<1>3. /\ f.op \notin DataOps => Message = [opcode |-> messageMode, data |-> f.data]
      /\ f.op \in DataOps /\ ~Broken(k) => Message = MessageOf(k) /\ messageMode = Started(k)
  BY MessageIs
<1>4. ASSUME f.op \in DataOps, ~Broken(k) PROVE MustUtf8 <=> NotUtf8(k)
  <2>1. f.op # CLOSE BY <1>4 DEF DataOps, CONTINUATION, TEXTMODE, BINMODE, CLOSE
  <2> QED BY <1>1, <1>3, <1>4, <2>1 DEF MustUtf8, NotUtf8
<1>5. ASSUME f.op \in {PING, PONG} PROVE MustUtf8 <=> InText(k) /\ ~Valid(f.data)
  <2>1. f.op \notin DataOps /\ f.op \notin {TEXTMODE, BINMODE}
    BY <1>5 DEF DataOps, CONTINUATION, TEXTMODE, BINMODE, PING, PONG
  <2>2. messageMode = ModeAt(k) BY <1>1, <2>1
  <2>3. Message.data = f.data BY <1>3, <2>1
  <2>4. MustUtf8 <=> ModeAt(k) = TEXTMODE /\ ~Valid(f.data) BY <2>2, <2>3 DEF MustUtf8
  <2>5. InText(k) <=> ModeAt(k) = TEXTMODE BY <1>2 DEF InText, TEXTMODE
  <2> QED BY <2>4, <2>5
<1> QED BY <1>4, <1>5

\* The connections that must be closed are.
LEMMA RefusedKept ==
  ASSUME TypeOK, Located, TypeOK', Located', Parsing, Civil, Gathering, BrokenIsRefused, [Next]_vars
  PROVE  BrokenIsRefused'
<1>1. splits' = splits BY FramesGrow
<1>2. CASE splits \/ conn' # "open" BY <1>1, <1>2 DEF BrokenIsRefused
<1>3. CASE conn # "open"
  <2>1. UNCHANGED vars BY <1>3, Rests, Header
  <2> QED BY <1>3, <2>1 DEF BrokenIsRefused, vars, out
<1>4. CASE ~splits /\ conn = "open" /\ conn' = "open"
  <2>1. ASSUME NEW g \in Frames, PeerSends(g) PROVE BrokenIsRefused'
    <3>1. /\ frames' = Append(frames, g) /\ at' = at /\ isHandleShake
          /\ \A k \in DOMAIN frames : ~Broken(k) /\ ~NotUtf8(k)
      BY <2>1 DEF PeerSends
    <3>2. /\ at.frame \in 1..Len(frames) + 1
          /\ DOMAIN frames = 1..Len(frames) /\ frames \in Seq(Frames)
      BY <1>4, <3>1, Places DEF Located, Inside
    <3>3. ASSUME NEW k \in 1..at.frame - 1
          PROVE  ~Broken(k)' /\ ~NotUtf8(k)' /\ ~WronglyRefused(k)'
      <4>1. k \in 1..Len(frames) BY <3>2, Places
      <4>2. ~WronglyRefused(k) BY <1>4 DEF BrokenIsRefused
      <4> QED BY <3>1, <3>2, <4>1, <4>2, Longer
    <3> QED BY <3>1, <3>3 DEF BrokenIsRefused
  <2>2. CASE frames' = frames /\ (at'.frame = at.frame \/ at'.frame = 1)
    <3>1. ASSUME NEW k \in 1..at'.frame - 1
          PROVE  (Broken(k)' \/ NotUtf8(k)' => Overlooked(k)') /\ ~WronglyRefused(k)'
      <4>1. at'.frame = at.frame BY <2>2, <3>1
      <4>2. (Broken(k) \/ NotUtf8(k) => Overlooked(k)) /\ ~WronglyRefused(k)
        BY <1>4, <4>1 DEF BrokenIsRefused
      <4> QED BY <2>2, <4>2, Unchanged
    <3> QED BY <3>1 DEF BrokenIsRefused
  <2>3. CASE FrameFragment \/ FrameMessage \/ FramePing \/ FramePong
    <3>1. PICK k, f : k = at.frame /\ f = frames[k] OBVIOUS
    <3>2. Complete BY <2>3 DEF FrameFragment, FrameMessage, FramePing, FramePong, Accept
    <3>3. /\ k \in 1..Len(frames) /\ at'.frame = k + 1 /\ frames' = frames /\ f \in Frames
          /\ opcode = f.op /\ final = f.fin
      BY <1>4, <3>1, <3>2, Accepted
    <3>4. f.op = CLOSE => ~final
      BY <2>3, <3>3 DEF FrameFragment, FrameMessage, FramePing, FramePong, DataOps, CONTINUATION,
         TEXTMODE, BINMODE, PING, PONG, CLOSE
    <3>5. Broken(k) => Overlooked(k) BY <1>4, <3>1, <3>2, <3>4, BrokenIsSeen
    <3>6. NotUtf8(k) => Broken(k)
      <4> SUFFICES ASSUME NotUtf8(k), ~Broken(k) PROVE FALSE OBVIOUS
      <4>1. CASE f.op \in DataOps /\ f.fin
        <5>1. FrameMessage
          <6>1. f.op \notin {PING, PONG}
            BY <4>1 DEF DataOps, CONTINUATION, TEXTMODE, BINMODE, PING, PONG
          <6> QED BY <2>3, <3>3, <4>1, <6>1 DEF FrameFragment, FramePing, FramePong
        <5>2. final /\ ~MustUtf8 BY <5>1 DEF FrameMessage, Accept
        <5> QED BY <1>4, <3>1, <3>2, <4>1, <5>2, JudgedRightly
      <4>2. CASE f.op = CLOSE
        <5>1. ~f.fin BY <3>3, <3>4, <4>2
        <5> QED BY <3>1, <4>2, <5>1 DEF Broken, ControlOps
      <4> QED BY <3>1, <4>1, <4>2 DEF NotUtf8
    <3>7. ~WronglyRefused(k)
      <4> SUFFICES ASSUME WronglyRefused(k), f.op \in {PING, PONG} PROVE FALSE
        BY <3>1 DEF WronglyRefused
      <4>1. ~(FrameMessage \/ FrameFragment)
        <5>1. f.op \notin DataOps BY DEF DataOps, CONTINUATION, TEXTMODE, BINMODE, PING, PONG
        <5>2. ~OpcodeFails BY <1>4, <3>1, <3>2, Accepted
        <5>3. final BY <3>3, <5>2 DEF OpcodeFails
        <5> QED BY <3>3, <5>1, <5>3 DEF FrameMessage, FrameFragment
      <4>2. final /\ ~MustUtf8 BY <2>3, <4>1 DEF FramePing, FramePong, Accept
      <4>3. ~(InText(k) /\ ~Valid(f.data)) BY <1>4, <3>1, <3>2, <4>2, JudgedRightly
      <4>4. f.op = PONG /\ f.data = <<>> BY <3>1, <4>3 DEF WronglyRefused
      <4>5. ~NoPayload /\ fragmentLength = Len(f.data) BY <1>4, <3>1, <3>2, Accepted
      <4> QED BY <3>3, <4>4, <4>5 DEF NoPayload
    <3>8. ASSUME NEW i \in 1..at'.frame - 1
          PROVE  (Broken(i)' \/ NotUtf8(i)' => Overlooked(i)') /\ ~WronglyRefused(i)'
      <4>1. i = k \/ i \in 1..at.frame - 1 BY <3>1, <3>3
      <4>2. (Broken(i) \/ NotUtf8(i) => Overlooked(i)) /\ ~WronglyRefused(i)
        BY <1>4, <3>5, <3>6, <3>7, <4>1 DEF BrokenIsRefused
      <4> QED BY <3>3, <4>2, Unchanged
    <3> QED BY <3>8 DEF BrokenIsRefused
  <2>4. ~(EndOfStream \/ FrameRefused \/ FrameNotUtf8 \/ FrameClose)
    BY <1>4 DEF EndOfStream, FrameRefused, FrameNotUtf8, FrameClose, CloseCode
  <2>5. CASE UNCHANGED vars \/ Event \/ Again \/ HandShake \/ HeadPart \/ HeadParse \/ LengthRead
             \/ MasksRead \/ FramePart \/ PeerEnds \/ \E n \in 1..ahead : Arrive(n)
    <3>1. frames' = frames
      BY <2>5 DEF vars, Event, Again, HandShake, HeadPart, HeadParse, LengthRead, MasksRead,
                  FramePart, NextFrame, PeerEnds, Arrive, peerVars
    <3>2. at'.frame = at.frame \/ at'.frame = 1
      BY <2>5, FramePartTyped, Places DEF vars, Event, Again, HandShake, HeadPart, HeadParse,
                                  LengthRead, MasksRead, PeerEnds, Arrive, Skip
    <3> QED BY <2>2, <3>1, <3>2
  <2> QED BY <1>4, <2>1, <2>3, <2>4, <2>5, NeverLost DEF Next, PollerStep
<1> QED BY <1>2, <1>3, <1>4, Header

LEMMA AlwaysRefused == Spec => []BrokenIsRefused
<1>1. Init => BrokenIsRefused
  <2>1. 1..0 - 1 = {} OBVIOUS
  <2> QED BY <2>1 DEF Init, BrokenIsRefused
<1>2. /\ TypeOK /\ Located /\ (TypeOK /\ Located)' /\ Parsing /\ Civil /\ Gathering
      /\ BrokenIsRefused /\ [Next]_vars
      => BrokenIsRefused'
  BY RefusedKept
<1> QED BY <1>1, <1>2, AlwaysLocated, AlwaysParsing, AlwaysCivil, AlwaysGathering, PTL DEF Spec

\* Why the connection may be closed with this code.
Cause(code) ==
  Justified(at.frame, code) \/ (code \in {1000, 1007} /\ WronglyRefused(at.frame))

\* What the CLOSE frame says is pushed.
LEMMA CodeIs ==
  ASSUME TypeOK, NEW code \in Nat, CloseCode(code)
  PROVE  Last(pushed').data[1] = code
<1>1. PICK p : p = [opcode |-> CLOSE, data |-> <<code>>] OBVIOUS
<1>2. pushed' = Append(pushed, p) BY <1>1 DEF CloseCode
<1>3. Last(pushed') = p BY <1>2, Header DEF Last
<1>4. p.data = <<code>> BY <1>1
<1>5. <<code>>[1] = code OBVIOUS
<1> QED BY <1>3, <1>4, <1>5

\* A frame that is refused before its payload is read.
LEMMA RefusedForCause ==
  ASSUME TypeOK, Located, Parsing, Civil, Gathering, ~splits, FrameRefused
  PROVE  \E code \in Nat : CloseCode(code) /\ Cause(code)
<1>1. PICK k, f : k = at.frame /\ f = frames[k] OBVIOUS
<1>2. pc = "frame" BY DEF FrameRefused
<1>3. conn = "open" /\ k \in 1..Len(frames) /\ InPayload(f) BY <1>1, <1>2, Orderly
<1>4. opcode = f.op /\ final = f.fin /\ fragmentLength = Len(f.data) BY <1>3 DEF InPayload
<1>5. Obeyed BY <1>1, <1>3, ReadsCivil, Places
<1>6. /\ continueBuffer = Gathered(k)
      /\ messageMode = IF opcode \in {TEXTMODE, BINMODE} THEN opcode ELSE ModeAt(k)
      /\ InMessage(k) => ModeAt(k) # 0
  BY <1>1, <1>3, <1>5 DEF Gathering
<1>7. /\ ~InMessage(k) => Gathered(k) = <<>> BY <1>1, <1>3, Meaning, Places
<1>8. CASE OpcodeFails /\ CloseCode(1002)
  <2>1. Broken(k)
    <3>1. CASE opcode = CONTINUATION /\ messageMode < TEXTMODE
      <4>1. messageMode = ModeAt(k) /\ messageMode = 0
        BY <1>6, <3>1, Header DEF CONTINUATION, TEXTMODE, BINMODE
      <4> QED BY <1>1, <1>4, <1>6, <3>1, <4>1 DEF Broken
    <3>2. CASE opcode \in {TEXTMODE, BINMODE} /\ continueBuffer # <<>>
      BY <1>1, <1>4, <1>6, <1>7, <3>2 DEF Broken
    <3>3. CASE opcode = CLOSE /\ (fragmentLength = 1 \/ fragmentLength > Short)
      BY <1>1, <1>4, <3>3 DEF Broken, ControlOps
    <3>4. CASE opcode = PING /\ (~final \/ fragmentLength > Short)
      BY <1>1, <1>4, <3>4 DEF Broken, ControlOps
    <3>5. CASE opcode = PONG /\ ~final BY <1>1, <1>4, <3>5 DEF Broken, ControlOps
    <3>6. CASE opcode \notin DataOps \cup ControlOps BY <1>1, <1>4, <3>6 DEF Broken
    <3> QED BY <1>8, <3>1, <3>2, <3>3, <3>4, <3>5, <3>6 DEF OpcodeFails
  <2>2. Cause(1002) BY <1>1, <2>1 DEF Cause, Justified
  <2> QED BY <1>8, <2>2
<1>9. CASE NoPayload /\ CloseCode(1000)
  <2>1. f.op \in {PONG, CLOSE} /\ f.data = <<>>
    <3>1. f \in Frames /\ f.data \in Seq(Nat) BY <1>1, <1>3, Places, FrameIs
    <3>2. opcode \in {PONG, CLOSE} /\ Len(f.data) = 0 BY <1>4, <1>9 DEF NoPayload
    <3>3. f.data = <<>> BY <3>1, <3>2
    <3> QED BY <1>4, <3>2, <3>3
  <2>2. Cause(1000) BY <1>1, <2>1 DEF Cause, Justified, WronglyRefused
  <2> QED BY <1>9, <2>2
<1> QED BY <1>8, <1>9 DEF FrameRefused

\* The codes that verifyCloseCode lets through are the good ones.
LEMMA CodesAre == \A code \in Nat : VerifyCloseCode(code) <=> code \in GoodCodes
  BY SMTT(60) DEF VerifyCloseCode, GoodCodes

\* A frame that is judged when its payload is complete.
LEMMA JudgedForCause ==
  ASSUME TypeOK, Located, Parsing, Civil, Gathering, ~splits, FrameNotUtf8 \/ FrameClose
  PROVE  \E code \in Nat : CloseCode(code) /\ Cause(code)
<1>1. PICK k, f : k = at.frame /\ f = frames[k] OBVIOUS
<1>2. Complete /\ final BY DEF FrameNotUtf8, FrameClose
<1>3. /\ k \in 1..Len(frames) /\ f \in Frames
      /\ opcode = f.op /\ Packet = f.data /\ fragmentLength = Len(f.data)
      /\ ~OpcodeFails /\ ~NoPayload
  BY <1>1, <1>2, Accepted
<1>4. f.data \in Seq(Nat) /\ Len(f.data) \in Nat BY <1>3, FrameIs
<1>5. CASE FrameNotUtf8
  <2>1. CloseCode(1007) /\ opcode # CLOSE /\ MustUtf8 BY <1>5 DEF FrameNotUtf8
  <2>2. f.op \in DataOps \/ f.op \in {PING, PONG} BY <1>3, <2>1 DEF OpcodeFails, ControlOps
  <2>3. CASE f.op \in DataOps
    <3>1. Broken(k) \/ NotUtf8(k) BY <1>1, <1>2, <2>1, <2>3, JudgedRightly
    <3>2. Cause(1007) BY <1>1, <3>1 DEF Cause, Justified
    <3> QED BY <2>1, <3>2
  <2>4. CASE f.op \in {PING, PONG}
    <3>1. InText(k) /\ ~Valid(f.data) BY <1>1, <1>2, <2>1, <2>4, JudgedRightly
    <3>2. Cause(1007) BY <1>1, <2>4, <3>1 DEF Cause, WronglyRefused
    <3> QED BY <2>1, <3>2
  <2> QED BY <2>2, <2>3, <2>4
<1>6. CASE FrameClose
  <2>1. opcode = CLOSE /\ f.op = CLOSE BY <1>3, <1>6 DEF FrameClose
  <2>2. f.data # <<>> /\ f.data[1] \in Nat
    <3>1. Len(f.data) # 0 BY <1>3, <2>1 DEF NoPayload
    <3> QED BY <1>4, <3>1
  <2>3. CASE ~Valid(SubSeq(f.data, 3, Len(f.data))) /\ CloseCode(1007)
    <3>1. Len(f.data) > 2
      <4> SUFFICES ASSUME ~(Len(f.data) > 2) PROVE FALSE OBVIOUS
      <4>1. SubSeq(f.data, 3, Len(f.data)) = <<>> BY <1>4
      <4>2. Valid(<<>>) BY DEF Valid
      <4> QED BY <2>3, <4>1, <4>2
    <3>2. NotUtf8(k) BY <1>1, <2>1, <2>3, <3>1 DEF NotUtf8
    <3>3. Cause(1007) BY <1>1, <3>2 DEF Cause, Justified
    <3> QED BY <2>3, <3>3
  <2>4. CASE ~VerifyCloseCode(f.data[1]) /\ CloseCode(1002)
    <3>1. f.data[1] \notin GoodCodes BY <2>2, <2>4, CodesAre
    <3>2. Broken(k) BY <1>1, <2>1, <2>2, <3>1 DEF Broken
    <3>3. Cause(1002) BY <1>1, <3>2 DEF Cause, Justified
    <3> QED BY <2>4, <3>3
  <2>5. CASE CloseCode(1000)
    <3>1. Cause(1000) BY <1>1, <2>1 DEF Cause, Justified
    <3> QED BY <2>5, <3>1
  <2>6. \/ ~Valid(SubSeq(f.data, 3, Len(f.data))) /\ CloseCode(1007)
        \/ ~VerifyCloseCode(f.data[1]) /\ CloseCode(1002)
        \/ CloseCode(1000)
    BY <1>3, <1>6 DEF FrameClose
  <2> QED BY <2>3, <2>4, <2>5, <2>6
<1> QED BY <1>5, <1>6

\* Every step that closes the connection has its cause.
LEMMA ForCause ==
  ASSUME TypeOK, Located, Parsing, Civil, Gathering, ~splits, [Next]_vars, conn' # conn
  PROVE  Cause(Last(pushed').data[1])
<1>1. conn = "open"
  <2>1. conn = "closed" => conn' = conn BY Rests DEF vars, out
  <2> QED BY <2>1, Header
<1>2. EndOfStream \/ HandShake \/ HeadParse \/ FrameRefused \/ FrameNotUtf8 \/ FrameClose
  BY DEF Next, vars, PollerStep, PeerEnds, PeerSends, Arrive, Event, Again, Derail, HeadPart,
     LengthRead, MasksRead, FramePart, FrameFragment, FrameMessage, FramePing, FramePong, out
<1> SUFFICES \E code \in Nat : CloseCode(code) /\ Cause(code)
  BY CodeIs
<1>3. CASE EndOfStream
  <2>1. CloseCode(1000) /\ ended /\ inbound = 0 BY <1>3 DEF EndOfStream
  <2>2. Cause(1000) BY <2>1 DEF Cause, Justified
  <2> QED BY <2>1, <2>2
<1>4. CASE HandShake
  <2>1. pc = "handshake" /\ inbound > 0 BY <1>4 DEF HandShake, Reads
  <2>2. Unshaken BY <1>1, <2>1, Header DEF Located, Inside
  <2>3. inbound = RequestLen BY <2>1, <2>2, Places DEF Unshaken
  <2>4. UNCHANGED out BY <1>4, <2>3, Numbers DEF HandShake
  <2> QED BY <2>4 DEF out
<1>5. CASE HeadParse
  <2>1. PICK k, f : k = at.frame /\ f = frames[k] OBVIOUS
  <2>2. f.rsv /\ CloseCode(1002) BY <1>5, <2>1 DEF HeadParse, out
  <2>3. Broken(k) BY <2>1, <2>2 DEF Broken
  <2>4. Cause(1002) BY <2>1, <2>3 DEF Cause, Justified
  <2> QED BY <2>2, <2>4
<1>6. CASE FrameRefused BY <1>6, RefusedForCause
<1>7. CASE FrameNotUtf8 \/ FrameClose BY <1>7, JudgedForCause
<1> QED BY <1>2, <1>3, <1>4, <1>5, <1>6, <1>7

\* What the decoder closes the connection for, deviations included: the end of
\* the stream, a CLOSE, a broken frame and a text that is not UTF-8, with the code
\* that says so; and, against the protocol, an empty PONG and a PING or PONG that
\* is not UTF-8 inside of a text message, which no connection outlives either.
\* None outlives a broken frame, but for a CLOSE that is not final, a long PONG,
\* and a message that begins after empty fragments of another one
\* (websocket.go:82-302, websocket_frame.go:13-103, websocket_ctrl.go:99-177).
THEOREM AlwaysClosedRightly == Spec => ClosedRightly
<1>1. TypeOK /\ Located /\ Parsing /\ Civil /\ Gathering /\ [Next]_vars =>
        (conn' # conn /\ ~splits =>
           LET k == at.frame  code == Last(pushed').data[1] IN
           Justified(k, code) \/ (code \in {1000, 1007} /\ WronglyRefused(k)))
  BY ForCause DEF Cause
<1> QED BY <1>1, AlwaysLocated, AlwaysParsing, AlwaysCivil, AlwaysGathering, AlwaysRefused, PTL
        DEF Spec, ClosedRightly, ClosedForCause
=============================================================================
