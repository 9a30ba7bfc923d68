------------------------------ MODULE WsDecode ------------------------------
(***************************************************************************)
(* DecodePacket of the websocket protocol (server/websocket.go,            *)
(* websocket_frame.go, websocket_ctrl.go): the handshake, the header of a  *)
(* frame, its payload, fragments, control frames between them, and what    *)
(* closes the connection.  One step is one read of the socket with what    *)
(* the code does until the next read; one event leads to one DecodePacket. *)
(*                                                                         *)
(* The stream is a sequence of frames, and at says which byte of which     *)
(* frame is read next.  A read that takes bytes of a frame for something   *)
(* they are not leaves the decoder "lost": what it does from there on is   *)
(* not modelled.  The extended length has one form (the one of two bytes;  *)
(* the one of eight is read in the same way), and a payload is a sequence  *)
(* of characters, of lead and trail bytes of UTF-8, and of close codes.    *)
(*                                                                         *)
(* Plain TCP; only the poller closes the connection; what is pushed is     *)
(* written whole (module ConnWrite is about that).                         *)
(***************************************************************************)
EXTENDS Integers, Sequences, SequencesExt

CONSTANTS
  Frames,        \* bound: the frames a peer may send, good and bad
  MaxFrame,      \* bound: frames the peer sends
  Short,         \* the 125 of the code: beyond it a length needs LengthLen bytes
  LengthLen,     \* bytes of an extended length
  MaskLen        \* bytes of a masking key

CONTINUATION == 0
TEXTMODE == 1
BINMODE == 2
CLOSE == 8
PING == 9
PONG == 10

HeadLen == 2
RequestLen == 2     \* bytes of the request that opens the websocket

Char == 1           \* a byte that is a character
Lead == 2           \* the first byte of a character of two
Trail == 3          \* the second one

ASSUME WsDecodeAssumption ==
  /\ Frames \subseteq [op : 0..15, fin : BOOLEAN, rsv : BOOLEAN, masked : BOOLEAN, data : Seq(Nat)]
  /\ MaxFrame \in Nat \ {0}
  /\ Short \in Nat /\ Short >= 2
  /\ LengthLen \in Nat \ {0} /\ MaskLen \in Nat \ {0}

VARIABLES
  splits,           \* requests, and headers with an extended length, may be cut
                    \* (bound: of such a peer the first frame is followed)
  frames,           \* the frames the peer has begun to send
  ahead,            \* bytes of the last one that have not arrived
  ended,            \* the peer has shut down its end
  inbound,          \* kernel: how many bytes can be read
  at,               \* [frame, byte]: how much has been read; 0 is the request
  isHandleShake,    \* c.isHandleShake
  headerBytes,      \* len(c.headerBytes)
  parseHeader,      \* c.parseHeader
  parseHeaderStep,  \* c.parseHeaderStep: 0, 1 (parsePayloadLength), 2 (parseMasks)
  opcode,           \* c.opcode
  final,            \* c.final
  fragmentLength,   \* c.fragmentLength
  masks,            \* len(c.masks)
  rBuffer,          \* c.rBuffer
  packetBuffer,     \* c.packetBuffer
  continueBuffer,   \* c.continueBuffer
  messageMode,      \* c.messageMode
  pc,               \* where the poller is in DecodePacket
  emitted,          \* messages handed to the handlers
  pushed,           \* frames sent back
  conn              \* "open" or "closed"

peerVars == <<splits, frames, ahead, ended>>
header == <<headerBytes, parseHeader, parseHeaderStep, opcode, final, fragmentLength, masks>>
buffers == <<rBuffer, packetBuffer, continueBuffer, messageMode>>
out == <<emitted, pushed, conn>>
vars == <<peerVars, inbound, at, isHandleShake, header, buffers, pc, out>>

Lesser(a, b) == IF a <= b THEN a ELSE b
DataOps == {CONTINUATION, TEXTMODE, BINMODE}
ControlOps == {CLOSE, PING, PONG}

\* utf8.Valid
Valid(s) == \A i \in DOMAIN s :
  \/ s[i] = Char
  \/ s[i] = Lead /\ i < Len(s) /\ s[i + 1] = Trail
  \/ s[i] = Trail /\ i > 1 /\ s[i - 1] = Lead

\* Where the parts of a frame begin.
MaskStart(f) == HeadLen + (IF Len(f.data) > Short THEN LengthLen ELSE 0)
PayloadStart(f) == MaskStart(f) + (IF f.masked THEN MaskLen ELSE 0)
Size(f) == PayloadStart(f) + Len(f.data)

Init ==
  /\ splits \in BOOLEAN
  /\ frames = <<>>
  /\ ahead = RequestLen
  /\ ended = FALSE
  /\ inbound = 0
  /\ at = [frame |-> 0, byte |-> 0]
  /\ isHandleShake = FALSE
  /\ headerBytes = 0 /\ parseHeader = FALSE /\ parseHeaderStep = 0
  /\ opcode = 0 /\ final = FALSE /\ fragmentLength = 0 /\ masks = 0
  /\ rBuffer = <<>> /\ packetBuffer = <<>> /\ continueBuffer = <<>>
  /\ messageMode = 0
  /\ pc = "wait"
  /\ emitted = <<>> /\ pushed = <<>>
  /\ conn = "open"

-----------------------------------------------------------------------------
(* What the frames mean, by RFC 6455.                                      *)

\* The data frames of the message that is unfinished before frame k.
Open(k) ==
  { i \in 1..k - 1 :
      /\ frames[i].op \in DataOps
      /\ \A j \in i..k - 1 : frames[j].op \in DataOps => ~frames[j].fin }

InMessage(k) == Open(k) # {}

\* The frames of the message that is unfinished before, or ends with, frame k.
Parts(k) == Open(k) \cup {k}
Started(k) == frames[Min(Parts(k))].op
MessageOf(k) ==
  [opcode |-> Started(k),
   data |-> FlattenSeq([i \in 1..k |-> IF i \in Parts(k) THEN frames[i].data ELSE <<>>])]

\* The messages the first n frames consist of.
EndsMessage(k) == frames[k].op \in DataOps /\ frames[k].fin
Messages(n) == FlattenSeq([k \in 1..n |-> IF EndsMessage(k) THEN <<MessageOf(k)>> ELSE <<>>])

\* The answers to the PINGs among them.
AnswerTo(f) == IF f.op = PING THEN <<[opcode |-> PONG, data |-> f.data]>> ELSE <<>>
Answers(n) == FlattenSeq([k \in 1..n |-> AnswerTo(frames[k])])

NotUtf8(k) ==
  LET f == frames[k] IN
  \/ f.op \in DataOps /\ f.fin /\ Started(k) = TEXTMODE /\ ~Valid(MessageOf(k).data)
  \/ f.op = CLOSE /\ Len(f.data) > 2 /\ ~Valid(SubSeq(f.data, 3, Len(f.data)))

\* The codes a CLOSE frame may carry.
GoodCodes == (1000..1003) \cup (1007..1014) \cup (3000..4999)

\* Frame k breaks a rule of the protocol.
Broken(k) ==
  LET f == frames[k] IN
  \/ f.rsv \/ ~f.masked
  \/ f.op \notin DataOps \cup ControlOps
  \/ f.op = CONTINUATION /\ ~InMessage(k)
  \/ f.op \in {TEXTMODE, BINMODE} /\ InMessage(k)
  \/ f.op \in ControlOps /\ (~f.fin \/ Len(f.data) > Short)
  \/ f.op = CLOSE /\ (Len(f.data) = 1 \/ (f.data # <<>> /\ f.data[1] \notin GoodCodes))

-----------------------------------------------------------------------------
(* The peer.  It asks for a websocket and waits for the answer; after a    *)
(* CLOSE, or once it has broken a rule, it says nothing more.  What comes  *)
(* when the fd is closed is left out.                                      *)

PeerSends(f) ==
  /\ ~ended /\ conn = "open" /\ ahead = 0 /\ isHandleShake
  /\ Len(frames) < IF splits THEN 1 ELSE MaxFrame
  /\ \A k \in DOMAIN frames : ~Broken(k) /\ ~NotUtf8(k) /\ frames[k].op # CLOSE
  /\ frames' = Append(frames, f)
  /\ ahead' = Size(f)
  /\ UNCHANGED <<splits, ended, inbound, at, isHandleShake, header, buffers, pc, out>>

\* A segment may end after the i-th byte of what the peer sends.
MayCut(i) ==
  \/ splits
  \/ frames = <<>> /\ i = RequestLen
  \/ frames # <<>> /\ LET f == Last(frames) IN
       Len(f.data) > Short => i \notin HeadLen + 1..PayloadStart(f) - 1

Arrive(n) ==
  /\ ~ended /\ conn = "open" /\ n <= ahead
  /\ MayCut((IF frames = <<>> THEN RequestLen ELSE Size(Last(frames))) - (ahead - n))
  /\ ahead' = ahead - n
  /\ inbound' = inbound + n
  /\ UNCHANGED <<splits, frames, ended, at, isHandleShake, header, buffers, pc, out>>

PeerEnds ==
  /\ ~ended /\ conn = "open"
  /\ ended' = TRUE
  /\ UNCHANGED <<splits, frames, ahead, inbound, at, isHandleShake, header, buffers, pc, out>>

-----------------------------------------------------------------------------
(* Reading, and closing.                                                   *)

\* What a read of n bytes gets.
Got(n) == Lesser(n, inbound)
Skip(n) == inbound' = inbound - n /\ at' = [at EXCEPT !.byte = @ + n]

Reset ==
  /\ parseHeader' = FALSE /\ parseHeaderStep' = 0 /\ headerBytes' = 0
  /\ opcode' = 0 /\ fragmentLength' = 0 /\ masks' = 0
  /\ rBuffer' = <<>>

\* A CLOSE frame is pushed, remove drops what has been read, the fd is closed.
CloseCode(code) ==
  /\ pushed' = Append(pushed, [opcode |-> CLOSE, data |-> <<code>>])
  /\ conn' = "closed"
  /\ Reset
  /\ packetBuffer' = <<>> /\ continueBuffer' = <<>> /\ messageMode' = 0
  /\ pc' = "wait"
  /\ UNCHANGED <<final, emitted>>

\* epoll reports the socket as readable.
Event ==
  /\ pc = "wait" /\ conn = "open"
  /\ inbound > 0 \/ ended
  /\ pc' = IF ~isHandleShake THEN "handshake" ELSE IF parseHeader THEN "frame" ELSE "head"
  /\ UNCHANGED <<peerVars, inbound, at, isHandleShake, header, buffers, out>>

\* Mutant: a continuation of nothing is accepted.
OpcodeFailsLess ==
  \/ opcode \in {TEXTMODE, BINMODE} /\ continueBuffer # <<>>
  \/ opcode = CLOSE /\ (fragmentLength = 1 \/ fragmentLength > Short)
  \/ opcode = PING /\ (~final \/ fragmentLength > Short)
  \/ opcode = PONG /\ ~final
  \/ opcode \notin DataOps \cup ControlOps

\* What the opcode is checked for before the payload is read.
OpcodeFails ==
  \/ opcode = CONTINUATION /\ messageMode < TEXTMODE
  \/ opcode \in {TEXTMODE, BINMODE} /\ continueBuffer # <<>>
  \/ opcode = CLOSE /\ (fragmentLength = 1 \/ fragmentLength > Short)
  \/ opcode = PING /\ (~final \/ fragmentLength > Short)
  \/ opcode = PONG /\ ~final
  \/ opcode \notin DataOps \cup ControlOps

\* A PONG, or a CLOSE, without a payload.
NoPayload == opcode \in {PONG, CLOSE} /\ fragmentLength = 0

\* DecodePacket is about to read.
Reading ==
  \/ pc \in {"handshake", "length", "masks"}
  \/ pc = "head" /\ headerBytes < HeadLen
  \/ pc = "frame" /\ ~OpcodeFails /\ fragmentLength > 0

\* The byte of the frame that the read expects.
Due ==
  CASE pc = "head" -> headerBytes
    [] pc = "length" -> HeadLen
    [] pc = "masks" -> PayloadStart(frames[at.frame]) - MaskLen + masks
    [] pc = "frame" -> PayloadStart(frames[at.frame]) + Len(rBuffer)
    [] OTHER -> at.byte

\* EAGAIN: the poller goes on.
Again ==
  /\ Reading /\ inbound = 0 /\ ~ended
  /\ pc' = "wait"
  /\ UNCHANGED <<peerVars, inbound, at, isHandleShake, header, buffers, out>>

\* Mutant: the end of the stream in the middle of a frame is taken for EAGAIN.
EndOfStreamIgnored ==
  /\ Reading /\ inbound = 0 /\ ended
  /\ \/ pc = "frame" /\ pc' = "wait" /\ UNCHANGED <<header, buffers, out>>
     \/ pc # "frame" /\ CloseCode(1000)
  /\ UNCHANGED <<peerVars, inbound, at, isHandleShake>>

\* io.EOF: the poller calls Close.
EndOfStream ==
  /\ Reading /\ inbound = 0 /\ ended
  /\ CloseCode(1000)
  /\ UNCHANGED <<peerVars, inbound, at, isHandleShake>>

\* The bytes that come next are not the ones this read is for.
Derail ==
  /\ Reading /\ inbound > 0 /\ at.byte # Due
  /\ pc' = "lost"
  /\ UNCHANGED <<peerVars, inbound, at, isHandleShake, header, buffers, out>>

Reads(step) == pc = step /\ Reading /\ inbound > 0 /\ at.byte = Due

-----------------------------------------------------------------------------
(* The handshake and the header.                                           *)

\* One read takes the request; a part of one fails like the end of the stream.
HandShake ==
  /\ Reads("handshake")
  /\ inbound' = 0
  /\ \/ /\ inbound = RequestLen
        /\ at' = [frame |-> 1, byte |-> 0]
        /\ isHandleShake' = TRUE
        /\ pc' = "wait"
        /\ UNCHANGED <<header, buffers, out>>
     \/ /\ inbound < RequestLen
        /\ CloseCode(1000)
        /\ UNCHANGED <<at, isHandleShake>>
  /\ UNCHANGED peerVars

\* Not all of the two bytes: the ones that came are kept.
HeadPart ==
  /\ Reads("head")
  /\ LET n == Got(HeadLen - headerBytes) IN
       /\ headerBytes + n < HeadLen
       /\ Skip(n)
       /\ headerBytes' = headerBytes + n
  /\ pc' = "wait"
  /\ UNCHANGED <<peerVars, isHandleShake, parseHeader, parseHeaderStep, opcode, final,
                 fragmentLength, masks, buffers, out>>

\* What parseHeadBytes reads after the two bytes of f.  A length of more than
\* Short is read unless that has been done before; without a mask DecodePacket
\* returns EAGAIN.
AfterLength(f) == IF f.masked THEN "masks" ELSE "wait"
AfterHead(f) == IF parseHeaderStep = 0 /\ Len(f.data) > Short THEN "length" ELSE AfterLength(f)

\* parseHeadBytes, with both bytes.  It runs again after every EAGAIN in the
\* rest of the header; fragmentLength is then what the second byte says.
HeadParse ==
  LET f == frames[at.frame]  n == HeadLen - headerBytes IN
  /\ pc = "head"
  /\ n = 0 \/ (Reads("head") /\ n <= inbound)
  /\ Skip(n)
  /\ \/ /\ f.rsv
        /\ CloseCode(1002)
     \/ /\ ~f.rsv
        /\ headerBytes' = HeadLen
        /\ opcode' = f.op /\ final' = f.fin
        /\ fragmentLength' = Lesser(Len(f.data), Short + 1)
        /\ messageMode' = IF f.op \in {TEXTMODE, BINMODE} THEN f.op ELSE messageMode
        /\ parseHeaderStep' = IF Len(f.data) > Short THEN parseHeaderStep ELSE 1
        /\ pc' = AfterHead(f)
        /\ UNCHANGED <<parseHeader, masks, rBuffer, packetBuffer, continueBuffer, out>>
  /\ UNCHANGED <<peerVars, isHandleShake>>

\* parsePayloadLength.  A part of the length is dropped, without an error.
LengthRead ==
  LET f == frames[at.frame]  n == Got(LengthLen) IN
  /\ Reads("length")
  /\ Skip(n)
  /\ pc' = AfterLength(f)
  /\ \/ /\ n = LengthLen
        /\ fragmentLength' = Len(f.data)
        /\ parseHeaderStep' = 1
     \/ /\ n < LengthLen
        /\ UNCHANGED <<fragmentLength, parseHeaderStep>>
  /\ UNCHANGED <<peerVars, isHandleShake, headerBytes, parseHeader, opcode, final, masks, buffers, out>>

\* Mutant: a whole key is read although a part of it is already here.
MasksMissingWhole == MaskLen
MasksMissing == MaskLen - masks

\* The masking key; when it is complete the header is.
MasksRead ==
  LET n == Got(MasksMissing)  whole == masks + n = MaskLen IN
  /\ Reads("masks")
  /\ Skip(n)
  /\ masks' = masks + n
  /\ parseHeaderStep' = IF whole THEN 2 ELSE parseHeaderStep
  /\ parseHeader' = whole
  /\ headerBytes' = IF whole THEN 0 ELSE headerBytes
  /\ pc' = IF whole THEN "frame" ELSE "wait"
  /\ UNCHANGED <<peerVars, isHandleShake, opcode, final, fragmentLength, buffers, out>>

-----------------------------------------------------------------------------
(* The payload.                                                            *)

\* An event of a frame that must be closed for before its payload is read.
FrameRefused ==
  /\ pc = "frame"
  /\ \/ OpcodeFails /\ CloseCode(1002)
     \/ ~OpcodeFails /\ NoPayload /\ CloseCode(1000)
  /\ UNCHANGED <<peerVars, inbound, at, isHandleShake>>

\* nextFrame reads n bytes; of a frame without a payload, none.
Taken == Got(fragmentLength - Len(rBuffer))
Fragment == rBuffer \o SubSeq(frames[at.frame].data, Len(rBuffer) + 1, Len(rBuffer) + Taken)

NextFrame ==
  /\ pc = "frame" /\ ~OpcodeFails /\ ~NoPayload
  /\ fragmentLength = 0 \/ Reads("frame")
  /\ inbound' = inbound - Taken
  /\ at' = IF at.byte + Taken = Size(frames[at.frame])
             THEN [frame |-> at.frame + 1, byte |-> 0]
             ELSE [at EXCEPT !.byte = @ + Taken]
  /\ UNCHANGED <<peerVars, isHandleShake>>

\* The payload is not complete: what came is kept.
FramePart ==
  /\ NextFrame
  /\ Len(Fragment) < fragmentLength
  /\ rBuffer' = Fragment
  /\ pc' = "wait"
  /\ UNCHANGED <<header, packetBuffer, continueBuffer, messageMode, out>>

Complete == NextFrame /\ Len(Fragment) = fragmentLength
Packet == packetBuffer \o Fragment

\* Mutant: a fragment that is not UTF-8 by itself closes the connection.
FrameFragmentJudged ==
  /\ Complete /\ ~final
  /\ \/ /\ messageMode = TEXTMODE /\ ~Valid(Packet)
        /\ CloseCode(1007)
     \/ /\ messageMode # TEXTMODE \/ Valid(Packet)
        /\ Reset
        /\ continueBuffer' = continueBuffer \o Packet
        /\ packetBuffer' = <<>>
        /\ pc' = "wait"
        /\ UNCHANGED <<final, messageMode, out>>

\* Mutant: packetBuffer is not reset after a fragment.
FrameFragmentKeeps ==
  /\ Complete /\ ~final
  /\ Reset
  /\ continueBuffer' = continueBuffer \o Packet
  /\ packetBuffer' = Packet
  /\ pc' = "wait"
  /\ UNCHANGED <<final, messageMode, out>>

\* A frame that is not the last one of its message.
FrameFragment ==
  /\ Complete /\ ~final
  /\ Reset
  /\ continueBuffer' = continueBuffer \o Packet
  /\ packetBuffer' = <<>>
  /\ pc' = "wait"
  /\ UNCHANGED <<final, messageMode, out>>

\* Mutant: what was kept is joined whatever the opcode is.
JoinsAlways == continueBuffer # <<>>

\* The frame ends a message of several frames.
Joins == opcode = CONTINUATION /\ continueBuffer # <<>>
Message == [opcode |-> messageMode, data |-> IF Joins THEN continueBuffer \o Packet ELSE Packet]
MustUtf8 == messageMode = TEXTMODE /\ ~Valid(Message.data)

FrameNotUtf8 ==
  /\ Complete /\ final /\ opcode # CLOSE /\ MustUtf8
  /\ CloseCode(1007)

\* Every final frame that is accepted leaves the buffers so.
Accept ==
  /\ Complete /\ final /\ ~MustUtf8
  /\ Reset
  /\ continueBuffer' = IF Joins THEN <<>> ELSE continueBuffer
  /\ packetBuffer' = <<>>
  /\ pc' = "wait"

FrameMessage ==
  /\ opcode \in DataOps /\ Accept
  /\ messageMode' = 0
  /\ emitted' = Append(emitted, Message)
  /\ UNCHANGED <<final, pushed, conn>>

FramePing ==
  /\ opcode = PING /\ Accept
  /\ pushed' = Append(pushed, [opcode |-> PONG, data |-> Message.data])
  /\ UNCHANGED <<final, messageMode, emitted, conn>>

FramePong ==
  /\ opcode = PONG /\ Accept
  /\ UNCHANGED <<final, messageMode, out>>

\* verifyCloseCode
VerifyCloseCode(code) ==
  /\ code \in 1000..4999
  /\ code \notin 1016..2999
  /\ code \notin {1004, 1005, 1006, 1015}

\* In a text message nextFrame takes the code for text that is not UTF-8; the
\* reason is then not judged.
FrameClose ==
  /\ Complete /\ final /\ opcode = CLOSE
  /\ CloseCode(IF ~MustUtf8 /\ ~Valid(SubSeq(Packet, 3, Len(Packet))) THEN 1007
               ELSE IF ~VerifyCloseCode(Packet[1]) THEN 1002
               ELSE 1000)

PollerStep ==
  \/ Event \/ Again \/ EndOfStream \/ Derail
  \/ HandShake \/ HeadPart \/ HeadParse \/ LengthRead \/ MasksRead
  \/ FrameRefused \/ FramePart \/ FrameFragment \/ FrameNotUtf8
  \/ FrameMessage \/ FramePing \/ FramePong \/ FrameClose

Next ==
  \/ PollerStep
  \/ \E f \in Frames : PeerSends(f)
  \/ \E n \in 1..ahead : Arrive(n)
  \/ PeerEnds

Spec == Init /\ [][Next]_vars

\* The poller runs; nothing of what the peer does has to happen.
FairSpec == Spec /\ WF_vars(PollerStep)

-----------------------------------------------------------------------------
(* Properties.  With splits set, the length and the masking key of a header *)
(* may arrive in pieces, which makes the decoder misread the stream: the    *)
(* next event parses the first two bytes again (websocket.go:224), and the  *)
(* properties about contents leave those streams out.                       *)

\* Every variable keeps its type and the counters their bounds.
TypeOK ==
  /\ splits \in BOOLEAN /\ ended \in BOOLEAN
  /\ frames \in Seq(Frames) /\ Len(frames) <= MaxFrame
  /\ ahead \in Nat /\ inbound \in Nat
  /\ at \in [frame : 0..MaxFrame + 1, byte : Nat]
  /\ isHandleShake \in BOOLEAN
  /\ headerBytes \in 0..HeadLen /\ parseHeader \in BOOLEAN /\ parseHeaderStep \in 0..2
  /\ opcode \in 0..15 /\ final \in BOOLEAN /\ fragmentLength \in Nat /\ masks \in 0..MaskLen
  /\ rBuffer \in Seq(Nat) /\ packetBuffer \in Seq(Nat) /\ continueBuffer \in Seq(Nat)
  /\ messageMode \in {0, TEXTMODE, BINMODE}
  /\ pc \in {"wait", "handshake", "head", "length", "masks", "frame", "lost"}
  /\ emitted \in Seq([opcode : {TEXTMODE, BINMODE}, data : Seq(Nat)])
  /\ pushed \in Seq([opcode : {CLOSE, PONG}, data : Seq(Nat)])
  /\ conn \in {"open", "closed"}

\* How much of frame f the decoder knows to have read.
Held(f) ==
  IF parseHeader THEN PayloadStart(f) + Len(rBuffer)
  ELSE headerBytes + masks + IF Len(f.data) > Short /\ parseHeaderStep = 1 THEN LengthLen ELSE 0

\* Between two events the decoder has kept exactly the beginning of the frame
\* that has been read, wherever the peer's segments have cut it.
Resumes ==
  ~splits /\ conn = "open" /\ isHandleShake =>
    /\ pc # "lost"
    /\ pc = "wait" /\ at.frame > Len(frames) => headerBytes = 0 /\ masks = 0 /\ ~parseHeader
    /\ pc = "wait" /\ at.frame <= Len(frames) =>
         LET f == frames[at.frame] IN
         /\ at.byte = Held(f)
         /\ rBuffer = SubSeq(f.data, 1, Len(rBuffer))
         /\ parseHeader => <<opcode, final, fragmentLength>> = <<f.op, f.fin, Len(f.data)>>

\* Every frame that has been read so far obeys the protocol.
Obeyed == \A k \in 1..at.frame - 1 : ~Broken(k)

\* Every PING is answered, in order, with its own payload, also one between the
\* fragments of a message.
PingsAnswered ==
  ~splits /\ Obeyed /\ conn = "open" => pushed = Answers(at.frame - 1)

\* The handlers get the peer's messages in order, each once, with the mode of its
\* first frame and the payloads of its fragments, and no byte of the control
\* frames between them; nothing that has been read is held back.  What is left
\* of an unfinished frame is kept for the next event, and control frames are answered.
Exact ==
  /\ Resumes /\ PingsAnswered
  /\ ~splits /\ Obeyed =>
       IF conn = "open" THEN emitted = Messages(at.frame - 1)
       ELSE IsPrefix(emitted, Messages(at.frame - 1))

\* Frame k comes between the fragments of a text message.
InText(k) == InMessage(k) /\ Started(k) = TEXTMODE

\* A deviation: legal frames that the code closes the connection for.  An empty
\* PONG (websocket.go:198), and a PING or PONG between the fragments of a text,
\* whose payload is judged as if it were the text (websocket_frame.go:71).
WronglyRefused(k) ==
  LET f == frames[k] IN
  \/ f.op = PONG /\ f.data = <<>>
  \/ f.op \in {PING, PONG} /\ InText(k) /\ ~Valid(f.data)

\* A deviation: broken frames that the code takes.  A CLOSE that is not final, a
\* PONG that is too long, and a message that begins after fragments of another
\* one that were all empty.
Overlooked(k) ==
  LET f == frames[k] IN
  \/ f.op = CLOSE /\ ~f.fin
  \/ f.op = PONG /\ f.fin /\ Len(f.data) > Short
  \/ /\ f.op \in {TEXTMODE, BINMODE} /\ InMessage(k)
     /\ \A i \in Parts(k) \ {k} : frames[i].data = <<>>

\* No connection outlives a frame that breaks a rule and is not overlooked, a text
\* message that is not UTF-8, or a frame that is wrongly refused.
BrokenIsRefused ==
  ~splits /\ conn = "open" =>
    \A k \in 1..at.frame - 1 :
      (Broken(k) \/ NotUtf8(k) => Overlooked(k)) /\ ~WronglyRefused(k)

\* Why the connection may be closed with this code at frame k: the peer has left,
\* or closes; the frame is broken, or its text is not UTF-8.
Justified(k, code) ==
  \/ code = 1000 /\ ended /\ inbound = 0
  \/ code = 1000 /\ frames[k].op = CLOSE
  \/ code \in {1002, 1007} /\ Broken(k)
  \/ code = 1007 /\ NotUtf8(k)

\* Every close has such a cause, but for the frames that are wrongly refused, and
\* those get the code of a farewell or of a bad text.
ClosedForCause ==
  [][conn' # conn /\ ~splits =>
       LET k == at.frame  code == Last(pushed').data[1] IN
       Justified(k, code) \/ (code \in {1000, 1007} /\ WronglyRefused(k))]_vars

\* What the decoder closes the connection for, and what it does not.  By the
\* protocol it is the end of the stream, a CLOSE, and every frame or text that is
\* broken.  The code does not keep to that: it overlooks some broken frames and
\* closes for some legal ones, and this states exactly which.
ClosedRightly == []BrokenIsRefused /\ ClosedForCause

\* The decoder waits for a masking key that does not come.
Unmasked == \E k \in DOMAIN frames : ~frames[k].masked

\* A frame that has arrived is decoded, without the help of a later one.
FrameIsRead ==
  \A k \in 1..MaxFrame :
    Len(frames) > k \/ (Len(frames) = k /\ ahead = 0)
      ~> at.frame > k \/ conn = "closed" \/ splits \/ Unmasked

\* The end of the stream closes the connection, unless the peer has sent a frame
\* that is not masked.
EndIsNoticed == ended ~> conn = "closed" \/ splits \/ Unmasked

\* Nothing that has arrived is left waiting: no frame, and no end of the stream.
NothingWaits == FrameIsRead /\ EndIsNoticed
=============================================================================
