------------------------------- MODULE WsClose -------------------------------
(***************************************************************************)
(* Close of one websocket connection by several goroutines at once         *)
(* (server/websocket_ctrl.go): the poller that decodes its frames, and     *)
(* handlers or the heartbeat.  remove clears the buffers of the decoder    *)
(* field by field, and nothing keeps the poller out of them meanwhile.     *)
(*                                                                         *)
(* Frames arrive whole, with one byte of payload, masked, from a peer that *)
(* keeps the protocol (module WsDecode is about the others).  What is      *)
(* queued under write interest is flushed whole (ConnWrite is about that). *)
(* The descriptor is not reused (ConnLifecycle is about that).  remove     *)
(* clears one field in each step, and nextFrame takes one step for each    *)
(* stretch of code in which the order of its accesses matters; the last of *)
(* them, Deliver, stands for all that websocket_frame.go:51-92 does to     *)
(* packetBuffer, continueBuffer and messageMode, so that a clear comes     *)
(* before these accesses or after them, never in between.                  *)
(* parseHeader, parseHeaderStep and headerBytes, which reset clears too,   *)
(* matter only inside of ReadHead, which is one step.                      *)
(***************************************************************************)
EXTENDS Integers, Sequences, SequencesExt, FiniteSets

CONSTANTS
  Closers,   \* handlers, or the heartbeat: each calls Close once
  MaxSend,   \* bound: what the peer sends, its request included
  Poller,    \* the poller's goroutine
  Nil

ASSUME WsCloseAssumption ==
  /\ MaxSend \in Nat
  /\ Poller \notin Closers
  /\ Nil \notin Seq(Int)

CONTINUATION == 0
TEXTMODE == 1
CLOSE == 8

\* Mutant: the connection leaves the manager when its fields are cleared.
CallsUnregisterLate ==
  <<"push", "Remove", "OnClose", "Close", "rBuffer", "masks", "opcode", "fragmentLength",
    "packetBuffer", "continueBuffer", "messageMode", "connectMgr.Remove", "fd">>

\* Mutant: the close frame is sent when the connection is no longer known.
CallsPushLate ==
  <<"Remove", "connectMgr.Remove", "push", "OnClose", "Close", "rBuffer", "masks", "opcode",
    "fragmentLength", "packetBuffer", "continueBuffer", "messageMode", "fd">>

\* CloseCode, remove and reset in their order: calls, and fields that are cleared.
Calls ==
  <<"push", "Remove", "connectMgr.Remove", "OnClose", "Close", "rBuffer", "masks", "opcode",
    "fragmentLength", "packetBuffer", "continueBuffer", "messageMode", "fd">>

\* What the fields are cleared to.
Zero == [rBuffer |-> <<>>, masks |-> FALSE, opcode |-> 0, fragmentLength |-> 0,
         packetBuffer |-> Nil, continueBuffer |-> Nil, messageMode |-> 0]

VARIABLES
  early,          \* closers may come before Open (the heartbeat, an OnOpen hook)
  sent,           \* what the peer has sent: a request or junk, then frames
  got,            \* how much of it has been read
  gone,           \* the peer has shut down its end
  watched,        \* kernel: the poller's epoll watches the descriptor
  registered,     \* the connection manager has the connection
  open,           \* the descriptor is open
  state,          \* c.state: "EPollIN" (as good as OnLine here) or "EPollOUT"
  writeQ,         \* c.writeQ and c.writeBuff
  wire,           \* what the kernel has taken for the peer
  isHandleShake,  \* c.isHandleShake
  conn,           \* c.rBuffer and the other fields that remove clears
  final,          \* c.final
  pc,             \* where the poller is
  payload,        \* the bytes that nextFrame has at hand
  code,           \* the opcode that nextFrame has put aside
  closing,        \* the number of the call each goroutine is at in CloseCode, 0: none
  opened,         \* calls of the handler's Open
  onClose,        \* calls of the OnClose hook
  wsClose,        \* calls of the handler's Close
  emitted,        \* messages handed to the handlers
  raced,          \* history: remove has cleared a field during DecodePacket
  panicked

peer == <<early, sent, gone>>
kernel == <<watched, open, wire>>
writing == <<state, writeQ>>
decoding == <<conn, final, payload, code>>
callbacks == <<opened, onClose, wsClose, emitted>>
vars == <<peer, got, kernel, registered, writing, isHandleShake, decoding, pc, closing,
          callbacks, raced, panicked>>

Init ==
  /\ early \in BOOLEAN
  /\ sent = <<>> /\ got = 0 /\ gone = FALSE
  /\ watched = TRUE /\ registered = TRUE /\ open = TRUE
  /\ state = "EPollIN" /\ writeQ = <<>> /\ wire = <<>>
  /\ isHandleShake = FALSE
  /\ conn = [Zero EXCEPT !.packetBuffer = <<>>, !.continueBuffer = <<>>]
  /\ final = FALSE /\ payload = <<>> /\ code = 0
  /\ pc = "wait"
  /\ closing = [g \in Closers \cup {Poller} |-> 0]
  /\ opened = 0 /\ onClose = 0 /\ wsClose = 0
  /\ emitted = <<>>
  /\ raced = FALSE /\ panicked = FALSE

-----------------------------------------------------------------------------
(* The peer.  Frame i carries the byte i, and -i when it is masked.        *)

Text == [opcode |-> TEXTMODE, final |-> TRUE]
Part == [opcode |-> TEXTMODE, final |-> FALSE]
Rest == [opcode |-> CONTINUATION, final |-> TRUE]
Bye == [opcode |-> CLOSE, final |-> TRUE]
Request == [opcode |-> -1, final |-> TRUE]
Junk == [opcode |-> -1, final |-> FALSE]

\* What a peer that keeps the protocol may send next.
Following ==
  IF sent = <<>> THEN {Request, Junk}
  ELSE CASE Last(sent) \in {Request, Text, Rest} -> {Text, Part, Bye}
         [] Last(sent) = Part -> {Rest, Bye}
         [] OTHER -> {}

PeerSends ==
  /\ Len(sent) < MaxSend /\ ~gone
  /\ sent # <<>> => "response" \in ToSet(wire)
  /\ \E frame \in Following : sent' = Append(sent, frame)
  /\ UNCHANGED <<early, gone, got, kernel, registered, writing, isHandleShake, decoding, pc,
                 closing, callbacks, raced, panicked>>

PeerLeaves ==
  /\ ~gone /\ gone' = TRUE
  /\ UNCHANGED <<early, sent, got, kernel, registered, writing, isHandleShake, decoding, pc,
                 closing, callbacks, raced, panicked>>

\* The frames that end a message, of the first n things sent; and the message.
Ends(n) == {i \in 1..n : sent[i] \in {Text, Rest}}
Message(i) == IF sent[i] = Text THEN <<i>> ELSE <<i - 1, i>>

-----------------------------------------------------------------------------
(* CloseCode and remove, by any goroutine.                                 *)

\* A handler's Text fills the socket (bound: once): its rest is queued, and only
\* write events come.
TextFills ==
  /\ opened > 0 /\ open /\ state = "EPollIN"
  /\ "text" \notin ToSet(wire)
  /\ state' = "EPollOUT" /\ writeQ' = <<"text">>
  /\ UNCHANGED <<peer, got, kernel, registered, isHandleShake, decoding, pc, closing,
                 callbacks, raced, panicked>>

Begins(g) ==
  /\ g \in Closers /\ closing[g] = 0
  /\ early \/ opened > 0
  /\ closing' = [closing EXCEPT ![g] = 1]
  /\ UNCHANGED <<peer, got, kernel, registered, writing, isHandleShake, decoding, pc,
                 callbacks, raced, panicked>>

At(g, call) == closing[g] \in DOMAIN Calls /\ Calls[closing[g]] = call

Proceed(g) == closing' = [closing EXCEPT ![g] = @ + 1]

\* The close frame, which waits behind what is queued.  EBADF is ignored.
Push(g) ==
  /\ At(g, "push") /\ Proceed(g)
  /\ IF state = "EPollOUT"
     THEN writeQ' = Append(writeQ, "close") /\ UNCHANGED wire
     ELSE wire' = (IF open THEN Append(wire, "close") ELSE wire) /\ UNCHANGED writeQ
  /\ UNCHANGED <<peer, got, watched, open, registered, state, isHandleShake, decoding, pc,
                 callbacks, raced, panicked>>

EpollRemove(g) ==
  /\ At(g, "Remove") /\ Proceed(g)
  /\ watched' = FALSE
  /\ UNCHANGED <<peer, got, open, wire, registered, writing, isHandleShake, decoding, pc,
                 callbacks, raced, panicked>>

Unregister(g) ==
  /\ At(g, "connectMgr.Remove") /\ Proceed(g)
  /\ registered' = FALSE
  /\ UNCHANGED <<peer, got, kernel, writing, isHandleShake, decoding, pc, callbacks, raced,
                 panicked>>

OnClose(g) ==
  /\ At(g, "OnClose") /\ Proceed(g)
  /\ onClose' = onClose + 1
  /\ UNCHANGED <<peer, got, kernel, registered, writing, isHandleShake, decoding, pc, opened,
                 wsClose, emitted, raced, panicked>>

\* Mutant: the handler's Close is called also without a handshake.
CloseAlways(g) ==
  /\ At(g, "Close") /\ Proceed(g)
  /\ wsClose' = wsClose + 1
  /\ UNCHANGED <<peer, got, kernel, registered, writing, isHandleShake, decoding, pc, opened,
                 onClose, emitted, raced, panicked>>

Close(g) ==
  /\ At(g, "Close") /\ Proceed(g)
  /\ wsClose' = IF isHandleShake THEN wsClose + 1 ELSE wsClose
  /\ UNCHANGED <<peer, got, kernel, registered, writing, isHandleShake, decoding, pc, opened,
                 onClose, emitted, raced, panicked>>

InDecodePacket == pc \notin {"wait", "readable", "writable", "flush", "closing"}

\* reset, and the three assignments that follow it.
Clear(g) ==
  /\ \E field \in DOMAIN Zero :
       At(g, field) /\ conn' = [conn EXCEPT ![field] = Zero[field]]
  /\ Proceed(g)
  /\ raced' = (raced \/ InDecodePacket)
  /\ UNCHANGED <<peer, got, kernel, registered, writing, isHandleShake, final, payload, code,
                 pc, callbacks, panicked>>

CloseFd(g) ==
  /\ At(g, "fd")
  /\ open' = FALSE /\ watched' = FALSE
  /\ IF g = Poller
     THEN pc' = "wait" /\ closing' = [closing EXCEPT ![g] = 0]
     ELSE Proceed(g) /\ UNCHANGED pc
  /\ UNCHANGED <<peer, got, wire, registered, writing, isHandleShake, decoding, callbacks,
                 raced, panicked>>

CloseCode(g) ==
  \/ Push(g) \/ EpollRemove(g) \/ Unregister(g) \/ OnClose(g) \/ Close(g) \/ Clear(g) \/ CloseFd(g)

-----------------------------------------------------------------------------
(* The poller: Wait and DecodePacket.                                      *)

Goto(place) == pc' = place /\ UNCHANGED <<closing, panicked>>
Closes == pc' = "closing" /\ closing' = [closing EXCEPT ![Poller] = 1] /\ UNCHANGED panicked
Panics == panicked' = TRUE /\ UNCHANGED <<pc, closing>>

Unread == got < Len(sent)

\* epoll_wait(2): while something is queued, only for write.
Event ==
  /\ pc = "wait" /\ watched /\ open
  /\ state = "EPollOUT" \/ Unread \/ gone
  /\ Goto(IF state = "EPollOUT" THEN "writable" ELSE "readable")
  /\ UNCHANGED <<peer, got, kernel, registered, writing, isHandleShake, decoding, callbacks,
                 raced>>

\* Mutant: the event is handled though the manager does not know the connection.
LookupBlind ==
  /\ pc \in {"readable", "writable"}
  /\ Goto(IF pc = "writable" THEN "flush"
          ELSE IF isHandleShake THEN "head" ELSE "handshake")
  /\ UNCHANGED <<open, watched, peer, got, wire, registered, writing, isHandleShake, decoding,
                 callbacks, raced>>

\* ConnectMgr.Get.  A connection that it does not know is closed.
Lookup ==
  /\ pc \in {"readable", "writable"}
  /\ IF registered
     THEN /\ Goto(IF pc = "writable" THEN "flush"
                  ELSE IF isHandleShake THEN "head" ELSE "handshake")
          /\ UNCHANGED <<open, watched>>
     ELSE Goto("wait") /\ open' = FALSE /\ watched' = FALSE
  /\ UNCHANGED <<peer, got, wire, registered, writing, isHandleShake, decoding, callbacks,
                 raced>>

\* ProceedWrite: the packets of the queue, then back to read events.
Flush ==
  /\ pc = "flush"
  /\ \/ /\ writeQ # <<>> /\ open
        /\ wire' = wire \o writeQ /\ writeQ' = <<>> /\ Goto("wait") /\ UNCHANGED state
     \/ /\ writeQ = <<>> /\ watched
        /\ state' = "EPollIN" /\ Goto("wait") /\ UNCHANGED <<wire, writeQ>>
     \/ /\ IF writeQ = <<>> THEN ~watched ELSE ~open
        /\ Closes /\ UNCHANGED <<wire, writing>>
  /\ UNCHANGED <<peer, got, watched, open, registered, isHandleShake, decoding, callbacks,
                 raced>>

\* Mutant: the end of the stream is taken for a read that would block.
ReadFailsAlways ==
  /\ pc \in {"handshake", "head"}
  /\ ~open \/ ~Unread
  /\ Goto("wait")
  /\ UNCHANGED <<peer, got, kernel, registered, writing, isHandleShake, decoding, callbacks,
                 raced>>

\* A read that fails: EBADF leads nowhere, the end of the stream to Close.
ReadFails ==
  /\ pc \in {"handshake", "head"}
  /\ ~open \/ ~Unread
  /\ IF ~open \/ ~gone THEN Goto("wait") ELSE Closes
  /\ UNCHANGED <<peer, got, kernel, registered, writing, isHandleShake, decoding, callbacks,
                 raced>>

\* handleShake, up to its answer.
ReadRequest ==
  /\ pc = "handshake" /\ open /\ Unread
  /\ got' = got + 1
  /\ IF sent[got'] = Request THEN Goto("answer") ELSE Closes
  /\ UNCHANGED <<peer, kernel, registered, writing, isHandleShake, decoding, callbacks, raced>>

Answer ==
  /\ pc = "answer"
  /\ IF open
     THEN wire' = Append(wire, "response") /\ isHandleShake' = TRUE /\ Goto("open")
     ELSE Goto("wait") /\ UNCHANGED <<wire, isHandleShake>>
  /\ UNCHANGED <<peer, got, watched, open, registered, writing, decoding, callbacks, raced>>

Open ==
  /\ pc = "open" /\ Goto("wait")
  /\ opened' = opened + 1
  /\ UNCHANGED <<peer, got, kernel, registered, writing, isHandleShake, decoding, onClose,
                 wsClose, emitted, raced>>

\* Mutant: every frame sets the mode of the message, also a control frame.
ReadHeadAnyMode ==
  /\ pc = "head" /\ open /\ Unread
  /\ LET frame == sent[got + 1] IN
     /\ conn' = [conn EXCEPT
          !.opcode = frame.opcode, !.masks = TRUE,
          !.fragmentLength = IF frame = Bye THEN 0 ELSE 1,
          !.messageMode = frame.opcode]
     /\ final' = frame.final
  /\ got' = got + 1
  /\ Goto("switch")
  /\ UNCHANGED <<peer, kernel, registered, writing, isHandleShake, payload, code, callbacks,
                 raced>>

\* The head and the key.
ReadHead ==
  /\ pc = "head" /\ open /\ Unread
  /\ LET frame == sent[got + 1] IN
     /\ conn' = [conn EXCEPT
          !.opcode = frame.opcode, !.masks = TRUE,
          !.fragmentLength = IF frame = Bye THEN 0 ELSE 1,
          !.messageMode = IF frame.opcode = TEXTMODE THEN TEXTMODE ELSE @]
     /\ final' = frame.final
  /\ got' = got + 1
  /\ Goto("switch")
  /\ UNCHANGED <<peer, kernel, registered, writing, isHandleShake, payload, code, callbacks,
                 raced>>

\* The switch of DecodePacket: the poller closes (by a CLOSE frame, or with a
\* code), or reads the payload.
Switch ==
  /\ pc = "switch"
  /\ LET continued == conn.continueBuffer IN
     CASE conn.opcode = TEXTMODE /\ continued = Nil -> Panics
       [] \/ conn.opcode = CLOSE
          \/ conn.opcode = CONTINUATION /\ conn.messageMode < TEXTMODE
          \/ conn.opcode = TEXTMODE /\ continued \notin {Nil, <<>>} -> Closes
       [] OTHER -> Goto("payload")
  /\ UNCHANGED <<peer, got, kernel, registered, writing, isHandleShake, decoding, callbacks,
                 raced>>

\* nextFrame: the length, and the read.
Payload ==
  /\ pc = "payload" /\ Goto("store")
  /\ payload' = IF open /\ conn.fragmentLength > Len(conn.rBuffer) THEN <<-got>> ELSE <<>>
  /\ UNCHANGED <<peer, got, kernel, registered, writing, isHandleShake, conn, final, code,
                 callbacks, raced>>

Store ==
  /\ pc = "store"
  /\ IF conn.fragmentLength # 0 /\ payload = <<>>
     THEN Goto("wait") /\ UNCHANGED conn
     ELSE Goto("complete") /\ conn' = [conn EXCEPT !.rBuffer = @ \o payload]
  /\ UNCHANGED <<peer, got, kernel, registered, writing, isHandleShake, final, payload, code,
                 callbacks, raced>>

Complete ==
  /\ pc = "complete"
  /\ IF Len(conn.rBuffer) = conn.fragmentLength THEN Goto("unmask") ELSE Goto("wait")
  /\ UNCHANGED <<peer, got, kernel, registered, writing, isHandleShake, decoding, callbacks,
                 raced>>

Unmask ==
  /\ pc = "unmask" /\ Goto("append")
  /\ payload' = IF conn.masks THEN [i \in DOMAIN conn.rBuffer |-> -conn.rBuffer[i]]
                              ELSE conn.rBuffer
  /\ UNCHANGED <<peer, got, kernel, registered, writing, isHandleShake, conn, final, code,
                 callbacks, raced>>

\* Into packetBuffer; then the poller's own reset.
AppendPacket ==
  /\ pc = "append"
  /\ IF conn.packetBuffer = Nil
     THEN Panics /\ UNCHANGED <<conn, code>>
     ELSE /\ conn' = [Zero EXCEPT !.packetBuffer = conn.packetBuffer \o payload,
                                  !.continueBuffer = conn.continueBuffer,
                                  !.messageMode = conn.messageMode]
          /\ code' = conn.opcode
          /\ Goto("deliver")
  /\ UNCHANGED <<peer, got, kernel, registered, writing, isHandleShake, final, payload,
                 callbacks, raced>>

\* The end of nextFrame: a fragment is put aside, a message is emitted.
Deliver ==
  /\ pc = "deliver"
  /\ LET touched == IF final /\ code # CONTINUATION THEN {conn.packetBuffer}
                    ELSE {conn.packetBuffer, conn.continueBuffer} IN
     IF Nil \in touched
     THEN Panics /\ UNCHANGED <<conn, emitted>>
     ELSE /\ Goto("wait")
          /\ IF final
             THEN /\ emitted' = Append(emitted,
                       IF code = CONTINUATION THEN conn.continueBuffer \o conn.packetBuffer
                                              ELSE conn.packetBuffer)
                  /\ conn' = [conn EXCEPT !.packetBuffer = <<>>, !.messageMode = 0,
                                !.continueBuffer = IF code = CONTINUATION THEN <<>> ELSE @]
             ELSE /\ conn' = [conn EXCEPT !.packetBuffer = <<>>,
                                !.continueBuffer = @ \o conn.packetBuffer]
                  /\ UNCHANGED emitted
  /\ UNCHANGED <<peer, got, kernel, registered, writing, isHandleShake, final, payload, code,
                 opened, onClose, wsClose, raced>>

Polling ==
  \/ Event \/ Lookup \/ Flush \/ ReadFails \/ ReadRequest \/ Answer \/ Open \/ ReadHead \/ Switch
  \/ Payload \/ Store \/ Complete \/ Unmask \/ AppendPacket \/ Deliver

-----------------------------------------------------------------------------

Next ==
  /\ ~panicked
  /\ \/ PeerSends \/ PeerLeaves \/ TextFills
     \/ \E g \in Closers : Begins(g)
     \/ \E g \in Closers \cup {Poller} : CloseCode(g)
     \/ Polling

Spec == Init /\ [][Next]_vars

\* Goroutines that can run do run.  The peer need not send, nobody need close.
Fairness ==
  /\ WF_vars(~panicked /\ (Polling \/ CloseCode(Poller)))
  /\ \A g \in Closers : WF_vars(~panicked /\ CloseCode(g))

FairSpec == Spec /\ Fairness

-----------------------------------------------------------------------------

\* Bytes.
Buffers == Seq(Int)

\* Every variable has its type.
TypeOK ==
  /\ {early, gone, watched, registered, open, isHandleShake, final, raced, panicked}
       \subseteq BOOLEAN
  /\ sent \in Seq({Request, Junk, Text, Part, Rest, Bye}) /\ Len(sent) <= MaxSend
  /\ got \in 0..Len(sent)
  /\ state \in {"EPollIN", "EPollOUT"}
  /\ writeQ \in Seq({"text", "close"}) /\ wire \in Seq({"response", "text", "close"})
  /\ conn \in [rBuffer : Buffers, masks : BOOLEAN, opcode : {CONTINUATION, TEXTMODE, CLOSE},
               fragmentLength : {0, 1}, packetBuffer : Buffers \cup {Nil},
               continueBuffer : Buffers \cup {Nil}, messageMode : {0, TEXTMODE}]
  /\ payload \in Buffers /\ code \in {CONTINUATION, TEXTMODE, CLOSE}
  /\ closing \in [Closers \cup {Poller} -> 0..Len(Calls) + 1]
  /\ (closing[Poller] # 0) = (pc = "closing")
  /\ {opened, onClose, wsClose} \subseteq Nat /\ opened <= 1
  /\ emitted \in Seq(Buffers)

\* Message number n that is emitted is message number n of the peer.
RightMessages ==
  \A n \in DOMAIN emitted :
    \E i \in Ends(got) : emitted[n] = Message(i) /\ Cardinality(Ends(i)) = n

\* Closing hurts the decoder only while it is at work: if no field was cleared
\* during a DecodePacket, nothing panics on a nil buffer, and the messages are the
\* ones the peer has sent, whoever closes and how often.
Confined == ~raced => ~panicked /\ RightMessages

\* Once remove has passed the connection manager and the poller is between two
\* events, DecodePacket never runs again, and with it no Open and no message comes,
\* though the descriptor may be open still and an event of it on its way.
Over == ~registered /\ ~InDecodePacket
EndsForGood == [](Over => []~InDecodePacket)

\* No goroutine is in CloseCode, and the poller waits.
Quiet == /\ pc = "wait"
         /\ \A g \in Closers : closing[g] \in {0, Len(Calls) + 1}

\* The handler's Close is called only for a connection whose Open has been, and
\* is called for each of them when the descriptor is closed, unless the closer
\* came before Open: then it may be called first or never.
Paired ==
  ~early => /\ wsClose > 0 => opened = 1
            /\ Quiet /\ ~open => onClose > 0 /\ (opened = 1 => wsClose > 0)

\* No descriptor is closed before the peer has been sent a close frame, also not
\* by the poller that finds it unknown; but the frame goes down with the queue if
\* it waits there.
Goodbye == ~open => "close" \in ToSet(wire) \cup ToSet(writeQ)

\* The end of a connection is told to both sides, the program and the peer.
Partings == Paired /\ Goodbye

\* A connection whose peer has left is closed in the end, whatever is queued.
GoneIsClosed == gone ~> ~open \/ panicked

\* "关闭成功才执行" (websocket_ctrl.go:80): OnClose runs only if the close has
\* succeeded, thus once, for a descriptor is closed once.
OnCloseOnce == onClose <= 1

\* "回复close帧后，等待对方发起fin包" (websocket.go:147): a CLOSE frame is answered by
\* one before the descriptor is closed.
CloseIsAnswered ==
  ~open /\ got > 0 /\ sent[got] = Bye => "close" \in ToSet(wire)
=============================================================================
