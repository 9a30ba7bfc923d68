---------------------------- MODULE KqueueWrite ----------------------------
(***************************************************************************)
(* The write path of one connection on the BSD build: the code of module   *)
(* ConnWrite over the poller of eventloop/kqueue.go.  A kqueue watches the *)
(* two directions with a filter each, so where epoll changes the interest  *)
(* of a descriptor in one system call, ModWrite and ModRead delete a       *)
(* filter and then add the other one, and give up when there is nothing to *)
(* delete.  Senders and the poller may be between the two calls together.  *)
(*                                                                         *)
(* The actions of ConnWrite that do not touch the interest are taken from  *)
(* there.                                                                  *)
(***************************************************************************)
EXTENDS Integers, Sequences, FiniteSets

CONSTANTS
  Writers,        \* goroutines that call Send on this connection
  PollerWriters,  \* those that run on the poller's own goroutine
  MaxSend,        \* bound: packets each goroutine sends
  PacketLen,      \* bytes of a packet
  SockBuf,        \* bytes the kernel's send buffer holds
  NoPacket        \* writeBuff before the first packet is popped

ASSUME KqueueWriteAssumption ==
  /\ PollerWriters \subseteq Writers
  /\ MaxSend \in Nat
  /\ PacketLen \in Nat \ {0}
  /\ SockBuf \in Nat \ {0}
  /\ NoPacket \notin Writers \X (1..MaxSend)

VARIABLES
  filters,    \* the filters of the fd in its poller's kqueue
  state, writeQ, writeBuff, poller, pc, sent, off, wire, room, fd, peer

Write == INSTANCE ConnWrite WITH interest <- filters

vars == Write!vars
unsent == <<state, writeQ, writeBuff, wire, room, peer, sent, off>>

Init ==
  /\ filters = {"READ"}
  /\ state = "OnLine"
  /\ writeQ = <<>>
  /\ writeBuff = [pkt |-> NoPacket, from |-> PacketLen + 1]
  /\ poller = "wait"
  /\ pc = [w \in Writers |-> "idle"]
  /\ sent = [w \in Writers |-> 0]
  /\ off = [w \in Writers |-> 1]
  /\ wire = <<>>
  /\ room = SockBuf
  /\ fd = "open"
  /\ peer = "up"

-----------------------------------------------------------------------------
(* ModWrite, at the end of Write.                                          *)

\* Mutant: the error of the deletion is ignored.
DeleteReadIgnored(w) ==
  /\ Write!Goto(w, "modwrite", "addwrite")
  /\ filters' = filters \ {"READ"}
  /\ UNCHANGED <<unsent, poller, fd>>

\* EV_DELETE of EVFILT_READ.  An error (another sender, or the poller, has
\* deleted it, or the fd is closed) ends ModWrite.
DeleteRead(w) ==
  /\ Write!Goto(w, "modwrite", IF "READ" \in filters THEN "addwrite" ELSE "idle")
  /\ filters' = filters \ {"READ"}
  /\ UNCHANGED <<unsent, poller, fd>>

\* AddWrite, EV_ADD of EVFILT_WRITE; it fails on a closed fd.
AddWrite(w) ==
  /\ Write!Goto(w, "addwrite", "idle")
  /\ filters' = IF fd = "open" THEN filters \cup {"WRITE"} ELSE filters
  /\ UNCHANGED <<unsent, poller, fd>>

WriteStep(w) ==
  \/ Write!CheckState(w) \/ Write!Enqueue(w) \/ Write!WriteSome(w) \/ Write!WriteAgain(w)
  \/ Write!WriteFailed(w) \/ Write!SetOut(w) \/ Write!PushRest(w)
  \/ DeleteRead(w) \/ AddWrite(w)

-----------------------------------------------------------------------------
(* The poller: Wait, and ModRead at the end of ProceedWrite.               *)

\* Remove does nothing: close(2) takes the filters with it.
CloseConn == filters' = {} /\ fd' = "closed"

\* Mutant: the filter was added with EV_ONESHOT.
WriteEventOnce ==
  /\ Write!PollerFree
  /\ "WRITE" \in filters
  /\ room > 0 \/ peer = "gone"
  /\ poller' = "getbuff"
  /\ filters' = {}
  /\ UNCHANGED <<unsent, pc, fd>>

\* kevent(2) reports EVFILT_WRITE: there is room, or the socket is shut down.
WriteEvent ==
  /\ Write!PollerFree
  /\ "WRITE" \in filters
  /\ room > 0 \/ peer = "gone"
  /\ poller' = "getbuff"
  /\ UNCHANGED <<unsent, filters, pc, fd>>

\* Mutant: READ is added and WRITE stays.
DeleteWriteMissing ==
  /\ poller = "modread"
  /\ poller' = "addread"
  /\ UNCHANGED <<unsent, filters, fd, pc>>

\* EV_DELETE of EVFILT_WRITE; after an error Wait closes the connection.
DeleteWrite ==
  /\ poller = "modread"
  /\ IF "WRITE" \in filters
     THEN poller' = "addread" /\ filters' = filters \ {"WRITE"} /\ UNCHANGED fd
     ELSE poller' = "wait" /\ CloseConn
  /\ UNCHANGED <<unsent, pc>>

\* AddRead, EV_ADD of EVFILT_READ; after an error Wait closes the connection.
AddRead ==
  /\ poller = "addread"
  /\ IF fd = "open"
     THEN poller' = "setin" /\ filters' = filters \cup {"READ"} /\ UNCHANGED fd
     ELSE poller' = "wait" /\ CloseConn
  /\ UNCHANGED <<unsent, pc>>

\* The write of ProceedWrite fails.
FlushFailed ==
  /\ poller = "flush"
  /\ fd = "closed" \/ peer = "gone" \/ room = 0
  /\ CloseConn
  /\ poller' = "wait"
  /\ UNCHANGED <<unsent, pc>>

\* EVFILT_READ at the end of the stream.
ReadEOF ==
  /\ Write!PollerFree
  /\ "READ" \in filters /\ peer = "gone"
  /\ CloseConn
  /\ UNCHANGED <<unsent, poller, pc>>

PollerStep ==
  \/ WriteEvent \/ Write!GetWriteBuff \/ DeleteWrite \/ AddRead \/ Write!SetIn
  \/ Write!Flush \/ FlushFailed \/ ReadEOF

-----------------------------------------------------------------------------

\* A handler, or the heartbeat check, closes the connection.
CloseByOther ==
  /\ fd = "open"
  /\ CloseConn
  /\ UNCHANGED <<unsent, poller, pc>>

Next ==
  \/ \E w \in Writers : Write!Send(w) \/ WriteStep(w)
  \/ PollerStep
  \/ CloseByOther \/ Write!PeerReads \/ Write!PeerGone

Spec == Init /\ [][Next]_vars

\* As in ConnWrite.
Fairness ==
  /\ \A w \in Writers : WF_vars(WriteStep(w))
  /\ WF_vars(PollerStep)
  /\ WF_vars(Write!PeerReads)

FairSpec == Spec /\ Fairness

-----------------------------------------------------------------------------

\* The variables that differ from ConnWrite have their types; ImplementsEpoll
\* says it of the others.
TypeOK ==
  /\ pc \in [Writers -> {"idle", "check", "enqueue", "write", "setout", "pushrest",
                         "modwrite", "addwrite"}]
  /\ poller \in {"wait", "getbuff", "flush", "modread", "addread", "setin"}
  /\ filters \subseteq {"READ", "WRITE"}
  /\ fd \in {"open", "closed"}

\* "There must be only one state at a time, either readable or writable" (comment
\* in Write): whoever changes the filters and however their calls interleave, an
\* open fd never has two, and has none only while one goroutine is between its
\* deletion and its addition.
OneFilter ==
  fd = "open" =>
    LET between == {w \in Writers : pc[w] = "addwrite"}
                     \cup (IF poller = "addread" THEN {"poller"} ELSE {})
    IN Cardinality(filters) + Cardinality(between) = 1

\* What epoll would show: a writer's ModWrite counts from its deletion, the
\* poller's ModRead from its addition.
Interest ==
  IF fd = "closed" THEN "none" ELSE IF "READ" \in filters THEN "in" ELSE "out"
SenderAt == [w \in Writers |-> IF pc[w] = "addwrite" THEN "idle" ELSE pc[w]]
PollerAt == IF poller = "addread" THEN "modread" ELSE poller

Epoll == INSTANCE ConnWrite WITH
  interest <- Interest, pc <- SenderAt, poller <- PollerAt

\* In spite of the two calls, and of giving up when the filter is gone, the BSD
\* build behaves as the epoll build does.
ImplementsEpoll == Epoll!Spec

\* A packet that has reached writeBuff is sent to its last byte unless the
\* connection ends: no filter is lost on the way.
HalfSentIsFinished == Epoll!InBuff ~> (~Epoll!InBuff \/ fd = "closed")
=============================================================================
