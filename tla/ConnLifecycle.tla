--------------------------- MODULE ConnLifecycle ---------------------------
(***************************************************************************)
(* The life of the connections of a TCP server: the acceptor that creates  *)
(* them (server/acceptor_linux.go), the registry that finds them by file   *)
(* descriptor (server/connectmgr.go), the pollers that read and close them *)
(* (eventloop/epoll.go), and the handler goroutines and the heartbeat      *)
(* check that close them too.                                              *)
(*                                                                         *)
(* A connection object c outlives its socket, and keeps using the number   *)
(* fdOf[c] after the kernel has given that number to another socket.  One  *)
(* step is one system call, one locked access to the registry, or one part *)
(* of Close.  The socket of connection c is called c too.  A message is    *)
(* read whole.  Send is left to module ConnWrite: it changes nothing here, *)
(* and writes to SocketOf(c), whosever that is after a Close.              *)
(***************************************************************************)
EXTENDS Integers, FiniteSets

CONSTANTS
  MaxConn,     \* bound: connections accepted in all
  MaxFd,       \* file descriptors the kernel can give to them
  NumPoller,   \* event loops
  Handlers,    \* handler goroutines
  Closers,     \* those that may call Close
  Heartbeats,  \* the heartbeat goroutine, or none when it is not configured
  MaxMsg,      \* bound: messages each peer sends
  None

Conns == 0..MaxConn - 1
Fds == 1..MaxFd
Pollers == 0..NumPoller - 1
Actors == Pollers \cup Handlers \cup Heartbeats

ASSUME ConnLifecycleAssumption ==
  /\ MaxConn \in Nat /\ MaxFd \in Nat /\ MaxMsg \in Nat
  /\ NumPoller \in Nat \ {0}
  /\ Closers \subseteq Handlers
  /\ Handlers \cap Heartbeats = {}
  /\ (Handlers \cup Heartbeats) \cap Pollers = {}
  /\ None \notin Conns \cup Fds

VARIABLES
  accepted,  \* number of connections accepted, the next connection's ID
  acceptor,  \* where the acceptor's goroutine is
  fdOf,      \* fd of each connection object
  open,      \* kernel: the socket each fd refers to
  watched,   \* kernel: sockets registered with the epoll of their connection
  unread,    \* kernel: messages a socket has received and nobody has read
  toSend,    \* messages the peer has still to send
  gone,      \* peers that have closed their end
  registry,  \* ConnectManager.connects
  batch,     \* fds of the events a poller has still to handle
  event,     \* fd of the event it is handling
  at,        \* where each goroutine is
  conn,      \* the connection object it works on
  inbox,     \* connections with a message dispatched to a handler
  released,  \* connections whose Close has dropped the read buffer
  onClose,   \* number of OnClose calls
  early,     \* history: an event of a connection was looked up before Add
  others,    \* history: others than the pollers have called Close
  panicked   \* a goroutine has panicked: the process is dead

kernel == <<open, watched, unread, toSend, gone>>
history == <<early, others>>
vars == <<accepted, acceptor, fdOf, kernel, registry, batch, event, at, conn,
          inbox, released, onClose, history, panicked>>

\* EventLoop.AddRead: the poller of a connection.
PollerOf(c) == c % NumPoller

\* The socket an fd refers to, None if it is closed.
SocketOf(c) == open[fdOf[c]]
IsOpen(s) == \E f \in Fds : open[f] = s

\* close(f): the socket goes away, with its registration.
KernelClose(f) ==
  /\ open' = [open EXCEPT ![f] = None]
  /\ watched' = watched \ {open[f]}

\* EPOLL_CTL_DEL of f in the epoll of poller p: an error if it is not in there.
KernelUnwatch(p, f) ==
  watched' = IF open[f] # None /\ PollerOf(open[f]) = p THEN watched \ {open[f]} ELSE watched

Init ==
  /\ accepted = 0
  /\ acceptor = "accept"
  /\ fdOf = [c \in Conns |-> None]
  /\ open = [f \in Fds |-> None]
  /\ watched = {}
  /\ unread = [c \in Conns |-> 0]
  /\ toSend = [c \in Conns |-> MaxMsg]
  /\ gone = {}
  /\ registry = [f \in Fds |-> None]
  /\ batch = [p \in Pollers |-> {}]
  /\ event = [p \in Pollers |-> None]
  /\ at = [a \in Actors |-> "idle"]
  /\ conn = [a \in Actors |-> None]
  /\ inbox = {}
  /\ released = {}
  /\ onClose = [c \in Conns |-> 0]
  /\ early = FALSE /\ others = FALSE
  /\ panicked = FALSE

-----------------------------------------------------------------------------
(* The acceptor.                                                           *)

\* accept(2) returns the lowest free fd; the connection object is built.
Accept ==
  /\ acceptor = "accept" /\ accepted < MaxConn
  /\ \E f \in Fds :
       /\ open[f] = None
       /\ \A g \in 1..f - 1 : open[g] # None
       /\ fdOf' = [fdOf EXCEPT ![accepted] = f]
       /\ open' = [open EXCEPT ![f] = accepted]
  /\ accepted' = accepted + 1
  /\ acceptor' = "addread"
  /\ UNCHANGED <<watched, unread, toSend, gone, registry, batch, event, at, conn,
                 inbox, released, onClose, history, panicked>>

\* EventLoop.AddRead succeeds: from now on the poller gets events.
AddRead ==
  LET c == accepted - 1 IN
  /\ acceptor = "addread" /\ SocketOf(c) = c
  /\ watched' = watched \cup {c}
  /\ acceptor' = "add"
  /\ UNCHANGED <<accepted, fdOf, open, unread, toSend, gone, registry, batch, event, at,
                 conn, inbox, released, onClose, history, panicked>>

\* It fails when somebody has closed the fd.  Close then uses the poller that
\* AddRead has not set: a nil dereference.
AddReadFailed ==
  /\ acceptor = "addread" /\ SocketOf(accepted - 1) # accepted - 1
  /\ panicked' = TRUE
  /\ UNCHANGED <<accepted, acceptor, fdOf, kernel, registry, batch, event, at, conn, inbox,
                 released, onClose, history>>

\* ConnectManager.Add
Add ==
  /\ acceptor = "add"
  /\ registry' = [registry EXCEPT ![fdOf[accepted - 1]] = accepted - 1]
  /\ acceptor' = "accept"
  /\ UNCHANGED <<accepted, fdOf, kernel, batch, event, at, conn, inbox, released, onClose,
                 history, panicked>>

-----------------------------------------------------------------------------
(* Close, by whichever goroutine calls it.                                 *)

Goto(a, from, to) == at[a] = from /\ at' = [at EXCEPT ![a] = to]

\* Poller.Remove
CloseUnwatch(a) ==
  /\ Goto(a, "unwatch", "unregister")
  /\ KernelUnwatch(PollerOf(conn[a]), fdOf[conn[a]])
  /\ UNCHANGED <<accepted, acceptor, fdOf, open, unread, toSend, gone, registry, batch,
                 event, conn, inbox, released, onClose, history, panicked>>

\* Mutant: the connection is not removed from the registry.
CloseUnregisterMissing(a) ==
  /\ Goto(a, "unregister", "close")
  /\ UNCHANGED <<accepted, acceptor, fdOf, kernel, registry, batch, event, conn, inbox,
                 released, onClose, history, panicked>>

\* Mutant: OnClose is called before the fd is closed.
CloseReportsEarly(a) ==
  /\ Goto(a, "unregister", "close")
  /\ registry' = [registry EXCEPT ![fdOf[conn[a]]] = None]
  /\ onClose' = [onClose EXCEPT ![conn[a]] = @ + 1]
  /\ UNCHANGED <<accepted, acceptor, fdOf, kernel, batch, event, conn, inbox, released,
                 history, panicked>>

\* ConnectManager.Remove
CloseUnregister(a) ==
  /\ Goto(a, "unregister", "close")
  /\ registry' = [registry EXCEPT ![fdOf[conn[a]]] = None]
  /\ UNCHANGED <<accepted, acceptor, fdOf, kernel, batch, event, conn, inbox, released,
                 onClose, history, panicked>>

\* unix.Close, which may fail.
CloseFd(a) ==
  LET c == conn[a]  s == SocketOf(c) IN
  /\ Goto(a, "close", IF s # None THEN "drop" ELSE "drop_failed")
  /\ KernelClose(fdOf[c])
  /\ UNCHANGED <<accepted, acceptor, fdOf, unread, toSend, gone, registry, batch, event,
                 conn, inbox, released, onClose, history, panicked>>

\* Where a goroutine goes on after Close.
AfterClose(a) == IF a \in Heartbeats THEN "beat_unregister" ELSE "idle"

\* Mutant: OnClose is called whatever unix.Close returns.
CloseDropForgetsError(a) ==
  /\ at[a] \in {"drop", "drop_failed"}
  /\ Goto(a, at[a], "report")
  /\ released' = released \cup {conn[a]}
  /\ UNCHANGED <<accepted, acceptor, fdOf, kernel, registry, batch, event, conn, inbox,
                 onClose, history, panicked>>

\* The read buffer is dropped.
CloseDrop(a) ==
  /\ at[a] \in {"drop", "drop_failed"}
  /\ Goto(a, at[a], IF at[a] = "drop" THEN "report" ELSE AfterClose(a))
  /\ released' = released \cup {conn[a]}
  /\ UNCHANGED <<accepted, acceptor, fdOf, kernel, registry, batch, event, conn, inbox,
                 onClose, history, panicked>>

\* OnClose, if the fd was open.
CloseReport(a) ==
  /\ Goto(a, "report", AfterClose(a))
  /\ onClose' = [onClose EXCEPT ![conn[a]] = @ + 1]
  /\ UNCHANGED <<accepted, acceptor, fdOf, kernel, registry, batch, event, conn, inbox,
                 released, history, panicked>>

CloseStep(a) ==
  \/ CloseUnwatch(a) \/ CloseUnregister(a) \/ CloseFd(a) \/ CloseDrop(a) \/ CloseReport(a)

-----------------------------------------------------------------------------
(* A poller.                                                               *)

\* Mutant: a connection is registered with the epolls of all the pollers.
WaitOnAll(p) ==
  /\ at[p] = "idle" /\ batch[p] = {}
  /\ \E fs \in SUBSET {f \in Fds : /\ open[f] \in watched
                                   /\ unread[open[f]] > 0 \/ open[f] \in gone} :
       /\ fs # {}
       /\ batch' = [batch EXCEPT ![p] = fs]
  /\ UNCHANGED <<accepted, acceptor, fdOf, kernel, registry, event, at, conn, inbox,
                 released, onClose, history, panicked>>

\* epoll_wait: fds of some of the sockets that can be read.
Wait(p) ==
  /\ at[p] = "idle" /\ batch[p] = {}
  /\ \E fs \in SUBSET {f \in Fds : /\ open[f] \in watched /\ PollerOf(open[f]) = p
                                   /\ unread[open[f]] > 0 \/ open[f] \in gone} :
       /\ fs # {}
       /\ batch' = [batch EXCEPT ![p] = fs]
  /\ UNCHANGED <<accepted, acceptor, fdOf, kernel, registry, event, at, conn, inbox,
                 released, onClose, history, panicked>>

\* ConnectMgr.Get
Lookup(p) ==
  /\ \E f \in batch[p] :
       /\ Goto(p, "idle", IF registry[f] = None THEN "orphan" ELSE "decode")
       /\ batch' = [batch EXCEPT ![p] = @ \ {f}]
       /\ event' = [event EXCEPT ![p] = f]
       /\ conn' = [conn EXCEPT ![p] = registry[f]]
       /\ early' = (early \/ (acceptor = "add" /\ f = fdOf[accepted - 1]))
  /\ UNCHANGED <<accepted, acceptor, fdOf, kernel, registry, inbox, released, onClose,
                 others, panicked>>

\* No connection has the fd: unix.Close ...
CloseOrphan(p) ==
  /\ Goto(p, "orphan", "unwatch_orphan")
  /\ KernelClose(event[p])
  /\ UNCHANGED <<accepted, acceptor, fdOf, unread, toSend, gone, registry, batch, event,
                 conn, inbox, released, onClose, history, panicked>>

\* ... and Poller.Remove.
UnwatchOrphan(p) ==
  /\ Goto(p, "unwatch_orphan", "idle")
  /\ KernelUnwatch(p, event[p])
  /\ UNCHANGED <<accepted, acceptor, fdOf, open, unread, toSend, gone, registry, batch,
                 event, conn, inbox, released, onClose, history, panicked>>

\* Mutant: the error of the read is not looked at.
DecodeReadBlind(p) ==
  LET c == conn[p]  s == SocketOf(c) IN
  /\ Goto(p, "decode", "store")
  /\ s # None
  /\ unread' = [unread EXCEPT ![s] = @ - 1]
  /\ UNCHANGED <<accepted, acceptor, fdOf, open, watched, toSend, gone, registry, batch,
                 event, conn, inbox, released, onClose, history, panicked>>

\* DecodePacket reads a message from the fd ...
DecodeRead(p) ==
  LET c == conn[p]  s == SocketOf(c) IN
  /\ Goto(p, "decode", "store")
  /\ s # None /\ unread[s] > 0
  /\ unread' = [unread EXCEPT ![s] = @ - 1]
  /\ UNCHANGED <<accepted, acceptor, fdOf, open, watched, toSend, gone, registry, batch,
                 event, conn, inbox, released, onClose, history, panicked>>

\* ... and puts it into the read buffer, a nil pointer if Close has dropped it;
\* the poller emits the message.
DecodeStore(p) ==
  /\ Goto(p, "store", "idle")
  /\ \/ conn[p] \in released /\ panicked' = TRUE /\ UNCHANGED inbox
     \/ conn[p] \notin released /\ inbox' = inbox \cup {conn[p]} /\ UNCHANGED panicked
  /\ UNCHANGED <<accepted, acceptor, fdOf, kernel, registry, batch, event, conn, released,
                 onClose, history>>

\* Mutant: the end of the stream is taken for EAGAIN.
DecodeNothingKeeps(p) ==
  LET s == SocketOf(conn[p]) IN
  /\ at[p] = "decode"
  /\ s # None => unread[s] = 0
  /\ Goto(p, "decode", IF s = None THEN "unwatch" ELSE "idle")
  /\ UNCHANGED <<accepted, acceptor, fdOf, kernel, registry, batch, event, conn, inbox,
                 released, onClose, history, panicked>>

\* It returns io.EOF (end of the stream, or EBADF) and the poller calls Close,
\* or EAGAIN and the poller goes on.
DecodeNothing(p) ==
  LET s == SocketOf(conn[p]) IN
  /\ at[p] = "decode"
  /\ s # None => unread[s] = 0
  /\ Goto(p, "decode", IF s = None \/ s \in gone THEN "unwatch" ELSE "idle")
  /\ UNCHANGED <<accepted, acceptor, fdOf, kernel, registry, batch, event, conn, inbox,
                 released, onClose, history, panicked>>

PollerStep(p) ==
  \/ Wait(p) \/ Lookup(p) \/ CloseOrphan(p) \/ UnwatchOrphan(p)
  \/ DecodeRead(p) \/ DecodeStore(p) \/ DecodeNothing(p) \/ CloseStep(p)

-----------------------------------------------------------------------------
(* Handlers and the heartbeat check.                                       *)

\* go Dispatch: a handler starts with the connection of its message.
Dispatch(h) ==
  /\ Goto(h, "idle", "handle")
  /\ \E c \in inbox :
       /\ conn' = [conn EXCEPT ![h] = c]
       /\ inbox' = inbox \ {c}
  /\ UNCHANGED <<accepted, acceptor, fdOf, kernel, registry, batch, event, released, onClose,
                 history, panicked>>

Return(h) ==
  /\ Goto(h, "handle", "idle")
  /\ UNCHANGED <<accepted, acceptor, fdOf, kernel, registry, batch, event, conn, inbox,
                 released, onClose, history, panicked>>

\* The handler calls Close.
HandlerClose(h) ==
  /\ h \in Closers
  /\ Goto(h, "handle", "unwatch")
  /\ others' = TRUE
  /\ UNCHANGED <<accepted, acceptor, fdOf, kernel, registry, batch, event, conn, inbox,
                 released, onClose, early, panicked>>

\* The check finds a connection idle for too long.
Beat(b) ==
  /\ Goto(b, "idle", "unwatch")
  /\ \E f \in Fds :
       /\ registry[f] # None
       /\ conn' = [conn EXCEPT ![b] = registry[f]]
  /\ others' = TRUE
  /\ UNCHANGED <<accepted, acceptor, fdOf, kernel, registry, batch, event, inbox, released,
                 onClose, early, panicked>>

\* After Close, ConnectManager.Remove ...
BeatUnregister(b) ==
  /\ Goto(b, "beat_unregister", "beat_unwatch")
  /\ registry' = [registry EXCEPT ![fdOf[conn[b]]] = None]
  /\ UNCHANGED <<accepted, acceptor, fdOf, kernel, batch, event, conn, inbox, released,
                 onClose, history, panicked>>

\* ... and Poller.Remove once more.
BeatUnwatch(b) ==
  /\ Goto(b, "beat_unwatch", "idle")
  /\ KernelUnwatch(PollerOf(conn[b]), fdOf[conn[b]])
  /\ UNCHANGED <<accepted, acceptor, fdOf, open, unread, toSend, gone, registry, batch,
                 event, conn, inbox, released, onClose, history, panicked>>

HandlerStep(h) == Dispatch(h) \/ Return(h) \/ HandlerClose(h) \/ CloseStep(h)
BeatStep(b) == Beat(b) \/ BeatUnregister(b) \/ BeatUnwatch(b) \/ CloseStep(b)

-----------------------------------------------------------------------------
(* The peers.                                                              *)

\* The peer of c can act, from the moment it is connected.
Speaks(c) == IsOpen(c) /\ c \notin gone

PeerSends(c) ==
  /\ Speaks(c) /\ toSend[c] > 0
  /\ toSend' = [toSend EXCEPT ![c] = @ - 1]
  /\ unread' = [unread EXCEPT ![c] = @ + 1]
  /\ UNCHANGED <<accepted, acceptor, fdOf, open, watched, gone, registry, batch, event, at,
                 conn, inbox, released, onClose, history, panicked>>

PeerLeaves(c) ==
  /\ Speaks(c)
  /\ gone' = gone \cup {c}
  /\ UNCHANGED <<accepted, acceptor, fdOf, open, watched, unread, toSend, registry, batch,
                 event, at, conn, inbox, released, onClose, history, panicked>>

Next ==
  /\ ~panicked
  /\ \/ Accept \/ AddRead \/ AddReadFailed \/ Add
     \/ \E p \in Pollers : PollerStep(p)
     \/ \E h \in Handlers : HandlerStep(h)
     \/ \E b \in Heartbeats : BeatStep(b)
     \/ \E c \in Conns : PeerSends(c) \/ PeerLeaves(c)

Spec == Init /\ [][Next]_vars

\* Goroutines that can run do run, and the check closes a connection that stays
\* idle (every peer has finitely many messages).  Peers need not do anything,
\* and a handler need not return.
Fairness ==
  /\ WF_vars(~panicked /\ (AddRead \/ AddReadFailed \/ Add))
  /\ \A p \in Pollers : WF_vars(~panicked /\ PollerStep(p))
  /\ \A h \in Handlers : WF_vars(~panicked /\ CloseStep(h))
  /\ \A b \in Heartbeats : WF_vars(~panicked /\ BeatStep(b))

FairSpec == Spec /\ Fairness

-----------------------------------------------------------------------------
(* Properties.                                                             *)

TypeOK ==
  /\ accepted \in 0..MaxConn
  /\ acceptor \in {"accept", "addread", "add"}
  /\ fdOf \in [Conns -> Fds \cup {None}]
  /\ open \in [Fds -> Conns \cup {None}]
  /\ watched \subseteq Conns
  /\ unread \in [Conns -> 0..MaxMsg]
  /\ toSend \in [Conns -> 0..MaxMsg]
  /\ gone \subseteq Conns
  /\ registry \in [Fds -> Conns \cup {None}]
  /\ batch \in [Pollers -> SUBSET Fds]
  /\ event \in [Pollers -> Fds \cup {None}]
  /\ at \in [Actors -> {"idle", "orphan", "unwatch_orphan", "decode", "store", "handle", "unwatch",
                        "unregister", "close", "drop", "drop_failed", "report",
                        "beat_unregister", "beat_unwatch"}]
  /\ conn \in [Actors -> Conns \cup {None}]
  /\ inbox \subseteq Conns
  /\ released \subseteq Conns
  /\ onClose \in [Conns -> Nat]
  /\ early \in BOOLEAN /\ others \in BOOLEAN /\ panicked \in BOOLEAN

\* Nobody is in the middle of an operation.
AtRest ==
  /\ acceptor = "accept" /\ ~panicked
  /\ \A p \in Pollers : at[p] = "idle" /\ batch[p] = {}
  /\ \A a \in Handlers \cup Heartbeats : at[a] \in {"idle", "handle"}

\* No event of a connection has been looked up while the acceptor was still
\* registering it (AddRead comes before Add: a client that sends at once can be that
\* early), and only the pollers have closed connections.
Calm == ~early /\ ~others

\* A socket is closed by the Close of its own connection and by nothing else: not by
\* the Close of another connection that has had the fd, and not as an orphan.
ClosesOwn ==
  [][Calm' => \A c \in Conns :
       IsOpen(c) /\ ~IsOpen(c)'
         => \E a \in Actors : conn[a] = c /\ at[a] = "close" /\ at'[a] = "drop"]_vars

\* What a poller reads for a connection comes from the peer it was made with.
ReadsOwn ==
  [][Calm' => \A p \in Pollers :
       at[p] = "decode" /\ at'[p] = "store" => SocketOf(conn[p]) = conn[p]]_vars

\* No goroutine uses what another one has taken away: the read buffer that
\* Close has dropped, the poller that AddRead has not set.
NoPanic == Calm => ~panicked

\* As long as Calm holds, no connection reads or closes the socket of another one, or
\* uses what a Close has taken away.
UsesOwnSocket == ClosesOwn /\ ReadsOwn /\ []NoPanic

\* OnClose runs at most once for a connection, whoever closes it and however
\* often, as long as no other connection is given its fd.
OnCloseOnce ==
  \A c \in Conns : (\A d \in Conns \ {c} : fdOf[d] # fdOf[c]) => onClose[c] <= 1

\* When OnClose has run, the socket of that connection is closed.
ReportedIsClosed == \A c \in Conns : onClose[c] > 0 => ~IsOpen(c)

\* "All connections are kept here, connFD => Connect" (ConnectManager): at rest
\* the registry holds the connections that are open, under their fds, and
\* epoll watches each of them.
RegistryIsExact ==
  AtRest => registry = open /\ watched = {c \in Conns : IsOpen(c)}

\* At rest, every connection that has ended has been reported by OnClose, once.
EndIsReported ==
  AtRest => \A c \in 0..accepted - 1 : IsOpen(c) \/ onClose[c] = 1

\* As long as Calm holds, nobody has lost sight of a connection between operations:
\* server, kernel and program agree on which ones there are.
NoneForgotten == Calm => RegistryIsExact /\ EndIsReported

\* A connection whose peer has left is closed (a panic closes everything), as long as
\* Calm holds.
GoneIsClosed == \A c \in Conns : c \in gone ~> ~IsOpen(c) \/ panicked \/ ~Calm
=============================================================================
