----------------------------- MODULE UdpServer -----------------------------
(***************************************************************************)
(* The UDP server (server/server_udp.go, acceptor_udp_base.go,             *)
(* acceptor_udp_linux.go, and receiveFromUDP of router.go).  The acceptor  *)
(* takes a datagram from the listening socket and makes a connected socket *)
(* for its sender, which a poller reads from then on.  Both sockets are    *)
(* bound to the server's port with SO_REUSEPORT: until connect(2) has      *)
(* returned, the kernel may give the new one datagrams of anybody.         *)
(*                                                                         *)
(* A datagram is whole, or has no body (empty), or more bytes than its     *)
(* header says (longer), or fewer, or a header that is refused (bad).      *)
(* Descriptors are not reused here (module ConnLifecycle is about that),   *)
(* and the look-up, the read and a Close of a poller are one step.         *)
(***************************************************************************)
EXTENDS Integers, Sequences, FiniteSets, SequencesExt

CONSTANTS
  Peers,
  Kinds,        \* of the datagrams peers send
  MaxDatagram,  \* bound: datagrams the peers send
  MaxFail,      \* bound: system calls of the acceptor that fail
  NumPoller,    \* event loops
  EmitCap,      \* capacity of emitCh
  None

ASSUME UdpServerAssumption ==
  /\ Kinds \subseteq {"whole", "empty", "longer", "bad"}
  /\ {MaxDatagram, MaxFail} \subseteq Nat
  /\ {NumPoller, EmitCap} \subseteq Nat \ {0}
  /\ None \notin Peers

Listener == 0
Conns == 1..MaxDatagram      \* a connection and its socket, made for one datagram
Socks == {Listener} \cup Conns
Pollers == 0..NumPoller - 1
Datagrams == [from : Peers, seq : 1..MaxDatagram, kind : Kinds, stray : BOOLEAN]
Messages == [conn : Conns, data : Datagrams]

VARIABLES
  sent,        \* number of datagrams the peers have sent
  phase,       \* kernel: "none", "bound", "connected" or "closed"
  rx,          \* kernel: the receive queue of each socket
  peerOf,      \* the address of each connection
  origin,      \* the datagram it was made for
  made,        \* sockets made
  failures,    \* system calls that have failed
  acceptor,    \* where the acceptor is in makeUdpConnect
  first,       \* the datagram it handles
  watched,     \* sockets in the epoll of their poller
  registry,    \* connections in the connection manager
  reading,     \* the message a poller is about to emit, None: epoll_wait
  emitCh,
  dispatched,  \* history: messages taken from emitCh
  lost,        \* history: datagrams dropped with a socket or by a failure
  panicked

kernel == <<phase, rx, watched>>
making == <<peerOf, origin, made, failures, acceptor, first>>
output == <<registry, reading, emitCh, dispatched>>
vars == <<sent, kernel, making, output, lost, panicked>>

\* By the connection's ID.  The acceptor uses the first two for other descriptors.
PollerOf(c) == (1 + Cardinality({d \in 1..c : peerOf[d] # None})) % NumPoller

Init ==
  /\ sent = 0
  /\ phase = [c \in Conns |-> "none"]
  /\ rx = [s \in Socks |-> <<>>]
  /\ peerOf = [c \in Conns |-> None]
  /\ origin = [c \in Conns |-> None]
  /\ made = 0
  /\ failures = 0
  /\ acceptor = "wait"
  /\ first = None
  /\ watched = {}
  /\ registry = {}
  /\ reading = [q \in Pollers |-> None]
  /\ emitCh = <<>>
  /\ dispatched = <<>>
  /\ lost = {}
  /\ panicked = FALSE

-----------------------------------------------------------------------------
(* The kernel and the peers.                                               *)

Connected(p) == {c \in Conns : phase[c] = "connected" /\ peerOf[c] = p}

\* The sockets that share the server's port and are not connected.
Wildcards == {Listener} \cup {c \in Conns : phase[c] = "bound"}

Targets(p) == IF Connected(p) # {} THEN Connected(p) ELSE Wildcards

\* The socket the acceptor has bound and is about to connect.
Window(s) == acceptor = "connect" /\ s = made

PeerSends(p) ==
  /\ sent < MaxDatagram
  /\ sent' = sent + 1
  /\ \E s \in Targets(p), kind \in Kinds :
       rx' = [rx EXCEPT ![s] = Append(@,
         [from |-> p, seq |-> sent', kind |-> kind, stray |-> Window(s)])]
  /\ UNCHANGED <<phase, watched, making, output, lost, panicked>>

\* close(2): what the socket has received is gone.
KernelClose(c) ==
  /\ phase' = [phase EXCEPT ![c] = "closed"]
  /\ watched' = watched \ {c}
  /\ lost' = lost \cup ToSet(rx[c])

-----------------------------------------------------------------------------
(* The acceptor: makeUdpConnect.                                           *)

Goto(from, to) == acceptor = from /\ acceptor' = to

\* Mutant: compares the lengths as receiveFromUDP does.
CompleteOrLonger(d) == d.kind # "bad"

\* recvfrom(2) from the listening socket; only exact packets make a connection.
Complete(d) == d.kind \in {"whole", "empty"}

Receive ==
  /\ acceptor = "wait" /\ rx[Listener] # <<>>
  /\ LET d == Head(rx[Listener]) IN
     IF Complete(d) THEN acceptor' = "bind" /\ first' = d ELSE UNCHANGED <<acceptor, first>>
  /\ rx' = [rx EXCEPT ![Listener] = Tail(@)]
  /\ UNCHANGED <<sent, phase, watched, peerOf, origin, made, failures, output, lost, panicked>>

\* A new socket, bound to the server's address.
Bind ==
  /\ Goto("bind", "connect")
  /\ made' = made + 1
  /\ phase' = [phase EXCEPT ![made + 1] = "bound"]
  /\ UNCHANGED <<sent, rx, watched, peerOf, origin, failures, first, output, lost, panicked>>

\* Mutant: the socket is not connected.
ConnectMissing ==
  /\ Goto("connect", "addread")
  /\ peerOf' = [peerOf EXCEPT ![made] = first.from]
  /\ origin' = [origin EXCEPT ![made] = first]
  /\ UNCHANGED <<sent, phase, rx, watched, made, failures, first, output, lost, panicked>>

\* connect(2): from now on the kernel gives it the peer's datagrams only; what
\* it has received before stays in its queue.
Connect ==
  /\ Goto("connect", "addread")
  /\ phase' = [phase EXCEPT ![made] = "connected"]
  /\ peerOf' = [peerOf EXCEPT ![made] = first.from]
  /\ origin' = [origin EXCEPT ![made] = first]
  /\ UNCHANGED <<sent, rx, watched, made, failures, first, output, lost, panicked>>

\* Mutant: the error is logged and not returned, and the next call is made.
FailsGoesOn ==
  /\ failures < MaxFail
  /\ \/ Goto("bind", "connect") \/ Goto("connect", "addread")
  /\ failures' = failures + 1
  /\ UNCHANGED <<sent, kernel, peerOf, origin, made, first, output, lost, panicked>>

\* One of these calls fails: the datagram is dropped.  The socket is not closed.
Fails ==
  /\ failures < MaxFail
  /\ acceptor \in {"bind", "connect"} /\ acceptor' = "wait"
  /\ failures' = failures + 1
  /\ lost' = lost \cup {first}
  /\ UNCHANGED <<sent, kernel, peerOf, origin, made, first, output, panicked>>

\* EventLoop.AddRead
AddRead ==
  /\ Goto("addread", "add")
  /\ watched' = watched \cup {made}
  /\ UNCHANGED <<sent, phase, rx, peerOf, origin, made, failures, first, output, lost, panicked>>

\* It fails: Close uses the poller that AddRead has not set.
AddReadFails ==
  /\ acceptor = "addread" /\ failures < MaxFail
  /\ failures' = failures + 1
  /\ panicked' = TRUE
  /\ UNCHANGED <<sent, kernel, peerOf, origin, made, acceptor, first, output, lost>>

\* ConnectManager.Add
Add ==
  /\ Goto("add", "emit")
  /\ registry' = registry \cup {made}
  /\ UNCHANGED <<sent, kernel, peerOf, origin, made, failures, first, reading, emitCh,
                 dispatched, lost, panicked>>

\* emitCh <- m, which blocks while the channel is full.
Emit(m) == Len(emitCh) < EmitCap /\ emitCh' = Append(emitCh, m)

\* Mutant: the first datagram is left to the poller, which never sees it.
EmitFirstMissing ==
  /\ Goto("emit", "wait")
  /\ UNCHANGED <<sent, kernel, peerOf, origin, made, failures, first, output, lost, panicked>>

EmitFirst ==
  /\ Goto("emit", "wait")
  /\ Emit([conn |-> made, data |-> first])
  /\ UNCHANGED <<sent, kernel, peerOf, origin, made, failures, first, registry, reading,
                 dispatched, lost, panicked>>

Acceptor ==
  \/ Receive \/ Bind \/ Connect \/ Fails \/ AddRead \/ AddReadFails \/ Add \/ EmitFirst

-----------------------------------------------------------------------------
(* A poller, the dispatch loop, and whoever closes idle connections.       *)

\* Poller q gets a read event of c.
Readable(q, c) == reading[q] = None /\ c \in watched /\ PollerOf(c) = q /\ rx[c] # <<>>

\* No connection has this fd: it is closed.
Orphan(q) ==
  /\ \E c \in Conns \ registry : Readable(q, c) /\ KernelClose(c)
  /\ UNCHANGED <<sent, rx, making, output, panicked>>

\* receiveFromUDP: a datagram may have more bytes than its packet.
Valid(d) == d.kind # "bad"

\* Mutant: MSG_PEEK, the datagram stays in the queue.
ReadPeeks(q) ==
  /\ \E c \in registry :
       /\ Readable(q, c) /\ Valid(Head(rx[c]))
       /\ LET d == Head(rx[c]) IN
          reading' = [reading EXCEPT ![q] =
                        IF d.kind = "empty" THEN None ELSE [conn |-> c, data |-> d]]
  /\ UNCHANGED <<sent, kernel, registry, lost, making, emitCh, dispatched, panicked>>

\* Wait passes on a message that has a body; an error closes the connection.
Read(q) ==
  /\ \E c \in registry :
       /\ Readable(q, c)
       /\ LET d == Head(rx[c]) IN
          IF Valid(d)
          THEN /\ reading' = [reading EXCEPT ![q] =
                                IF d.kind = "empty" THEN None ELSE [conn |-> c, data |-> d]]
               /\ rx' = [rx EXCEPT ![c] = Tail(@)]
               /\ UNCHANGED <<phase, watched, registry, lost>>
          ELSE /\ registry' = registry \ {c}
               /\ KernelClose(c)
               /\ UNCHANGED <<rx, reading>>
  /\ UNCHANGED <<sent, making, emitCh, dispatched, panicked>>

EmitRead(q) ==
  /\ reading[q] # None
  /\ Emit(reading[q])
  /\ reading' = [reading EXCEPT ![q] = None]
  /\ UNCHANGED <<sent, kernel, making, registry, dispatched, lost, panicked>>

Poller(q) == Orphan(q) \/ Read(q) \/ EmitRead(q)

\* doMessage
Dispatch ==
  /\ emitCh # <<>>
  /\ dispatched' = Append(dispatched, Head(emitCh))
  /\ emitCh' = Tail(emitCh)
  /\ UNCHANGED <<sent, kernel, making, registry, reading, lost, panicked>>

\* A handler or the heartbeat check closes a connection.
CloseByOther ==
  /\ \E c \in registry : registry' = registry \ {c} /\ KernelClose(c)
  /\ UNCHANGED <<sent, rx, making, reading, emitCh, dispatched, panicked>>

Next ==
  /\ ~panicked
  /\ \/ \E p \in Peers : PeerSends(p)
     \/ Acceptor
     \/ \E q \in Pollers : Poller(q)
     \/ Dispatch
     \/ CloseByOther

Spec == Init /\ [][Next]_vars

\* Goroutines that can run do run.  Peers need not send, nobody need close.
Fairness ==
  /\ WF_vars(~panicked /\ Acceptor)
  /\ \A q \in Pollers : WF_vars(~panicked /\ Poller(q))
  /\ WF_vars(~panicked /\ Dispatch)

FairSpec == Spec /\ Fairness

-----------------------------------------------------------------------------

\* Every variable has its type.
TypeOK ==
  /\ sent \in 0..MaxDatagram
  /\ phase \in [Conns -> {"none", "bound", "connected", "closed"}]
  /\ rx \in [Socks -> Seq(Datagrams)]
  /\ peerOf \in [Conns -> Peers \cup {None}]
  /\ origin \in [Conns -> Datagrams \cup {None}]
  /\ made \in 0..MaxDatagram /\ failures \in 0..MaxFail
  /\ acceptor \in {"wait", "bind", "connect", "addread", "add", "emit"}
  /\ first \in Datagrams \cup {None}
  /\ watched \subseteq Conns /\ registry \subseteq Conns
  /\ reading \in [Pollers -> Messages \cup {None}]
  /\ emitCh \in Seq(Messages) /\ Len(emitCh) <= EmitCap
  /\ dispatched \in Seq(Messages)
  /\ lost \subseteq Datagrams
  /\ panicked \in BOOLEAN

Before(i, j) == i \in DOMAIN dispatched /\ j \in DOMAIN dispatched /\ i < j

IsOrigin(m) == m.data = origin[m.conn]

\* Though acceptor and pollers send on one channel, a datagram is dispatched
\* once, and those that one peer sends through one connection keep their order,
\* with one exception: the datagram the connection was made for is emitted only
\* when the poller already reads the next ones, and may come after them.
InOrder ==
  \A i, j \in DOMAIN dispatched : Before(i, j) =>
    LET m == dispatched[i]
        n == dispatched[j]
    IN /\ m.data # n.data
       /\ m.conn = n.conn /\ m.data.from = n.data.from /\ m.data.seq > n.data.seq
            => IsOrigin(n)

\* A handler gets another peer's datagram under a connection only if the kernel
\* had queued it between bind(2) and connect(2): never before, never after, and
\* never from a socket whose connect(2) has failed.
Attributed ==
  \A i \in DOMAIN dispatched :
    LET m == dispatched[i] IN m.data.from # peerOf[m.conn] => m.data.stray /\ ~IsOrigin(m)

\* The two readers disagree: the acceptor takes only datagrams that have the
\* length their header says, and passes on empty bodies; a poller takes longer
\* ones, and drops empty bodies.  Nothing else reaches a handler.
Verdicts ==
  \A i \in DOMAIN dispatched :
    LET m == dispatched[i]
    IN m.data.kind \in {"whole", IF IsOrigin(m) THEN "empty" ELSE "longer"}

Queued(d) == \E s \in Socks : d \in ToSet(rx[s])

\* A socket that was bound and could not be connected is open and never read.
Leaked(d) == \E c \in Conns : phase[c] = "bound" /\ peerOf[c] = None /\ d \in ToSet(rx[c])

Dispatched(d) == \E i \in DOMAIN dispatched : dispatched[i].data = d

\* A complete datagram that a socket has received reaches a handler, however
\* many connections its peer has, unless its socket is closed or leaked first,
\* the acceptor drops it after a failed system call, or the process panics.
Served ==
  \A d \in {e \in Datagrams : e.kind = "whole"} :
    Queued(d) ~> \/ Dispatched(d)
                 \/ d \in lost
                 \/ Leaked(d)
                 \/ panicked
=============================================================================
