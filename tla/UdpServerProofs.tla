--------------------------- MODULE UdpServerProofs ---------------------------
(***************************************************************************)
(* Proofs about UdpServer for any number of peers, datagrams, pollers and  *)
(* failing system calls: its types, whose datagrams a handler gets under a *)
(* connection, which of them pass, and in which order.                     *)
(***************************************************************************)
EXTENDS UdpServer, SequenceTheorems, TLAPS

\* 1 while the acceptor holds a datagram that has no socket yet.
InHand == IF acceptor = "bind" THEN 1 ELSE 0

\* The acceptor's datagram, and the socket it makes for it.  Each socket stands
\* for a datagram that has left the listening socket.
Making ==
  /\ made + Len(rx[Listener]) + InHand <= sent
  /\ acceptor # "wait" => first \in Datagrams /\ Complete(first)
  /\ acceptor \in {"connect", "addread", "add", "emit"} => made \in Conns
  /\ acceptor = "connect" => phase[made] = "bound"
  /\ acceptor \in {"addread", "add", "emit"} => peerOf[made] = first.from /\ origin[made] = first

\* The connection exists: its socket has been connected to a peer.
Named(c) == peerOf[c] # None

\* Once it has a peer it has its first datagram, and from the window on its socket
\* receives that peer's datagrams or stray ones.
Connection(c) ==
  /\ c > made => phase[c] = "none"
  /\ phase[c] = "none" => rx[c] = <<>>
  /\ phase[c] \in {"none", "bound"} => ~Named(c)
  /\ Named(c) => /\ origin[c] \in Datagrams /\ Complete(origin[c])
                 /\ origin[c].from = peerOf[c]
  /\ Named(c) \/ Window(c) =>
       \A i \in DOMAIN rx[c] : rx[c][i].stray \/ rx[c][i].from = peerOf[c]

\* Only connections are watched or registered.
Connections ==
  /\ \A c \in Conns : Connection(c)
  /\ \A c \in watched \cup registry : Named(c)

\* What Attributed and Verdicts say of a message, wherever it is.
Good(m) ==
  /\ Named(m.conn)
  /\ m.data.from # peerOf[m.conn] => m.data.stray
  /\ m.data.kind \in {"whole", IF IsOrigin(m) THEN "empty" ELSE "longer"}

\* It is: with the pollers, in the channel and in what was dispatched.
Output ==
  /\ \A q \in Pollers : reading[q] = None \/ Good(reading[q])
  /\ \A i \in DOMAIN emitCh : Good(emitCh[i])
  /\ \A i \in DOMAIN dispatched : Good(dispatched[i])

\* The inductive invariant.
IInv == TypeOK /\ Making /\ Connections /\ Output

\* What the proofs use of the assumption.
LEMMA Constants ==
  /\ MaxDatagram \in Nat /\ MaxFail \in Nat /\ EmitCap \in Nat \ {0}
  /\ None \notin Peers
  /\ Kinds \subseteq {"whole", "empty", "longer", "bad"}
  BY UdpServerAssumption DEF UdpServerAssumption

\* The initial state.
LEMMA InitIInv == Init => IInv
<1> SUFFICES ASSUME Init PROVE IInv OBVIOUS
<1> USE Constants DEF Init
<1>1. TypeOK
  <2>1. rx \in [Socks -> Seq(Datagrams)] /\ emitCh \in Seq(Messages) /\ dispatched \in Seq(Messages)
    OBVIOUS
  <2>2. reading \in [Pollers -> Messages \cup {None}] OBVIOUS
  <2>3. sent \in 0..MaxDatagram /\ made \in 0..MaxDatagram /\ failures \in 0..MaxFail OBVIOUS
  <2>4. phase \in [Conns -> {"none", "bound", "connected", "closed"}] OBVIOUS
  <2>5. peerOf \in [Conns -> Peers \cup {None}] /\ origin \in [Conns -> Datagrams \cup {None}] OBVIOUS
  <2>6. Len(emitCh) <= EmitCap OBVIOUS
  <2> QED BY <2>1, <2>2, <2>3, <2>4, <2>5, <2>6 DEF TypeOK
<1>2. Making BY DEF Making, InHand, Socks, Listener
<1>3. Connections BY DEF Connections, Connection, Named, Window, Socks, Conns, Listener
<1>4. Output BY DEF Output
<1> QED BY <1>1, <1>2, <1>3, <1>4 DEF IInv

\* The numbers in Making.
LEMMA Counted ==
  ASSUME IInv
  PROVE  /\ made \in Nat /\ sent \in Nat /\ InHand \in 0..1 /\ Len(rx[Listener]) \in Nat
         /\ made + Len(rx[Listener]) + InHand <= sent
<1>1. made \in Nat /\ sent \in Nat BY Constants DEF IInv, TypeOK
<1>2. InHand \in 0..1 BY DEF InHand
<1>3. Len(rx[Listener]) \in Nat BY DEF IInv, TypeOK, Socks, Listener
<1> QED BY <1>1, <1>2, <1>3 DEF IInv, Making

\* A message stays good: the peer and the first datagram of a connection do not
\* change once it has them.
LEMMA GoodKept ==
  ASSUME TypeOK, NEW m \in Messages, Good(m),
         \A c \in Conns : Named(c) => peerOf'[c] = peerOf[c] /\ origin'[c] = origin[c]
  PROVE  Good(m)'
  BY DEF Good, Named, IsOrigin, Messages

\* Thus a step that emits nothing leaves all messages good.
LEMMA OutputKept ==
  ASSUME TypeOK, Output, UNCHANGED <<reading, emitCh, dispatched>>,
         \A c \in Conns : Named(c) => peerOf'[c] = peerOf[c] /\ origin'[c] = origin[c]
  PROVE  Output'
<1>1. \A m \in Messages : Good(m) => Good(m)' BY GoodKept
<1>2. /\ \A q \in Pollers : reading[q] = None \/ reading[q] \in Messages
      /\ \A i \in DOMAIN emitCh : emitCh[i] \in Messages
      /\ \A i \in DOMAIN dispatched : dispatched[i] \in Messages
  BY DEF TypeOK
<1> QED BY <1>1, <1>2 DEF Output

\* A peer's datagram goes to a socket that is connected to it, or to an
\* unconnected one: stray, if that is the one in the window.
LEMMA SendsKeeps ==
  ASSUME IInv, NEW p \in Peers, PeerSends(p)
  PROVE  IInv'
<1>1. PICK s \in Targets(p), kind \in Kinds :
        rx' = [rx EXCEPT ![s] = Append(@, [from |-> p, seq |-> sent', kind |-> kind,
                                           stray |-> Window(s)])]
  BY DEF PeerSends
<1>2. /\ sent < MaxDatagram /\ sent' = sent + 1
      /\ UNCHANGED <<phase, watched, peerOf, origin, made, failures, acceptor, first,
                     registry, reading, emitCh, dispatched, lost, panicked>>
  BY DEF PeerSends, making, output
<1> DEFINE d == [from |-> p, seq |-> sent', kind |-> kind, stray |-> Window(s)]
<1>3. s \in Socks BY DEF Targets, Connected, Wildcards, Socks
<1>4. sent \in Nat /\ sent' \in 1..MaxDatagram BY <1>2, Constants DEF IInv, TypeOK
<1>5. Window(s) \in BOOLEAN BY DEF Window
<1>6. d \in Datagrams BY <1>4, <1>5 DEF Datagrams
<1>7. rx' \in [Socks -> Seq(Datagrams)] BY <1>1, <1>3, <1>6 DEF IInv, TypeOK
<1> HIDE DEF d
<1>8. TypeOK' BY <1>2, <1>4, <1>7 DEF IInv, TypeOK
<1>9. Making'
  <2>1. Len(rx'[Listener]) \in Nat /\ Len(rx[Listener]) \in Nat
    BY <1>7 DEF IInv, TypeOK, Socks, Listener
  <2>2. Len(rx'[Listener]) <= Len(rx[Listener]) + 1
    BY <1>1, <1>3, <2>1 DEF IInv, TypeOK, Socks, Listener
  <2>3. sent' = sent + 1 BY <1>2
  <2>4. made + Len(rx'[Listener]) + InHand <= sent' BY <2>1, <2>2, <2>3, Counted
  <2> QED BY <2>4, <1>2 DEF IInv, Making, Complete, InHand
<1>10. ASSUME NEW c \in Conns PROVE Connection(c)'
  <2>1. CASE c # s
    BY <2>1, <1>1, <1>2, <1>3
       DEF IInv, TypeOK, Connections, Connection, Named, Window, Socks, Complete
  <2>2. CASE c = s
    <3>1. phase[c] \in {"connected", "bound"}
      BY <2>2, <1>10 DEF Targets, Connected, Wildcards, Conns, Listener
    <3>2. phase[c] = "connected" => peerOf[c] = p
      BY <2>2, <1>10 DEF Targets, Connected, Wildcards, Conns, Listener
    <3>3. phase[c] = "bound" => ~Named(c) BY DEF IInv, Connections, Connection
    <3>4. rx'[c] = Append(rx[c], d) /\ rx[c] \in Seq(Datagrams)
      BY <2>2, <1>1, <1>3 DEF IInv, TypeOK, d
    <3>5. d.from = p /\ d.stray = Window(c) BY <2>2 DEF d
    <3>6. Named(c) \/ Window(c) => d.stray \/ d.from = peerOf[c]
      BY <3>1, <3>2, <3>3, <3>5
    <3>7. Named(c) \/ Window(c) =>
            \A i \in DOMAIN rx'[c] : rx'[c][i].stray \/ rx'[c][i].from = peerOf[c]
      BY <3>4, <3>6 DEF IInv, Connections, Connection
    <3> QED
      BY <3>1, <3>7, <1>2 DEF IInv, Connections, Connection, Named, Window, Complete
  <2> QED BY <2>1, <2>2
<1>11. Connections' BY <1>2, <1>10 DEF IInv, Connections, Named
<1>12. Output' BY <1>2, OutputKept DEF IInv
<1> QED BY <1>8, <1>9, <1>11, <1>12 DEF IInv

\* recvfrom: the datagram leaves the listening socket for the acceptor's hand.
LEMMA ReceiveKeeps == IInv /\ Receive => IInv'
<1> SUFFICES ASSUME IInv, Receive PROVE IInv' OBVIOUS
<1>1. /\ acceptor = "wait" /\ rx[Listener] # <<>>
      /\ UNCHANGED <<sent, phase, watched, peerOf, origin, made, failures, registry, reading,
                     emitCh, dispatched, lost, panicked>>
  BY DEF Receive, output
<1>2. Listener \in Socks /\ rx[Listener] \in Seq(Datagrams) BY DEF IInv, TypeOK, Socks, Listener
<1>3. rx' = [rx EXCEPT ![Listener] = Tail(@)] BY DEF Receive
<1>4. Head(rx[Listener]) \in Datagrams /\ Tail(rx[Listener]) \in Seq(Datagrams)
  BY <1>1, <1>2
<1>5. \/ acceptor' = "bind" /\ first' \in Datagrams /\ Complete(first')
      \/ UNCHANGED <<acceptor, first>>
  BY <1>4 DEF Receive
<1>6. TypeOK' BY <1>1, <1>2, <1>3, <1>4, <1>5 DEF IInv, TypeOK
<1>7. Making'
  <2>1. Len(rx'[Listener]) = Len(rx[Listener]) - 1 BY <1>1, <1>2, <1>3 DEF IInv, TypeOK
  <2>2. InHand' \in 0..1 BY DEF InHand
  <2>3. made + Len(rx'[Listener]) + InHand' <= sent BY <2>1, <2>2, Counted
  <2> QED BY <2>3, <1>1, <1>5 DEF IInv, Making, Complete
<1>8. Connections'
  <2>1. \A c \in Conns : rx'[c] = rx[c] BY <1>2, <1>3 DEF IInv, TypeOK, Conns, Socks, Listener
  <2>2. \A c \in Conns : Window(c)' => Window(c) BY <1>1, <1>5 DEF Window
  <2> QED BY <2>1, <2>2, <1>1 DEF IInv, Connections, Connection, Named, Complete
<1>9. Output' BY <1>1, OutputKept DEF IInv
<1> QED BY <1>6, <1>7, <1>8, <1>9 DEF IInv

\* A new socket: there is one left, because each of them stands for a datagram.
LEMMA BindKeeps == IInv /\ Bind => IInv'
<1> SUFFICES ASSUME IInv, Bind PROVE IInv' OBVIOUS
<1>1. /\ acceptor = "bind" /\ acceptor' = "connect" /\ made' = made + 1
      /\ phase' = [phase EXCEPT ![made + 1] = "bound"]
      /\ UNCHANGED <<sent, rx, watched, peerOf, origin, failures, first, registry, reading,
                     emitCh, dispatched, lost, panicked>>
  BY DEF Bind, Goto, output
<1>2. made + 1 \in Conns /\ made \in Nat
  <2>1. InHand = 1 BY <1>1 DEF InHand
  <2>2. sent <= MaxDatagram BY DEF IInv, TypeOK
  <2> QED BY <2>1, <2>2, Counted, Constants DEF Conns
<1>3. phase[made + 1] = "none" /\ rx[made + 1] = <<>> /\ ~Named(made + 1)
  BY <1>2 DEF IInv, Connections, Connection
<1>4. TypeOK' BY <1>1, <1>2 DEF IInv, TypeOK, Conns
<1>5. Making'
  <2>1. InHand = 1 BY <1>1 DEF InHand
  <2>2. made' = made + 1 /\ rx' = rx /\ sent' = sent /\ InHand' = 0 BY <1>1 DEF InHand
  <2>3. (made + 1) + Len(rx[Listener]) + 0 <= sent BY <2>1, Counted
  <2>4. made' + Len(rx'[Listener]) + InHand' <= sent' BY <2>2, <2>3
  <2>5. phase'[made'] = "bound" BY <1>1, <1>2 DEF IInv, TypeOK
  <2> QED BY <2>4, <2>5, <1>1, <1>2 DEF IInv, Making, Complete
<1>6. ASSUME NEW c \in Conns PROVE Connection(c)'
  <2>1. CASE c = made + 1 BY <2>1, <1>1, <1>3 DEF IInv, TypeOK, Connection, Named
  <2>2. CASE c # made + 1
    <3>1. phase'[c] = phase[c] /\ ~Window(c)' BY <2>2, <1>1 DEF IInv, TypeOK, Window
    <3>2. c > made + 1 => c > made BY <1>2 DEF Conns
    <3> QED BY <3>1, <3>2, <1>1 DEF IInv, Connections, Connection, Named, Complete
  <2> QED BY <2>1, <2>2
<1>7. Connections' BY <1>1, <1>6 DEF IInv, Connections, Named
<1>8. Output' BY <1>1, OutputKept DEF IInv
<1> QED BY <1>4, <1>5, <1>7, <1>8 DEF IInv

\* The socket gets its peer.  Whatever it has received before is stray.
LEMMA ConnectKeeps == IInv /\ Connect => IInv'
<1> SUFFICES ASSUME IInv, Connect PROVE IInv' OBVIOUS
<1>1. /\ acceptor = "connect" /\ acceptor' = "addread"
      /\ phase' = [phase EXCEPT ![made] = "connected"]
      /\ peerOf' = [peerOf EXCEPT ![made] = first.from]
      /\ origin' = [origin EXCEPT ![made] = first]
      /\ UNCHANGED <<sent, rx, watched, made, failures, first, registry, reading, emitCh,
                     dispatched, lost, panicked>>
  BY DEF Connect, Goto, output
<1>2. made \in Conns /\ first \in Datagrams /\ Complete(first) /\ phase[made] = "bound"
  BY <1>1 DEF IInv, Making
<1>3. first.from \in Peers BY <1>2 DEF Datagrams
<1>4. ~Named(made) /\ Window(made) BY <1>1, <1>2 DEF IInv, Connections, Connection, Window
<1>5. TypeOK' BY <1>1, <1>2, <1>3 DEF IInv, TypeOK
<1>6. Making'
  <2>1. peerOf'[made] = first.from /\ origin'[made] = first BY <1>1, <1>2 DEF IInv, TypeOK
  <2> QED BY <2>1, <1>1, <1>2 DEF IInv, Making, Complete, InHand
<1>7. ASSUME NEW c \in Conns PROVE Connection(c)'
  <2>1. CASE c = made
    <3>1. \A i \in DOMAIN rx[c] : rx[c][i].stray
      <4> SUFFICES ASSUME NEW i \in DOMAIN rx[c], ~rx[c][i].stray PROVE FALSE OBVIOUS
      <4>1. rx[c][i].from = None BY <2>1, <1>4 DEF IInv, Connections, Connection, Named
      <4>2. rx[c] \in Seq(Datagrams) BY DEF IInv, TypeOK, Socks
      <4>3. rx[c][i] \in Datagrams BY <4>2
      <4> QED BY <4>1, <4>3, Constants DEF Datagrams
    <3>2. c <= made BY <2>1, <1>2 DEF Conns
    <3> QED BY <2>1, <3>1, <3>2, <1>1, <1>2 DEF IInv, TypeOK, Connection, Named, Complete
  <2>2. CASE c # made
    BY <2>2, <1>1, <1>2 DEF IInv, TypeOK, Connections, Connection, Named, Window, Complete
  <2> QED BY <2>1, <2>2
<1>8. \A c \in Conns : Named(c) => peerOf'[c] = peerOf[c] /\ origin'[c] = origin[c] /\ Named(c)'
  BY <1>1, <1>4 DEF IInv, TypeOK, Named
<1>9. Connections' BY <1>1, <1>7, <1>8 DEF IInv, TypeOK, Connections
<1>10. Output' BY <1>1, <1>8, OutputKept DEF IInv
<1> QED BY <1>5, <1>6, <1>9, <1>10 DEF IInv

\* Steps that leave the sockets and the peers as they are.
LEMMA SocketsKept ==
  ASSUME IInv, UNCHANGED <<sent, phase, rx, peerOf, origin, made>>,
         acceptor # "connect" => acceptor' # "connect",
         watched' \subseteq watched \cup {made}, registry' \subseteq registry \cup {made},
         watched' \cup registry' # watched \cup registry => acceptor \in {"addread", "add"}
  PROVE  Connections'
<1>1. \A c \in Conns : Window(c)' => Window(c) BY DEF Window
<1>2. acceptor \in {"addread", "add"} => Named(made)
  BY Constants DEF IInv, Making, Named, Datagrams
<1>3. \A c \in Conns : Connection(c)'
  BY <1>1 DEF IInv, Connections, Connection, Named, Complete
<1>4. \A c \in watched' \cup registry' : Named(c)' BY <1>2 DEF IInv, Connections, Named
<1> QED BY <1>3, <1>4 DEF Connections

\* The acceptor's other steps but the last.
LEMMA AcceptorKeeps ==
  ASSUME IInv, Fails \/ AddRead \/ AddReadFails \/ Add
  PROVE  IInv'
<1>1. CASE Fails
  <2>1. TypeOK'
    <3>1. acceptor' = "wait" /\ failures' \in 0..MaxFail /\ lost' \subseteq Datagrams
      BY <1>1, Constants DEF IInv, TypeOK, Making, Fails
    <3>2. UNCHANGED <<sent, phase, rx, watched, peerOf, origin, made, first, registry, reading,
                      emitCh, dispatched, panicked>>
      BY <1>1 DEF Fails, kernel, output
    <3> QED BY <3>1, <3>2 DEF IInv, TypeOK
  <2>2. Making'
    <3>1. InHand' = 0 /\ UNCHANGED <<made, rx, sent>> /\ acceptor' = "wait"
      BY <1>1 DEF Fails, InHand, kernel
    <3>2. made + Len(rx[Listener]) + 0 <= sent BY Counted
    <3>3. made' + Len(rx'[Listener]) + InHand' <= sent' BY <3>1, <3>2
    <3> QED BY <3>1, <3>3 DEF Making
  <2>3. Connections' BY <1>1, SocketsKept DEF Fails, kernel, output
  <2>4. Output' BY <1>1, OutputKept DEF IInv, Fails, output
  <2> QED BY <2>1, <2>2, <2>3, <2>4 DEF IInv
<1>2. CASE AddRead
  <2>1. TypeOK' BY <1>2 DEF IInv, TypeOK, Making, AddRead, Goto, output
  <2>2. Making' BY <1>2 DEF IInv, Making, AddRead, Goto, InHand, Complete
  <2>3. Connections' BY <1>2, SocketsKept DEF AddRead, Goto, output
  <2>4. Output' BY <1>2, OutputKept DEF IInv, AddRead, output
  <2> QED BY <2>1, <2>2, <2>3, <2>4 DEF IInv
<1>3. CASE AddReadFails
  <2>1. TypeOK'
    <3>1. failures' \in 0..MaxFail /\ panicked' \in BOOLEAN
      BY <1>3, Constants DEF IInv, TypeOK, AddReadFails
    <3>2. UNCHANGED <<sent, phase, rx, watched, peerOf, origin, made, acceptor, first, registry,
                      reading, emitCh, dispatched, lost>>
      BY <1>3 DEF AddReadFails, kernel, output
    <3> QED BY <3>1, <3>2 DEF IInv, TypeOK
  <2>2. Making' BY <1>3 DEF IInv, Making, AddReadFails, InHand, Complete, kernel
  <2>3. Connections' BY <1>3, SocketsKept DEF AddReadFails, kernel, output
  <2>4. Output' BY <1>3, OutputKept DEF IInv, AddReadFails, output
  <2> QED BY <2>1, <2>2, <2>3, <2>4 DEF IInv
<1>4. CASE Add
  <2>1. TypeOK' BY <1>4 DEF IInv, TypeOK, Making, Add, Goto, kernel
  <2>2. Making' BY <1>4 DEF IInv, Making, Add, Goto, InHand, Complete, kernel
  <2>3. Connections' BY <1>4, SocketsKept DEF Add, Goto, kernel
  <2>4. Output' BY <1>4, OutputKept DEF IInv, Add
  <2> QED BY <2>1, <2>2, <2>3, <2>4 DEF IInv
<1> QED BY <1>1, <1>2, <1>3, <1>4

\* A good message goes into the channel.
LEMMA EmitKeeps ==
  ASSUME IInv, NEW m \in Messages, Good(m), Emit(m), UNCHANGED <<peerOf, origin>>
  PROVE  /\ emitCh' \in Seq(Messages) /\ Len(emitCh') <= EmitCap
         /\ (\A i \in DOMAIN emitCh : Good(emitCh[i]))'
<1>1. emitCh' = Append(emitCh, m) /\ Len(emitCh) < EmitCap BY DEF Emit
<1>2. emitCh \in Seq(Messages) /\ Len(emitCh) \in Nat BY DEF IInv, TypeOK
<1>3. \A n \in Messages : Good(n) => Good(n)' BY GoodKept DEF IInv
<1>4. emitCh' \in Seq(Messages) /\ Len(emitCh') = Len(emitCh) + 1 BY <1>1, <1>2
<1>5. Len(emitCh') <= EmitCap BY <1>1, <1>2, <1>4, Constants
<1>6. \A i \in DOMAIN emitCh' : Good(emitCh'[i]) BY <1>1, <1>2 DEF IInv, Output
<1>7. \A i \in DOMAIN emitCh' : emitCh'[i] \in Messages BY <1>4
<1> QED BY <1>3, <1>4, <1>5, <1>6, <1>7

\* The first datagram of a connection, with its whole or empty body.
LEMMA EmitFirstKeeps == IInv /\ EmitFirst => IInv'
<1> SUFFICES ASSUME IInv, EmitFirst PROVE IInv' OBVIOUS
<1>1. /\ acceptor = "emit" /\ acceptor' = "wait"
      /\ UNCHANGED <<sent, phase, rx, watched, peerOf, origin, made, failures, first, registry,
                     reading, dispatched, lost, panicked>>
  BY DEF EmitFirst, Goto, kernel
<1> DEFINE m == [conn |-> made, data |-> first]
<1>2. made \in Conns /\ first \in Datagrams /\ Complete(first)
  BY <1>1 DEF IInv, Making
<1>3. peerOf[made] = first.from /\ origin[made] = first BY <1>1 DEF IInv, Making
<1>4. m \in Messages BY <1>2 DEF Messages
<1>5. Good(m) BY <1>2, <1>3, Constants DEF Good, Named, IsOrigin, Complete, Datagrams
<1>6. Emit(m) BY DEF EmitFirst
<1> HIDE DEF m
<1>7. /\ emitCh' \in Seq(Messages) /\ Len(emitCh') <= EmitCap
      /\ (\A i \in DOMAIN emitCh : Good(emitCh[i]))'
  BY <1>1, <1>4, <1>5, <1>6, EmitKeeps
<1>8. TypeOK' BY <1>1, <1>7 DEF IInv, TypeOK
<1>9. Making'
  <2>1. InHand' = 0 BY <1>1 DEF InHand
  <2>2. made + Len(rx[Listener]) + 0 <= sent BY Counted
  <2>3. made' + Len(rx'[Listener]) + InHand' <= sent' BY <1>1, <2>1, <2>2
  <2> QED BY <2>3, <1>1 DEF Making
<1>10. Connections' BY <1>1, SocketsKept
<1>11. Output'
  <2>1. \A n \in Messages : Good(n) => Good(n)' BY <1>1, GoodKept DEF IInv
  <2>2. /\ \A q \in Pollers : reading[q] = None \/ reading[q] \in Messages
        /\ \A i \in DOMAIN dispatched : dispatched[i] \in Messages
    BY DEF IInv, TypeOK
  <2> QED BY <2>1, <2>2, <1>1, <1>7 DEF IInv, Output
<1> QED BY <1>8, <1>9, <1>10, <1>11 DEF IInv

\* A connection's socket is closed, which may end its registration.
LEMMA CloseKeeps ==
  ASSUME IInv, NEW c \in Conns, Named(c), KernelClose(c),
         registry' \in SUBSET registry,
         UNCHANGED <<sent, rx, making, reading, emitCh, dispatched, panicked>>
  PROVE  IInv'
<1>1. /\ phase' = [phase EXCEPT ![c] = "closed"]
      /\ watched' = watched \ {c} /\ lost' = lost \cup ToSet(rx[c])
      /\ UNCHANGED <<peerOf, origin, made, failures, acceptor, first>>
  BY DEF KernelClose, making
<1>2. ToSet(rx[c]) \subseteq Datagrams
  <2>1. rx[c] \in Seq(Datagrams) BY DEF IInv, TypeOK, Socks
  <2> QED BY <2>1 DEF ToSet
<1>3. TypeOK' BY <1>1, <1>2 DEF IInv, TypeOK
<1>4. acceptor = "connect" => c # made
  BY DEF IInv, Making, Connections, Connection, Named
<1>5. Making' BY <1>1, <1>4 DEF IInv, TypeOK, Making, InHand, Complete
<1>6. \A b \in Conns : Connection(b)'
  <2> SUFFICES ASSUME NEW b \in Conns PROVE Connection(b)' OBVIOUS
  <2>1. b # c => phase'[b] = phase[b] BY <1>1 DEF IInv, TypeOK
  <2>2. b = c => phase'[b] = "closed" /\ phase[b] # "none" BY <1>1 DEF IInv, TypeOK, Connections, Connection
  <2> QED BY <1>1, <2>1, <2>2 DEF IInv, Connections, Connection, Named, Window, Complete
<1>7. Connections' BY <1>1, <1>6 DEF IInv, Connections, Named
<1>8. Output' BY <1>1, OutputKept DEF IInv
<1> QED BY <1>3, <1>5, <1>7, <1>8 DEF IInv

\* The next datagram of a connection is read, or ends the connection.
LEMMA ReadKeeps ==
  ASSUME IInv, NEW q \in Pollers, Read(q)
  PROVE  IInv'
<1>1. PICK c \in registry :
        /\ Readable(q, c)
        /\ LET d == Head(rx[c]) IN
           IF Valid(d)
           THEN /\ reading' = [reading EXCEPT ![q] =
                                 IF d.kind = "empty" THEN None ELSE [conn |-> c, data |-> d]]
                /\ rx' = [rx EXCEPT ![c] = Tail(@)]
                /\ UNCHANGED <<phase, watched, registry, lost>>
           ELSE /\ registry' = registry \ {c}
                /\ KernelClose(c)
                /\ UNCHANGED <<rx, reading>>
  BY DEF Read
<1>2. UNCHANGED <<sent, making, emitCh, dispatched, panicked>> BY DEF Read
<1>3. c \in Conns /\ Named(c) BY DEF IInv, TypeOK, Connections
<1> DEFINE d == Head(rx[c])
<1>4. rx[c] \in Seq(Datagrams) /\ rx[c] # <<>> BY <1>1, <1>3 DEF IInv, TypeOK, Socks, Readable
<1>5. d \in Datagrams /\ Tail(rx[c]) \in Seq(Datagrams) BY <1>4
<1>6. CASE ~Valid(d)
  <2>1. KernelClose(c) /\ registry' \in SUBSET registry /\ UNCHANGED <<rx, reading>> BY <1>1, <1>6
  <2> QED BY <2>1, <1>2, <1>3, CloseKeeps
<1>7. CASE Valid(d)
  <2> DEFINE m == [conn |-> c, data |-> d]
  <2>1. /\ reading' = [reading EXCEPT ![q] = IF d.kind = "empty" THEN None ELSE m]
        /\ rx' = [rx EXCEPT ![c] = Tail(@)]
        /\ UNCHANGED <<phase, watched, registry, lost>>
    BY <1>1, <1>7
  <2>2. UNCHANGED <<sent, peerOf, origin, made, failures, acceptor, first, emitCh, dispatched,
                    panicked>>
    BY <1>2 DEF making
  <2>3. m \in Messages BY <1>3, <1>5 DEF Messages
  <2>4. d.kind # "empty" => Good(m)
    <3>1. 1 \in DOMAIN rx[c] /\ d = rx[c][1] BY <1>4
    <3>2. d.from # peerOf[c] => d.stray
      BY <3>1, <1>3 DEF IInv, Connections, Connection
    <3>3. IsOrigin(m) => d.kind \in {"whole", "empty"}
      BY <1>3 DEF IInv, Connections, Connection, IsOrigin, Complete
    <3>4. d.kind \in {"whole", "empty", "longer"}
      BY <1>5, <1>7, Constants DEF Datagrams, Valid
    <3> HIDE DEF d
    <3> QED BY <1>3, <3>2, <3>3, <3>4 DEF Good
  <2> HIDE DEF m, d
  <2>5. reading' \in [Pollers -> Messages \cup {None}] BY <2>1, <2>3 DEF IInv, TypeOK
  <2>6. rx' \in [Socks -> Seq(Datagrams)] BY <2>1, <1>3, <1>5 DEF IInv, TypeOK, Socks
  <2>7. TypeOK' BY <2>1, <2>2, <2>5, <2>6 DEF IInv, TypeOK
  <2>8. Making'
    <3>1. rx'[Listener] = rx[Listener] BY <2>1, <1>3 DEF IInv, TypeOK, Conns, Socks, Listener
    <3> QED BY <3>1, <2>1, <2>2 DEF IInv, Making, InHand, Complete
  <2>9. ASSUME NEW b \in Conns PROVE Connection(b)'
    <3>1. CASE b # c
      <4>1. rx'[b] = rx[b] BY <3>1, <2>1, <1>3 DEF IInv, TypeOK, Socks
      <4> QED BY <4>1, <2>1, <2>2 DEF IInv, Connections, Connection, Named, Window, Complete
    <3>2. CASE b = c
      <4>1. rx'[c] = Tail(rx[c]) BY <2>1, <1>3 DEF IInv, TypeOK, Socks
      <4>2. phase[c] # "none" BY <1>3 DEF IInv, Connections, Connection
      <4>3. \A i \in DOMAIN Tail(rx[c]) : i + 1 \in DOMAIN rx[c] /\ Tail(rx[c])[i] = rx[c][i + 1]
        BY <1>4
      <4>4. \A i \in DOMAIN rx'[c] : rx'[c][i].stray \/ rx'[c][i].from = peerOf[c]
        BY <4>1, <4>3, <1>3 DEF IInv, Connections, Connection
      <4> QED BY <3>2, <4>2, <4>4, <2>1, <2>2 DEF IInv, Connections, Connection, Named, Complete
    <3> QED BY <3>1, <3>2
  <2>10. Connections' BY <2>1, <2>2, <2>9 DEF IInv, Connections, Named
  <2>11. Output'
    <3>1. \A n \in Messages : Good(n) => Good(n)' BY <2>2, GoodKept DEF IInv
    <3>2. /\ \A i \in DOMAIN emitCh : emitCh[i] \in Messages
          /\ \A i \in DOMAIN dispatched : dispatched[i] \in Messages
      BY DEF IInv, TypeOK
    <3>3. \A r \in Pollers : reading'[r] = None \/ (reading'[r] \in Messages /\ Good(reading'[r]))
      BY <2>1, <2>3, <2>4 DEF IInv, TypeOK, Output
    <3> QED BY <3>1, <3>2, <3>3, <2>2 DEF IInv, Output
  <2> QED BY <2>7, <2>8, <2>10, <2>11 DEF IInv
<1> QED BY <1>6, <1>7

\* A poller's other steps, and those of the dispatch loop and of others that close.
LEMMA OthersKeep ==
  ASSUME IInv, Dispatch \/ CloseByOther \/ \E q \in Pollers : Orphan(q) \/ EmitRead(q)
  PROVE  IInv'
<1>1. CASE Dispatch
  <2>1. /\ emitCh # <<>> /\ dispatched' = Append(dispatched, Head(emitCh))
        /\ emitCh' = Tail(emitCh)
        /\ UNCHANGED <<sent, phase, rx, watched, peerOf, origin, made, failures, acceptor, first,
                       registry, reading, lost, panicked>>
    BY <1>1 DEF Dispatch, kernel, making
  <2>2. emitCh \in Seq(Messages) /\ dispatched \in Seq(Messages) BY DEF IInv, TypeOK
  <2>3. /\ emitCh' \in Seq(Messages) /\ Len(emitCh') <= Len(emitCh)
        /\ dispatched' \in Seq(Messages)
    BY <2>1, <2>2
  <2>4. TypeOK'
    <3>1. Len(emitCh') <= EmitCap
      <4>1. Len(emitCh) \in Nat /\ Len(emitCh') \in Nat /\ Len(emitCh) <= EmitCap
        BY <2>2, <2>3 DEF IInv, TypeOK
      <4> QED BY <4>1, <2>3, Constants
    <3> QED BY <3>1, <2>1, <2>3 DEF IInv, TypeOK
  <2>5. Making' BY <2>1 DEF IInv, Making, InHand, Complete
  <2>6. Connections' BY <2>1, SocketsKept
  <2>7. Output'
    <3>1. \A n \in Messages : Good(n) => Good(n)' BY <2>1, GoodKept DEF IInv
    <3>2. /\ \A i \in DOMAIN emitCh' : emitCh'[i] \in Messages /\ Good(emitCh'[i])
          /\ \A i \in DOMAIN dispatched' : dispatched'[i] \in Messages /\ Good(dispatched'[i])
      <4>1. \A i \in DOMAIN emitCh' : i + 1 \in DOMAIN emitCh /\ emitCh'[i] = emitCh[i + 1]
        BY <2>1, <2>2
      <4>2. 1 \in DOMAIN emitCh /\ Head(emitCh) = emitCh[1] BY <2>1, <2>2
      <4>3. \A i \in DOMAIN dispatched' :
              \/ i \in DOMAIN dispatched /\ dispatched'[i] = dispatched[i]
              \/ dispatched'[i] = emitCh[1]
        BY <2>1, <2>2, <4>2
      <4> QED BY <2>3, <4>1, <4>2, <4>3 DEF IInv, Output
    <3>3. \A q \in Pollers : reading[q] = None \/ reading[q] \in Messages BY DEF IInv, TypeOK
    <3> QED BY <2>1, <3>1, <3>2, <3>3 DEF IInv, Output
  <2> QED BY <2>4, <2>5, <2>6, <2>7 DEF IInv
<1>2. CASE CloseByOther
  <2>1. PICK c \in registry : registry' = registry \ {c} /\ KernelClose(c) BY <1>2 DEF CloseByOther
  <2>2. c \in Conns /\ Named(c) BY DEF IInv, TypeOK, Connections
  <2>3. registry' \in SUBSET registry BY <2>1
  <2>4. UNCHANGED <<sent, rx, making, reading, emitCh, dispatched, panicked>>
    BY <1>2 DEF CloseByOther
  <2> QED BY <2>1, <2>2, <2>3, <2>4, CloseKeeps
<1>3. ASSUME NEW q \in Pollers, Orphan(q) PROVE IInv'
  <2>1. PICK c \in Conns \ registry : Readable(q, c) /\ KernelClose(c) BY <1>3 DEF Orphan
  <2>2. Named(c) BY <2>1 DEF IInv, Connections, Readable
  <2>3. UNCHANGED <<sent, rx, making, reading, emitCh, dispatched, panicked>>
        /\ registry' \in SUBSET registry
    BY <1>3 DEF Orphan, output
  <2> QED BY <2>1, <2>2, <2>3, CloseKeeps
<1>4. ASSUME NEW q \in Pollers, EmitRead(q) PROVE IInv'
  <2>1. /\ reading[q] # None /\ Emit(reading[q])
        /\ reading' = [reading EXCEPT ![q] = None]
        /\ UNCHANGED <<sent, phase, rx, watched, peerOf, origin, made, failures, acceptor, first,
                       registry, dispatched, lost, panicked>>
    BY <1>4 DEF EmitRead, kernel, making
  <2>2. reading[q] \in Messages /\ Good(reading[q]) BY <2>1 DEF IInv, TypeOK, Output
  <2>3. /\ emitCh' \in Seq(Messages) /\ Len(emitCh') <= EmitCap
        /\ (\A i \in DOMAIN emitCh : Good(emitCh[i]))'
    BY <2>1, <2>2, EmitKeeps
  <2>4. reading' \in [Pollers -> Messages \cup {None}] BY <2>1 DEF IInv, TypeOK
  <2>5. TypeOK' BY <2>1, <2>3, <2>4 DEF IInv, TypeOK
  <2>6. Making' BY <2>1 DEF IInv, Making, InHand, Complete
  <2>7. Connections' BY <2>1, SocketsKept
  <2>8. Output'
    <3>1. \A n \in Messages : Good(n) => Good(n)' BY <2>1, GoodKept DEF IInv
    <3>2. \A i \in DOMAIN dispatched : dispatched[i] \in Messages BY DEF IInv, TypeOK
    <3>3. \A r \in Pollers : reading'[r] = None \/ (reading'[r] \in Messages /\ Good(reading'[r]))
      BY <2>1 DEF IInv, TypeOK, Output
    <3> QED BY <2>1, <2>3, <3>1, <3>2, <3>3 DEF IInv, Output
  <2> QED BY <2>5, <2>6, <2>7, <2>8 DEF IInv
<1> QED BY <1>1, <1>2, <1>3, <1>4

\* Every step keeps the invariant.
LEMMA NextIInv == IInv /\ [Next]_vars => IInv'
<1> SUFFICES ASSUME IInv, [Next]_vars PROVE IInv' OBVIOUS
<1>1. CASE UNCHANGED vars
  <2>1. UNCHANGED <<sent, phase, rx, watched, peerOf, origin, made, failures, acceptor, first,
                    registry, reading, emitCh, dispatched, lost, panicked>>
    BY <1>1 DEF vars, kernel, making, output
  <2>2. TypeOK' BY <2>1 DEF IInv, TypeOK
  <2>3. Making' BY <2>1 DEF IInv, Making, InHand, Complete
  <2>4. Connections' BY <2>1, SocketsKept
  <2>5. Output' BY <2>1, OutputKept DEF IInv
  <2> QED BY <2>2, <2>3, <2>4, <2>5 DEF IInv
<1>2. ASSUME NEW p \in Peers, PeerSends(p) PROVE IInv' BY <1>2, SendsKeeps
<1>3. CASE Acceptor
  BY <1>3, ReceiveKeeps, BindKeeps, ConnectKeeps, AcceptorKeeps, EmitFirstKeeps DEF Acceptor
<1>4. ASSUME NEW q \in Pollers, Poller(q) PROVE IInv'
  BY <1>4, ReadKeeps, OthersKeep DEF Poller
<1>5. CASE Dispatch \/ CloseByOther BY <1>5, OthersKeep
<1> QED BY <1>1, <1>2, <1>3, <1>4, <1>5 DEF Next

\* The invariant holds always.
LEMMA AlwaysIInv == Spec => []IInv
<1>1. Init => IInv BY InitIInv
<1>2. IInv /\ [Next]_vars => IInv' BY NextIInv
<1> QED BY <1>1, <1>2, PTL DEF Spec

\* Every variable keeps its type; no more sockets are made than datagrams come.
THEOREM UdpTypeCorrect == Spec => []TypeOK
<1>1. IInv => TypeOK BY DEF IInv
<1> QED BY <1>1, AlwaysIInv, PTL

\* However the kernel spreads the datagrams over the sockets of the port, a
\* handler gets another peer's datagram only if it came to a new socket between
\* bind and connect (acceptor_udp_base.go:56-60).
THEOREM AlwaysAttributed == Spec => []Attributed
<1>1. IInv => Attributed
  <2> SUFFICES ASSUME IInv, NEW i \in DOMAIN dispatched,
                      dispatched[i].data.from # peerOf[dispatched[i].conn]
               PROVE  dispatched[i].data.stray /\ ~IsOrigin(dispatched[i])
    BY DEF Attributed
  <2>1. Good(dispatched[i]) BY DEF IInv, Output
  <2>2. dispatched \in Seq(Messages) BY DEF IInv, TypeOK
  <2>3. dispatched[i] \in Messages BY <2>2
  <2>4. dispatched[i].conn \in Conns BY <2>3 DEF Messages
  <2> QED BY <2>1, <2>4 DEF Good, IInv, Connections, Connection, IsOrigin
<1> QED BY <1>1, AlwaysIInv, PTL

\* Which datagrams pass: whole ones, empty ones if they are the first of their
\* connection, longer ones if they are not.
THEOREM AlwaysVerdicts == Spec => []Verdicts
<1>1. IInv => Verdicts BY DEF IInv, Output, Good, Verdicts
<1> QED BY <1>1, AlwaysIInv, PTL

-----------------------------------------------------------------------------
(* The order of dispatch.                                                  *)

\* What has gone into the channel, dispatched or not.
Line == dispatched \o emitCh

\* The places where a datagram may be, by its number.
InSockets(n) == {<<"socket", s>> : s \in {r \in Socks : \E i \in DOMAIN rx[r] : rx[r][i].seq = n}}
WithAcceptor(n) == {<<"acceptor", h>> : h \in {k \in {0} : acceptor # "wait" /\ first.seq = n}}
WithPollers(n) ==
  {<<"poller", q>> : q \in {r \in Pollers : reading[r] # None /\ reading[r].data.seq = n}}
InLine(n) == {<<"line", i>> : i \in {j \in DOMAIN Line : Line[j].data.seq = n}}
PlacesOf(n) == InSockets(n) \cup WithAcceptor(n) \cup WithPollers(n) \cup InLine(n)

\* A datagram is in one place at a time, and at most once in the line.
OnePlace == \A n \in 1..MaxDatagram : \A x, y \in PlacesOf(n) : x = y

\* Those of a socket are in the order in which they were sent.
Rising == \A s \in Socks : \A i, j \in DOMAIN rx[s] : i < j => rx[s][i].seq < rx[s][j].seq

\* All of them have been sent.
Numbered ==
  /\ \A n \in 1..MaxDatagram : PlacesOf(n) # {} => n <= sent
  /\ \A c \in Conns : Named(c) => origin[c].seq <= sent

\* n passes what the line has of connection c, but for the datagram c was made for.
PastLine(c, n) ==
  \A i \in DOMAIN Line : Line[i].conn = c => IsOrigin(Line[i]) \/ Line[i].data.seq < n

\* What a connection's socket holds was sent after all that left it, and after the
\* datagram it was made for.
Ahead(c) ==
  \A k \in DOMAIN rx[c] :
    /\ Window(c) => first.seq < rx[c][k].seq
    /\ Named(c) => origin[c].seq < rx[c][k].seq
    /\ \A q \in Pollers :
         reading[q] # None /\ reading[q].conn = c => reading[q].data.seq < rx[c][k].seq
    /\ PastLine(c, rx[c][k].seq)

\* A message is with the poller of its connection, and next after the line.
Carried(q) ==
  reading[q] # None =>
    LET m == reading[q] IN
    /\ q = PollerOf(m.conn)
    /\ origin[m.conn].seq < m.data.seq
    /\ PastLine(m.conn, m.data.seq)

\* The line itself.
Lined ==
  /\ \A i \in DOMAIN Line : IsOrigin(Line[i]) \/ origin[Line[i].conn].seq < Line[i].data.seq
  /\ \A i, j \in DOMAIN Line : i < j /\ Line[i].conn = Line[j].conn /\ ~IsOrigin(Line[j])
       => Line[i].data.seq < Line[j].data.seq

\* The invariant.
Flow ==
  /\ OnePlace /\ Rising /\ Numbered
  /\ \A c \in Conns : Ahead(c)
  /\ \A q \in Pollers : Carried(q)
  /\ Lined

\* The line is a sequence of messages.
LEMMA LineType == IInv => Line \in Seq(Messages)
  BY DEF IInv, TypeOK, Line

\* Dispatch moves a message within the line.
LEMMA LineKept ==
  ASSUME IInv, Dispatch
  PROVE  Line' = Line
<1>1. emitCh \in Seq(Messages) /\ dispatched \in Seq(Messages) /\ emitCh # <<>>
  BY DEF IInv, TypeOK, Dispatch
<1>2. dispatched' = Append(dispatched, Head(emitCh)) /\ emitCh' = Tail(emitCh) BY DEF Dispatch
<1>3. Len(dispatched') = Len(dispatched) + 1 /\ Len(emitCh') = Len(emitCh) - 1
      /\ dispatched' \in Seq(Messages) /\ emitCh' \in Seq(Messages)
  BY <1>1, <1>2
<1>4. Line \in Seq(Messages) /\ Line' \in Seq(Messages) /\ Len(Line') = Len(Line)
  BY <1>1, <1>3 DEF Line
<1>5. \A i \in 1..Len(Line) : Line'[i] = Line[i]
  BY <1>1, <1>2, <1>3 DEF Line
<1> QED BY <1>4, <1>5, SeqEqual

\* A message that is emitted goes to its end.
LEMMA LineGrows ==
  ASSUME IInv, NEW m \in Messages, Emit(m), dispatched' = dispatched
  PROVE  Line' = Append(Line, m)
<1>1. emitCh \in Seq(Messages) /\ dispatched \in Seq(Messages) /\ emitCh' = Append(emitCh, m)
  BY DEF IInv, TypeOK, Emit
<1>2. Line \in Seq(Messages) /\ Line' \in Seq(Messages) /\ Append(Line, m) \in Seq(Messages)
      /\ Len(Line') = Len(Append(Line, m))
  BY <1>1 DEF Line
<1>3. \A i \in 1..Len(Line') : Line'[i] = Append(Line, m)[i]
  BY <1>1 DEF Line
<1> QED BY <1>2, <1>3, SeqEqual

\* A datagram that moves is in the place where it goes, if it is nowhere else.
LEMMA PlaceMoved ==
  ASSUME OnePlace, NEW m, NEW to, PlacesOf(m)' \subseteq {to},
         \A n \in 1..MaxDatagram : n # m => PlacesOf(n)' \subseteq PlacesOf(n)
  PROVE  OnePlace'
  BY DEF OnePlace

\* The poller of a connection that exists stays the same.
LEMMA PollerKept ==
  ASSUME IInv, NEW c \in Conns, Named(c), UNCHANGED peerOf \/ Connect
  PROVE  PollerOf(c)' = PollerOf(c)
<1>1. CASE UNCHANGED peerOf BY <1>1 DEF PollerOf
<1>2. CASE Connect
  <2>1. made \in Conns /\ ~Named(made) /\ peerOf' = [peerOf EXCEPT ![made] = first.from]
    BY <1>2 DEF IInv, Making, Connections, Connection, Connect, Goto
  <2>2. c <= made BY Counted DEF IInv, Connections, Connection, Named, Conns
  <2>3. c < made BY <2>1, <2>2 DEF Conns
  <2>4. \A d \in 1..c : peerOf'[d] = peerOf[d] BY <2>1, <2>3 DEF IInv, TypeOK, Conns
  <2>5. {d \in 1..c : peerOf'[d] # None} = {d \in 1..c : peerOf[d] # None} BY <2>4
  <2> QED BY <2>5 DEF PollerOf
<1> QED BY <1>1, <1>2

\* Steps that move no datagram, or drop the acceptor's.
LEMMA FlowKept ==
  ASSUME IInv, Flow, UNCHANGED <<rx, reading, emitCh, dispatched, peerOf, origin, sent, first>>,
         acceptor' # "wait" => acceptor # "wait",
         \A c \in Conns : Window(c)' => Window(c) \/ rx[c] = <<>>
  PROVE  Flow'
<1>1. UNCHANGED Line BY DEF Line
<1>2. \A n \in 1..MaxDatagram : PlacesOf(n)' \subseteq PlacesOf(n)
  BY <1>1 DEF PlacesOf, InSockets, WithAcceptor, WithPollers, InLine
<1>3. OnePlace' BY <1>2 DEF Flow, OnePlace
<1>4. Numbered' BY <1>2 DEF Flow, Numbered, Named
<1>5. Rising' BY DEF Flow, Rising
<1>6. \A c \in Conns : Ahead(c)'
  BY <1>1 DEF Flow, Ahead, PastLine, Named, IsOrigin
<1>7. \A q \in Pollers : Carried(q)'
  BY <1>1 DEF Flow, Carried, PastLine, IsOrigin, PollerOf
<1>8. Lined' BY <1>1 DEF Flow, Lined, IsOrigin
<1> QED BY <1>3, <1>4, <1>5, <1>6, <1>7, <1>8 DEF Flow

\* The next number is that of no datagram yet.
LEMMA SendsFlows ==
  ASSUME IInv, Flow, NEW p \in Peers, PeerSends(p)
  PROVE  Flow'
<1>1. PICK s \in Targets(p), kind \in Kinds :
        rx' = [rx EXCEPT ![s] = Append(@, [from |-> p, seq |-> sent', kind |-> kind,
                                           stray |-> Window(s)])]
  BY DEF PeerSends
<1>2. /\ sent < MaxDatagram /\ sent' = sent + 1
      /\ UNCHANGED <<phase, peerOf, origin, made, acceptor, first, reading, emitCh, dispatched>>
  BY DEF PeerSends, making, output
<1> DEFINE d == [from |-> p, seq |-> sent', kind |-> kind, stray |-> Window(s)]
<1>3. s \in Socks BY DEF Targets, Connected, Wildcards, Socks
<1>4. sent \in Nat /\ sent' \in 1..MaxDatagram BY <1>2, Constants DEF IInv, TypeOK
<1>5. PICK new \in 1..MaxDatagram : new = sent' BY <1>4
<1>6. d \in Datagrams /\ d.seq = new
  <2>1. Window(s) \in BOOLEAN BY DEF Window
  <2> QED BY <1>5, <1>4, <2>1 DEF Datagrams
<1>7. rx \in [Socks -> Seq(Datagrams)] /\ rx' = [rx EXCEPT ![s] = Append(@, d)]
  BY <1>1 DEF IInv, TypeOK
<1> HIDE DEF d
<1>8. \A r \in Socks : \A i \in DOMAIN rx'[r] :
        \/ i \in DOMAIN rx[r] /\ rx'[r][i] = rx[r][i]
        \/ r = s /\ i = Len(rx[s]) + 1 /\ rx'[r][i] = d
  BY <1>3, <1>6, <1>7
<1>9. UNCHANGED Line BY <1>2 DEF Line
<1>10. \A n \in 1..MaxDatagram : PlacesOf(n)' \subseteq
        PlacesOf(n) \cup {x \in {<<"socket", s>>} : n = new}
  <2> SUFFICES ASSUME NEW n \in 1..MaxDatagram
               PROVE  InSockets(n)' \subseteq InSockets(n) \cup {x \in {<<"socket", s>>} : n = new}
    BY <1>2, <1>9 DEF PlacesOf, WithAcceptor, WithPollers, InLine
  <2> QED BY <1>6, <1>8 DEF InSockets
<1>11. PlacesOf(new) = {} BY <1>5, <1>2, <1>4 DEF Flow, Numbered
<1>12. OnePlace'
  <2>1. PlacesOf(new)' \subseteq {<<"socket", s>>} BY <1>4, <1>10, <1>11
  <2>2. \A n \in 1..MaxDatagram : n # new => PlacesOf(n)' \subseteq PlacesOf(n) BY <1>10
  <2> QED BY <2>1, <2>2, PlaceMoved DEF Flow
<1>13. \A c \in Conns : Named(c) => origin[c].seq \in 1..MaxDatagram /\ origin[c].seq < new
  <2> SUFFICES ASSUME NEW c \in Conns, Named(c)
               PROVE  origin[c].seq \in 1..MaxDatagram /\ origin[c].seq < new
    OBVIOUS
  <2>1. origin[c].seq \in 1..MaxDatagram BY DEF IInv, Connections, Connection, Datagrams
  <2>2. origin[c].seq <= sent BY DEF Flow, Numbered
  <2> QED BY <1>5, <1>2, <1>4, <2>1, <2>2
<1>14. Numbered'
  <2>1. \A n \in 1..MaxDatagram : PlacesOf(n)' # {} => n <= sent'
    BY <1>5, <1>2, <1>4, <1>10 DEF Flow, Numbered
  <2>2. \A c \in Conns : Named(c)' => origin'[c].seq <= sent'
    BY <1>5, <1>2, <1>4, <1>13 DEF Named
  <2> QED BY <2>1, <2>2 DEF Numbered
\* Whatever has a place has a smaller number.
<1>15. \A r \in Socks : \A i \in DOMAIN rx[r] : rx[r][i].seq < new
  <2> SUFFICES ASSUME NEW r \in Socks, NEW i \in DOMAIN rx[r] PROVE rx[r][i].seq < new OBVIOUS
  <2>1. rx[r][i] \in Datagrams BY DEF IInv, TypeOK
  <2>2. rx[r][i].seq \in 1..MaxDatagram BY <2>1 DEF Datagrams
  <2>3. <<"socket", r>> \in PlacesOf(rx[r][i].seq) BY DEF PlacesOf, InSockets
  <2> QED BY <1>5, <1>2, <1>4, <2>2, <2>3 DEF Flow, Numbered
<1>16. \A i \in DOMAIN Line : Line[i].data.seq < new
  <2> SUFFICES ASSUME NEW i \in DOMAIN Line PROVE Line[i].data.seq < new OBVIOUS
  <2>1. Line[i] \in Messages BY LineType
  <2>2. Line[i].data.seq \in 1..MaxDatagram BY <2>1 DEF Messages, Datagrams
  <2>3. <<"line", i>> \in PlacesOf(Line[i].data.seq) BY DEF PlacesOf, InLine
  <2> QED BY <1>5, <1>2, <1>4, <2>2, <2>3 DEF Flow, Numbered
<1>17. \A q \in Pollers : reading[q] # None => reading[q].data.seq < new
  <2> SUFFICES ASSUME NEW q \in Pollers, reading[q] # None PROVE reading[q].data.seq < new
    OBVIOUS
  <2>1. reading[q] \in Messages BY DEF IInv, TypeOK
  <2>2. reading[q].data.seq \in 1..MaxDatagram BY <2>1 DEF Messages, Datagrams
  <2>3. <<"poller", q>> \in PlacesOf(reading[q].data.seq) BY DEF PlacesOf, WithPollers
  <2> QED BY <1>5, <1>2, <1>4, <2>2, <2>3 DEF Flow, Numbered
<1>18. \A c \in Conns : Window(c) => first.seq < new
  <2> SUFFICES ASSUME acceptor = "connect" PROVE first.seq < new BY DEF Window
  <2>1. first.seq \in 1..MaxDatagram BY DEF IInv, Making, Datagrams
  <2>2. <<"acceptor", 0>> \in PlacesOf(first.seq) BY DEF PlacesOf, WithAcceptor
  <2> QED BY <1>5, <1>2, <1>4, <2>1, <2>2 DEF Flow, Numbered
<1>19. Rising'
  <2> SUFFICES ASSUME NEW r \in Socks, NEW i \in DOMAIN rx'[r], NEW j \in DOMAIN rx'[r], i < j
               PROVE  rx'[r][i].seq < rx'[r][j].seq
    BY DEF Rising
  <2>1. CASE j \in DOMAIN rx[r] /\ rx'[r][j] = rx[r][j]
    <3>1. i \in DOMAIN rx[r] /\ rx'[r][i] = rx[r][i] BY <1>7, <1>8, <2>1
    <3> QED BY <2>1, <3>1 DEF Flow, Rising
  <2>2. CASE r = s /\ j = Len(rx[s]) + 1 /\ rx'[r][j] = d
    <3>1. i \in DOMAIN rx[r] /\ rx'[r][i] = rx[r][i] BY <1>3, <1>7, <1>8, <2>2
    <3> QED BY <1>6, <1>15, <2>2, <3>1
  <2> QED BY <1>8, <2>1, <2>2
<1>20. ASSUME NEW c \in Conns PROVE Ahead(c)'
  <2> SUFFICES ASSUME NEW k \in DOMAIN rx'[c]
               PROVE  /\ Window(c) => first.seq < rx'[c][k].seq
                      /\ Named(c) => origin[c].seq < rx'[c][k].seq
                      /\ \A q \in Pollers : reading[q] # None /\ reading[q].conn = c
                           => reading[q].data.seq < rx'[c][k].seq
                      /\ PastLine(c, rx'[c][k].seq)
    BY <1>2, <1>9 DEF Ahead, PastLine, Window, Named, IsOrigin
  <2>1. c \in Socks BY DEF Socks
  <2>2. CASE k \in DOMAIN rx[c] /\ rx'[c][k] = rx[c][k] BY <2>2 DEF Flow, Ahead
  <2>3. CASE rx'[c][k] = d
    BY <2>3, <1>6, <1>16, <1>17, <1>18, <1>13 DEF PastLine
  <2> QED BY <1>8, <2>1, <2>2, <2>3
<1>21. \A q \in Pollers : Carried(q)'
  BY <1>2, <1>9 DEF Flow, Carried, PastLine, IsOrigin, PollerOf
<1>22. Lined' BY <1>2, <1>9 DEF Flow, Lined, IsOrigin
<1> QED BY <1>12, <1>14, <1>19, <1>20, <1>21, <1>22 DEF Flow

\* Every message in the line is of a connection that exists.
LEMMA LineNamed == IInv => \A i \in DOMAIN Line : Line[i].conn \in Conns /\ Named(Line[i].conn)
<1> SUFFICES ASSUME IInv, NEW i \in DOMAIN Line
             PROVE  Line[i].conn \in Conns /\ Named(Line[i].conn)
  OBVIOUS
<1>1. emitCh \in Seq(Messages) /\ dispatched \in Seq(Messages) BY DEF IInv, TypeOK
<1>2. \/ i \in DOMAIN dispatched /\ Line[i] = dispatched[i]
      \/ i - Len(dispatched) \in DOMAIN emitCh /\ Line[i] = emitCh[i - Len(dispatched)]
  BY <1>1 DEF Line
<1>3. Named(Line[i].conn) BY <1>2 DEF IInv, Output, Good
<1>4. Line[i] \in Messages BY LineType
<1> QED BY <1>3, <1>4 DEF Messages

\* The first datagram leaves a socket.
LEMMA Taken ==
  ASSUME IInv, Rising, NEW s \in Socks, rx[s] # <<>>, rx' = [rx EXCEPT ![s] = Tail(@)]
  PROVE  /\ Head(rx[s]) \in Datagrams /\ 1 \in DOMAIN rx[s] /\ Head(rx[s]) = rx[s][1]
         /\ \A r \in Socks : r # s => rx'[r] = rx[r]
         /\ \A i \in DOMAIN rx'[s] : i + 1 \in DOMAIN rx[s] /\ rx'[s][i] = rx[s][i + 1]
         /\ \A i \in DOMAIN rx'[s] : Head(rx[s]).seq < rx'[s][i].seq
         /\ Rising'
         /\ \A n \in 1..MaxDatagram : InSockets(n)' \subseteq InSockets(n)
         /\ <<"socket", s>> \in InSockets(Head(rx[s]).seq)
         /\ \A n \in 1..MaxDatagram : n = Head(rx[s]).seq => <<"socket", s>> \notin InSockets(n)'
<1>1. rx[s] \in Seq(Datagrams) /\ rx'[s] = Tail(rx[s]) BY DEF IInv, TypeOK
<1>2. Head(rx[s]) \in Datagrams /\ 1 \in DOMAIN rx[s] /\ Head(rx[s]) = rx[s][1] BY <1>1
<1>3. \A r \in Socks : r # s => rx'[r] = rx[r] BY DEF IInv, TypeOK
<1>4. \A i \in DOMAIN rx'[s] : i + 1 \in DOMAIN rx[s] /\ rx'[s][i] = rx[s][i + 1]
  <2>1. \A i \in DOMAIN Tail(rx[s]) : i + 1 \in DOMAIN rx[s] /\ Tail(rx[s])[i] = rx[s][i + 1]
    BY <1>1
  <2> QED BY <1>1, <2>1
<1>5. \A i \in DOMAIN rx'[s] : i \in Nat \ {0}
  <2>1. rx'[s] \in Seq(Datagrams) BY <1>1
  <2> QED BY <2>1
<1>6. \A i \in DOMAIN rx'[s] : Head(rx[s]).seq < rx'[s][i].seq BY <1>2, <1>4, <1>5 DEF Rising
<1>7. Rising'
  <2> SUFFICES ASSUME NEW r \in Socks, NEW i \in DOMAIN rx'[r], NEW j \in DOMAIN rx'[r], i < j
               PROVE  rx'[r][i].seq < rx'[r][j].seq
    BY DEF Rising
  <2>1. CASE r # s BY <1>3, <2>1 DEF Rising
  <2>2. CASE r = s
    <3>1. i + 1 < j + 1 BY <1>5, <2>2
    <3> QED BY <1>4, <2>2, <3>1 DEF Rising
  <2> QED BY <2>1, <2>2
<1>8. \A n \in 1..MaxDatagram : InSockets(n)' \subseteq InSockets(n)
  <2>1. \A r \in Socks : \A i \in DOMAIN rx'[r] : \E j \in DOMAIN rx[r] : rx'[r][i] = rx[r][j]
    BY <1>3, <1>4
  <2> QED BY <2>1 DEF InSockets
<1>9. <<"socket", s>> \in InSockets(Head(rx[s]).seq) BY <1>2 DEF InSockets
<1>10. ASSUME NEW n \in 1..MaxDatagram, n = Head(rx[s]).seq
      PROVE  <<"socket", s>> \notin InSockets(n)'
  <2> SUFFICES ASSUME NEW i \in DOMAIN rx'[s], rx'[s][i].seq = n PROVE FALSE BY DEF InSockets
  <2> QED BY <1>6, <1>10
<1> QED BY <1>2, <1>3, <1>4, <1>6, <1>7, <1>8, <1>9, <1>10

\* The acceptor's first step.
LEMMA ReceiveFlows == IInv /\ Flow /\ Receive => Flow'
<1> SUFFICES ASSUME IInv, Flow, Receive PROVE Flow' OBVIOUS
<1>1. /\ acceptor = "wait" /\ rx[Listener] # <<>> /\ rx' = [rx EXCEPT ![Listener] = Tail(@)]
      /\ UNCHANGED <<sent, peerOf, origin, made, reading, emitCh, dispatched>>
  BY DEF Receive, output
<1>2. Listener \in Socks BY DEF Socks
<1>3. Rising BY DEF Flow
<1>4. /\ Head(rx[Listener]) \in Datagrams
      /\ \A r \in Socks : r # Listener => rx'[r] = rx[r]
      /\ Rising'
      /\ \A n \in 1..MaxDatagram : InSockets(n)' \subseteq InSockets(n)
      /\ <<"socket", Listener>> \in InSockets(Head(rx[Listener]).seq)
      /\ \A n \in 1..MaxDatagram :
           n = Head(rx[Listener]).seq => <<"socket", Listener>> \notin InSockets(n)'
  BY <1>1, <1>2, <1>3, Taken
<1>5. PICK n \in 1..MaxDatagram : n = Head(rx[Listener]).seq BY <1>4 DEF Datagrams
<1>6. UNCHANGED Line BY <1>1 DEF Line
<1>7. \A k \in 1..MaxDatagram : WithAcceptor(k)' \subseteq {x \in {<<"acceptor", 0>>} : k = n}
  BY <1>1, <1>5 DEF Receive, WithAcceptor
<1>8. \A k \in 1..MaxDatagram :
        PlacesOf(k)' \subseteq (PlacesOf(k) \ {x \in {<<"socket", Listener>>} : k = n})
                               \cup {x \in {<<"acceptor", 0>>} : k = n}
  <2>1. \A k \in 1..MaxDatagram : WithPollers(k)' = WithPollers(k) /\ InLine(k)' = InLine(k)
    BY <1>1, <1>6 DEF WithPollers, InLine
  <2>2. \A k \in 1..MaxDatagram : <<"socket", Listener>> \notin WithPollers(k) \cup InLine(k)
    BY DEF WithPollers, InLine
  <2> QED BY <1>4, <1>5, <1>7, <2>1, <2>2 DEF PlacesOf
<1>9. PlacesOf(n) = {<<"socket", Listener>>} BY <1>4, <1>5 DEF PlacesOf, Flow, OnePlace
<1>10. OnePlace'
  <2>1. PlacesOf(n)' \subseteq {<<"acceptor", 0>>} BY <1>8, <1>9
  <2>2. \A k \in 1..MaxDatagram : k # n => PlacesOf(k)' \subseteq PlacesOf(k) BY <1>8
  <2> QED BY <2>1, <2>2, PlaceMoved DEF Flow
<1>11. Numbered'
  <2>1. \A k \in 1..MaxDatagram : PlacesOf(k)' # {} => PlacesOf(k) # {} BY <1>8, <1>9
  <2> QED BY <1>1, <2>1 DEF Flow, Numbered, Named
<1>12. \A c \in Conns : rx'[c] = rx[c] /\ ~Window(c)'
  BY <1>1, <1>4 DEF Receive, Window, Conns, Socks, Listener
<1>13. \A c \in Conns : Ahead(c)'
  BY <1>1, <1>6, <1>12 DEF Flow, Ahead, PastLine, Named, IsOrigin
<1>14. \A q \in Pollers : Carried(q)'
  BY <1>1, <1>6 DEF Flow, Carried, PastLine, IsOrigin, PollerOf
<1>15. Lined' BY <1>1, <1>6 DEF Flow, Lined, IsOrigin
<1> QED BY <1>4, <1>10, <1>11, <1>13, <1>14, <1>15 DEF Flow

\* Connect gives the connection its peer and its first datagram.
LEMMA ConnectFlows == IInv /\ Flow /\ Connect => Flow'
<1> SUFFICES ASSUME IInv, Flow, Connect PROVE Flow' OBVIOUS
<1>1. /\ acceptor = "connect" /\ acceptor' = "addread"
      /\ peerOf' = [peerOf EXCEPT ![made] = first.from]
      /\ origin' = [origin EXCEPT ![made] = first]
      /\ UNCHANGED <<sent, rx, made, first, reading, emitCh, dispatched>>
  BY DEF Connect, Goto, output
<1>2. made \in Conns /\ first \in Datagrams /\ ~Named(made) /\ Window(made)
  BY <1>1 DEF IInv, Making, Connections, Connection, Window
<1>3. UNCHANGED Line BY <1>1 DEF Line
<1>4. \A n \in 1..MaxDatagram : PlacesOf(n)' = PlacesOf(n)
  BY <1>1, <1>3 DEF PlacesOf, InSockets, WithAcceptor, WithPollers, InLine
<1>5. first.seq \in 1..MaxDatagram /\ first.seq <= sent
  <2>1. <<"acceptor", 0>> \in PlacesOf(first.seq) BY <1>1 DEF PlacesOf, WithAcceptor
  <2> QED BY <1>2, <2>1 DEF Flow, Numbered, Datagrams
<1>6. origin'[made] = first /\ \A c \in Conns : c # made => origin'[c] = origin[c] /\ peerOf'[c] = peerOf[c]
  BY <1>1, <1>2 DEF IInv, TypeOK
<1>7. OnePlace' BY <1>4 DEF Flow, OnePlace
<1>8. Numbered' BY <1>1, <1>2, <1>4, <1>5, <1>6 DEF Flow, Numbered, Named
<1>9. Rising' BY <1>1 DEF Flow, Rising
<1>10. \A i \in DOMAIN Line : Line[i].conn \in Conns /\ Line[i].conn # made
  BY <1>2, LineNamed
<1>11. \A q \in Pollers : reading[q] # None =>
         reading[q].conn \in Conns /\ Named(reading[q].conn) /\ reading[q].conn # made
  <2> SUFFICES ASSUME NEW q \in Pollers, reading[q] # None
               PROVE  reading[q].conn \in Conns /\ Named(reading[q].conn)
    BY <1>2
  <2>1. reading[q] \in Messages BY DEF IInv, TypeOK
  <2> QED BY <2>1 DEF IInv, Output, Good, Messages
<1>12. \A i \in DOMAIN Line : IsOrigin(Line[i])' = IsOrigin(Line[i])
  BY <1>3, <1>6, <1>10 DEF IsOrigin
<1>13. \A c \in Conns : Ahead(c)'
  <2> SUFFICES ASSUME NEW c \in Conns PROVE Ahead(c)' OBVIOUS
  <2>0. Ahead(c) BY DEF Flow
  <2>1. CASE c = made
    BY <2>0, <2>1, <1>1, <1>2, <1>3, <1>6, <1>10, <1>11 DEF Ahead, PastLine, Window
  <2>2. CASE c # made
    BY <2>0, <2>2, <1>1, <1>3, <1>6, <1>12 DEF Ahead, PastLine, Window, Named, IsOrigin
  <2> QED BY <2>1, <2>2
<1>14. \A q \in Pollers : Carried(q)'
  <2> SUFFICES ASSUME NEW q \in Pollers, reading[q] # None PROVE Carried(q)'
    BY <1>1 DEF Carried
  <2>1. PollerOf(reading[q].conn)' = PollerOf(reading[q].conn) BY <1>1, <1>11, PollerKept DEF PollerOf
  <2> QED BY <2>1, <1>1, <1>3, <1>6, <1>11, <1>12 DEF Flow, Carried, PastLine, IsOrigin
<1>15. Lined' BY <1>1, <1>3, <1>6, <1>10, <1>12 DEF Flow, Lined, IsOrigin
<1> QED BY <1>7, <1>8, <1>9, <1>13, <1>14, <1>15 DEF Flow

\* A message is put into the channel, at the end of the line.
LEMMA Grown ==
  ASSUME IInv, NEW m \in Messages, Emit(m), dispatched' = dispatched
  PROVE  /\ \A i \in DOMAIN Line' : \/ i \in DOMAIN Line /\ Line'[i] = Line[i]
                                    \/ i = Len(Line) + 1 /\ Line'[i] = m
         /\ \A i \in DOMAIN Line' : i \in 1..(Len(Line) + 1)
         /\ \A n \in 1..MaxDatagram :
              InLine(n)' \subseteq InLine(n) \cup {x \in {<<"line", Len(Line) + 1>>} : n = m.data.seq}
<1>1. Line \in Seq(Messages) /\ Line' = Append(Line, m) BY LineType, LineGrows
<1>2. \A i \in DOMAIN Line' : \/ i \in DOMAIN Line /\ Line'[i] = Line[i]
                              \/ i = Len(Line) + 1 /\ Line'[i] = m
  BY <1>1
<1>3. \A i \in DOMAIN Line' : i \in 1..(Len(Line) + 1) BY <1>1
<1>4. \A n \in 1..MaxDatagram :
        InLine(n)' \subseteq InLine(n) \cup {x \in {<<"line", Len(Line) + 1>>} : n = m.data.seq}
  BY <1>2 DEF InLine
<1> QED BY <1>2, <1>3, <1>4

\* The acceptor's last step: its datagram is allowed to be late.
LEMMA EmitFirstFlows == IInv /\ Flow /\ EmitFirst => Flow'
<1> SUFFICES ASSUME IInv, Flow, EmitFirst PROVE Flow' OBVIOUS
<1>1. /\ acceptor = "emit" /\ acceptor' = "wait"
      /\ UNCHANGED <<sent, rx, peerOf, origin, made, first, reading, dispatched>>
  BY DEF EmitFirst, Goto, kernel
<1> DEFINE m == [conn |-> made, data |-> first]
<1>2. made \in Conns /\ first \in Datagrams /\ origin[made] = first BY <1>1 DEF IInv, Making
<1>3. m \in Messages /\ m.data = first /\ m.conn = made BY <1>2 DEF Messages
<1>4. Emit(m) BY DEF EmitFirst
<1>5. IsOrigin(m) BY <1>2 DEF IsOrigin
<1> HIDE DEF m
<1>6. /\ \A i \in DOMAIN Line' : \/ i \in DOMAIN Line /\ Line'[i] = Line[i]
                                 \/ i = Len(Line) + 1 /\ Line'[i] = m
      /\ \A i \in DOMAIN Line' : i \in 1..(Len(Line) + 1)
      /\ \A n \in 1..MaxDatagram :
           InLine(n)' \subseteq InLine(n) \cup {x \in {<<"line", Len(Line) + 1>>} : n = m.data.seq}
  BY <1>1, <1>3, <1>4, Grown
<1>7. PICK n \in 1..MaxDatagram : n = first.seq BY <1>2 DEF Datagrams
<1> DEFINE last == <<"line", Len(Line) + 1>>
<1>8. \A k \in 1..MaxDatagram : PlacesOf(k)' \subseteq
        (PlacesOf(k) \ {<<"acceptor", 0>>}) \cup {x \in {last} : k = n}
  <2> SUFFICES ASSUME NEW k \in 1..MaxDatagram
               PROVE PlacesOf(k)' \subseteq
                 (PlacesOf(k) \ {<<"acceptor", 0>>}) \cup {x \in {last} : k = n}
    OBVIOUS
  <2>1. InSockets(k)' = InSockets(k) /\ WithPollers(k)' = WithPollers(k) /\ WithAcceptor(k)' = {}
    BY <1>1 DEF InSockets, WithPollers, WithAcceptor
  <2>2. <<"acceptor", 0>> \notin InSockets(k) \cup WithPollers(k) \cup InLine(k)
    BY DEF InSockets, WithPollers, InLine
  <2>3. InLine(k)' \subseteq InLine(k) \cup {x \in {last} : k = n} BY <1>3, <1>6, <1>7
  <2> QED BY <2>1, <2>2, <2>3 DEF PlacesOf
<1>9. PlacesOf(n) = {<<"acceptor", 0>>}
  <2>1. <<"acceptor", 0>> \in PlacesOf(n) BY <1>1, <1>7 DEF PlacesOf, WithAcceptor
  <2> QED BY <2>1 DEF Flow, OnePlace
<1>10. OnePlace'
  <2>1. PlacesOf(n)' \subseteq {last} BY <1>8, <1>9
  <2>2. \A k \in 1..MaxDatagram : k # n => PlacesOf(k)' \subseteq PlacesOf(k) BY <1>8
  <2> QED BY <2>1, <2>2, PlaceMoved DEF Flow
<1>11. Numbered'
  <2>1. \A k \in 1..MaxDatagram : PlacesOf(k)' # {} => PlacesOf(k) # {} BY <1>8, <1>9
  <2> QED BY <1>1, <2>1 DEF Flow, Numbered, Named
<1>12. Rising' BY <1>1 DEF Flow, Rising
<1>13. \A k, c : PastLine(c, k) => PastLine(c, k)'
  <2> SUFFICES ASSUME NEW k, NEW c, PastLine(c, k), NEW i \in DOMAIN Line', Line'[i].conn = c
               PROVE  IsOrigin(Line'[i]) \/ Line'[i].data.seq < k
    BY <1>1 DEF PastLine, IsOrigin
  <2>1. CASE i \in DOMAIN Line /\ Line'[i] = Line[i] BY <2>1 DEF PastLine
  <2>2. CASE Line'[i] = m BY <1>5, <2>2
  <2> QED BY <1>6, <2>1, <2>2
<1>14. \A c \in Conns : Ahead(c)'
  <2> SUFFICES ASSUME NEW c \in Conns, NEW k \in DOMAIN rx[c]
               PROVE  /\ Named(c) => origin[c].seq < rx[c][k].seq
                      /\ \A q \in Pollers : reading[q] # None /\ reading[q].conn = c
                           => reading[q].data.seq < rx[c][k].seq
                      /\ PastLine(c, rx[c][k].seq)'
    BY <1>1 DEF Ahead, Window, Named
  <2>1. Ahead(c) BY DEF Flow
  <2>2. PICK x : x = rx[c][k].seq OBVIOUS
  <2>3. PastLine(c, x) BY <2>1, <2>2 DEF Ahead
  <2>4. PastLine(c, x)' BY <1>13, <2>3
  <2>5. PastLine(c, rx[c][k].seq)' BY <1>1, <2>2, <2>4 DEF PastLine
  <2> QED BY <2>1, <2>5 DEF Ahead
<1>15. \A q \in Pollers : Carried(q)'
  <2> SUFFICES ASSUME NEW q \in Pollers, reading[q] # None PROVE Carried(q)'
    BY <1>1 DEF Carried
  <2>1. PICK x, c : x = reading[q].data.seq /\ c = reading[q].conn OBVIOUS
  <2>2. q = PollerOf(c) /\ origin[c].seq < x /\ PastLine(c, x) BY <2>1 DEF Flow, Carried
  <2>3. PastLine(c, x)' BY <1>13, <2>2
  <2>4. PollerOf(reading[q].conn) = q /\ UNCHANGED <<peerOf, reading>> BY <1>1, <2>1, <2>2
  <2>5. PastLine(reading[q].conn, reading[q].data.seq)' BY <1>1, <2>1, <2>3 DEF PastLine
  <2>6. reading' = reading /\ origin'[reading[q].conn].seq < reading[q].data.seq
    BY <1>1, <2>1, <2>2
  <2> QED BY <2>4, <2>5, <2>6 DEF Carried, PollerOf, PastLine
<1>16. Lined'
  <2>2. \A i \in DOMAIN Line' : IsOrigin(Line'[i]) \/ origin[Line'[i].conn].seq < Line'[i].data.seq
    BY <1>1, <1>5, <1>6 DEF Flow, Lined, IsOrigin
  <2>3. \A i, j \in DOMAIN Line' :
          i < j /\ Line'[i].conn = Line'[j].conn /\ ~IsOrigin(Line'[j])
          => Line'[i].data.seq < Line'[j].data.seq
    <3> SUFFICES ASSUME NEW i \in DOMAIN Line', NEW j \in DOMAIN Line', i < j,
                        Line'[i].conn = Line'[j].conn, ~IsOrigin(Line'[j])
                 PROVE  Line'[i].data.seq < Line'[j].data.seq
      OBVIOUS
    <3>1. j \in DOMAIN Line /\ Line'[j] = Line[j] BY <1>5, <1>6
    <3>2. i \in DOMAIN Line /\ Line'[i] = Line[i]
      <4>1. Len(Line) \in Nat /\ j \in 1..Len(Line) BY <3>1, LineType
      <4> QED BY <1>6, <4>1
    <3> QED BY <3>1, <3>2 DEF Flow, Lined
  <2> QED BY <2>2, <2>3, <1>1 DEF Lined, IsOrigin
<1> QED BY <1>10, <1>11, <1>12, <1>14, <1>15, <1>16 DEF Flow

\* A poller takes the next datagram of a connection.
LEMMA ReadFlows ==
  ASSUME IInv, Flow, NEW q \in Pollers, Read(q)
  PROVE  Flow'
<1>1. PICK c \in registry :
        /\ Readable(q, c)
        /\ LET d == Head(rx[c]) IN
           IF Valid(d)
           THEN /\ reading' = [reading EXCEPT ![q] =
                                 IF d.kind = "empty" THEN None ELSE [conn |-> c, data |-> d]]
                /\ rx' = [rx EXCEPT ![c] = Tail(@)]
                /\ UNCHANGED <<phase, watched, registry, lost>>
           ELSE /\ registry' = registry \ {c}
                /\ KernelClose(c)
                /\ UNCHANGED <<rx, reading>>
  BY DEF Read
<1>2. UNCHANGED <<sent, peerOf, origin, made, acceptor, first, emitCh, dispatched>>
  BY DEF Read, making
<1>3. c \in Conns /\ Named(c) /\ c \in Socks BY DEF IInv, TypeOK, Connections, Socks
<1>4. CASE ~Valid(Head(rx[c]))
  <2>1. UNCHANGED <<rx, reading>> BY <1>1, <1>4
  <2> QED BY <1>2, <2>1, FlowKept DEF Window
<1>5. CASE Valid(Head(rx[c]))
  <2> DEFINE d == Head(rx[c])
             m == [conn |-> c, data |-> d]
  <2>1. /\ reading' = [reading EXCEPT ![q] = IF d.kind = "empty" THEN None ELSE m]
        /\ rx' = [rx EXCEPT ![c] = Tail(@)]
        /\ reading[q] = None /\ PollerOf(c) = q /\ rx[c] # <<>>
    BY <1>1, <1>5 DEF Readable
  <2>2. /\ d \in Datagrams /\ 1 \in DOMAIN rx[c] /\ d = rx[c][1]
        /\ \A r \in Socks : r # c => rx'[r] = rx[r]
        /\ \A i \in DOMAIN rx'[c] : i + 1 \in DOMAIN rx[c] /\ rx'[c][i] = rx[c][i + 1]
        /\ \A i \in DOMAIN rx'[c] : d.seq < rx'[c][i].seq
        /\ Rising'
        /\ \A n \in 1..MaxDatagram : InSockets(n)' \subseteq InSockets(n)
        /\ <<"socket", c>> \in InSockets(d.seq)
        /\ \A n \in 1..MaxDatagram : n = d.seq => <<"socket", c>> \notin InSockets(n)'
    BY <1>3, <2>1, Taken DEF Flow
  <2>3. m.conn = c /\ m.data = d OBVIOUS
  <2> HIDE DEF d, m
  <2>4. PICK n \in 1..MaxDatagram : n = d.seq BY <2>2 DEF Datagrams
  <2>5. UNCHANGED Line BY <1>2 DEF Line
  <2>6. \A r \in Pollers : \/ r # q /\ reading'[r] = reading[r]
                           \/ r = q /\ reading'[r] \in {None, m}
    BY <2>1 DEF IInv, TypeOK
  <2>7. \A k \in 1..MaxDatagram : PlacesOf(k)' \subseteq
          (PlacesOf(k) \ {x \in {<<"socket", c>>} : k = n}) \cup {x \in {<<"poller", q>>} : k = n}
    <3> SUFFICES ASSUME NEW k \in 1..MaxDatagram
                 PROVE  PlacesOf(k)' \subseteq
          (PlacesOf(k) \ {x \in {<<"socket", c>>} : k = n}) \cup {x \in {<<"poller", q>>} : k = n}
      OBVIOUS
    <3>1. WithAcceptor(k)' = WithAcceptor(k) /\ InLine(k)' = InLine(k)
      BY <1>2, <2>5 DEF WithAcceptor, InLine
    <3>2. WithPollers(k)' \subseteq WithPollers(k) \cup {x \in {<<"poller", q>>} : k = n}
      BY <2>3, <2>4, <2>6 DEF WithPollers
    <3>3. <<"socket", c>> \notin WithAcceptor(k) \cup WithPollers(k) \cup InLine(k)
      BY DEF WithAcceptor, WithPollers, InLine
    <3> QED BY <2>2, <2>4, <3>1, <3>2, <3>3 DEF PlacesOf
  <2>8. PlacesOf(n) = {<<"socket", c>>} BY <2>2, <2>4 DEF PlacesOf, Flow, OnePlace
  <2>9. OnePlace'
    <3>1. PlacesOf(n)' \subseteq {<<"poller", q>>} BY <2>7, <2>8
    <3>2. \A k \in 1..MaxDatagram : k # n => PlacesOf(k)' \subseteq PlacesOf(k) BY <2>7
    <3> QED BY <3>1, <3>2, PlaceMoved DEF Flow
  <2>10. Numbered'
    <3>1. \A k \in 1..MaxDatagram : PlacesOf(k)' # {} => PlacesOf(k) # {} BY <2>7, <2>8
    <3> QED BY <1>2, <3>1 DEF Flow, Numbered, Named
  <2>11. Ahead(c) BY <1>3 DEF Flow
  <2>12. \A b \in Conns : Ahead(b)'
    <3> SUFFICES ASSUME NEW b \in Conns, NEW k \in DOMAIN rx'[b]
                 PROVE  /\ Window(b) => first.seq < rx'[b][k].seq
                        /\ Named(b) => origin[b].seq < rx'[b][k].seq
                        /\ \A r \in Pollers : reading'[r] # None /\ reading'[r].conn = b
                             => reading'[r].data.seq < rx'[b][k].seq
                        /\ PastLine(b, rx'[b][k].seq)
      BY <1>2, <2>5 DEF Ahead, PastLine, Window, Named, IsOrigin
    <3>1. Ahead(b) /\ b \in Socks BY DEF Flow, Socks
    <3>2. CASE b # c
      <4>1. rx'[b] = rx[b] BY <2>2, <3>1, <3>2
      <4> QED BY <2>3, <2>6, <3>1, <3>2, <4>1 DEF Ahead
    <3>3. CASE b = c
      <4>1. k + 1 \in DOMAIN rx[c] /\ rx'[c][k] = rx[c][k + 1] /\ d.seq < rx'[c][k].seq
        BY <2>2, <3>3
      <4> QED BY <2>3, <2>6, <2>11, <3>3, <4>1 DEF Ahead
    <3> QED BY <3>2, <3>3
  <2>13. \A r \in Pollers : Carried(r)'
    <3> SUFFICES ASSUME NEW r \in Pollers, reading'[r] # None PROVE Carried(r)' BY DEF Carried
    <3>1. CASE r # q
      BY <1>2, <2>5, <2>6, <3>1 DEF Flow, Carried, PastLine, IsOrigin, PollerOf
    <3>2. CASE r = q
      <4>1. reading'[r] = m BY <2>6, <3>2
      <4>2. origin[c].seq < d.seq /\ PastLine(c, d.seq) BY <1>3, <2>2, <2>11 DEF Ahead
      <4> QED BY <1>2, <2>1, <2>3, <2>5, <3>2, <4>1, <4>2 DEF Carried, PastLine, IsOrigin, PollerOf
    <3> QED BY <3>1, <3>2
  <2>14. Lined' BY <1>2, <2>5 DEF Flow, Lined, IsOrigin
  <2> QED BY <2>2, <2>9, <2>10, <2>12, <2>13, <2>14 DEF Flow
<1> QED BY <1>4, <1>5

\* A poller emits its message, which is the next of its connection.
LEMMA EmitReadFlows ==
  ASSUME IInv, Flow, NEW q \in Pollers, EmitRead(q)
  PROVE  Flow'
<1>1. /\ reading[q] # None /\ reading' = [reading EXCEPT ![q] = None]
      /\ UNCHANGED <<sent, rx, peerOf, origin, made, acceptor, first, dispatched>>
  BY DEF EmitRead, kernel, making
<1>2. PICK m \in Messages : m = reading[q] BY <1>1 DEF IInv, TypeOK
<1>3. Emit(m) BY <1>2 DEF EmitRead
<1>4. /\ \A i \in DOMAIN Line' : \/ i \in DOMAIN Line /\ Line'[i] = Line[i]
                                 \/ i = Len(Line) + 1 /\ Line'[i] = m
      /\ \A i \in DOMAIN Line' : i \in 1..(Len(Line) + 1)
      /\ \A n \in 1..MaxDatagram :
           InLine(n)' \subseteq InLine(n) \cup {x \in {<<"line", Len(Line) + 1>>} : n = m.data.seq}
  BY <1>1, <1>2, <1>3, Grown
<1>5. /\ q = PollerOf(m.conn) /\ origin[m.conn].seq < m.data.seq
      /\ PastLine(m.conn, m.data.seq)
  BY <1>1, <1>2 DEF Flow, Carried
<1>6. PICK n \in 1..MaxDatagram : n = m.data.seq BY <1>2 DEF Messages, Datagrams
<1>7. \A r \in Pollers : \/ r # q /\ reading'[r] = reading[r]
                         \/ r = q /\ reading'[r] = None
  BY <1>1 DEF IInv, TypeOK
<1> DEFINE last == <<"line", Len(Line) + 1>>
<1>8. \A k \in 1..MaxDatagram : PlacesOf(k)' \subseteq
        (PlacesOf(k) \ {<<"poller", q>>}) \cup {x \in {last} : k = n}
  <2> SUFFICES ASSUME NEW k \in 1..MaxDatagram
               PROVE PlacesOf(k)' \subseteq
                 (PlacesOf(k) \ {<<"poller", q>>}) \cup {x \in {last} : k = n}
    OBVIOUS
  <2>1. InSockets(k)' = InSockets(k) /\ WithAcceptor(k)' = WithAcceptor(k)
    BY <1>1 DEF InSockets, WithAcceptor
  <2>2. <<"poller", q>> \notin InSockets(k) \cup WithAcceptor(k) \cup InLine(k)
    BY DEF InSockets, WithAcceptor, InLine
  <2>3. InLine(k)' \subseteq InLine(k) \cup {x \in {last} : k = n} BY <1>4, <1>6
  <2>4. WithPollers(k)' \subseteq WithPollers(k) \ {<<"poller", q>>} BY <1>7 DEF WithPollers
  <2> QED BY <2>1, <2>2, <2>3, <2>4 DEF PlacesOf
<1>9. PlacesOf(n) = {<<"poller", q>>}
  <2>1. <<"poller", q>> \in PlacesOf(n) BY <1>1, <1>2, <1>6 DEF PlacesOf, WithPollers
  <2> QED BY <2>1 DEF Flow, OnePlace
<1>10. OnePlace'
  <2>1. PlacesOf(n)' \subseteq {last} BY <1>8, <1>9
  <2>2. \A k \in 1..MaxDatagram : k # n => PlacesOf(k)' \subseteq PlacesOf(k) BY <1>8
  <2> QED BY <2>1, <2>2, PlaceMoved DEF Flow
<1>11. Numbered'
  <2>1. \A k \in 1..MaxDatagram : PlacesOf(k)' # {} => PlacesOf(k) # {} BY <1>8, <1>9
  <2> QED BY <1>1, <2>1 DEF Flow, Numbered, Named
<1>12. Rising' BY <1>1 DEF Flow, Rising
<1>13. ASSUME NEW k, NEW c, PastLine(c, k), c = m.conn => m.data.seq < k
       PROVE  \A i \in DOMAIN Line' : Line'[i].conn = c
                => IsOrigin(Line'[i]) \/ Line'[i].data.seq < k
  BY <1>4, <1>13 DEF PastLine
<1>14. \A c \in Conns : Ahead(c)'
  <2> SUFFICES ASSUME NEW c \in Conns, NEW k \in DOMAIN rx[c]
               PROVE  /\ Window(c) => first.seq < rx[c][k].seq
                      /\ Named(c) => origin[c].seq < rx[c][k].seq
                      /\ \A r \in Pollers : reading'[r] # None /\ reading'[r].conn = c
                           => reading'[r].data.seq < rx[c][k].seq
                      /\ \A i \in DOMAIN Line' : Line'[i].conn = c
                           => IsOrigin(Line'[i]) \/ Line'[i].data.seq < rx[c][k].seq
    BY <1>1 DEF Ahead, Window, Named, PastLine, IsOrigin
  <2>1. Ahead(c) BY DEF Flow
  <2>2. PICK x : x = rx[c][k].seq OBVIOUS
  <2>3. PastLine(c, x) /\ (c = m.conn => m.data.seq < x) BY <1>1, <1>2, <2>1, <2>2 DEF Ahead
  <2>4. \A i \in DOMAIN Line' : Line'[i].conn = c => IsOrigin(Line'[i]) \/ Line'[i].data.seq < x
    BY <1>13, <2>3
  <2>5. \A r \in Pollers : reading'[r] # None /\ reading'[r].conn = c => reading'[r].data.seq < x
    BY <1>7, <2>1, <2>2 DEF Ahead
  <2> QED BY <2>1, <2>2, <2>4, <2>5 DEF Ahead
<1>15. \A r \in Pollers : Carried(r)'
  <2> SUFFICES ASSUME NEW r \in Pollers, reading'[r] # None PROVE Carried(r)' BY DEF Carried
  <2>1. r # q /\ reading'[r] = reading[r] BY <1>7
  <2>2. PICK x, c : x = reading[r].data.seq /\ c = reading[r].conn OBVIOUS
  <2>3. r = PollerOf(c) /\ origin[c].seq < x /\ PastLine(c, x)
    BY <2>1, <2>2 DEF Flow, Carried
  <2>4. c # m.conn BY <1>5, <2>1, <2>3
  <2>5. \A i \in DOMAIN Line' : Line'[i].conn = c => IsOrigin(Line'[i]) \/ Line'[i].data.seq < x
    BY <1>13, <2>3, <2>4
  <2> QED BY <1>1, <2>1, <2>2, <2>3, <2>5 DEF Carried, PastLine, IsOrigin, PollerOf
<1>16. Lined'
  <2>1. \A i \in DOMAIN Line' : IsOrigin(Line'[i]) \/ origin[Line'[i].conn].seq < Line'[i].data.seq
    BY <1>4, <1>5 DEF Flow, Lined
  <2>2. \A i, j \in DOMAIN Line' :
          i < j /\ Line'[i].conn = Line'[j].conn /\ ~IsOrigin(Line'[j])
          => Line'[i].data.seq < Line'[j].data.seq
    <3> SUFFICES ASSUME NEW i \in DOMAIN Line', NEW j \in DOMAIN Line', i < j,
                        Line'[i].conn = Line'[j].conn, ~IsOrigin(Line'[j])
                 PROVE  Line'[i].data.seq < Line'[j].data.seq
      OBVIOUS
    <3>1. i \in DOMAIN Line /\ Line'[i] = Line[i]
      <4>1. Len(Line) \in Nat BY LineType
      <4> QED BY <1>4, <4>1
    <3>2. CASE j \in DOMAIN Line /\ Line'[j] = Line[j] BY <3>1, <3>2 DEF Flow, Lined
    <3>3. CASE Line'[j] = m
      <4>1. IsOrigin(Line[i]) => Line[i].data.seq < m.data.seq
        BY <1>5, <3>1, <3>3 DEF IsOrigin
      <4> QED BY <1>5, <3>1, <3>3, <4>1 DEF PastLine
    <3> QED BY <1>4, <3>2, <3>3
  <2> QED BY <2>1, <2>2, <1>1 DEF Lined, IsOrigin
<1> QED BY <1>10, <1>11, <1>12, <1>14, <1>15, <1>16 DEF Flow

\* Initially there are no datagrams.
LEMMA InitFlow == Init => Flow
<1> SUFFICES ASSUME Init PROVE Flow OBVIOUS
<1>1. \A s \in Socks : rx[s] = <<>> BY DEF Init
<1>2. Line = <<>> BY DEF Init, Line
<1>3. \A q \in Pollers : reading[q] = None BY DEF Init
<1>4. \A c \in Conns : ~Named(c) BY DEF Init, Named
<1>5. \A n \in 1..MaxDatagram : PlacesOf(n) = {}
  BY <1>1, <1>2, <1>3 DEF Init, PlacesOf, InSockets, WithAcceptor, WithPollers, InLine
<1>6. OnePlace /\ Numbered BY <1>4, <1>5 DEF OnePlace, Numbered
<1>7. Rising BY <1>1 DEF Rising
<1>8. \A c \in Conns : Ahead(c) BY <1>1 DEF Ahead, Socks
<1>9. \A q \in Pollers : Carried(q) BY <1>3 DEF Carried
<1>10. Lined BY <1>2 DEF Lined
<1> QED BY <1>6, <1>7, <1>8, <1>9, <1>10 DEF Flow

\* Every step keeps it.
LEMMA NextFlow == IInv /\ Flow /\ [Next]_vars => Flow'
<1> SUFFICES ASSUME IInv, Flow, [Next]_vars PROVE Flow' OBVIOUS
<1>1. CASE UNCHANGED vars
  BY <1>1, FlowKept DEF vars, kernel, making, output, Window
<1>2. ASSUME NEW p \in Peers, PeerSends(p) PROVE Flow' BY <1>2, SendsFlows
<1>3. CASE Acceptor
  <2>1. CASE Receive BY <2>1, ReceiveFlows
  <2>2. CASE Bind
    <3>1. \A c \in Conns : Window(c)' => rx[c] = <<>>
      <4> SUFFICES ASSUME NEW c \in Conns, c = made + 1 PROVE rx[c] = <<>>
        BY <2>2 DEF Bind, Window
      <4> QED BY Counted DEF IInv, Connections, Connection
    <3> QED BY <2>2, <3>1, FlowKept DEF Bind, Goto, output
  <2>3. CASE Connect BY <2>3, ConnectFlows
  <2>4. CASE Fails BY <2>4, FlowKept DEF Fails, kernel, output, Window
  <2>5. CASE AddRead BY <2>5, FlowKept DEF AddRead, Goto, output, Window
  <2>6. CASE AddReadFails BY <2>6, FlowKept DEF AddReadFails, kernel, output, Window
  <2>7. CASE Add BY <2>7, FlowKept DEF Add, Goto, kernel, Window
  <2>8. CASE EmitFirst BY <2>8, EmitFirstFlows
  <2> QED BY <1>3, <2>1, <2>2, <2>3, <2>4, <2>5, <2>6, <2>7, <2>8 DEF Acceptor
<1>4. ASSUME NEW q \in Pollers, Poller(q) PROVE Flow'
  <2>1. CASE Orphan(q) BY <2>1, FlowKept DEF Orphan, making, output, Window
  <2>2. CASE Read(q) BY <2>2, ReadFlows
  <2>3. CASE EmitRead(q) BY <2>3, EmitReadFlows
  <2> QED BY <1>4, <2>1, <2>2, <2>3 DEF Poller
<1>5. CASE Dispatch
  <2>1. Line' = Line BY <1>5, LineKept
  <2>2. UNCHANGED <<sent, rx, peerOf, origin, made, acceptor, first, reading>>
    BY <1>5 DEF Dispatch, kernel, making
  <2>3. \A n \in 1..MaxDatagram : PlacesOf(n)' = PlacesOf(n)
    BY <2>1, <2>2 DEF PlacesOf, InSockets, WithAcceptor, WithPollers, InLine
  <2>4. OnePlace' BY <2>3 DEF Flow, OnePlace
  <2>5. Numbered' BY <2>2, <2>3 DEF Flow, Numbered, Named
  <2>6. Rising' BY <2>2 DEF Flow, Rising
  <2>7. \A c \in Conns : Ahead(c)'
    BY <2>1, <2>2 DEF Flow, Ahead, PastLine, Window, Named, IsOrigin
  <2>8. \A q \in Pollers : Carried(q)'
    BY <2>1, <2>2 DEF Flow, Carried, PastLine, IsOrigin, PollerOf
  <2>9. Lined' BY <2>1, <2>2 DEF Flow, Lined, IsOrigin
  <2> QED BY <2>4, <2>5, <2>6, <2>7, <2>8, <2>9 DEF Flow
<1>6. CASE CloseByOther BY <1>6, FlowKept DEF CloseByOther, making, Window
<1> QED BY <1>1, <1>2, <1>3, <1>4, <1>5, <1>6 DEF Next

\* It holds always.
LEMMA AlwaysFlow == Spec => []Flow
<1>1. Init => Flow BY InitFlow
<1>2. IInv /\ Flow /\ [Next]_vars => Flow' BY NextFlow
<1> QED BY <1>1, <1>2, AlwaysIInv, PTL DEF Spec

\* No datagram is dispatched twice, and those that one peer sends through one
\* connection keep their order, but for the one the connection was made for
\* (acceptor_udp_base.go emits it after AddRead).
THEOREM AlwaysInOrder == Spec => []InOrder
<1>1. IInv /\ Flow => InOrder
  <2> SUFFICES ASSUME IInv, Flow, NEW i \in DOMAIN dispatched, NEW j \in DOMAIN dispatched, i < j
               PROVE  /\ dispatched[i].data # dispatched[j].data
                      /\ dispatched[i].conn = dispatched[j].conn
                         /\ dispatched[i].data.from = dispatched[j].data.from
                         /\ dispatched[i].data.seq > dispatched[j].data.seq
                         => IsOrigin(dispatched[j])
    BY DEF InOrder, Before
  <2>1. dispatched \in Seq(Messages) /\ emitCh \in Seq(Messages) BY DEF IInv, TypeOK
  <2>2. /\ i \in DOMAIN Line /\ Line[i] = dispatched[i] /\ i \in Nat
        /\ j \in DOMAIN Line /\ Line[j] = dispatched[j] /\ j \in Nat
    BY <2>1 DEF Line
  <2>3. dispatched[i] \in Messages /\ dispatched[j] \in Messages BY <2>1
  <2>4. dispatched[i].data.seq \in 1..MaxDatagram /\ dispatched[j].data.seq \in 1..MaxDatagram
    BY <2>3 DEF Messages, Datagrams
  <2>5. dispatched[i].data # dispatched[j].data
    <3> SUFFICES ASSUME dispatched[i].data.seq = dispatched[j].data.seq PROVE FALSE OBVIOUS
    <3> DEFINE n == dispatched[i].data.seq
    <3>1. <<"line", i>> \in PlacesOf(n) /\ <<"line", j>> \in PlacesOf(n)
      BY <2>2 DEF PlacesOf, InLine
    <3>2. <<"line", i>> = <<"line", j>> BY <2>4, <3>1 DEF Flow, OnePlace
    <3> QED BY <2>2, <3>2
  <2> QED BY <2>2, <2>4, <2>5 DEF Flow, Lined
<1> QED BY <1>1, AlwaysIInv, AlwaysFlow, PTL
=============================================================================
