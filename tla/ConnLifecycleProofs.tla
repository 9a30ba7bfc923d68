------------------------ MODULE ConnLifecycleProofs ------------------------
(***************************************************************************)
(* Proofs about ConnLifecycle for any number of connections, descriptors,  *)
(* pollers, handlers and messages, with and without a heartbeat check.     *)
(*                                                                         *)
(* Descriptors are reused, and Close may run several times on the same     *)
(* connection, so almost nothing relates a connection to the socket behind *)
(* its descriptor.  What remains is Made: a socket is only ever open under *)
(* the descriptor its connection was made with.                            *)
(*                                                                         *)
(* As long as Calm holds, everything does: Settled, further down, says     *)
(* where each open connection is in the registry, in the epolls and with   *)
(* the pollers.                                                            *)
(***************************************************************************)
EXTENDS ConnLifecycle, TLAPS

\* Goroutines outside of these places work on a connection.
Free == {"idle", "orphan", "unwatch_orphan"}

Made ==
  /\ acceptor # "accept" => accepted >= 1
  /\ \A c \in Conns : c < accepted => fdOf[c] \in Fds
  /\ \A c \in Conns : c >= accepted => onClose[c] = 0
  /\ \A f \in Fds : open[f] # None => open[f] < accepted /\ fdOf[open[f]] = f
  /\ \A f \in Fds : registry[f] # None => registry[f] < accepted
  /\ \A a \in Actors : conn[a] # None => conn[a] < accepted
  /\ \A a \in Actors : at[a] \notin Free => conn[a] # None
  /\ \A p \in Pollers : at[p] \in {"orphan", "unwatch_orphan"} => event[p] # None
  /\ \A c \in inbox : c < accepted

Counted == \A c \in Conns : unread[c] + toSend[c] <= MaxMsg

\* Close reports a connection whose socket is closed.
Ending(a) == at[a] \in {"drop", "report"}
Ended == \A a \in Actors : Ending(a) => ~IsOpen(conn[a])

Kept == TypeOK /\ Made /\ Counted /\ ReportedIsClosed
IInv == Kept /\ Ended

\* What a goroutine that works on a connection may rely on.
LEMMA Working ==
  ASSUME IInv, NEW a \in Actors, at[a] \notin Free
  PROVE  /\ conn[a] \in Conns /\ conn[a] < accepted
         /\ fdOf[conn[a]] \in Fds
         /\ SocketOf(conn[a]) \in Conns \cup {None}
BY DEF IInv, Kept, TypeOK, Made, SocketOf

\* The invariant holds initially.
LEMMA InitInv == Init => IInv
<1> SUFFICES ASSUME Init PROVE IInv
  OBVIOUS
<1> USE ConnLifecycleAssumption DEF Init
<1>1. TypeOK
  <2>1. accepted \in 0..MaxConn /\ unread \in [Conns -> 0..MaxMsg] /\ toSend \in [Conns -> 0..MaxMsg]
    OBVIOUS
  <2>2. /\ fdOf \in [Conns -> Fds \cup {None}] /\ open \in [Fds -> Conns \cup {None}]
        /\ registry \in [Fds -> Conns \cup {None}]
        /\ batch \in [Pollers -> SUBSET Fds] /\ event \in [Pollers -> Fds \cup {None}]
        /\ conn \in [Actors -> Conns \cup {None}] /\ onClose \in [Conns -> Nat]
    OBVIOUS
  <2> QED
    BY <2>1, <2>2 DEF TypeOK
<1>2. Made
  <2>1. \A c \in Conns : ~(c < accepted) /\ onClose[c] = 0
    BY DEF Conns
  <2>2. /\ \A f \in Fds : open[f] = None /\ registry[f] = None
        /\ \A a \in Actors : conn[a] = None /\ at[a] = "idle"
        /\ inbox = {} /\ acceptor = "accept"
    OBVIOUS
  <2>3. Pollers \subseteq Actors
    BY DEF Actors
  <2> QED
    BY <2>1, <2>2, <2>3 DEF Made, Free
<1>3. Counted
  BY DEF Counted
<1>4. ReportedIsClosed /\ Ended
  BY DEF ReportedIsClosed, Ended, Ending
<1> QED
  BY <1>1, <1>2, <1>3, <1>4 DEF IInv, Kept

-----------------------------------------------------------------------------
(* The acceptor.                                                           *)

\* The acceptor preserves the invariant: a new connection gets a descriptor of its own.
LEMMA AcceptorStepInv ==
  ASSUME IInv, Accept \/ AddRead \/ AddReadFailed \/ Add
  PROVE  Kept'
<1> USE ConnLifecycleAssumption DEF IInv, Kept
<1>1. CASE Accept
  <2>1. PICK f \in Fds : /\ open[f] = None
                         /\ fdOf' = [fdOf EXCEPT ![accepted] = f]
                         /\ open' = [open EXCEPT ![f] = accepted]
    BY <1>1 DEF Accept
  <2>2. /\ accepted \in Conns /\ accepted \in Nat
        /\ accepted' = accepted + 1 /\ accepted' \in 0..MaxConn
        /\ acceptor' = "addread"
        /\ UNCHANGED <<watched, unread, toSend, gone, registry, batch, event, at, conn,
                       inbox, released, onClose, early, others, panicked>>
    BY <1>1 DEF Accept, TypeOK, Conns, history
  <2>3. TypeOK'
    BY <2>1, <2>2 DEF TypeOK
  <2>4. \A c \in Conns : c \in Nat
    BY DEF Conns
  <2>5. Made'
    <3>1. ASSUME NEW c \in Conns, c < accepted' PROVE fdOf'[c] \in Fds
      <4>1. CASE c = accepted
        BY <2>1, <2>2, <4>1 DEF TypeOK
      <4>2. CASE c # accepted
        <5>1. c < accepted
          BY <2>2, <2>4, <3>1, <4>2
        <5> QED
          BY <2>1, <2>2, <4>2, <5>1 DEF Made, TypeOK
      <4> QED
        BY <4>1, <4>2
    <3>2. ASSUME NEW g \in Fds, open'[g] # None
          PROVE  open'[g] < accepted' /\ fdOf'[open'[g]] = g
      <4>1. CASE g = f
        BY <2>1, <2>2, <4>1 DEF TypeOK
      <4>2. CASE g # f
        <5>1. open'[g] = open[g] /\ open[g] \in Conns
          BY <2>1, <3>2, <4>2 DEF TypeOK
        <5>2. open[g] < accepted /\ fdOf[open[g]] = g
          BY <3>2, <5>1 DEF Made
        <5>3. open[g] < accepted' /\ open[g] # accepted
          <6>1. open[g] \in Conns /\ open[g] < accepted
            BY <5>1, <5>2
          <6>2. open[g] \in Nat /\ accepted \in Nat /\ accepted' = accepted + 1
            BY <2>2, <2>4, <6>1
          <6> QED
            BY <6>1, <6>2
        <5>4. fdOf'[open[g]] = fdOf[open[g]]
          BY <2>1, <5>1, <5>3 DEF TypeOK
        <5> QED
          BY <5>1, <5>2, <5>3, <5>4
      <4> QED
        BY <4>1, <4>2
    <3>3. \A c \in Conns : (c < accepted => c < accepted') /\ (c >= accepted' => c >= accepted)
      BY <2>2, <2>4
    <3>4. \A c \in Conns : c >= accepted' => onClose'[c] = 0
      BY <2>2, <3>3 DEF Made
    <3>5. ASSUME NEW g \in Fds, registry'[g] # None PROVE registry'[g] < accepted'
      BY <2>2, <3>3, <3>5 DEF Made, TypeOK
    <3>6. ASSUME NEW a \in Actors, conn'[a] # None PROVE conn'[a] < accepted'
      BY <2>2, <3>3, <3>6 DEF Made, TypeOK
    <3>7. \A c \in inbox' : c < accepted'
      BY <2>2, <3>3 DEF Made, TypeOK
    <3>8. acceptor' # "accept" => accepted' >= 1
      BY <2>2
    <3> QED
      BY <2>2, <3>1, <3>2, <3>4, <3>5, <3>6, <3>7, <3>8 DEF Made
  <2>6. Counted'
    BY <2>2 DEF Counted
  <2>7. ReportedIsClosed'
    <3>1. onClose[accepted] = 0
      BY <2>2, <2>4 DEF Made
    <3>2. \A g \in Fds : open'[g] = open[g] \/ open'[g] = accepted
      BY <2>1 DEF TypeOK
    <3> QED
      BY <2>2, <3>1, <3>2 DEF ReportedIsClosed, IsOpen
  <2> QED
    BY <2>3, <2>5, <2>6, <2>7
<1>2. CASE AddRead \/ AddReadFailed \/ Add
  <2>1. acceptor # "accept"
    BY <1>2 DEF AddRead, AddReadFailed, Add
  <2>2. accepted - 1 \in Conns /\ accepted - 1 < accepted /\ fdOf[accepted - 1] \in Fds
    BY <2>1 DEF TypeOK, Made, Conns
  <2>3. /\ UNCHANGED <<accepted, fdOf, open, unread, toSend, gone, batch, event, at, conn, inbox,
                       released, onClose, early, others>>
        /\ acceptor' \in {acceptor, "add", "accept"}
        /\ watched' \in {watched, watched \cup {accepted - 1}}
        /\ registry' \in {registry, [registry EXCEPT ![fdOf[accepted - 1]] = accepted - 1]}
        /\ panicked' \in BOOLEAN
    BY <1>2 DEF AddRead, AddReadFailed, Add, kernel, history, TypeOK
  <2>4. TypeOK'
    BY <2>2, <2>3 DEF TypeOK
  <2>5. Made'
    BY <2>1, <2>2, <2>3 DEF TypeOK, Made
  <2>6. Counted' /\ ReportedIsClosed'
    BY <2>3 DEF Counted, ReportedIsClosed, IsOpen
  <2> QED
    BY <2>4, <2>5, <2>6
<1> QED
  BY <1>1, <1>2

-----------------------------------------------------------------------------
(* Close.                                                                  *)

\* Unwatching an fd changes nothing but the set of watched sockets.
LEMMA UnwatchType ==
  ASSUME TypeOK, NEW p, NEW f \in Fds, KernelUnwatch(p, f)
  PROVE  watched' \subseteq Conns
BY DEF KernelUnwatch, TypeOK

\* So do the steps of Close, whoever runs them and on whichever descriptor.
LEMMA CloseStepInv ==
  ASSUME IInv, NEW a \in Actors, CloseStep(a)
  PROVE  Kept'
<1> USE ConnLifecycleAssumption DEF IInv, Kept
<1>1. CASE CloseUnwatch(a)
  <2>1. at[a] \notin Free
    BY <1>1 DEF CloseUnwatch, Goto, Free
  <2>2. fdOf[conn[a]] \in Fds
    BY <2>1, Working
  <2>3. watched' \subseteq Conns
    BY <1>1, <2>2, UnwatchType DEF CloseUnwatch
  <2>4. TypeOK'
    BY <1>1, <2>3 DEF CloseUnwatch, Goto, TypeOK, history
  <2>5. Made'
    BY <1>1, <2>1 DEF CloseUnwatch, Goto, TypeOK, Made, Free, history
  <2>6. Counted' /\ ReportedIsClosed'
    BY <1>1 DEF CloseUnwatch, Counted, ReportedIsClosed, IsOpen
  <2> QED
    BY <2>4, <2>5, <2>6
<1>2. CASE CloseUnregister(a)
  <2>1. at[a] \notin Free
    BY <1>2 DEF CloseUnregister, Goto, Free
  <2>2. fdOf[conn[a]] \in Fds
    BY <2>1, Working
  <2>3. TypeOK'
    BY <1>2, <2>2 DEF CloseUnregister, Goto, TypeOK, kernel, history
  <2>4. Made'
    BY <1>2, <2>1, <2>2 DEF CloseUnregister, Goto, TypeOK, Made, Free, kernel, history
  <2>5. Counted' /\ ReportedIsClosed'
    BY <1>2 DEF CloseUnregister, Counted, ReportedIsClosed, IsOpen, kernel
  <2> QED
    BY <2>3, <2>4, <2>5
<1>3. CASE CloseFd(a)
  <2> DEFINE c == conn[a]
  <2>1. at[a] \notin Free
    BY <1>3 DEF CloseFd, Goto, Free
  <2>2. c \in Conns /\ fdOf[c] \in Fds
    BY <2>1, Working
  <2>3. /\ open' = [open EXCEPT ![fdOf[c]] = None]
        /\ watched' \subseteq watched
        /\ at' \in {[at EXCEPT ![a] = "drop"], [at EXCEPT ![a] = "drop_failed"]}
        /\ UNCHANGED <<accepted, acceptor, fdOf, unread, toSend, gone, registry, batch, event,
                       conn, inbox, released, onClose, early, others, panicked>>
    BY <1>3 DEF CloseFd, Goto, KernelClose, history
  <2>4. TypeOK'
    BY <2>2, <2>3 DEF TypeOK
  <2>5. \A f \in Fds : open'[f] # None => open'[f] = open[f]
    BY <2>2, <2>3 DEF TypeOK
  <2>6. Made'
    <3>1. \A b \in Actors : at'[b] \notin Free => conn[b] # None
      BY <2>1, <2>3 DEF Made, TypeOK
    <3>2. \A p \in Pollers : at'[p] \in {"orphan", "unwatch_orphan"} => event[p] # None
      BY <2>3 DEF Made, TypeOK, Actors
    <3> QED
      BY <2>3, <2>5, <3>1, <3>2 DEF Made
  <2>7. Counted'
    BY <2>3 DEF Counted
  <2>8. \A d \in Conns : d # None
    OBVIOUS
  <2>9. ReportedIsClosed'
    BY <2>3, <2>5, <2>8 DEF ReportedIsClosed, IsOpen
  <2> QED
    BY <2>4, <2>6, <2>7, <2>9
<1>4. CASE CloseDrop(a)
  <2>1. at[a] \notin Free
    BY <1>4 DEF CloseDrop, Free
  <2>2. conn[a] \in Conns
    BY <2>1, Working
  <2>3. /\ \E stage \in {"report", "beat_unregister", "idle"} : at' = [at EXCEPT ![a] = stage]
        /\ released' = released \cup {conn[a]}
        /\ UNCHANGED <<accepted, acceptor, fdOf, open, watched, unread, toSend, gone, registry,
                       batch, event, conn, inbox, onClose, early, others, panicked>>
    BY <1>4 DEF CloseDrop, AfterClose, Goto, kernel, history
  <2>4. TypeOK'
    BY <2>2, <2>3 DEF TypeOK
  <2>5. Made'
    <3>1. \A b \in Actors : at'[b] \notin Free => conn[b] # None
      BY <2>1, <2>3 DEF Made, TypeOK
    <3>2. \A p \in Pollers : at'[p] \in {"orphan", "unwatch_orphan"} => event[p] # None
      BY <2>3 DEF Made, TypeOK, Actors
    <3> QED
      BY <2>3, <3>1, <3>2 DEF Made
  <2>6. Counted' /\ ReportedIsClosed'
    BY <2>3 DEF Counted, ReportedIsClosed, IsOpen
  <2> QED
    BY <2>4, <2>5, <2>6
<1>5. CASE CloseReport(a)
  <2> DEFINE c == conn[a]
  <2>1. at[a] \notin Free /\ Ending(a)
    BY <1>5 DEF CloseReport, Goto, Free, Ending
  <2>2. c \in Conns /\ c < accepted /\ ~IsOpen(c)
    BY <2>1, Working DEF Ended
  <2>3. /\ \E stage \in {"beat_unregister", "idle"} : at' = [at EXCEPT ![a] = stage]
        /\ onClose' = [onClose EXCEPT ![c] = @ + 1]
        /\ UNCHANGED <<accepted, acceptor, fdOf, open, watched, unread, toSend, gone, registry,
                       batch, event, conn, inbox, released, early, others, panicked>>
    BY <1>5 DEF CloseReport, AfterClose, Goto, kernel, history
  <2>4. onClose' \in [Conns -> Nat] /\ \A d \in Conns : d # c => onClose'[d] = onClose[d]
    BY <2>2, <2>3 DEF TypeOK
  <2>5. TypeOK'
    BY <2>3, <2>4 DEF TypeOK
  <2>6. Made'
    <3>1. \A d \in Conns : d >= accepted => onClose'[d] = 0
      BY <2>2, <2>4 DEF Made, Conns, TypeOK
    <3>2. \A b \in Actors : at'[b] \notin Free => conn[b] # None
      BY <2>1, <2>3 DEF Made, TypeOK
    <3>3. \A p \in Pollers : at'[p] \in {"orphan", "unwatch_orphan"} => event[p] # None
      BY <2>3 DEF Made, TypeOK, Actors
    <3> QED
      BY <2>3, <3>1, <3>2, <3>3 DEF Made
  <2>7. Counted'
    BY <2>3 DEF Counted
  <2>8. ReportedIsClosed'
    BY <2>2, <2>3, <2>4 DEF ReportedIsClosed, IsOpen
  <2> QED
    BY <2>5, <2>6, <2>7, <2>8
<1> QED
  BY <1>1, <1>2, <1>3, <1>4, <1>5 DEF CloseStep

-----------------------------------------------------------------------------
(* The pollers.                                                            *)

\* So do those of a poller.
LEMMA PollerStepInv ==
  ASSUME IInv, NEW p \in Pollers, PollerStep(p)
  PROVE  Kept'
<1> USE ConnLifecycleAssumption DEF IInv, Kept
<1>0. p \in Actors
  BY DEF Actors
<1>1. CASE Wait(p)
  <2>1. TypeOK'
    BY <1>1 DEF Wait, TypeOK, kernel, history
  <2>2. Made' /\ Counted' /\ ReportedIsClosed'
    BY <1>1 DEF Wait, Made, Counted, ReportedIsClosed, IsOpen, kernel, history
  <2> QED
    BY <2>1, <2>2
<1>2. CASE Lookup(p)
  <2>1. PICK f \in batch[p] :
          /\ at' = [at EXCEPT ![p] = IF registry[f] = None THEN "orphan" ELSE "decode"]
          /\ batch' = [batch EXCEPT ![p] = @ \ {f}]
          /\ event' = [event EXCEPT ![p] = f]
          /\ conn' = [conn EXCEPT ![p] = registry[f]]
    BY <1>2 DEF Lookup, Goto
  <2>2. f \in Fds /\ registry[f] \in Conns \cup {None}
    BY DEF TypeOK
  <2>3. /\ early' \in BOOLEAN
        /\ UNCHANGED <<accepted, acceptor, fdOf, open, watched, unread, toSend, gone, registry,
                       inbox, released, onClose, others, panicked>>
    BY <1>2 DEF Lookup, kernel, TypeOK
  <2>4. TypeOK'
    BY <1>0, <2>1, <2>2, <2>3 DEF TypeOK
  <2>5. Made'
    <3>1. \A a \in Actors : conn'[a] # None => conn'[a] < accepted
      BY <1>0, <2>1, <2>2 DEF Made, TypeOK
    <3>2. \A a \in Actors : at'[a] \notin Free => conn'[a] # None
      BY <1>0, <2>1, <2>2 DEF Made, TypeOK, Free
    <3>3. \A q \in Pollers : at'[q] \in {"orphan", "unwatch_orphan"} => event'[q] # None
      BY <1>0, <2>1, <2>2 DEF Made, TypeOK, Actors
    <3> QED
      BY <2>3, <3>1, <3>2, <3>3 DEF Made
  <2>6. Counted' /\ ReportedIsClosed'
    BY <2>3 DEF Counted, ReportedIsClosed, IsOpen
  <2> QED
    BY <2>4, <2>5, <2>6
<1>3. CASE CloseOrphan(p)
  <2>1. event[p] \in Fds
    BY <1>0, <1>3 DEF CloseOrphan, Goto, Made, TypeOK
  <2>2. /\ open' = [open EXCEPT ![event[p]] = None]
        /\ watched' \subseteq watched
        /\ at' = [at EXCEPT ![p] = "unwatch_orphan"]
        /\ UNCHANGED <<accepted, acceptor, fdOf, unread, toSend, gone, registry, batch, event,
                       conn, inbox, released, onClose, early, others, panicked>>
    BY <1>3 DEF CloseOrphan, KernelClose, Goto, history
  <2>3. TypeOK'
    BY <1>0, <2>1, <2>2 DEF TypeOK
  <2>4. \A f \in Fds : open'[f] # None => open'[f] = open[f]
    BY <2>1, <2>2 DEF TypeOK
  <2>5. Made'
    <3>1. \A a \in Actors : at'[a] \notin Free => conn[a] # None
      BY <1>0, <2>2 DEF Made, TypeOK, Free
    <3>2. \A q \in Pollers : at'[q] \in {"orphan", "unwatch_orphan"} => event[q] # None
      BY <1>0, <2>1, <2>2 DEF Made, TypeOK, Actors
    <3> QED
      BY <2>2, <2>4, <3>1, <3>2 DEF Made
  <2>6. Counted'
    BY <2>2 DEF Counted
  <2>7. \A d \in Conns : d # None
    OBVIOUS
  <2>8. ReportedIsClosed'
    BY <2>2, <2>4, <2>7 DEF ReportedIsClosed, IsOpen
  <2> QED
    BY <2>3, <2>5, <2>6, <2>8
<1>4. CASE UnwatchOrphan(p)
  <2>1. event[p] \in Fds
    BY <1>0, <1>4 DEF UnwatchOrphan, Goto, Made, TypeOK
  <2>2. watched' \subseteq Conns
    BY <1>4, <2>1, UnwatchType DEF UnwatchOrphan
  <2>3. TypeOK'
    BY <1>0, <1>4, <2>2 DEF UnwatchOrphan, Goto, TypeOK, history
  <2>4. Made'
    BY <1>0, <1>4 DEF UnwatchOrphan, Goto, TypeOK, Made, Free, history
  <2>5. Counted' /\ ReportedIsClosed'
    BY <1>4 DEF UnwatchOrphan, Counted, ReportedIsClosed, IsOpen
  <2> QED
    BY <2>3, <2>4, <2>5
<1>5. CASE DecodeRead(p)
  <2> DEFINE s == SocketOf(conn[p])
  <2>1. at[p] \notin Free
    BY <1>5 DEF DecodeRead, Goto, Free
  <2>2. conn[p] \in Conns /\ s \in Conns /\ unread[s] > 0
    BY <1>0, <1>5, <2>1, Working DEF DecodeRead
  <2>3. /\ unread' = [unread EXCEPT ![s] = @ - 1]
        /\ at' = [at EXCEPT ![p] = "store"]
        /\ UNCHANGED <<accepted, acceptor, fdOf, open, watched, toSend, gone, registry, batch,
                       event, conn, inbox, released, onClose, early, others, panicked>>
    BY <1>5 DEF DecodeRead, Goto, history
  <2>4. \A d \in Conns : unread'[d] \in 0..MaxMsg /\ unread'[d] <= unread[d]
    BY <2>2, <2>3 DEF TypeOK
  <2>5. unread' \in [Conns -> 0..MaxMsg]
    BY <2>2, <2>3, <2>4 DEF TypeOK
  <2>6. TypeOK'
    BY <1>0, <2>2, <2>3, <2>5 DEF TypeOK
  <2>7. Made'
    BY <1>0, <2>1, <2>3 DEF TypeOK, Made, Free
  <2>8. Counted'
    <3>1. \A d \in Conns : unread[d] \in Nat /\ toSend[d] \in Nat /\ unread'[d] \in Nat
      BY <2>4 DEF TypeOK
    <3> QED
      BY <2>3, <2>4, <3>1 DEF Counted
  <2>9. ReportedIsClosed'
    BY <2>3 DEF ReportedIsClosed, IsOpen
  <2> QED
    BY <2>6, <2>7, <2>8, <2>9
<1>6. CASE DecodeStore(p) \/ DecodeNothing(p)
  <2>1. at[p] \notin Free
    BY <1>6 DEF DecodeStore, DecodeNothing, Goto, Free
  <2>2. conn[p] \in Conns /\ conn[p] < accepted
    BY <1>0, <2>1, Working
  <2>3. /\ at' \in {[at EXCEPT ![p] = "idle"], [at EXCEPT ![p] = "unwatch"]}
        /\ inbox' \in {inbox, inbox \cup {conn[p]}}
        /\ panicked' \in BOOLEAN
        /\ UNCHANGED <<accepted, acceptor, fdOf, open, watched, unread, toSend, gone, registry,
                       batch, event, conn, released, onClose, early, others>>
    <3>1. CASE DecodeStore(p)
      BY <3>1 DEF DecodeStore, Goto, TypeOK, kernel, history
    <3>2. CASE DecodeNothing(p)
      BY <3>2 DEF DecodeNothing, Goto, TypeOK, kernel, history
    <3> QED
      BY <1>6, <3>1, <3>2
  <2>4. TypeOK'
    BY <1>0, <2>2, <2>3 DEF TypeOK
  <2>5. Made'
    <3>1. \A a \in Actors : at'[a] \notin Free => at[a] \notin Free
      BY <1>0, <2>1, <2>3 DEF TypeOK
    <3>2. \A q \in Pollers : at'[q] \in {"orphan", "unwatch_orphan"} => at[q] = at'[q]
      BY <1>0, <2>3 DEF TypeOK, Actors
    <3> QED
      BY <2>2, <2>3, <3>1, <3>2 DEF Made
  <2>6. Counted' /\ ReportedIsClosed'
    BY <2>3 DEF Counted, ReportedIsClosed, IsOpen
  <2> QED
    BY <2>4, <2>5, <2>6
<1> QED
  BY <1>0, <1>1, <1>2, <1>3, <1>4, <1>5, <1>6, CloseStepInv DEF PollerStep

-----------------------------------------------------------------------------
(* Handlers, the heartbeat check, the peers.                               *)

\* So do those of a handler.
LEMMA HandlerStepInv ==
  ASSUME IInv, NEW h \in Handlers, HandlerStep(h)
  PROVE  Kept'
<1> USE ConnLifecycleAssumption DEF IInv, Kept
<1>0. h \in Actors /\ h \notin Pollers
  BY DEF Actors
<1>1. CASE Dispatch(h)
  <2>1. PICK c \in inbox : /\ conn' = [conn EXCEPT ![h] = c]
                          /\ inbox' = inbox \ {c}
    BY <1>1 DEF Dispatch
  <2>2. c \in Conns /\ c < accepted
    BY DEF TypeOK, Made
  <2>3. /\ at' = [at EXCEPT ![h] = "handle"]
        /\ UNCHANGED <<accepted, acceptor, fdOf, open, watched, unread, toSend, gone, registry,
                       batch, event, released, onClose, early, others, panicked>>
    BY <1>1 DEF Dispatch, Goto, kernel, history
  <2>4. TypeOK'
    BY <1>0, <2>1, <2>2, <2>3 DEF TypeOK
  <2>5. Made'
    <3>1. \A a \in Actors : conn'[a] # None => conn'[a] < accepted
      BY <1>0, <2>1, <2>2 DEF Made, TypeOK
    <3>2. \A a \in Actors : at'[a] \notin Free => conn'[a] # None
      BY <1>0, <2>1, <2>2, <2>3 DEF Made, TypeOK
    <3>3. \A q \in Pollers : at'[q] = at[q]
      BY <1>0, <2>3 DEF TypeOK, Actors
    <3> QED
      BY <2>1, <2>3, <3>1, <3>2, <3>3 DEF Made
  <2>6. Counted' /\ ReportedIsClosed'
    BY <2>3 DEF Counted, ReportedIsClosed, IsOpen
  <2> QED
    BY <2>4, <2>5, <2>6
<1>2. CASE Return(h) \/ HandlerClose(h)
  <2>1. at[h] \notin Free
    BY <1>2 DEF Return, HandlerClose, Goto, Free
  <2>2. /\ at' \in {[at EXCEPT ![h] = "idle"], [at EXCEPT ![h] = "unwatch"]}
        /\ others' \in BOOLEAN
        /\ UNCHANGED <<accepted, acceptor, fdOf, open, watched, unread, toSend, gone, registry,
                       batch, event, conn, inbox, released, onClose, early, panicked>>
    BY <1>2 DEF Return, HandlerClose, Goto, kernel, history, TypeOK
  <2>3. TypeOK'
    BY <1>0, <2>2 DEF TypeOK
  <2>4. Made'
    <3>1. \A a \in Actors : at'[a] \notin Free => at[a] \notin Free
      BY <1>0, <2>1, <2>2 DEF TypeOK
    <3>2. \A q \in Pollers : at'[q] = at[q]
      BY <1>0, <2>2 DEF TypeOK, Actors
    <3> QED
      BY <2>2, <3>1, <3>2 DEF Made
  <2>5. Counted' /\ ReportedIsClosed'
    BY <2>2 DEF Counted, ReportedIsClosed, IsOpen
  <2> QED
    BY <2>3, <2>4, <2>5
<1> QED
  BY <1>0, <1>1, <1>2, CloseStepInv DEF HandlerStep

\* So do those of the heartbeat check.
LEMMA BeatStepInv ==
  ASSUME IInv, NEW b \in Heartbeats, BeatStep(b)
  PROVE  Kept'
<1> USE ConnLifecycleAssumption DEF IInv, Kept
<1>0. b \in Actors /\ b \notin Pollers
  BY DEF Actors
<1>1. CASE Beat(b)
  <2>1. PICK f \in Fds : registry[f] # None /\ conn' = [conn EXCEPT ![b] = registry[f]]
    BY <1>1 DEF Beat
  <2>2. registry[f] \in Conns /\ registry[f] < accepted
    BY <2>1 DEF TypeOK, Made
  <2>3. /\ at' = [at EXCEPT ![b] = "unwatch"] /\ others' = TRUE
        /\ UNCHANGED <<accepted, acceptor, fdOf, open, watched, unread, toSend, gone, registry,
                       batch, event, inbox, released, onClose, early, panicked>>
    BY <1>1 DEF Beat, Goto, kernel
  <2>4. TypeOK'
    BY <1>0, <2>1, <2>2, <2>3 DEF TypeOK
  <2>5. Made'
    <3>1. \A a \in Actors : conn'[a] # None => conn'[a] < accepted
      BY <1>0, <2>1, <2>2 DEF Made, TypeOK
    <3>2. \A a \in Actors : at'[a] \notin Free => conn'[a] # None
      BY <1>0, <2>1, <2>2, <2>3 DEF Made, TypeOK
    <3>3. \A q \in Pollers : at'[q] = at[q]
      BY <1>0, <2>3 DEF TypeOK, Actors
    <3> QED
      BY <2>3, <3>1, <3>2, <3>3 DEF Made
  <2>6. Counted' /\ ReportedIsClosed'
    BY <2>3 DEF Counted, ReportedIsClosed, IsOpen
  <2> QED
    BY <2>4, <2>5, <2>6
<1>2. CASE BeatUnregister(b)
  <2>1. at[b] \notin Free
    BY <1>2 DEF BeatUnregister, Goto, Free
  <2>2. fdOf[conn[b]] \in Fds
    BY <1>0, <2>1, Working
  <2>3. TypeOK'
    BY <1>0, <1>2, <2>2 DEF BeatUnregister, Goto, TypeOK, kernel, history
  <2>4. Made'
    BY <1>0, <1>2, <2>1, <2>2 DEF BeatUnregister, Goto, TypeOK, Made, Free, kernel, history
  <2>5. Counted' /\ ReportedIsClosed'
    BY <1>2 DEF BeatUnregister, Counted, ReportedIsClosed, IsOpen, kernel
  <2> QED
    BY <2>3, <2>4, <2>5
<1>3. CASE BeatUnwatch(b)
  <2>1. at[b] \notin Free
    BY <1>3 DEF BeatUnwatch, Goto, Free
  <2>2. fdOf[conn[b]] \in Fds
    BY <1>0, <2>1, Working
  <2>3. watched' \subseteq Conns
    BY <1>3, <2>2, UnwatchType DEF BeatUnwatch
  <2>4. TypeOK'
    BY <1>0, <1>3, <2>3 DEF BeatUnwatch, Goto, TypeOK, history
  <2>5. Made'
    BY <1>0, <1>3, <2>1 DEF BeatUnwatch, Goto, TypeOK, Made, Free, history
  <2>6. Counted' /\ ReportedIsClosed'
    BY <1>3 DEF BeatUnwatch, Counted, ReportedIsClosed, IsOpen
  <2> QED
    BY <2>4, <2>5, <2>6
<1> QED
  BY <1>0, <1>1, <1>2, <1>3, CloseStepInv DEF BeatStep

\* So do those of a peer.
LEMMA PeerStepInv ==
  ASSUME IInv, NEW c \in Conns, PeerSends(c) \/ PeerLeaves(c)
  PROVE  Kept'
<1> USE ConnLifecycleAssumption DEF IInv, Kept
<1>1. CASE PeerSends(c)
  <2>1. /\ toSend[c] > 0
        /\ toSend' = [toSend EXCEPT ![c] = @ - 1]
        /\ unread' = [unread EXCEPT ![c] = @ + 1]
        /\ UNCHANGED <<accepted, acceptor, fdOf, open, watched, gone, registry, batch, event, at,
                       conn, inbox, released, onClose, early, others, panicked>>
    BY <1>1 DEF PeerSends, history
  <2>2. /\ toSend[c] \in 0..MaxMsg /\ unread[c] \in 0..MaxMsg
        /\ unread[c] + toSend[c] <= MaxMsg
    BY DEF TypeOK, Counted
  <2>3. toSend[c] - 1 \in 0..MaxMsg /\ unread[c] + 1 \in 0..MaxMsg
    BY <2>1, <2>2
  <2>4. toSend' \in [Conns -> 0..MaxMsg] /\ unread' \in [Conns -> 0..MaxMsg]
    BY <2>1, <2>3 DEF TypeOK
  <2>5. TypeOK'
    BY <2>1, <2>4 DEF TypeOK
  <2>6. Made' /\ ReportedIsClosed'
    BY <2>1 DEF Made, ReportedIsClosed, IsOpen
  <2>7. ASSUME NEW d \in Conns PROVE unread'[d] + toSend'[d] <= MaxMsg
    <3>1. CASE d = c
      BY <2>1, <2>2, <3>1 DEF TypeOK
    <3>2. CASE d # c
      BY <2>1, <3>2 DEF TypeOK, Counted
    <3> QED
      BY <3>1, <3>2
  <2> QED
    BY <2>5, <2>6, <2>7 DEF Counted
<1>2. CASE PeerLeaves(c)
  <2>1. TypeOK'
    BY <1>2 DEF PeerLeaves, TypeOK, history
  <2>2. Made' /\ Counted' /\ ReportedIsClosed'
    BY <1>2 DEF PeerLeaves, Made, Counted, ReportedIsClosed, IsOpen, history
  <2> QED
    BY <2>1, <2>2
<1> QED
  BY <1>1, <1>2

-----------------------------------------------------------------------------
(* Nobody opens a socket again: what Close reports stays closed.           *)

\* Apart from accept and the first part of Close, no step opens a socket or begins to
\* report one.
LEMMA EndedFrame ==
  ASSUME IInv, [Next]_vars, ~Accept, \A a \in Actors : ~CloseFd(a)
  PROVE  /\ \A f \in Fds : open'[f] # None => open'[f] = open[f]
         /\ \A a \in Actors : Ending(a)' => Ending(a) /\ conn'[a] = conn[a]
<1> USE ConnLifecycleAssumption DEF IInv, Kept
<1> DEFINE Shrinks == \A f \in Fds : open'[f] # None => open'[f] = open[f]
           Stays == \A a \in Actors : Ending(a)' => Ending(a) /\ conn'[a] = conn[a]
<1>1. CASE AddRead \/ AddReadFailed \/ Add \/ UNCHANGED vars
  BY <1>1 DEF AddRead, AddReadFailed, Add, vars, kernel, Ending
<1>2. ASSUME NEW a \in Actors, CloseStep(a) PROVE Shrinks /\ Stays
  <2>1. /\ open' = open /\ conn' = conn
        /\ \E stage \in {"unregister", "close", "beat_unregister", "idle", "report"} :
             /\ at' = [at EXCEPT ![a] = stage]
             /\ stage = "report" => at[a] = "drop"
    BY <1>2 DEF CloseStep, CloseUnwatch, CloseUnregister, CloseDrop, CloseReport, AfterClose,
       Goto, kernel
  <2> QED
    BY <2>1 DEF Ending, TypeOK
<1>3. ASSUME NEW p \in Pollers, PollerStep(p) PROVE Shrinks /\ Stays
  <2>0. p \in Actors
    BY DEF Actors
  <2>1. CASE Wait(p)
    BY <2>1 DEF Wait, kernel, Ending
  <2>2. CASE CloseOrphan(p)
    <3>1. event[p] \in Fds
      BY <2>0, <2>2 DEF CloseOrphan, Goto, Made, TypeOK
    <3>2. /\ open' = [open EXCEPT ![event[p]] = None] /\ conn' = conn
          /\ at' = [at EXCEPT ![p] = "unwatch_orphan"]
      BY <2>2 DEF CloseOrphan, KernelClose, Goto
    <3> QED
      BY <2>0, <3>1, <3>2 DEF Ending, TypeOK
  <2>3. CASE Lookup(p)
    <3>1. /\ open' = open
          /\ \E stage \in {"orphan", "decode"} : at' = [at EXCEPT ![p] = stage]
          /\ \A a \in Actors \ {p} : conn'[a] = conn[a]
      BY <2>3 DEF Lookup, Goto, kernel, TypeOK
    <3> QED
      BY <2>0, <3>1 DEF Ending, TypeOK
  <2>4. CASE UnwatchOrphan(p) \/ DecodeRead(p) \/ DecodeStore(p) \/ DecodeNothing(p)
    <3>1. /\ open' = open /\ conn' = conn
          /\ \E stage \in {"idle", "store", "unwatch"} : at' = [at EXCEPT ![p] = stage]
      BY <2>4 DEF UnwatchOrphan, DecodeRead, DecodeStore, DecodeNothing, Goto, kernel
    <3> QED
      BY <2>0, <3>1 DEF Ending, TypeOK
  <2> QED
    BY <1>2, <1>3, <2>0, <2>1, <2>2, <2>3, <2>4 DEF PollerStep
<1>4. ASSUME NEW h \in Handlers, HandlerStep(h) PROVE Shrinks /\ Stays
  <2>0. h \in Actors
    BY DEF Actors
  <2>1. CASE Dispatch(h) \/ Return(h) \/ HandlerClose(h)
    <3>1. /\ open' = open
          /\ \E stage \in {"handle", "idle", "unwatch"} : at' = [at EXCEPT ![h] = stage]
          /\ \A a \in Actors \ {h} : conn'[a] = conn[a]
      BY <2>1 DEF Dispatch, Return, HandlerClose, Goto, kernel, TypeOK
    <3> QED
      BY <2>0, <3>1 DEF Ending, TypeOK
  <2> QED
    BY <1>2, <1>4, <2>0, <2>1 DEF HandlerStep
<1>5. ASSUME NEW b \in Heartbeats, BeatStep(b) PROVE Shrinks /\ Stays
  <2>0. b \in Actors
    BY DEF Actors
  <2>1. CASE Beat(b) \/ BeatUnregister(b) \/ BeatUnwatch(b)
    <3>1. /\ open' = open
          /\ \E stage \in {"unwatch", "beat_unwatch", "idle"} : at' = [at EXCEPT ![b] = stage]
          /\ \A a \in Actors \ {b} : conn'[a] = conn[a]
      BY <2>1 DEF Beat, BeatUnregister, BeatUnwatch, Goto, kernel, TypeOK
    <3> QED
      BY <2>0, <3>1 DEF Ending, TypeOK
  <2> QED
    BY <1>2, <1>5, <2>0, <2>1 DEF BeatStep
<1>6. ASSUME NEW c \in Conns, PeerSends(c) \/ PeerLeaves(c) PROVE Shrinks /\ Stays
  BY <1>6 DEF PeerSends, PeerLeaves, Ending
<1> QED
  BY <1>1, <1>3, <1>4, <1>5, <1>6 DEF Next

\* Every step leaves closed what Close is about to report.
LEMMA EndedStep == IInv /\ [Next]_vars => Ended'
<1> SUFFICES ASSUME IInv, [Next]_vars, NEW b \in Actors, Ending(b)' PROVE ~IsOpen(conn[b])'
  BY DEF Ended
<1> USE ConnLifecycleAssumption DEF IInv, Kept
<1>1. ASSUME Ending(b), conn'[b] = conn[b],
             \A f \in Fds : open'[f] # None => open'[f] = open[f] \/ open'[f] = accepted
      PROVE  ~IsOpen(conn[b])'
  <2>1. conn[b] \in Conns /\ conn[b] < accepted /\ ~IsOpen(conn[b])
    BY <1>1, Working DEF Ending, Free, Ended
  <2>2. conn[b] # None /\ conn[b] # accepted
    BY <2>1 DEF Conns, TypeOK
  <2> QED
    BY <1>1, <2>1, <2>2 DEF IsOpen
<1>2. CASE Accept
  <2>1. /\ \A f \in Fds : open'[f] = open[f] \/ open'[f] = accepted
        /\ at' = at /\ conn' = conn
    BY <1>2 DEF Accept, TypeOK
  <2> QED
    BY <1>1, <2>1 DEF Ending
<1>3. ASSUME NEW a \in Actors, CloseFd(a) PROVE ~IsOpen(conn[b])'
  <2>1. conn[a] \in Conns /\ fdOf[conn[a]] \in Fds
    BY <1>3, Working DEF CloseFd, Goto, Free
  <2>2. /\ open' = [open EXCEPT ![fdOf[conn[a]]] = None] /\ conn' = conn
        /\ \E stage \in {"drop", "drop_failed"} : at' = [at EXCEPT ![a] = stage]
    BY <1>3 DEF CloseFd, KernelClose, Goto
  <2>3. open'[fdOf[conn[a]]] = None /\ \A f \in Fds : open'[f] # None => open'[f] = open[f]
    BY <2>1, <2>2 DEF TypeOK
  <2>4. CASE b = a
    <3>1. conn[a] # None
      BY <2>1
    <3>2. ASSUME NEW f \in Fds, open'[f] = conn[a] PROVE FALSE
      BY <2>3, <3>1, <3>2 DEF Made
    <3> QED
      BY <2>2, <2>4, <3>2 DEF IsOpen
  <2>5. CASE b # a
    BY <1>1, <2>2, <2>3, <2>5 DEF Ending, TypeOK
  <2> QED
    BY <2>4, <2>5
<1>4. CASE ~Accept /\ \A a \in Actors : ~CloseFd(a)
  BY <1>1, <1>4, EndedFrame
<1> QED
  BY <1>2, <1>3, <1>4

-----------------------------------------------------------------------------
(* The theorems.                                                           *)

\* Every step preserves the invariant.
LEMMA StepInv == IInv /\ [Next]_vars => IInv'
<1> SUFFICES ASSUME IInv, [Next]_vars PROVE IInv'
  OBVIOUS
<1>1. CASE Next
  BY <1>1, EndedStep, AcceptorStepInv, PollerStepInv, HandlerStepInv, BeatStepInv, PeerStepInv
     DEF Next, IInv
<1>2. CASE UNCHANGED vars
  BY <1>2, EndedStep DEF vars, kernel, history, IInv, Kept, TypeOK, Made, Counted,
     ReportedIsClosed, IsOpen
<1> QED
  BY <1>1, <1>2

\* The invariant is inductive: it holds in every reachable state.
THEOREM Inductive == Spec => []IInv
BY InitInv, StepInv, PTL DEF Spec

\* Every variable keeps its type: in particular no message is read that was not
\* received, and descriptors and connections stay within what the kernel gave.
THEOREM LifecycleTypeCorrect == Spec => []TypeOK
<1>1. IInv => TypeOK
  BY DEF IInv, Kept
<1> QED
  BY <1>1, Inductive, PTL

\* When OnClose has run for a connection, its socket is closed and no accept,
\* no descriptor reuse and no other Close opens it again (Close of
\* server/router.go, whoever calls it and however often).
THEOREM ReportedStaysClosed == Spec => []ReportedIsClosed
<1>1. IInv => ReportedIsClosed
  BY DEF IInv, Kept
<1> QED
  BY <1>1, Inductive, PTL

-----------------------------------------------------------------------------
(* OnClose runs once.  A connection that is not open was closed or shares  *)
(* its descriptor: the second Close of an unshared one finds nothing open. *)

\* A connection has no descriptor before accept returns it.
Unmade == \A c \in Conns : c >= accepted => fdOf[c] = None

Unshared(c) == \A d \in Conns \ {c} : fdOf[d] # fdOf[c]

\* One goroutine at most is about to report c, and nobody has.
Once(c) ==
  /\ onClose[c] <= 1
  /\ \A a \in Actors : Ending(a) /\ conn[a] = c =>
       onClose[c] = 0 /\ \A b \in Actors : Ending(b) /\ conn[b] = c => a = b

UnsharedOnce == Unmade /\ \A c \in Conns : Unshared(c) => Once(c)

\* Nothing is shared and nothing reported initially.
LEMMA OnceInit == Init => UnsharedOnce
BY DEF Init, Unmade, UnsharedOnce, Once, Ending

\* Only accept gives descriptors, and only the last step of Close reports.
LEMMA OnceFrame ==
  ASSUME [Next]_vars, ~Accept, \A a \in Actors : ~CloseReport(a)
  PROVE  UNCHANGED <<accepted, fdOf, onClose>>
<1>1. CASE AddRead \/ AddReadFailed \/ Add \/ UNCHANGED vars
  BY <1>1 DEF AddRead, AddReadFailed, Add, vars
<1>2. ASSUME NEW a \in Actors, CloseStep(a) PROVE UNCHANGED <<accepted, fdOf, onClose>>
  BY <1>2 DEF CloseStep, CloseUnwatch, CloseUnregister, CloseFd, CloseDrop
<1>3. ASSUME NEW p \in Pollers, PollerStep(p) PROVE UNCHANGED <<accepted, fdOf, onClose>>
  BY <1>2, <1>3 DEF PollerStep, Wait, Lookup, CloseOrphan, UnwatchOrphan, DecodeRead, DecodeStore,
     DecodeNothing, Actors
<1>4. ASSUME NEW h \in Handlers, HandlerStep(h) PROVE UNCHANGED <<accepted, fdOf, onClose>>
  BY <1>2, <1>4 DEF HandlerStep, Dispatch, Return, HandlerClose, Actors
<1>5. ASSUME NEW b \in Heartbeats, BeatStep(b) PROVE UNCHANGED <<accepted, fdOf, onClose>>
  BY <1>2, <1>5 DEF BeatStep, Beat, BeatUnregister, BeatUnwatch, Actors
<1>6. ASSUME NEW c \in Conns, PeerSends(c) \/ PeerLeaves(c)
      PROVE  UNCHANGED <<accepted, fdOf, onClose>>
  BY <1>6 DEF PeerSends, PeerLeaves
<1> QED
  BY <1>1, <1>3, <1>4, <1>5, <1>6 DEF Next

\* A new connection takes nobody's place, and is not reported.
LEMMA OnceAccept == ASSUME IInv, UnsharedOnce, Accept PROVE UnsharedOnce'
<1> USE ConnLifecycleAssumption DEF IInv, Kept
<1>1. PICK f \in Fds : fdOf' = [fdOf EXCEPT ![accepted] = f]
  BY DEF Accept
<1>2. /\ accepted \in Conns /\ accepted \in Nat /\ accepted' = accepted + 1
      /\ UNCHANGED <<onClose, at, conn>>
  BY DEF Accept, TypeOK, Conns
<1>3. \A c \in Conns : c \in Nat
  BY DEF Conns
<1>4. ASSUME NEW c \in Conns, c >= accepted' PROVE fdOf'[c] = None
  <2>1. c >= accepted /\ c # accepted
    BY <1>2, <1>3, <1>4
  <2> QED
    BY <1>1, <2>1 DEF UnsharedOnce, Unmade, TypeOK
<1>5. ASSUME NEW c \in Conns, Unshared(c)' PROVE Once(c)
  <2>1. CASE c >= accepted
    <3>1. onClose[c] = 0
      BY <2>1 DEF Made
    <3>2. ASSUME NEW a \in Actors, Ending(a) PROVE conn[a] # c
      BY <1>2, <1>3, <2>1, <3>2, Working DEF Ending, Free
    <3> QED
      BY <3>1, <3>2 DEF Once
  <2>2. CASE c < accepted
    <3>1. c # accepted /\ fdOf[c] \in Fds /\ fdOf'[c] = fdOf[c]
      BY <1>1, <1>2, <1>3, <2>2 DEF Made, TypeOK
    <3>2. fdOf[accepted] = None
      BY <1>2 DEF UnsharedOnce, Unmade
    <3>3. Unshared(c)
      BY <1>1, <1>2, <1>5, <3>1, <3>2 DEF Unshared, TypeOK
    <3> QED
      BY <3>3 DEF UnsharedOnce
  <2> QED
    BY <1>2, <1>3, <2>1, <2>2
<1> QED
  BY <1>2, <1>4, <1>5 DEF UnsharedOnce, Unmade, Once, Ending

\* The Close that closes the socket is the only one to report the connection.
LEMMA OnceCloseFd ==
  ASSUME IInv, UnsharedOnce, NEW a \in Actors, CloseFd(a), UNCHANGED <<accepted, fdOf, onClose>>
  PROVE  UnsharedOnce'
<1> USE ConnLifecycleAssumption DEF IInv, Kept
<1> DEFINE c == conn[a]
           s == SocketOf(c)
<1>1. c \in Conns /\ fdOf[c] \in Fds /\ s \in Conns \cup {None}
  BY Working DEF CloseFd, Goto, Free
<1>2. /\ at' = [at EXCEPT ![a] = IF s # None THEN "drop" ELSE "drop_failed"]
      /\ conn' = conn
  BY DEF CloseFd, Goto
<1>3. \A b \in Actors \ {a} : Ending(b)' <=> Ending(b)
  BY <1>2 DEF Ending, TypeOK
<1>4. Ending(a)' => s # None
  BY <1>2 DEF Ending, TypeOK
<1>5. ASSUME NEW d \in Conns, Unshared(d) PROVE Once(d)'
  <2>1. Once(d)
    BY <1>5 DEF UnsharedOnce
  <2>2. CASE d = c /\ Ending(a)'
    <3>1. s \in Conns /\ fdOf[s] = fdOf[c] /\ open[fdOf[c]] = s
      BY <1>1, <1>4, <2>2 DEF Made, SocketOf
    <3>2. s = c
      BY <1>1, <1>5, <2>2, <3>1 DEF Unshared
    <3>3. IsOpen(c)
      BY <1>1, <3>1, <3>2 DEF IsOpen
    <3>4. onClose[c] = 0 /\ \A b \in Actors : Ending(b) => conn[b] # c
      BY <1>1, <3>3 DEF ReportedIsClosed, Ended, TypeOK
    <3>5. \A b \in Actors : Ending(b)' /\ conn'[b] = c => b = a
      BY <1>2, <1>3, <3>4
    <3> QED
      BY <2>2, <3>4, <3>5 DEF Once
  <2>3. CASE ~(d = c /\ Ending(a)')
    <3>1. \A b \in Actors : Ending(b)' /\ conn'[b] = d => Ending(b) /\ conn[b] = d
      BY <1>2, <1>3, <2>3
    <3> QED
      BY <2>1, <3>1 DEF Once
  <2> QED
    BY <2>2, <2>3
<1> QED
  BY <1>5 DEF UnsharedOnce, Unmade, Unshared

\* It reports it, and is no longer about to.
LEMMA OnceCloseReport ==
  ASSUME IInv, UnsharedOnce, NEW a \in Actors, CloseReport(a)
  PROVE  UnsharedOnce'
<1> USE ConnLifecycleAssumption DEF IInv, Kept
<1> DEFINE c == conn[a]
<1>1. c \in Conns /\ Ending(a)
  BY Working DEF CloseReport, Goto, Free, Ending
<1>2. /\ \E stage \in {"beat_unregister", "idle"} : at' = [at EXCEPT ![a] = stage]
      /\ onClose' = [onClose EXCEPT ![c] = @ + 1]
      /\ UNCHANGED <<accepted, fdOf, conn>>
  BY DEF CloseReport, AfterClose, Goto
<1>3. ~Ending(a)' /\ \A b \in Actors \ {a} : Ending(b)' <=> Ending(b)
  BY <1>2 DEF Ending, TypeOK
<1>4. \A d \in Conns : onClose'[d] = IF d = c THEN onClose[c] + 1 ELSE onClose[d]
  BY <1>1, <1>2 DEF TypeOK
<1>5. ASSUME NEW d \in Conns, Unshared(d) PROVE Once(d)'
  <2>1. Once(d)
    BY <1>5 DEF UnsharedOnce
  <2>2. CASE d = c
    <3>1. onClose'[d] = 1
      BY <1>1, <1>4, <2>1, <2>2 DEF Once
    <3>2. \A b \in Actors : Ending(b)' => conn'[b] # d
      BY <1>1, <1>2, <1>3, <2>1, <2>2 DEF Once
    <3> QED
      BY <3>1, <3>2 DEF Once
  <2>3. CASE d # c
    BY <1>2, <1>3, <1>4, <2>1, <2>3 DEF Once
  <2> QED
    BY <2>2, <2>3
<1> QED
  BY <1>2, <1>5 DEF UnsharedOnce, Unmade, Unshared

\* Every step keeps the count of an unshared connection at one or less.
LEMMA OnceStep == IInv /\ UnsharedOnce /\ [Next]_vars => UnsharedOnce'
<1> SUFFICES ASSUME IInv, UnsharedOnce, [Next]_vars PROVE UnsharedOnce'
  OBVIOUS
<1>1. CASE \E a \in Actors : CloseFd(a)
  <2>1. PICK a \in Actors : CloseFd(a)
    BY <1>1
  <2>2. UNCHANGED <<accepted, fdOf, onClose>>
    BY <2>1 DEF CloseFd
  <2> QED
    BY <2>1, <2>2, OnceCloseFd
<1>2. CASE ~Accept /\ (\A a \in Actors : ~CloseFd(a)) /\ (\A a \in Actors : ~CloseReport(a))
  <2>1. UNCHANGED <<accepted, fdOf, onClose>>
    BY <1>2, OnceFrame
  <2>2. \A a \in Actors : Ending(a)' => Ending(a) /\ conn'[a] = conn[a]
    BY <1>2, EndedFrame
  <2>3. ASSUME NEW c \in Conns, Once(c) PROVE Once(c)'
    BY <2>1, <2>2, <2>3 DEF Once
  <2> QED
    BY <2>1, <2>3 DEF UnsharedOnce, Unmade, Unshared
<1> QED
  BY <1>1, <1>2, OnceAccept, OnceCloseReport

\* OnClose runs at most once for a connection whose descriptor no other
\* connection is given, although pollers, handlers and the heartbeat check may
\* all run Close on it at the same time (server/router.go).
THEOREM ReportedOnce == Spec => []OnCloseOnce
<1>1. UnsharedOnce => OnCloseOnce
  BY DEF UnsharedOnce, Unshared, Once, OnCloseOnce
<1> QED
  BY <1>1, Inductive, OnceInit, OnceStep, PTL DEF Spec

-----------------------------------------------------------------------------
(* As long as Calm holds, a connection is closed by its own poller and by  *)
(* nobody else, so its descriptor is not given away while its poller works *)
(* on it.                                                                  *)

\* The acceptor has finished with c.
Added(c) == c < accepted /\ (acceptor = "accept" \/ c # accepted - 1)

Holds(c) == SocketOf(c) = c

\* Where a poller works on an open connection.
Busy == {"decode", "store", "unwatch", "unregister", "close"}

\* Where the goroutines can be: nobody finds an orphan, only pollers close.
Places ==
  /\ \A h \in Handlers : at[h] \in {"idle", "handle"}
  /\ \A b \in Heartbeats : at[b] = "idle"
  /\ \A p \in Pollers : at[p] \in Busy \cup {"idle", "drop", "report"}

\* What the acceptor has for the connection it is making.
Fresh ==
  /\ acceptor # "accept" => /\ Holds(accepted - 1)
                            /\ registry[fdOf[accepted - 1]] = None
  /\ acceptor = "addread" => accepted - 1 \notin watched
  /\ acceptor = "add" => accepted - 1 \in watched

\* A poller works on an open connection of its own, and on no other event of it.
Own ==
  \A p \in Pollers : at[p] \in Busy =>
    /\ Added(conn[p]) /\ PollerOf(conn[p]) = p /\ Holds(conn[p])
    /\ fdOf[conn[p]] \notin batch[p]
    /\ at[p] = "close" => registry[fdOf[conn[p]]] = None

\* It reports a connection of its own, for the first time.
Parting ==
  \A p \in Pollers : Ending(p) => PollerOf(conn[p]) = p /\ onClose[conn[p]] = 0

\* The events it has still to handle are of connections it can find, but for the one
\* that the acceptor is about to add.
Due ==
  \A p \in Pollers : \A f \in batch[p] :
    /\ open[f] # None /\ PollerOf(open[f]) = p
    /\ registry[f] = open[f] \/ (acceptor = "add" /\ f = fdOf[accepted - 1])

\* The registry has no closed connection, and the kernel watches none.
NoneStale ==
  /\ \A f \in Fds : registry[f] # None => registry[f] = open[f]
  /\ \A c \in watched : c < accepted /\ Holds(c)

\* An open connection is registered and watched, or its poller is closing it.
NoneLost ==
  \A f \in Fds : open[f] # None /\ Added(open[f]) =>
    LET c == open[f]  p == PollerOf(c) IN
    /\ registry[f] = c \/ (at[p] = "close" /\ conn[p] = c)
    /\ c \in watched \/ (at[p] \in {"unregister", "close"} /\ conn[p] = c)

\* Its poller is about to report c.
Leaving(c) == Ending(PollerOf(c)) /\ conn[PollerOf(c)] = c

\* A connection is open, or reported once, or about to be; it keeps its read buffer
\* while it is open.
Reported ==
  /\ \A c \in Conns : c < accepted => Holds(c) \/ onClose[c] = 1 \/ Leaving(c)
  /\ \A c \in released : c < accepted /\ ~Holds(c)

Settled ==
  Places /\ Fresh /\ Own /\ Parting /\ Due /\ NoneStale /\ NoneLost /\ Reported /\ ~panicked

\* Every connection has a poller that runs.
LEMMA PollerOfIsPoller == ASSUME NEW c \in Conns PROVE PollerOf(c) \in Pollers
<1>1. c \in Nat /\ NumPoller \in Nat \ {0}
  BY ConnLifecycleAssumption DEF Conns
<1>2. c % NumPoller \in 0..NumPoller - 1
  BY <1>1
<1> QED
  BY <1>2 DEF PollerOf, Pollers

\* An open socket is that of the connection that uses its descriptor.
LEMMA HoldsIsOpen ==
  ASSUME IInv, NEW c \in Conns, c < accepted
  PROVE  Holds(c) <=> IsOpen(c)
<1>1. fdOf[c] \in Fds /\ c # None
  BY ConnLifecycleAssumption DEF IInv, Kept, Made
<1>2. ASSUME NEW f \in Fds, open[f] = c PROVE fdOf[c] = f
  BY <1>1, <1>2 DEF IInv, Kept, Made
<1> QED
  BY <1>1, <1>2 DEF Holds, SocketOf, IsOpen

\* What Settled says of a poller at work.
LEMMA AtWork ==
  ASSUME IInv, Settled, NEW p \in Pollers, at[p] \in Busy
  PROVE  /\ conn[p] \in Conns /\ conn[p] < accepted /\ fdOf[conn[p]] \in Fds
         /\ Added(conn[p]) /\ PollerOf(conn[p]) = p /\ Holds(conn[p])
         /\ fdOf[conn[p]] \notin batch[p]
<1>1. p \in Actors /\ at[p] \notin Free
  BY DEF Busy, Free, Actors
<1>2. conn[p] \in Conns /\ conn[p] < accepted /\ fdOf[conn[p]] \in Fds
  BY <1>1, Working
<1> QED
  BY <1>2 DEF Settled, Own

\* What it says of a poller that has closed a connection.
LEMMA AtParting ==
  ASSUME IInv, Settled, NEW p \in Pollers, Ending(p)
  PROVE  /\ conn[p] \in Conns /\ conn[p] < accepted
         /\ PollerOf(conn[p]) = p /\ ~Holds(conn[p]) /\ onClose[conn[p]] = 0
<1>1. p \in Actors /\ at[p] \notin Free
  BY DEF Ending, Free, Actors
<1>2. conn[p] \in Conns /\ conn[p] < accepted
  BY <1>1, Working
<1>3. ~Holds(conn[p])
  BY <1>1, <1>2, HoldsIsOpen DEF IInv, Ended
<1> QED
  BY <1>2, <1>3 DEF Settled, Parting

\* A server that starts is settled.
LEMMA SettledInit == Init => Settled
<1> SUFFICES ASSUME Init PROVE Settled
  OBVIOUS
<1> USE ConnLifecycleAssumption DEF Init
<1>1. Places
  BY DEF Places, Actors
<1>2. Fresh
  BY DEF Fresh
<1>3. Own /\ Parting
  BY DEF Own, Parting, Ending, Busy, Actors
<1>4. Due /\ NoneStale
  BY DEF Due, NoneStale
<1>5. NoneLost
  BY DEF NoneLost
<1>6. Reported
  BY DEF Reported, Conns
<1> QED
  BY <1>1, <1>2, <1>3, <1>4, <1>5, <1>6 DEF Settled

\* The handlers and the peers leave alone what Settled is about.
LEMMA SettledOthers ==
  ASSUME IInv, IInv', Settled, Calm',
         \/ \E h \in Handlers : HandlerStep(h)
         \/ \E b \in Heartbeats : BeatStep(b)
         \/ \E c \in Conns : PeerSends(c) \/ PeerLeaves(c)
  PROVE  Settled'
<1> USE ConnLifecycleAssumption
<1>1. ASSUME NEW h \in Handlers, HandlerStep(h) PROVE Settled'
  <2>1. at[h] \in {"idle", "handle"} /\ h \in Actors /\ h \notin Pollers \cup Heartbeats
    BY DEF Settled, Places, Actors
  <2>2. /\ \A a \in Actors \ {h} : at'[a] = at[a] /\ conn'[a] = conn[a]
        /\ at'[h] \in {"idle", "handle"}
        /\ UNCHANGED <<accepted, acceptor, fdOf, open, watched, unread, toSend, gone, registry,
                       batch, event, released, onClose, panicked>>
    <3>1. CASE Dispatch(h)
      BY <2>1, <3>1 DEF Dispatch, Goto, kernel, IInv, Kept, TypeOK
    <3>2. CASE Return(h)
      BY <2>1, <3>2 DEF Return, Goto, kernel, IInv, Kept, TypeOK
    <3>3. ~HandlerClose(h) /\ ~CloseStep(h)
      BY <2>1 DEF HandlerClose, CloseStep, CloseUnwatch, CloseUnregister, CloseFd, CloseDrop,
         CloseReport, Goto, Calm
    <3> QED
      BY <1>1, <3>1, <3>2, <3>3 DEF HandlerStep
  <2>3. \A p \in Pollers : at'[p] = at[p] /\ conn'[p] = conn[p]
    BY <2>1, <2>2 DEF Actors
  <2>4. Places'
    BY <2>1, <2>2, <2>3 DEF Settled, Places, Actors
  <2>5. Fresh' /\ NoneStale'
    BY <2>2 DEF Settled, Fresh, NoneStale, Added, Holds, SocketOf
  <2>6. Own' /\ Parting' /\ Due'
    BY <2>2, <2>3 DEF Settled, Own, Parting, Due, Ending, Added, Holds, SocketOf
  <2>7. NoneLost' /\ Reported'
    BY <2>2, <2>3, PollerOfIsPoller DEF Settled, NoneLost, Reported, Leaving, Ending, Added, Holds,
       SocketOf, IInv, Kept, TypeOK
  <2> QED
    BY <2>2, <2>4, <2>5, <2>6, <2>7 DEF Settled
<1>2. ASSUME NEW b \in Heartbeats, BeatStep(b) PROVE FALSE
  BY <1>2 DEF BeatStep, Beat, BeatUnregister, BeatUnwatch, CloseStep, CloseUnwatch, CloseUnregister,
     CloseFd, CloseDrop, CloseReport, Goto, Calm, Settled, Places
<1>3. ASSUME NEW c \in Conns, PeerSends(c) \/ PeerLeaves(c) PROVE Settled'
  <2>1. UNCHANGED <<accepted, acceptor, fdOf, open, watched, registry, batch, event, at, conn,
                    inbox, released, onClose, panicked>>
    BY <1>3 DEF PeerSends, PeerLeaves
  <2> QED
    BY <2>1 DEF Settled, Places, Fresh, Own, Parting, Due, NoneStale, NoneLost, Reported, Leaving,
       Ending, Added, Holds, SocketOf
<1> QED
  BY <1>1, <1>2, <1>3

\* The acceptor makes one connection after the other.
LEMMA SettledAccept ==
  ASSUME IInv, IInv', Settled, Accept
  PROVE  Settled'
<1> USE ConnLifecycleAssumption
<1>1. PICK f \in Fds : /\ open[f] = None
                       /\ fdOf' = [fdOf EXCEPT ![accepted] = f]
                       /\ open' = [open EXCEPT ![f] = accepted]
  BY DEF Accept
<1>2. /\ acceptor = "accept" /\ accepted \in Conns /\ accepted \in Nat
      /\ accepted' = accepted + 1 /\ acceptor' = "addread"
      /\ UNCHANGED <<watched, unread, toSend, gone, registry, batch, event, at, conn,
                     inbox, released, onClose, panicked>>
  BY DEF Accept, IInv, Kept, TypeOK, Conns
<1>3. /\ \A c \in Conns : c \in Nat /\ c # None
      /\ fdOf \in [Conns -> Fds \cup {None}] /\ open \in [Fds -> Conns \cup {None}]
      /\ \A g \in Fds : g # None
  <2>1. \A c \in Conns : c \in Nat
    BY DEF Conns
  <2> QED
    BY <2>1 DEF IInv, Kept, TypeOK
<1>4. \A c \in Conns : (Added(c)' <=> c < accepted) /\ (Added(c) <=> c < accepted)
  BY <1>2, <1>3 DEF Added
<1>5. ASSUME NEW c \in Conns, c < accepted
      PROVE  fdOf'[c] = fdOf[c] /\ fdOf[c] \in Fds /\ (Holds(c)' <=> Holds(c))
             /\ (Holds(c) => fdOf[c] # f)
  <2>1. c # accepted /\ fdOf[c] \in Fds
    BY <1>2, <1>3, <1>5 DEF IInv, Kept, Made
  <2>2. fdOf'[c] = fdOf[c]
    BY <1>1, <1>3, <2>1
  <2>3. Holds(c) => fdOf[c] # f
    BY <1>1, <1>3 DEF Holds, SocketOf
  <2>4. CASE fdOf[c] = f
    BY <1>1, <1>2, <1>3, <2>1, <2>2, <2>3, <2>4 DEF Holds, SocketOf
  <2>5. CASE fdOf[c] # f
    BY <1>1, <1>3, <2>1, <2>2, <2>5 DEF Holds, SocketOf
  <2> QED
    BY <2>1, <2>2, <2>3, <2>4, <2>5
<1>6. PICK n \in Conns : n = accepted
  BY <1>2
<1>7. fdOf'[n] = f /\ Holds(n)' /\ accepted' - 1 = n
  BY <1>1, <1>2, <1>3, <1>6 DEF Holds, SocketOf
<1>8. registry[f] = None
  BY <1>1 DEF Settled, NoneStale
<1>9. Places' /\ Parting'
  BY <1>2 DEF Settled, Places, Parting, Ending, PollerOf
<1>10. Fresh'
  <2>1. n \notin watched
    BY <1>2, <1>3, <1>6 DEF Settled, NoneStale
  <2>2. Holds(accepted - 1)' /\ registry'[fdOf'[accepted' - 1]] = None
    BY <1>2, <1>7, <1>8 DEF Holds, SocketOf
  <2> QED
    BY <1>2, <1>7, <2>1, <2>2 DEF Fresh
<1>11. Own'
  <2>1. ASSUME NEW p \in Pollers, at[p] \in Busy
        PROVE  /\ Added(conn[p])' /\ PollerOf(conn[p]) = p /\ Holds(conn[p])'
               /\ fdOf'[conn[p]] = fdOf[conn[p]] /\ fdOf[conn[p]] \notin batch[p]
               /\ at[p] = "close" => registry[fdOf[conn[p]]] = None
    <3>1. conn[p] \in Conns /\ conn[p] < accepted
      BY <2>1, AtWork
    <3>2. Added(conn[p])' /\ Holds(conn[p])' /\ fdOf'[conn[p]] = fdOf[conn[p]]
      BY <1>2, <1>4, <1>5, <2>1, <3>1, AtWork DEF Added, Holds, SocketOf
    <3> QED
      BY <2>1, <3>2 DEF Settled, Own
  <2> QED
    BY <1>2, <2>1 DEF Own, Added, Holds, SocketOf, PollerOf
<1>12. Due'
  <2>1. ASSUME NEW p \in Pollers, NEW g \in batch[p]
        PROVE  g \in Fds /\ open'[g] = open[g] /\ registry[g] = open[g]
    BY <1>1, <1>2, <1>3 DEF IInv, Kept, TypeOK, Settled, Due
  <2> QED
    BY <1>2, <2>1 DEF Settled, Due, PollerOf
<1>13. NoneStale'
  <2>1. ASSUME NEW g \in Fds, registry[g] # None PROVE registry[g] = open'[g]
    BY <1>1, <1>3, <1>8, <2>1 DEF Settled, NoneStale
  <2>2. ASSUME NEW c \in watched PROVE c < accepted' /\ Holds(c)'
    <3>1. c \in Conns /\ c < accepted /\ Holds(c)
      BY DEF Settled, NoneStale, IInv, Kept, TypeOK
    <3> QED
      BY <1>2, <1>3, <1>5, <3>1
  <2> QED
    BY <1>2, <2>1, <2>2 DEF NoneStale, Holds, SocketOf
<1>14. NoneLost'
  <2>1. ASSUME NEW g \in Fds, NEW c \in Conns, open'[g] = c, Added(c)'
        PROVE  open[g] = c /\ Added(c)
    <3>1. c < accepted
      BY <1>4, <2>1
    <3>2. g # f
      BY <1>1, <1>2, <1>3, <2>1, <3>1
    <3> QED
      BY <1>1, <1>3, <1>4, <2>1, <3>1, <3>2
  <2>2. ASSUME NEW g \in Fds, NEW c \in Conns, open'[g] = c, Added(c)'
        PROVE  /\ registry[g] = c \/ (at[PollerOf(c)] = "close" /\ conn[PollerOf(c)] = c)
               /\ \/ c \in watched
                  \/ at[PollerOf(c)] \in {"unregister", "close"} /\ conn[PollerOf(c)] = c
    BY <1>3, <2>1, <2>2 DEF Settled, NoneLost
  <2>3. \A g \in Fds : open'[g] # None => open'[g] \in Conns
    BY DEF IInv, Kept, TypeOK
  <2> QED
    BY <1>2, <2>2, <2>3 DEF NoneLost, Added, PollerOf
<1>15. Reported'
  <2>1. ASSUME NEW c \in Conns, c < accepted'
        PROVE  Holds(c)' \/ onClose'[c] = 1 \/ Leaving(c)'
    <3>1. CASE c = accepted
      BY <1>6, <1>7, <3>1 DEF Holds, SocketOf
    <3>2. CASE c # accepted
      <4>1. c < accepted
        BY <1>2, <1>3, <2>1, <3>2
      <4>2. Leaving(c)' <=> Leaving(c)
        BY <1>2 DEF Leaving, Ending, PollerOf
      <4> QED
        BY <1>2, <1>5, <4>1, <4>2 DEF Settled, Reported
    <3> QED
      BY <3>1, <3>2
  <2>2. ASSUME NEW c \in released PROVE c < accepted' /\ ~Holds(c)'
    <3>1. c \in Conns /\ c < accepted /\ ~Holds(c)
      BY DEF Settled, Reported, IInv, Kept, TypeOK
    <3> QED
      BY <1>2, <1>3, <1>5, <3>1
  <2>3. released' = released
    BY <1>2
  <2> QED
    BY <2>1, <2>2, <2>3 DEF Reported
<1>16. ~panicked'
  BY <1>2 DEF Settled
<1> QED
  BY <1>9, <1>10, <1>11, <1>12, <1>13, <1>14, <1>15, <1>16 DEF Settled

\* AddRead finds the socket it was given, and the registry gets it.
LEMMA SettledAdd ==
  ASSUME IInv, IInv', Settled, AddRead \/ AddReadFailed \/ Add
  PROVE  Settled'
<1> USE ConnLifecycleAssumption
<1> DEFINE n == accepted - 1
<1>1. /\ acceptor # "accept" /\ n \in Conns /\ n < accepted /\ fdOf[n] \in Fds
      /\ Holds(n) /\ registry[fdOf[n]] = None /\ n # None
  <2>1. acceptor # "accept"
    BY DEF AddRead, AddReadFailed, Add
  <2>2. accepted \in 0..MaxConn /\ accepted >= 1
    BY <2>1 DEF IInv, Kept, TypeOK, Made
  <2>3. n \in Conns /\ n < accepted
    BY <2>2 DEF Conns
  <2> QED
    BY <2>1, <2>3 DEF IInv, Kept, Made, Settled, Fresh
<1>2. ~AddReadFailed
  BY <1>1 DEF AddReadFailed, Holds
<1>3. CASE AddRead
  <2>1. /\ acceptor = "addread" /\ watched' = watched \cup {n} /\ acceptor' = "add"
        /\ UNCHANGED <<accepted, fdOf, open, unread, toSend, gone, registry, batch, event, at,
                       conn, inbox, released, onClose, panicked>>
    BY <1>3 DEF AddRead
  <2>2. \A c : Added(c)' <=> Added(c)
    BY <2>1 DEF Added
  <2>3. \A c : Holds(c)' <=> Holds(c)
    BY <2>1 DEF Holds, SocketOf
  <2>4. Places' /\ Parting'
    BY <2>1 DEF Settled, Places, Parting, Ending, PollerOf
  <2>5. Due' /\ Reported'
    BY <2>1, <2>3 DEF Settled, Due, Reported, Leaving, Ending, PollerOf
  <2>6. Fresh'
    BY <2>1, <1>1 DEF Fresh, Holds, SocketOf
  <2>7. Own'
    BY <2>1 DEF Settled, Own, Added, Holds, SocketOf
  <2>8. NoneStale'
    BY <1>1, <2>1, <2>3 DEF Settled, NoneStale
  <2>9. NoneLost'
    BY <2>1 DEF Settled, NoneLost, Added, PollerOf
  <2> QED
    BY <2>1, <2>4, <2>5, <2>6, <2>7, <2>8, <2>9 DEF Settled
<1>4. CASE Add
  <2>1. /\ acceptor = "add" /\ registry' = [registry EXCEPT ![fdOf[n]] = n] /\ acceptor' = "accept"
        /\ UNCHANGED <<accepted, fdOf, open, watched, unread, toSend, gone, batch, event, at,
                       conn, inbox, released, onClose, panicked>>
    BY <1>4 DEF Add, kernel
  <2>2. /\ registry \in [Fds -> Conns \cup {None}] /\ open \in [Fds -> Conns \cup {None}]
        /\ open[fdOf[n]] = n /\ n \in watched
    BY <1>1, <2>1 DEF IInv, Kept, TypeOK, Holds, SocketOf, Settled, Fresh
  <2>3. \A c : Holds(c)' <=> Holds(c)
    BY <2>1 DEF Holds, SocketOf
  <2>4. \A c : Added(c) => Added(c)' /\ c # n
    BY <1>1, <2>1 DEF Added
  <2>5. Places' /\ Parting' /\ Reported'
    BY <2>1, <2>3 DEF Settled, Places, Parting, Reported, Leaving, Ending, PollerOf
  <2>6. Fresh'
    BY <2>1 DEF Fresh
  <2>7. Own'
    <3>1. ASSUME NEW p \in Pollers, at[p] \in Busy
          PROVE  Added(conn[p])' /\ registry'[fdOf[conn[p]]] = registry[fdOf[conn[p]]]
      <4>1. conn[p] # n /\ fdOf[conn[p]] \in Fds /\ open[fdOf[conn[p]]] = conn[p] /\ Added(conn[p])
        BY <2>4, <3>1, AtWork DEF Holds, SocketOf
      <4>2. fdOf[conn[p]] # fdOf[n]
        BY <2>2, <4>1
      <4>3. registry'[fdOf[conn[p]]] = registry[fdOf[conn[p]]]
        BY <2>1, <2>2, <4>1, <4>2
      <4> QED
        BY <2>1, <4>1, <4>3 DEF Added
    <3> QED
      BY <2>1, <3>1 DEF Settled, Own, Added, Holds, SocketOf
  <2>8. Due'
    <3>1. ASSUME NEW p \in Pollers, NEW g \in batch[p] PROVE registry'[g] = open[g]
      <4>1. g \in Fds
        BY DEF IInv, Kept, TypeOK
      <4>2. CASE g = fdOf[n]
        BY <1>1, <2>1, <2>2, <4>2
      <4>3. CASE g # fdOf[n]
        BY <2>1, <2>2, <4>1, <4>3 DEF Settled, Due
      <4> QED
        BY <4>2, <4>3
    <3> QED
      BY <2>1, <3>1 DEF Settled, Due, PollerOf
  <2>9. NoneStale'
    BY <2>1, <2>2, <2>3 DEF Settled, NoneStale
  <2>10. NoneLost'
    <3>1. ASSUME NEW g \in Fds, open[g] # None, g # fdOf[n]
          PROVE  registry'[g] = registry[g] /\ Added(open[g])
      <4>1. open[g] \in Conns /\ open[g] < accepted /\ fdOf[open[g]] = g
        BY <2>2, <3>1 DEF IInv, Kept, Made
      <4> QED
        BY <2>1, <2>2, <3>1, <4>1 DEF Added
    <3>2. ASSUME NEW g \in Fds, open[g] # None, g # fdOf[n]
          PROVE  LET c == open[g]  p == PollerOf(c) IN
                 /\ registry'[g] = c \/ (at[p] = "close" /\ conn[p] = c)
                 /\ c \in watched \/ (at[p] \in {"unregister", "close"} /\ conn[p] = c)
      BY <3>1, <3>2 DEF Settled, NoneLost
    <3>3. registry'[fdOf[n]] = n
      BY <1>1, <2>1, <2>2
    <3> QED
      BY <2>1, <2>2, <3>2, <3>3 DEF NoneLost, PollerOf
  <2> QED
    BY <2>1, <2>5, <2>6, <2>7, <2>8, <2>9, <2>10 DEF Settled
<1> QED
  BY <1>2, <1>3, <1>4

\* The descriptor a poller works on is nobody else's business.
LEMMA Apart ==
  ASSUME IInv, Settled, NEW p \in Pollers, at[p] \in Busy
  PROVE  /\ \A q \in Pollers \ {p} : at[q] \in Busy => fdOf[conn[q]] # fdOf[conn[p]]
         /\ \A q \in Pollers : fdOf[conn[p]] \notin batch[q]
         /\ acceptor # "accept" => fdOf[accepted - 1] # fdOf[conn[p]]
         /\ \A c \in Conns : Holds(c) /\ c < accepted /\ c # conn[p] => fdOf[c] # fdOf[conn[p]]
<1> DEFINE c == conn[p]
<1>1. c \in Conns /\ c < accepted /\ open[fdOf[c]] = c /\ PollerOf(c) = p /\ Added(c)
      /\ fdOf[c] \notin batch[p]
  BY AtWork DEF Holds, SocketOf
<1>2. ASSUME NEW q \in Pollers \ {p}, at[q] \in Busy PROVE fdOf[conn[q]] # fdOf[c]
  <2>1. open[fdOf[conn[q]]] = conn[q] /\ PollerOf(conn[q]) = q
    BY <1>2, AtWork DEF Holds, SocketOf
  <2> QED
    BY <1>1, <2>1
<1>3. ASSUME NEW q \in Pollers PROVE fdOf[c] \notin batch[q]
  BY <1>1 DEF Settled, Due
<1>4. acceptor # "accept" => fdOf[accepted - 1] # fdOf[c]
  BY <1>1 DEF Settled, Fresh, Holds, SocketOf, Added
<1>5. \A d \in Conns : Holds(d) /\ d < accepted /\ d # c => fdOf[d] # fdOf[c]
  BY <1>1 DEF Holds, SocketOf
<1> QED
  BY <1>2, <1>3, <1>4, <1>5

\* An event comes from a connection that the acceptor has finished with, or is about to
\* add.
LEMMA SettledWait ==
  ASSUME IInv, IInv', Settled, NEW p \in Pollers, Wait(p)
  PROVE  Settled'
<1> USE ConnLifecycleAssumption
<1>1. PICK fs \in SUBSET {f \in Fds : /\ open[f] \in watched /\ PollerOf(open[f]) = p
                                      /\ unread[open[f]] > 0 \/ open[f] \in gone} :
        batch' = [batch EXCEPT ![p] = fs]
  BY DEF Wait
<1>2. /\ at[p] = "idle"
      /\ UNCHANGED <<accepted, acceptor, fdOf, open, watched, unread, toSend, gone, registry,
                     event, at, conn, inbox, released, onClose, panicked>>
  BY DEF Wait, kernel
<1>3. ASSUME NEW f \in fs
      PROVE  /\ open[f] # None /\ PollerOf(open[f]) = p
             /\ registry[f] = open[f] \/ (acceptor = "add" /\ f = fdOf[accepted - 1])
  <2>1. f \in Fds /\ open[f] \in Conns /\ open[f] # None /\ PollerOf(open[f]) = p /\ open[f] \in watched
    BY DEF IInv, Kept, TypeOK
  <2>2. CASE Added(open[f])
    BY <1>2, <2>1, <2>2 DEF Settled, NoneLost
  <2>3. CASE ~Added(open[f])
    <3>1. open[f] < accepted /\ fdOf[open[f]] = f
      BY <2>1 DEF IInv, Kept, Made
    <3>2. acceptor # "accept" /\ open[f] = accepted - 1
      BY <2>3, <3>1 DEF Added
    <3>3. acceptor = "add"
      BY <2>1, <3>2 DEF Settled, Fresh, IInv, Kept, TypeOK
    <3> QED
      BY <2>1, <3>1, <3>2, <3>3
  <2> QED
    BY <2>2, <2>3
<1>4. /\ batch'[p] = fs
      /\ \A q \in Pollers \ {p} : batch'[q] = batch[q]
  BY <1>1 DEF IInv, Kept, TypeOK
<1>5. Due'
  BY <1>2, <1>3, <1>4 DEF Settled, Due, PollerOf
<1>6. Own'
  BY <1>2, <1>4 DEF Settled, Own, Busy, Added, Holds, SocketOf
<1>7. Places' /\ Fresh' /\ Parting' /\ NoneStale'
  BY <1>2 DEF Settled, Places, Fresh, Parting, Ending, NoneStale, Added, Holds, SocketOf, PollerOf
<1>8. NoneLost' /\ Reported' /\ ~panicked'
  BY <1>2 DEF Settled, NoneLost, Reported, Leaving, Ending, Added, Holds, SocketOf, PollerOf
<1> QED
  BY <1>5, <1>6, <1>7, <1>8 DEF Settled

\* The registry has the connection of every event that is not early.
LEMMA SettledLookup ==
  ASSUME IInv, IInv', Settled, Calm', NEW p \in Pollers, Lookup(p)
  PROVE  Settled'
<1> USE ConnLifecycleAssumption
<1>1. PICK f \in batch[p] :
        /\ at' = [at EXCEPT ![p] = IF registry[f] = None THEN "orphan" ELSE "decode"]
        /\ batch' = [batch EXCEPT ![p] = @ \ {f}]
        /\ conn' = [conn EXCEPT ![p] = registry[f]]
        /\ early' = (early \/ (acceptor = "add" /\ f = fdOf[accepted - 1]))
  BY DEF Lookup, Goto
<1>2. /\ at[p] = "idle" /\ p \in Actors
      /\ UNCHANGED <<accepted, acceptor, fdOf, open, watched, unread, toSend, gone, registry,
                     inbox, released, onClose, panicked>>
  BY DEF Lookup, Goto, kernel, Actors
<1>3. f \in Fds /\ registry[f] = open[f] /\ open[f] # None /\ PollerOf(open[f]) = p
  BY <1>1 DEF Calm, Settled, Due, IInv, Kept, TypeOK
<1>4. PICK c \in Conns : c = open[f]
  BY <1>3 DEF IInv, Kept, TypeOK
<1>5. c < accepted /\ fdOf[c] = f /\ Added(c) /\ Holds(c) /\ c # None
  <2>1. c < accepted /\ fdOf[c] = f /\ c # None
    BY <1>3, <1>4 DEF IInv, Kept, Made
  <2> QED
    BY <1>3, <1>4, <2>1 DEF Settled, Fresh, Added, Holds, SocketOf
<1>6. /\ at'[p] = "decode" /\ conn'[p] = c /\ batch'[p] = batch[p] \ {f}
      /\ \A q \in Pollers \ {p} : at'[q] = at[q] /\ conn'[q] = conn[q] /\ batch'[q] = batch[q]
      /\ \A a \in Handlers \cup Heartbeats : at'[a] = at[a]
  BY <1>1, <1>2, <1>3, <1>4 DEF IInv, Kept, TypeOK, Actors
<1>7. Places'
  BY <1>2, <1>6 DEF Settled, Places, Busy
<1>8. Own'
  BY <1>2, <1>3, <1>4, <1>5, <1>6 DEF Settled, Own, Busy, Added, Holds, SocketOf, PollerOf
<1>9. Parting'
  BY <1>2, <1>6 DEF Settled, Parting, Ending, PollerOf
<1>10. Due'
  BY <1>2, <1>6 DEF Settled, Due, PollerOf
<1>11. Fresh' /\ NoneStale' /\ ~panicked'
  BY <1>2 DEF Settled, Fresh, NoneStale, Added, Holds, SocketOf
<1>12. NoneLost'
  <2>1. ASSUME NEW q \in Pollers, at[q] \in {"unregister", "close"}
        PROVE  at'[q] = at[q] /\ conn'[q] = conn[q]
    BY <1>2, <1>6, <2>1
  <2>2. ASSUME NEW g \in Fds, open[g] # None PROVE PollerOf(open[g]) \in Pollers
    BY <2>2, PollerOfIsPoller DEF IInv, Kept, TypeOK
  <2> QED
    BY <1>2, <2>1, <2>2 DEF Settled, NoneLost, Added, PollerOf
<1>13. Reported'
  <2>1. ASSUME NEW d \in Conns, Leaving(d) PROVE Leaving(d)'
    BY <1>2, <1>6, <2>1, PollerOfIsPoller DEF Leaving, Ending, PollerOf
  <2> QED
    BY <1>2, <2>1 DEF Settled, Reported, Holds, SocketOf
<1> QED
  BY <1>7, <1>8, <1>9, <1>10, <1>11, <1>12, <1>13 DEF Settled

\* Reading changes the unread messages of the poller's own connection, and
\* finds its read buffer in place.
LEMMA SettledDecode ==
  ASSUME IInv, IInv', Settled, NEW p \in Pollers,
         DecodeRead(p) \/ DecodeStore(p) \/ DecodeNothing(p)
  PROVE  Settled'
<1> USE ConnLifecycleAssumption
<1>1. at[p] \in {"decode", "store"} /\ at[p] \in Busy /\ p \in Actors
  BY DEF DecodeRead, DecodeStore, DecodeNothing, Goto, Actors, Busy
<1>2. PICK c \in Conns : c = conn[p]
  BY <1>1, AtWork
<1>3. c < accepted /\ Holds(c) /\ Added(c) /\ SocketOf(c) = c
  BY <1>1, <1>2, AtWork DEF Holds
<1>4. c \notin released
  BY <1>3 DEF Settled, Reported
<1>5. /\ \E stage \in {"store", "idle", "unwatch"} : at' = [at EXCEPT ![p] = stage]
      /\ UNCHANGED <<accepted, acceptor, fdOf, open, watched, toSend, gone, registry,
                     batch, event, conn, released, onClose, panicked>>
  <2>1. CASE DecodeRead(p)
    BY <2>1 DEF DecodeRead, Goto
  <2>2. CASE DecodeStore(p)
    BY <1>2, <1>4, <2>2 DEF DecodeStore, Goto, kernel
  <2>3. CASE DecodeNothing(p)
    BY <2>3 DEF DecodeNothing, Goto, kernel
  <2> QED
    BY <2>1, <2>2, <2>3
<1>6. /\ at'[p] \in {"idle", "store", "unwatch"}
      /\ \A q \in Pollers \ {p} : at'[q] = at[q]
      /\ \A a \in Handlers \cup Heartbeats : at'[a] = at[a]
  BY <1>1, <1>5 DEF IInv, Kept, TypeOK, Actors
<1>7. Places'
  BY <1>5, <1>6 DEF Settled, Places, Busy
<1>8. Fresh' /\ Due' /\ NoneStale' /\ ~panicked'
  BY <1>5 DEF Settled, Fresh, Due, NoneStale, Holds, SocketOf, PollerOf
<1>9. Own'
  BY <1>1, <1>5, <1>6 DEF Settled, Own, Added, Holds, SocketOf
<1>10. Parting'
  BY <1>5, <1>6 DEF Settled, Parting, Ending, PollerOf
<1>11. NoneLost'
  <2>1. ASSUME NEW q \in Pollers, at[q] \in {"unregister", "close"} PROVE at'[q] = at[q]
    BY <1>1, <1>6, <2>1
  <2>2. ASSUME NEW g \in Fds, open[g] # None PROVE PollerOf(open[g]) \in Pollers
    BY <2>2, PollerOfIsPoller DEF IInv, Kept, TypeOK
  <2> QED
    BY <1>5, <2>1, <2>2 DEF Settled, NoneLost, Added, PollerOf
<1>12. Reported'
  <2>1. ASSUME NEW d \in Conns, Leaving(d) PROVE Leaving(d)'
    BY <1>1, <1>5, <1>6, <2>1, PollerOfIsPoller DEF Leaving, Ending, PollerOf
  <2> QED
    BY <1>5, <2>1 DEF Settled, Reported, Holds, SocketOf
<1> QED
  BY <1>7, <1>8, <1>9, <1>10, <1>11, <1>12 DEF Settled

\* A Close in progress is of an open connection of the poller, and the rest of the state
\* is about other connections.
LEMMA Closing ==
  ASSUME IInv, Settled, NEW p \in Pollers, at[p] \in Busy, NEW c \in Conns, c = conn[p],
         NEW f \in Fds, f = fdOf[c]
  PROVE  /\ c < accepted /\ Holds(c) /\ Added(c) /\ PollerOf(c) = p /\ SocketOf(c) = c
         /\ open[f] = c /\ c # None
         /\ \A q \in Pollers \ {p} : at[q] \in Busy => fdOf[conn[q]] # f
         /\ \A q \in Pollers : f \notin batch[q]
         /\ acceptor # "accept" => fdOf[accepted - 1] \in Fds \ {f} /\ accepted - 1 # c
         /\ \A d \in Conns : Holds(d) /\ d < accepted /\ d # c => fdOf[d] # f
         /\ \A g \in Fds : open[g] # None /\ g # f => open[g] \in Conns /\ open[g] # c
         /\ \A g \in Fds : open[g] # None => PollerOf(open[g]) \in Pollers
<1> USE ConnLifecycleAssumption
<1>1. /\ c < accepted /\ Holds(c) /\ Added(c) /\ PollerOf(c) = p /\ SocketOf(c) = c
      /\ open[f] = c /\ c # None
  BY AtWork DEF Holds, SocketOf
<1>2. /\ \A q \in Pollers \ {p} : at[q] \in Busy => fdOf[conn[q]] # f
      /\ \A q \in Pollers : f \notin batch[q]
      /\ acceptor # "accept" => fdOf[accepted - 1] # f
      /\ \A d \in Conns : Holds(d) /\ d < accepted /\ d # c => fdOf[d] # f
  BY Apart
<1>3. /\ \A g \in Fds : open[g] # None /\ g # f => open[g] \in Conns /\ open[g] # c
      /\ \A g \in Fds : open[g] # None => PollerOf(open[g]) \in Pollers
  BY PollerOfIsPoller DEF IInv, Kept, TypeOK, Made
<1>4. acceptor # "accept" => accepted - 1 \in Conns /\ accepted - 1 < accepted
  BY DEF IInv, Kept, TypeOK, Made, Conns
<1>5. acceptor # "accept" => fdOf[accepted - 1] \in Fds \ {f} /\ accepted - 1 # c
  BY <1>1, <1>2, <1>4 DEF IInv, Kept, Made, Added
<1> QED
  BY <1>1, <1>2, <1>3, <1>5

\* Close takes the poller's own connection out of the epoll ...
LEMMA SettledUnwatch ==
  ASSUME IInv, IInv', Settled, NEW p \in Pollers, CloseUnwatch(p)
  PROVE  Settled'
<1> USE ConnLifecycleAssumption
<1>1. at[p] = "unwatch" /\ at[p] \in Busy /\ p \in Actors
  BY DEF CloseUnwatch, Goto, Actors, Busy
<1>2. PICK c \in Conns, f \in Fds : c = conn[p] /\ f = fdOf[c]
  BY <1>1, AtWork
<1>3. /\ Added(c) /\ PollerOf(c) = p /\ open[f] = c /\ c # None
      /\ acceptor # "accept" => accepted - 1 # c
      /\ \A g \in Fds : open[g] # None /\ g # f => open[g] \in Conns /\ open[g] # c
      /\ \A g \in Fds : open[g] # None => PollerOf(open[g]) \in Pollers
  BY <1>1, <1>2, Closing
<1>4. /\ at' = [at EXCEPT ![p] = "unregister"]
      /\ watched' = watched \ {c}
      /\ UNCHANGED <<accepted, acceptor, fdOf, open, unread, toSend, gone, registry, batch,
                     event, conn, inbox, released, onClose, panicked>>
  BY <1>2, <1>3 DEF CloseUnwatch, Goto, KernelUnwatch
<1>5. /\ at'[p] = "unregister"
      /\ \A q \in Pollers \ {p} : at'[q] = at[q]
      /\ \A a \in Handlers \cup Heartbeats : at'[a] = at[a]
  BY <1>1, <1>4 DEF IInv, Kept, TypeOK, Actors
<1>6. Places'
  BY <1>4, <1>5 DEF Settled, Places, Busy
<1>7. Fresh'
  BY <1>3, <1>4 DEF Settled, Fresh, Holds, SocketOf
<1>8. Own'
  BY <1>1, <1>4, <1>5 DEF Settled, Own, Added, Holds, SocketOf
<1>9. Parting'
  BY <1>4, <1>5 DEF Settled, Parting, Ending, PollerOf
<1>10. Due' /\ NoneStale' /\ ~panicked'
  BY <1>4 DEF Settled, Due, NoneStale, Holds, SocketOf, PollerOf
<1>11. NoneLost'
  <2>1. ASSUME NEW g \in Fds, open[g] # None, Added(open[g])
        PROVE  LET d == open[g]  q == PollerOf(d) IN
               /\ registry[g] = d \/ (at'[q] = "close" /\ conn[q] = d)
               /\ d \in watched' \/ (at'[q] \in {"unregister", "close"} /\ conn[q] = d)
    <3>1. CASE g = f
      BY <1>1, <1>2, <1>3, <1>4, <1>5, <2>1, <3>1 DEF Settled, NoneLost
    <3>2. CASE g # f
      <4>1. open[g] # c /\ PollerOf(open[g]) \in Pollers
        BY <1>3, <2>1, <3>2
      <4> QED
        BY <1>2, <1>4, <1>5, <2>1, <4>1 DEF Settled, NoneLost
    <3> QED
      BY <3>1, <3>2
  <2> QED
    BY <1>4, <2>1 DEF NoneLost, Added, PollerOf
<1>12. Reported'
  <2>1. ASSUME NEW d \in Conns, Leaving(d) PROVE Leaving(d)'
    BY <1>1, <1>4, <1>5, <2>1, PollerOfIsPoller DEF Leaving, Ending, PollerOf
  <2> QED
    BY <1>4, <2>1 DEF Settled, Reported, Holds, SocketOf
<1> QED
  BY <1>6, <1>7, <1>8, <1>9, <1>10, <1>11, <1>12 DEF Settled

\* ... out of the registry ...
LEMMA SettledUnregister ==
  ASSUME IInv, IInv', Settled, NEW p \in Pollers, CloseUnregister(p)
  PROVE  Settled'
<1> USE ConnLifecycleAssumption
<1>1. at[p] = "unregister" /\ at[p] \in Busy /\ p \in Actors
  BY DEF CloseUnregister, Goto, Actors, Busy
<1>2. PICK c \in Conns, f \in Fds : c = conn[p] /\ f = fdOf[c]
  BY <1>1, AtWork
<1>3. /\ Added(c) /\ PollerOf(c) = p /\ open[f] = c /\ c # None
      /\ \A q \in Pollers \ {p} : at[q] \in Busy => fdOf[conn[q]] # f
      /\ \A q \in Pollers : f \notin batch[q]
      /\ acceptor # "accept" => fdOf[accepted - 1] \in Fds \ {f}
      /\ \A g \in Fds : open[g] # None /\ g # f => open[g] \in Conns /\ open[g] # c
      /\ \A g \in Fds : open[g] # None => PollerOf(open[g]) \in Pollers
  BY <1>1, <1>2, Closing
<1>4. /\ at' = [at EXCEPT ![p] = "close"]
      /\ registry' = [registry EXCEPT ![f] = None]
      /\ UNCHANGED <<accepted, acceptor, fdOf, open, watched, unread, toSend, gone, batch,
                     event, conn, inbox, released, onClose, panicked>>
  BY <1>2 DEF CloseUnregister, Goto, kernel
<1>5. /\ at'[p] = "close"
      /\ \A q \in Pollers \ {p} : at'[q] = at[q]
      /\ \A a \in Handlers \cup Heartbeats : at'[a] = at[a]
  BY <1>1, <1>4 DEF IInv, Kept, TypeOK, Actors
<1>6. registry'[f] = None /\ \A g \in Fds \ {f} : registry'[g] = registry[g]
  BY <1>4 DEF IInv, Kept, TypeOK
<1>7. Places'
  BY <1>4, <1>5 DEF Settled, Places, Busy
<1>8. Fresh'
  BY <1>3, <1>4, <1>6 DEF Settled, Fresh, Holds, SocketOf
<1>9. Own'
  <2>1. ASSUME NEW q \in Pollers \ {p}, at[q] \in Busy
        PROVE  registry'[fdOf[conn[q]]] = registry[fdOf[conn[q]]]
    BY <1>3, <1>6, <2>1, AtWork
  <2> QED
    BY <1>1, <1>2, <1>4, <1>5, <1>6, <2>1 DEF Settled, Own, Added, Holds, SocketOf
<1>10. Parting'
  BY <1>4, <1>5 DEF Settled, Parting, Ending, PollerOf
<1>11. Due'
  <2>1. ASSUME NEW q \in Pollers, NEW g \in batch[q] PROVE registry'[g] = registry[g]
    BY <1>3, <1>6 DEF IInv, Kept, TypeOK
  <2> QED
    BY <1>4, <2>1 DEF Settled, Due, PollerOf
<1>12. NoneStale' /\ ~panicked'
  BY <1>4, <1>6 DEF Settled, NoneStale, Holds, SocketOf
<1>13. NoneLost'
  <2>1. ASSUME NEW g \in Fds, open[g] # None, Added(open[g])
        PROVE  LET d == open[g]  q == PollerOf(d) IN
               /\ registry'[g] = d \/ (at'[q] = "close" /\ conn[q] = d)
               /\ d \in watched \/ (at'[q] \in {"unregister", "close"} /\ conn[q] = d)
    <3>1. CASE g = f
      BY <1>2, <1>3, <1>5, <3>1
    <3>2. CASE g # f
      <4>1. open[g] # c /\ PollerOf(open[g]) \in Pollers
        BY <1>3, <2>1, <3>2
      <4> QED
        BY <1>2, <1>5, <1>6, <2>1, <3>2, <4>1 DEF Settled, NoneLost
    <3> QED
      BY <3>1, <3>2
  <2> QED
    BY <1>4, <2>1 DEF NoneLost, Added, PollerOf
<1>14. Reported'
  <2>1. ASSUME NEW d \in Conns, Leaving(d) PROVE Leaving(d)'
    BY <1>1, <1>4, <1>5, <2>1, PollerOfIsPoller DEF Leaving, Ending, PollerOf
  <2> QED
    BY <1>4, <2>1 DEF Settled, Reported, Holds, SocketOf
<1> QED
  BY <1>7, <1>8, <1>9, <1>10, <1>11, <1>12, <1>13, <1>14 DEF Settled

\* ... and closes its socket, which leaves it to be reported.
LEMMA SettledCloseFd ==
  ASSUME IInv, IInv', Settled, NEW p \in Pollers, CloseFd(p)
  PROVE  Settled'
<1> USE ConnLifecycleAssumption
<1>1. at[p] = "close" /\ at[p] \in Busy /\ p \in Actors
  BY DEF CloseFd, Goto, Actors, Busy
<1>2. PICK c \in Conns, f \in Fds : c = conn[p] /\ f = fdOf[c]
  BY <1>1, AtWork
<1>3. /\ c < accepted /\ Holds(c) /\ PollerOf(c) = p /\ SocketOf(c) = c /\ open[f] = c /\ c # None
      /\ \A q \in Pollers \ {p} : at[q] \in Busy => fdOf[conn[q]] # f
      /\ \A q \in Pollers : f \notin batch[q]
      /\ acceptor # "accept" => fdOf[accepted - 1] \in Fds \ {f} /\ accepted - 1 # c
      /\ \A d \in Conns : Holds(d) /\ d < accepted /\ d # c => fdOf[d] # f
      /\ \A g \in Fds : open[g] # None /\ g # f => open[g] \in Conns /\ open[g] # c
      /\ \A g \in Fds : open[g] # None => PollerOf(open[g]) \in Pollers
  BY <1>1, <1>2, Closing
<1>4. /\ at' = [at EXCEPT ![p] = "drop"]
      /\ open' = [open EXCEPT ![f] = None] /\ watched' = watched \ {c}
      /\ UNCHANGED <<accepted, acceptor, fdOf, unread, toSend, gone, registry, batch, event,
                     conn, inbox, released, onClose, panicked>>
  BY <1>2, <1>3 DEF CloseFd, Goto, KernelClose
<1>5. /\ at'[p] = "drop"
      /\ \A q \in Pollers \ {p} : at'[q] = at[q]
      /\ \A a \in Handlers \cup Heartbeats : at'[a] = at[a]
  BY <1>1, <1>4 DEF IInv, Kept, TypeOK, Actors
<1>6. open'[f] = None /\ registry[f] = None /\ \A g \in Fds \ {f} : open'[g] = open[g]
  BY <1>1, <1>2, <1>4 DEF IInv, Kept, TypeOK, Settled, Own
<1>7. onClose[c] = 0
  <2>1. IsOpen(c)
    BY <1>3, HoldsIsOpen
  <2> QED
    BY <2>1 DEF IInv, Kept, TypeOK, ReportedIsClosed
<1>8. ASSUME NEW d \in Conns, d < accepted
      PROVE  (d # c /\ Holds(d) => Holds(d)') /\ (Holds(d)' => Holds(d))
  <2>1. fdOf[d] \in Fds
    BY <1>8 DEF IInv, Kept, Made
  <2>2. d # None
    OBVIOUS
  <2>3. d # c /\ Holds(d) => fdOf[d] # f
    BY <1>3, <1>8
  <2> QED
    BY <1>4, <1>6, <2>1, <2>2, <2>3 DEF Holds, SocketOf
<1>9. Places'
  BY <1>4, <1>5 DEF Settled, Places
<1>10. Fresh'
  BY <1>3, <1>4, <1>6 DEF Settled, Fresh, Holds, SocketOf
<1>11. Own'
  <2>1. ASSUME NEW q \in Pollers \ {p}, at[q] \in Busy
        PROVE  open'[fdOf[conn[q]]] = open[fdOf[conn[q]]]
    BY <1>3, <1>6, <2>1, AtWork
  <2> QED
    BY <1>4, <1>5, <2>1 DEF Settled, Own, Busy, Added, Holds, SocketOf
<1>12. Parting'
  BY <1>2, <1>3, <1>4, <1>5, <1>7 DEF Settled, Parting, Ending, PollerOf
<1>13. Due'
  <2>1. ASSUME NEW q \in Pollers, NEW g \in batch[q] PROVE open'[g] = open[g]
    BY <1>3, <1>6 DEF IInv, Kept, TypeOK
  <2> QED
    BY <1>4, <2>1 DEF Settled, Due, PollerOf
<1>14. NoneStale'
  <2>1. ASSUME NEW g \in Fds, registry[g] # None PROVE registry[g] = open'[g]
    BY <1>6, <2>1 DEF Settled, NoneStale
  <2>2. ASSUME NEW d \in watched, d # c PROVE d < accepted /\ Holds(d)'
    BY <1>8, <2>2 DEF Settled, NoneStale, IInv, Kept, TypeOK
  <2> QED
    BY <1>4, <2>1, <2>2 DEF NoneStale, Holds, SocketOf
<1>15. NoneLost'
  <2>1. ASSUME NEW g \in Fds, open'[g] # None, Added(open[g])
        PROVE  LET d == open[g]  q == PollerOf(d) IN
               /\ open'[g] = d
               /\ registry[g] = d \/ (at'[q] = "close" /\ conn[q] = d)
               /\ d \in watched' \/ (at'[q] \in {"unregister", "close"} /\ conn[q] = d)
    <3>1. g # f /\ open'[g] = open[g] /\ open[g] # c /\ PollerOf(open[g]) \in Pollers
      BY <1>3, <1>6, <2>1
    <3> QED
      BY <1>2, <1>4, <1>5, <2>1, <3>1 DEF Settled, NoneLost
  <2>2. \A g \in Fds : open'[g] # None => open'[g] = open[g]
    BY <1>6
  <2> QED
    BY <1>4, <2>1, <2>2 DEF NoneLost, Added, PollerOf
<1>16. Reported'
  <2>1. ASSUME NEW d \in Conns, d < accepted PROVE Holds(d)' \/ onClose[d] = 1 \/ Leaving(d)'
    <3>1. CASE d = c
      BY <1>2, <1>3, <1>4, <1>5, <3>1 DEF Leaving, Ending, PollerOf
    <3>2. CASE d # c
      <4>1. Leaving(d) => Leaving(d)'
        BY <1>1, <1>4, <1>5, PollerOfIsPoller DEF Leaving, Ending, PollerOf
      <4> QED
        BY <1>8, <2>1, <3>2, <4>1 DEF Settled, Reported
    <3> QED
      BY <3>1, <3>2
  <2>2. ASSUME NEW d \in released PROVE d < accepted /\ ~Holds(d)'
    BY <1>8 DEF Settled, Reported, IInv, Kept, TypeOK
  <2> QED
    BY <1>4, <2>1, <2>2 DEF Reported
<1> QED
  BY <1>4, <1>9, <1>10, <1>11, <1>12, <1>13, <1>14, <1>15, <1>16 DEF Settled

\* The rest of Close is about a connection that is closed: nobody misses its read
\* buffer, and its poller reports it.
LEMMA SettledReport ==
  ASSUME IInv, IInv', Settled, NEW p \in Pollers, CloseDrop(p) \/ CloseReport(p)
  PROVE  Settled'
<1> USE ConnLifecycleAssumption
<1>1. Ending(p) /\ at[p] # "drop_failed" /\ p \in Actors /\ p \notin Handlers \cup Heartbeats
  BY DEF CloseDrop, CloseReport, Goto, Settled, Places, Busy, Ending, Actors
<1>2. PICK c \in Conns : c = conn[p] /\ c < accepted /\ PollerOf(c) = p /\ ~Holds(c) /\ onClose[c] = 0
  BY <1>1, AtParting
<1>3. /\ \/ /\ at[p] = "drop" /\ at' = [at EXCEPT ![p] = "report"]
            /\ released' = released \cup {c} /\ onClose' = onClose
         \/ /\ at[p] = "report" /\ at' = [at EXCEPT ![p] = "idle"]
            /\ released' = released /\ onClose' = [onClose EXCEPT ![c] = @ + 1]
      /\ UNCHANGED <<accepted, acceptor, fdOf, open, watched, unread, toSend, gone, registry, batch,
                     event, conn, inbox, panicked>>
  <2>1. CASE CloseDrop(p)
    BY <1>1, <1>2, <2>1 DEF CloseDrop, Goto, kernel
  <2>2. CASE CloseReport(p)
    BY <1>1, <1>2, <2>2 DEF CloseReport, Goto, AfterClose, kernel
  <2> QED
    BY <2>1, <2>2
<1>4. /\ at'[p] \in {"report", "idle"} /\ (at'[p] = "report" => onClose' = onClose)
      /\ \A q \in Pollers \ {p} : at'[q] = at[q]
      /\ \A a \in Handlers \cup Heartbeats : at'[a] = at[a]
  BY <1>1, <1>3 DEF IInv, Kept, TypeOK, Actors
<1>5. /\ \A d \in Conns \ {c} : onClose'[d] = onClose[d]
      /\ at'[p] = "idle" => onClose'[c] = 1
  BY <1>1, <1>2, <1>3 DEF IInv, Kept, TypeOK
<1>6. Places'
  BY <1>3, <1>4 DEF Settled, Places
<1>7. Fresh' /\ Due' /\ NoneStale' /\ ~panicked'
  BY <1>3 DEF Settled, Fresh, Due, NoneStale, Holds, SocketOf, PollerOf
<1>8. Own'
  BY <1>3, <1>4 DEF Settled, Own, Busy, Added, Holds, SocketOf
<1>9. Parting'
  <2>1. ASSUME NEW q \in Pollers, Ending(q)' PROVE PollerOf(conn[q]) = q /\ onClose'[conn[q]] = 0
    <3>1. CASE q = p
      BY <1>2, <1>4, <2>1, <3>1 DEF Ending
    <3>2. CASE q # p
      <4>1. Ending(q)
        BY <1>4, <2>1, <3>2 DEF Ending
      <4>2. conn[q] \in Conns /\ PollerOf(conn[q]) = q /\ onClose[conn[q]] = 0
        BY <4>1, AtParting
      <4> QED
        BY <1>2, <1>5, <3>2, <4>2
    <3> QED
      BY <3>1, <3>2
  <2> QED
    BY <1>3, <2>1 DEF Parting, PollerOf
<1>10. NoneLost'
  <2>1. ASSUME NEW q \in Pollers, at[q] \in {"unregister", "close"} PROVE at'[q] = at[q]
    BY <1>1, <1>4, <2>1 DEF Ending
  <2>2. ASSUME NEW g \in Fds, open[g] # None PROVE PollerOf(open[g]) \in Pollers
    BY <2>2, PollerOfIsPoller DEF IInv, Kept, TypeOK
  <2> QED
    BY <1>3, <2>1, <2>2 DEF Settled, NoneLost, Added, PollerOf
<1>11. Reported'
  <2>1. ASSUME NEW d \in Conns, d < accepted PROVE Holds(d) \/ onClose'[d] = 1 \/ Leaving(d)'
    <3>1. CASE d = c
      BY <1>2, <1>3, <1>4, <1>5, <3>1 DEF Leaving, Ending, PollerOf
    <3>2. CASE d # c
      <4>1. Leaving(d) => Leaving(d)'
        BY <1>2, <1>3, <1>4, <3>2, PollerOfIsPoller DEF Leaving, Ending, PollerOf
      <4> QED
        BY <1>5, <2>1, <3>2, <4>1 DEF Settled, Reported
    <3> QED
      BY <3>1, <3>2
  <2>2. ASSUME NEW d \in released' PROVE d < accepted /\ ~Holds(d)
    BY <1>2, <1>3, <2>2 DEF Settled, Reported
  <2> QED
    BY <1>3, <2>1, <2>2 DEF Reported, Holds, SocketOf
<1> QED
  BY <1>6, <1>7, <1>8, <1>9, <1>10, <1>11 DEF Settled

\* Every step that keeps Calm leaves the connections settled.
LEMMA SettledStep == IInv /\ IInv' /\ Settled /\ Calm' /\ [Next]_vars => Settled'
<1> SUFFICES ASSUME IInv, IInv', Settled, Calm', [Next]_vars PROVE Settled'
  OBVIOUS
<1>1. CASE UNCHANGED vars
  BY <1>1 DEF vars, kernel, Settled, Places, Fresh, Own, Parting, Due, NoneStale, NoneLost, Reported,
     Leaving, Ending, Added, Holds, SocketOf, PollerOf
<1>2. CASE Accept \/ AddRead \/ AddReadFailed \/ Add
  BY <1>2, SettledAccept, SettledAdd
<1>3. ASSUME NEW p \in Pollers, PollerStep(p) PROVE Settled'
  <2>1. ~CloseOrphan(p) /\ ~UnwatchOrphan(p)
    BY DEF CloseOrphan, UnwatchOrphan, Goto, Settled, Places, Busy
  <2>2. CASE CloseStep(p)
    BY <2>2, SettledUnwatch, SettledUnregister, SettledCloseFd, SettledReport DEF CloseStep
  <2> QED
    BY <1>3, <2>1, <2>2, SettledWait, SettledLookup, SettledDecode DEF PollerStep
<1> QED
  BY <1>1, <1>2, <1>3, SettledOthers DEF Next

\* What has happened has happened.
LEMMA CalmBefore == [Next]_vars /\ Calm' => Calm
<1> SUFFICES ASSUME [Next]_vars PROVE (early => early') /\ (others => others')
  BY DEF Calm
<1> DEFINE Same == (early => early') /\ (others => others')
<1>1. CASE Accept \/ AddRead \/ AddReadFailed \/ Add \/ UNCHANGED vars
  BY <1>1 DEF Accept, AddRead, AddReadFailed, Add, vars, history
<1>2. ASSUME NEW a \in Actors, CloseStep(a) PROVE Same
  BY <1>2 DEF CloseStep, CloseUnwatch, CloseUnregister, CloseFd, CloseDrop, CloseReport, history
<1>3. ASSUME NEW p \in Pollers, PollerStep(p) PROVE Same
  <2>1. CASE Lookup(p)
    BY <2>1 DEF Lookup
  <2>2. CASE ~Lookup(p)
    BY <1>2, <1>3, <2>2 DEF PollerStep, Wait, CloseOrphan, UnwatchOrphan, DecodeRead, DecodeStore,
       DecodeNothing, Actors, history
  <2> QED
    BY <2>1, <2>2
<1>4. ASSUME NEW h \in Handlers, HandlerStep(h) PROVE Same
  BY <1>2, <1>4 DEF HandlerStep, Dispatch, Return, HandlerClose, Actors, history
<1>5. ASSUME NEW b \in Heartbeats, BeatStep(b) PROVE Same
  BY <1>2, <1>5 DEF BeatStep, Beat, BeatUnregister, BeatUnwatch, Actors, history
<1>6. ASSUME NEW c \in Conns, PeerSends(c) \/ PeerLeaves(c) PROVE Same
  BY <1>6 DEF PeerSends, PeerLeaves, history
<1> QED
  BY <1>1, <1>3, <1>4, <1>5, <1>6 DEF Next

\* So they are as long as Calm holds.
LEMMA AlwaysSettled == Spec => [](Calm => Settled)
<1>1. Init => Settled
  BY SettledInit
<1>2. IInv /\ IInv' /\ (Calm => Settled) /\ [Next]_vars => (Calm => Settled)'
  BY SettledStep, CalmBefore
<1> QED
  BY <1>1, <1>2, Inductive, PTL DEF Spec

\* As long as no event is looked up before its connection is added and only the pollers
\* close, nothing is forgotten: whenever no operation is under way,
\* ConnectManager.connects, the sockets that are open and the sockets that epoll
\* watches are the same, and each connection that has ended has had its OnClose
\* once (server/connectmgr.go, eventloop/epoll.go).  Without that premise it is
\* false: a client that sends at once leaves a dead entry behind.
THEOREM CalmForgetsNone == Spec => []NoneForgotten
<1>1. IInv /\ (Calm => Settled) => NoneForgotten
  <2> SUFFICES ASSUME IInv, Settled, AtRest PROVE /\ registry = open
                                                 /\ watched = {c \in Conns : IsOpen(c)}
                                                 /\ \A c \in 0..accepted - 1 : IsOpen(c) \/ onClose[c] = 1
    BY DEF NoneForgotten, RegistryIsExact, EndIsReported
  <2>1. acceptor = "accept" /\ \A p \in Pollers : at[p] = "idle"
    BY DEF AtRest
  <2>2. ASSUME NEW f \in Fds, open[f] # None
        PROVE  registry[f] = open[f] /\ open[f] \in watched
    <3>1. open[f] \in Conns /\ open[f] < accepted /\ PollerOf(open[f]) \in Pollers
      BY <2>2, PollerOfIsPoller DEF IInv, Kept, TypeOK, Made
    <3> QED
      BY <2>1, <2>2, <3>1 DEF Settled, NoneLost, Added
  <2>3. ASSUME NEW f \in Fds PROVE registry[f] = open[f]
    BY <2>2 DEF Settled, NoneStale
  <2>4. registry = open
    BY <2>3 DEF IInv, Kept, TypeOK
  <2>5. watched = {c \in Conns : IsOpen(c)}
    <3>1. ASSUME NEW c \in watched PROVE c \in Conns /\ IsOpen(c)
      BY HoldsIsOpen DEF Settled, NoneStale, IInv, Kept, TypeOK
    <3>2. ASSUME NEW c \in Conns, IsOpen(c) PROVE c \in watched
      BY <2>2, <3>2, ConnLifecycleAssumption DEF IsOpen
    <3> QED
      BY <3>1, <3>2
  <2>6. ASSUME NEW c \in 0..accepted - 1 PROVE IsOpen(c) \/ onClose[c] = 1
    <3>1. c \in Conns /\ c < accepted
      BY ConnLifecycleAssumption DEF IInv, Kept, TypeOK, Conns
    <3>2. ~Leaving(c)
      BY <2>1, <3>1, PollerOfIsPoller DEF Leaving, Ending
    <3> QED
      BY <3>1, <3>2, HoldsIsOpen DEF Settled, Reported
  <2> QED
    BY <2>4, <2>5, <2>6
<1> QED
  BY <1>1, Inductive, AlwaysSettled, PTL

\* What a step closes and reads.
LEMMA OwnSocketStep ==
  ASSUME IInv, Settled, Calm', [Next]_vars
  PROVE  /\ \A c \in Conns : IsOpen(c) /\ ~IsOpen(c)'
              => \E a \in Actors : conn[a] = c /\ at[a] = "close" /\ at'[a] = "drop"
         /\ \A p \in Pollers : at[p] = "decode" /\ at'[p] = "store" => SocketOf(conn[p]) = conn[p]
<1> USE ConnLifecycleAssumption
<1> DEFINE Closed == \A c \in Conns : IsOpen(c) /\ ~IsOpen(c)'
              => \E a \in Actors : conn[a] = c /\ at[a] = "close" /\ at'[a] = "drop"
<1>1. ASSUME NEW p \in Pollers, CloseFd(p) PROVE Closed
  <2>1. at[p] = "close" /\ at[p] \in Busy /\ p \in Actors
    BY <1>1 DEF CloseFd, Goto, Busy, Actors
  <2>2. PICK c \in Conns, f \in Fds : c = conn[p] /\ f = fdOf[c]
    BY <2>1, AtWork
  <2>3. open[f] = c /\ c # None
    BY <2>1, <2>2, Closing
  <2>4. open' = [open EXCEPT ![f] = None] /\ at' = [at EXCEPT ![p] = "drop"]
    BY <1>1, <2>2, <2>3 DEF CloseFd, Goto, KernelClose, SocketOf
  <2>5. \A d \in Conns : IsOpen(d) /\ ~IsOpen(d)' => d = c
    BY <2>3, <2>4 DEF IsOpen, IInv, Kept, TypeOK
  <2>6. at'[p] = "drop"
    BY <2>1, <2>4 DEF IInv, Kept, TypeOK
  <2> QED
    BY <2>1, <2>2, <2>5, <2>6
<1>2. ASSUME NEW p \in Pollers PROVE ~CloseOrphan(p)
  BY DEF CloseOrphan, Goto, Settled, Places, Busy
<1>3. ASSUME NEW a \in Handlers \cup Heartbeats PROVE ~CloseFd(a)
  BY DEF CloseFd, Goto, Settled, Places
<1>4. ASSUME Accept PROVE Closed
  <2>1. PICK f \in Fds : open[f] = None /\ open' = [open EXCEPT ![f] = accepted]
    BY <1>4 DEF Accept
  <2>2. \A c \in Conns : c # None
    OBVIOUS
  <2> QED
    BY <2>1, <2>2 DEF IsOpen, IInv, Kept, TypeOK
<1>5. ASSUME AddRead \/ AddReadFailed \/ Add \/ UNCHANGED vars PROVE Closed
  BY <1>5 DEF AddRead, AddReadFailed, Add, vars, kernel, IsOpen
<1>6. ASSUME NEW a \in Actors, CloseStep(a), ~CloseFd(a) PROVE Closed
  BY <1>6 DEF CloseStep, CloseUnwatch, CloseUnregister, CloseDrop, CloseReport, kernel, IsOpen
<1>7. ASSUME NEW p \in Pollers, PollerStep(p) PROVE Closed
  BY <1>1, <1>2, <1>6, <1>7 DEF PollerStep, Wait, Lookup, UnwatchOrphan, DecodeRead, DecodeStore,
     DecodeNothing, Actors, kernel, IsOpen
<1>8. ASSUME NEW h \in Handlers, HandlerStep(h) PROVE Closed
  BY <1>3, <1>6, <1>8 DEF HandlerStep, Dispatch, Return, HandlerClose, Actors, kernel, IsOpen
<1>9. ASSUME NEW b \in Heartbeats, BeatStep(b) PROVE Closed
  BY <1>3, <1>6, <1>9 DEF BeatStep, Beat, BeatUnregister, BeatUnwatch, Actors, kernel, IsOpen
<1>10. ASSUME NEW c \in Conns, PeerSends(c) \/ PeerLeaves(c) PROVE Closed
  BY <1>10 DEF PeerSends, PeerLeaves, IsOpen
<1>11. Closed
  BY <1>4, <1>5, <1>7, <1>8, <1>9, <1>10 DEF Next
<1>12. \A p \in Pollers : at[p] = "decode" => SocketOf(conn[p]) = conn[p]
  BY AtWork DEF Busy, Holds
<1> QED
  BY <1>11, <1>12

\* As long as no event is looked up before its connection is added and only the pollers
\* close, descriptors are reused without harm: a socket is closed by the Close of
\* its own connection and by nothing else, a poller reads from the connection's
\* own peer, and nobody uses a buffer or poller that is not there (Close of
\* server/router.go, the poller of eventloop/epoll.go).
THEOREM CalmUsesOwnSocket == Spec => UsesOwnSocket
<1>1. IInv /\ (Calm => Settled) /\ [Next]_vars
      => /\ [Calm' => \A c \in Conns :
               IsOpen(c) /\ ~IsOpen(c)'
                 => \E a \in Actors : conn[a] = c /\ at[a] = "close" /\ at'[a] = "drop"]_vars
         /\ [Calm' => \A p \in Pollers :
               at[p] = "decode" /\ at'[p] = "store" => SocketOf(conn[p]) = conn[p]]_vars
  BY OwnSocketStep, CalmBefore
<1>2. (Calm => Settled) => NoPanic
  BY DEF Settled, NoPanic
<1> QED
  BY <1>1, <1>2, Inductive, AlwaysSettled, PTL DEF Spec, UsesOwnSocket, ClosesOwn, ReadsOwn
=============================================================================
