---------------------------- MODULE WsCloseProofs ----------------------------
(***************************************************************************)
(* Proofs about WsClose for any number of goroutines that close, and any   *)
(* number of frames.                                                       *)
(***************************************************************************)
EXTENDS WsClose, FiniteSetTheorems, TLAPS

Goroutines == Closers \cup {Poller}

\* The close frame has been taken by the kernel, or waits in the queue.
Said == "close" \in ToSet(wire) \cup ToSet(writeQ)

\* Who has sent or queued it: everybody who is past the first call of CloseCode.
Farewell ==
  /\ writeQ \in Seq({"text", "close"}) /\ wire \in Seq({"response", "text", "close"})
  /\ closing \in [Goroutines -> Nat]
  /\ state = "EPollIN" => writeQ = <<>>
  /\ \A g \in Goroutines : closing[g] > 1 => Said
  /\ ~registered \/ ~open => Said

\* Appending keeps what a sequence holds, and adds the new element.
LEMMA Appended ==
  ASSUME NEW S, NEW s \in Seq(S), NEW e \in S
  PROVE  ToSet(s) \subseteq ToSet(Append(s, e)) /\ e \in ToSet(Append(s, e))
<1>1. \A i \in DOMAIN s : i \in DOMAIN Append(s, e) /\ Append(s, e)[i] = s[i] OBVIOUS
<1>2. Len(s) + 1 \in DOMAIN Append(s, e) /\ Append(s, e)[Len(s) + 1] = e OBVIOUS
<1> QED BY <1>1, <1>2 DEF ToSet

\* Concatenation holds what its parts hold.
LEMMA Concatenated ==
  ASSUME NEW S, NEW s \in Seq(S), NEW t \in Seq(S)
  PROVE  ToSet(s) \cup ToSet(t) \subseteq ToSet(s \o t)
<1>1. \A i \in DOMAIN s : i \in DOMAIN (s \o t) /\ (s \o t)[i] = s[i] OBVIOUS
<1>2. \A i \in DOMAIN t : Len(s) + i \in DOMAIN (s \o t) /\ (s \o t)[Len(s) + i] = t[i] OBVIOUS
<1> QED BY <1>1, <1>2 DEF ToSet

\* A goroutine is at its first call, push, or past it.
LEMMA Past ==
  ASSUME Farewell, NEW g \in Goroutines, NEW call, At(g, call)
  PROVE  /\ call = "push" => closing[g] = 1
         /\ call # "push" => closing[g] > 1 /\ Said
<1>1. closing[g] \in 1..13 /\ Calls[closing[g]] = call BY DEF At, Calls
<1>2. Calls[1] = "push" BY DEF Calls
<1>3. \A k \in 2..13 : Calls[k] # "push" BY DEF Calls
<1> QED BY <1>1, <1>2, <1>3 DEF Farewell

\* A step that neither sends nor starts anything keeps the invariant.
LEMMA FarewellStill ==
  ASSUME Farewell, UNCHANGED <<writeQ, wire, state>>,
         closing' \in [Goroutines -> Nat],
         \A g \in Goroutines : closing'[g] > 1 => closing[g] > 1 \/ Said,
         ~registered' \/ ~open' => ~registered \/ ~open \/ Said
  PROVE  Farewell'
  BY DEF Farewell, Said

\* CloseCode: push says it, and the others come after push.
LEMMA CloseCodeKeeps ==
  ASSUME Farewell, NEW g \in Goroutines, CloseCode(g)
  PROVE  Farewell'
<1> USE DEF writing, kernel
<1>1. CASE Push(g)
  <2>1. closing' = [closing EXCEPT ![g] = @ + 1] /\ UNCHANGED <<registered, open, state>>
    BY <1>1 DEF Push, Proceed
  <2>2. closing' \in [Goroutines -> Nat] BY <2>1 DEF Farewell
  <2>3. CASE state = "EPollOUT"
    <3>1. writeQ' = Append(writeQ, "close") /\ wire' = wire BY <1>1, <2>3 DEF Push
    <3>2. "close" \in ToSet(writeQ') BY <3>1, Appended DEF Farewell
    <3>3. Said' BY <3>2 DEF Said
    <3> QED BY <2>1, <2>2, <2>3, <3>1, <3>3 DEF Farewell
  <2>4. CASE state # "EPollOUT" /\ open
    <3>1. wire' = Append(wire, "close") /\ writeQ' = writeQ BY <1>1, <2>4 DEF Push
    <3>2. "close" \in ToSet(wire') BY <3>1, Appended DEF Farewell
    <3>3. Said' BY <3>2 DEF Said
    <3> QED BY <2>1, <2>2, <3>1, <3>3 DEF Farewell
  <2>5. CASE state # "EPollOUT" /\ ~open
    <3>1. wire' = wire /\ writeQ' = writeQ BY <1>1, <2>5 DEF Push
    <3>2. Said BY <2>5 DEF Farewell
    <3> QED BY <2>1, <2>2, <3>1, <3>2, FarewellStill
  <2> QED BY <2>3, <2>4, <2>5
<1>2. CASE CloseFd(g)
  <2>1. Said BY <1>2, Past DEF CloseFd
  <2>2. closing' \in [Goroutines -> Nat] BY <1>2 DEF CloseFd, Proceed, Farewell
  <2>3. UNCHANGED <<writeQ, wire, state>> BY <1>2 DEF CloseFd
  <2> QED BY <2>1, <2>2, <2>3, FarewellStill
<1>3. CASE EpollRemove(g) \/ Unregister(g) \/ OnClose(g) \/ Close(g) \/ Clear(g)
  <2>1. PICK call \in {"Remove", "connectMgr.Remove", "OnClose", "Close"} \cup DOMAIN Zero :
          At(g, call)
    BY <1>3 DEF EpollRemove, Unregister, OnClose, Close, Clear
  <2>2. call # "push" BY DEF Zero
  <2>3. Said BY <2>1, <2>2, Past
  <2>4. closing' = [closing EXCEPT ![g] = @ + 1] /\ UNCHANGED <<writeQ, wire, state>>
    BY <1>3 DEF EpollRemove, Unregister, OnClose, Close, Clear, Proceed
  <2>5. closing' \in [Goroutines -> Nat] BY <2>4 DEF Farewell
  <2> QED BY <2>3, <2>4, <2>5, FarewellStill
<1> QED BY <1>1, <1>2, <1>3 DEF CloseCode

\* The poller: what it flushes keeps its place on the wire, and it closes only
\* descriptors of connections that have left the manager.
LEMMA PollingKeeps ==
  ASSUME Farewell, Polling
  PROVE  Farewell'
<1> USE DEF Goto, Closes, Panics, kernel, writing
<1>1. closing' = closing \/ closing' = [closing EXCEPT ![Poller] = 1]
  BY DEF Polling, Event, Lookup, Flush, ReadFails, ReadRequest, Answer, Open, ReadHead, Switch,
         Payload, Store, Complete, Unmask, AppendPacket, Deliver
<1>2. /\ closing' \in [Goroutines -> Nat]
      /\ \A g \in Goroutines : closing'[g] > 1 => closing[g] > 1
  BY <1>1 DEF Farewell, Goroutines
<1>3. CASE Answer
  <2>1. /\ wire' = wire \/ wire' = Append(wire, "response")
        /\ UNCHANGED <<registered, open, state, writeQ>>
    BY <1>3 DEF Answer
  <2>2. Said => Said'
    <3>1. wire \in Seq({"response", "text", "close"}) BY DEF Farewell
    <3>2. ToSet(wire) \subseteq ToSet(Append(wire, "response")) BY <3>1, Appended
    <3> QED BY <2>1, <3>2 DEF Said
  <2>3. wire' \in Seq({"response", "text", "close"}) BY <2>1 DEF Farewell
  <2> QED BY <1>2, <2>1, <2>2, <2>3 DEF Farewell
<1>4. CASE Flush
  <2>1. UNCHANGED <<registered, open>> BY <1>4 DEF Flush
  <2>2. CASE writeQ' = writeQ /\ wire' = wire
    <3>1. state' = state \/ writeQ = <<>> BY <1>4, <2>2 DEF Flush
    <3> QED BY <1>2, <2>1, <2>2, <3>1 DEF Farewell, Said
  <2>3. CASE writeQ # <<>> /\ wire' = wire \o writeQ /\ writeQ' = <<>> /\ state' = state
    <3>1. /\ wire \in Seq({"response", "text", "close"})
          /\ writeQ \in Seq({"response", "text", "close"})
      BY DEF Farewell
    <3>2. Said => Said' BY <2>3, <3>1, Concatenated DEF Said
    <3>3. wire' \in Seq({"response", "text", "close"}) BY <2>3, <3>1
    <3> QED BY <1>2, <2>1, <2>3, <3>2, <3>3 DEF Farewell
  <2> QED BY <1>4, <2>2, <2>3 DEF Flush
<1>5. CASE Lookup
  <2>1. UNCHANGED <<writeQ, wire, state, registered>> /\ (~open' => ~open \/ ~registered)
    BY <1>5 DEF Lookup
  <2> QED BY <1>2, <2>1, FarewellStill
<1>6. CASE Polling /\ ~Answer /\ ~Flush /\ ~Lookup
  <2>1. UNCHANGED <<writeQ, wire, state, registered, open>>
    BY <1>6 DEF Polling, Event, ReadFails, ReadRequest, Open, ReadHead, Switch, Payload, Store,
                Complete, Unmask, AppendPacket, Deliver
  <2> QED BY <1>2, <2>1, FarewellStill
<1> QED BY <1>3, <1>4, <1>5, <1>6

\* The environment, and the beginning of a Close.
LEMMA OthersKeep ==
  ASSUME Farewell,
         PeerSends \/ PeerLeaves \/ TextFills \/ (\E g \in Closers : Begins(g))
  PROVE  Farewell'
<1> USE DEF kernel, writing
<1>1. CASE PeerSends \/ PeerLeaves
  BY <1>1, FarewellStill DEF PeerSends, PeerLeaves, Farewell
<1>2. CASE TextFills
  <2>1. /\ state = "EPollIN" /\ state' = "EPollOUT" /\ writeQ' = <<"text">>
        /\ UNCHANGED <<wire, closing, registered, open>>
    BY <1>2 DEF TextFills
  <2>2. Said => "close" \in ToSet(wire) BY <2>1 DEF Farewell, Said, ToSet
  <2>3. Said => Said' BY <2>1, <2>2 DEF Said
  <2> QED BY <2>1, <2>3 DEF Farewell
<1>3. ASSUME NEW g \in Closers, Begins(g) PROVE Farewell'
  <2>1. closing' = [closing EXCEPT ![g] = 1]
        /\ UNCHANGED <<writeQ, wire, state, registered, open>>
    BY <1>3 DEF Begins
  <2> QED BY <2>1, FarewellStill DEF Farewell, Goroutines
<1> QED BY <1>1, <1>2, <1>3

\* The invariant holds always.
LEMMA AlwaysFarewell == Spec => []Farewell
<1>1. Init => Farewell BY DEF Init, Farewell, Goroutines
<1>2. Farewell /\ [Next]_vars => Farewell'
  <2> SUFFICES ASSUME Farewell, [Next]_vars PROVE Farewell' OBVIOUS
  <2>1. CASE UNCHANGED vars
    BY <2>1, FarewellStill DEF vars, kernel, writing, Farewell
  <2>2. ASSUME NEW g \in Goroutines, CloseCode(g) PROVE Farewell' BY <2>2, CloseCodeKeeps
  <2> QED BY <2>1, <2>2, PollingKeeps, OthersKeep DEF Next, Goroutines
<1> QED BY <1>1, <1>2, PTL DEF Spec

\* However many goroutines close, no descriptor is closed before a close frame was
\* given to the kernel or put behind what is queued (websocket_ctrl.go:99-119,
\* epoll.go:62-67).
THEOREM AlwaysGoodbye == Spec => []Goodbye
<1>1. Farewell => Goodbye BY DEF Farewell, Said, Goodbye
<1> QED BY <1>1, AlwaysFarewell, PTL

-----------------------------------------------------------------------------

\* A step from where the poller is outside of DecodePacket into it is the look-up
\* of a registered connection, and nothing registers a connection again.
LEMMA StaysOver == Over /\ [Next]_vars => Over'
<1> SUFFICES ASSUME Over, [Next]_vars PROVE Over' OBVIOUS
<1> USE DEF Over, InDecodePacket
<1>1. CASE UNCHANGED vars BY <1>1 DEF vars
<1>2. CASE PeerSends \/ PeerLeaves \/ TextFills \/ (\E g \in Closers : Begins(g))
  BY <1>2 DEF PeerSends, PeerLeaves, TextFills, Begins
<1>3. ASSUME NEW g \in Goroutines, CloseCode(g) PROVE Over'
  BY <1>3 DEF CloseCode, Push, EpollRemove, Unregister, OnClose, Close, Clear, CloseFd
<1>4. CASE Polling
  BY <1>4 DEF Polling, Event, Lookup, Flush, ReadFails, ReadRequest, Answer, Open, ReadHead,
              Switch, Payload, Store, Complete, Unmask, AppendPacket, Deliver, Goto, Closes
<1> QED BY <1>1, <1>2, <1>3, <1>4 DEF Next, Goroutines

\* When remove has passed the connection manager and the poller is between two
\* events, DecodePacket never runs again (websocket_ctrl.go:75-79, epoll.go:62).
THEOREM AlwaysEndsForGood == Spec => EndsForGood
<1>1. Over /\ [Next]_vars => Over' BY StaysOver
<1>2. Over => ~InDecodePacket BY DEF Over
<1> QED BY <1>1, <1>2, PTL DEF Spec, EndsForGood

-----------------------------------------------------------------------------

\* The buffers that nextFrame writes to.
Whole == conn.packetBuffer # Nil /\ conn.continueBuffer # Nil

Buffer == Seq(Int)

\* The fields of a connection that are sequences of bytes, or nil once remove has
\* come to them.
Typed(c) ==
  /\ {"rBuffer", "packetBuffer", "continueBuffer"} \subseteq DOMAIN c
  /\ c.rBuffer \in Buffer
  /\ c.packetBuffer \in Buffer \cup {Nil}
  /\ c.continueBuffer \in Buffer \cup {Nil}

Fields == Typed(conn) /\ payload \in Buffer /\ got \in Nat

\* The decoder has its buffers while the connection is registered, and to the end
\* of a DecodePacket in which nothing is cleared.
Unharmed ==
  /\ Fields
  /\ closing \in [Goroutines -> Nat]
  /\ closing[Poller] # 0 => pc = "closing"
  /\ \A g \in Goroutines : closing[g] > 3 => ~registered
  /\ registered => Whole
  /\ InDecodePacket /\ ~raced => Whole
  /\ panicked => raced

\* What is appended and unmasked are bytes, and nil is not.
LEMMA Bytes ==
  /\ <<>> \in Buffer /\ Nil \notin Buffer
  /\ \A n \in Nat : <<-n>> \in Buffer
  /\ \A a, b \in Buffer : a \o b \in Buffer
  /\ \A a \in Buffer : [i \in DOMAIN a |-> -a[i]] \in Buffer
<1> USE DEF Buffer
<1>1. <<>> \in Buffer /\ Nil \notin Buffer BY WsCloseAssumption DEF WsCloseAssumption
<1>2. ASSUME NEW n \in Nat PROVE <<-n>> \in Buffer
  <2>1. -n \in Int OBVIOUS
  <2> QED BY <2>1
<1>3. ASSUME NEW a \in Buffer, NEW b \in Buffer PROVE a \o b \in Buffer OBVIOUS
<1>4. ASSUME NEW a \in Buffer PROVE [i \in DOMAIN a |-> -a[i]] \in Buffer
  <2>1. DOMAIN a = 1..Len(a) /\ Len(a) \in Nat /\ \A i \in DOMAIN a : -a[i] \in Int OBVIOUS
  <2> QED BY <2>1
<1> QED BY <1>1, <1>2, <1>3, <1>4

\* The numbers of the calls.
LEMMA Numbers ==
  ASSUME Unharmed, NEW g \in Goroutines, NEW call, At(g, call)
  PROVE  /\ closing[g] \in 1..13
         /\ call = "push" => closing[g] = 1
         /\ call = "Remove" => closing[g] = 2
         /\ call \notin {"push", "Remove", "connectMgr.Remove"} => closing[g] > 3
<1>1. closing[g] \in 1..13 /\ Calls[closing[g]] = call BY DEF At, Calls
<1>2. Calls[1] = "push" /\ Calls[2] = "Remove" /\ Calls[3] = "connectMgr.Remove" BY DEF Calls
<1>3. \A k \in 2..13 : Calls[k] # "push" BY DEF Calls
<1>4. \A k \in 3..13 : Calls[k] # "Remove" BY DEF Calls
<1> QED BY <1>1, <1>2, <1>3, <1>4

\* A step outside of DecodePacket that leaves the buffers.
LEMMA UnharmedStill ==
  ASSUME Unharmed, UNCHANGED <<conn, payload, got, raced, panicked>>,
         closing' \in [Goroutines -> Nat],
         \A g \in Goroutines : closing'[g] > 3 => closing[g] > 3 \/ ~registered',
         closing'[Poller] # 0 => pc' = "closing",
         registered' => registered,
         InDecodePacket' => InDecodePacket \/ registered
  PROVE  Unharmed'
  BY DEF Unharmed, Whole, Fields

\* CloseCode clears nothing before the connection has left the manager.
LEMMA CloseCodeHarmless ==
  ASSUME Unharmed, NEW g \in Goroutines, CloseCode(g)
  PROVE  Unharmed'
<1> USE DEF kernel, peer, writing, decoding
<1>1. Poller \in Goroutines /\ (g = Poller /\ closing[g] # 0 => pc = "closing")
  BY DEF Unharmed, Goroutines
<1>2. CASE Push(g) \/ EpollRemove(g) \/ OnClose(g) \/ Close(g)
  <2>1. PICK call \in {"push", "Remove", "OnClose", "Close"} : At(g, call)
    BY <1>2 DEF Push, EpollRemove, OnClose, Close
  <2>2. closing' = [closing EXCEPT ![g] = @ + 1]
        /\ UNCHANGED <<got, conn, payload, registered, pc, raced, panicked>>
    BY <1>2 DEF Push, EpollRemove, OnClose, Close, Proceed
  <2>3. closing[g] \in Nat /\ closing[g] >= 1 /\ (closing[g] + 1 > 3 => closing[g] > 3)
    BY <2>1, Numbers
  <2>4. closing' \in [Goroutines -> Nat]
        /\ \A h \in Goroutines : closing'[h] > 3 => closing[h] > 3
    BY <2>2, <2>3 DEF Unharmed
  <2>5. closing'[Poller] # 0 => pc' = "closing"
    BY <1>1, <2>2, <2>3 DEF Unharmed, InDecodePacket
  <2>6. InDecodePacket' => InDecodePacket BY <2>2 DEF InDecodePacket
  <2> QED BY <2>2, <2>4, <2>5, <2>6, UnharmedStill
<1>3. CASE Unregister(g)
  <2>1. closing' = [closing EXCEPT ![g] = @ + 1] /\ registered' = FALSE
        /\ UNCHANGED <<got, conn, payload, pc, raced, panicked>>
    BY <1>3 DEF Unregister, Proceed
  <2>2. closing[g] \in Nat /\ closing[g] >= 1 BY <1>3, Numbers DEF Unregister
  <2>3. closing' \in [Goroutines -> Nat] BY <2>1, <2>2 DEF Unharmed
  <2>4. closing'[Poller] # 0 => pc' = "closing"
    BY <1>1, <2>1, <2>2 DEF Unharmed, InDecodePacket
  <2>5. InDecodePacket' => InDecodePacket BY <2>1 DEF InDecodePacket
  <2> QED BY <2>1, <2>3, <2>4, <2>5, UnharmedStill
<1>4. CASE Clear(g)
  <2>1. PICK field \in DOMAIN Zero :
          At(g, field) /\ conn' = [conn EXCEPT ![field] = Zero[field]]
    BY <1>4 DEF Clear
  <2>2. closing' = [closing EXCEPT ![g] = @ + 1] /\ raced' = (raced \/ InDecodePacket)
        /\ UNCHANGED <<got, payload, registered, pc, panicked>>
    BY <1>4 DEF Clear, Proceed
  <2>3. field \notin {"push", "Remove", "connectMgr.Remove"} BY DEF Zero
  <2>4. closing[g] \in Nat /\ closing[g] > 3 BY <2>1, <2>3, Numbers
  <2>5. ~registered' BY <2>2, <2>4 DEF Unharmed
  <2>6. Fields'
    <3>1. Typed(conn) /\ <<>> \in Buffer BY Bytes DEF Unharmed, Fields
    <3>2. field # "rBuffer" => conn'.rBuffer = conn.rBuffer BY <2>1, <3>1 DEF Typed
    <3>3. field # "packetBuffer" => conn'.packetBuffer = conn.packetBuffer
      BY <2>1, <3>1 DEF Typed
    <3>4. field # "continueBuffer" => conn'.continueBuffer = conn.continueBuffer
      BY <2>1, <3>1 DEF Typed
    <3>5. field \in {"rBuffer", "packetBuffer", "continueBuffer"} => conn'[field] = Zero[field]
      BY <2>1, <3>1 DEF Typed
    <3>6. Zero["rBuffer"] = <<>> /\ Zero["packetBuffer"] = Nil /\ Zero["continueBuffer"] = Nil
      BY DEF Zero
    <3>7. DOMAIN conn' = DOMAIN conn BY <2>1
    <3>8. Typed(conn') BY <3>1, <3>2, <3>3, <3>4, <3>5, <3>6, <3>7 DEF Typed
    <3> QED BY <3>8, <2>2 DEF Unharmed, Fields
  <2>7. closing' \in [Goroutines -> Nat] BY <2>2, <2>4 DEF Unharmed
  <2>8. closing'[Poller] # 0 => pc' = "closing"
    BY <1>1, <2>2, <2>4 DEF Unharmed, InDecodePacket
  <2>9. InDecodePacket' => raced' BY <2>2 DEF InDecodePacket
  <2>10. panicked' => raced' BY <2>2 DEF Unharmed
  <2> QED BY <2>5, <2>6, <2>7, <2>8, <2>9, <2>10 DEF Unharmed
<1>5. CASE CloseFd(g)
  <2>1. /\ \/ closing' = [closing EXCEPT ![g] = @ + 1] /\ pc' = pc /\ g # Poller
           \/ closing' = [closing EXCEPT ![g] = 0] /\ pc' = "wait" /\ g = Poller
        /\ UNCHANGED <<got, conn, payload, registered, raced, panicked>>
    BY <1>5 DEF CloseFd, Proceed
  <2>2. closing[g] \in Nat /\ closing[g] > 3 BY <1>5, Numbers DEF CloseFd
  <2>3. closing' \in [Goroutines -> Nat] BY <2>1, <2>2 DEF Unharmed
  <2>4. \A h \in Goroutines : closing'[h] > 3 => closing[h] > 3
    BY <2>1, <2>2 DEF Unharmed
  <2>5. closing'[Poller] # 0 => pc' = "closing"
    BY <1>1, <2>1, <2>2 DEF Unharmed, InDecodePacket
  <2>6. InDecodePacket' => InDecodePacket BY <2>1 DEF InDecodePacket
  <2> QED BY <2>1, <2>3, <2>4, <2>5, <2>6, UnharmedStill
<1> QED BY <1>2, <1>3, <1>4, <1>5 DEF CloseCode

\* The poller's steps that write to no field: from the look-up of a registered
\* connection on it has the buffers it needs.
LEMMA ReadingHarmless ==
  ASSUME Unharmed,
         \/ Event \/ Lookup \/ Flush \/ ReadFails \/ ReadRequest \/ Answer \/ Open \/ Switch
         \/ Payload \/ Complete \/ Unmask
  PROVE  Unharmed'
<1> USE DEF kernel, peer, writing, decoding, Goto, Closes, Panics
<1>1. UNCHANGED <<conn, registered, raced>>
  BY DEF Event, Lookup, Flush, ReadFails, ReadRequest, Answer, Open, Switch, Payload, Complete,
         Unmask
<1>2. Fields'
  <2>1. got' \in Nat BY DEF Event, Lookup, Flush, ReadFails, ReadRequest, Answer, Open, Switch,
                            Payload, Complete, Unmask, Unharmed, Fields
  <2>2. conn.rBuffer \in Buffer /\ got \in Nat BY DEF Unharmed, Fields, Typed
  <2>3. payload' \in Buffer
    <3>1. CASE Payload BY <3>1, <2>2, Bytes DEF Payload
    <3>2. CASE Unmask BY <3>2, <2>2, Bytes DEF Unmask
    <3>3. CASE payload' = payload BY <3>3 DEF Unharmed, Fields
    <3> QED BY <3>1, <3>2, <3>3
            DEF Event, Lookup, Flush, ReadFails, ReadRequest, Answer, Open, Switch, Complete
  <2> QED BY <1>1, <2>1, <2>3 DEF Unharmed, Fields
<1>3. \/ closing' = closing
      \/ closing' = [closing EXCEPT ![Poller] = 1] /\ pc' = "closing"
  BY DEF Event, Lookup, Flush, ReadFails, ReadRequest, Answer, Open, Switch, Payload, Complete,
         Unmask
<1>4. closing' \in [Goroutines -> Nat]
      /\ \A g \in Goroutines : closing'[g] > 3 => closing[g] > 3
  BY <1>3 DEF Unharmed, Goroutines
<1>5. InDecodePacket' => InDecodePacket \/ registered
  <2>1. CASE Event \/ Flush BY <2>1 DEF Event, Flush, InDecodePacket
  <2>2. CASE Lookup BY <2>2 DEF Lookup, InDecodePacket
  <2>3. CASE ReadFails \/ ReadRequest \/ Answer \/ Open \/ Switch \/ Payload \/ Complete \/ Unmask
    BY <2>3 DEF ReadFails, ReadRequest, Answer, Open, Switch, Payload, Complete, Unmask,
                InDecodePacket
  <2> QED BY <2>1, <2>2, <2>3
<1>6. panicked' # panicked => panicked' /\ raced
  <2>1. CASE Switch BY <2>1, <1>1 DEF Switch, Unharmed, Whole, InDecodePacket
  <2>2. CASE ~Switch
    BY <2>2 DEF Event, Lookup, Flush, ReadFails, ReadRequest, Answer, Open, Payload, Complete,
                Unmask
  <2> QED BY <2>1, <2>2
<1>7. pc # "closing"
  BY DEF Event, Lookup, Flush, ReadFails, ReadRequest, Answer, Open, Switch, Payload, Complete,
         Unmask
<1>8. closing'[Poller] # 0 => pc' = "closing" BY <1>3, <1>7 DEF Unharmed
<1> QED BY <1>1, <1>2, <1>4, <1>5, <1>6, <1>8 DEF Unharmed, Whole

\* The steps that write to fields.
LEMMA WritingHarmless ==
  ASSUME Unharmed, ReadHead \/ Store \/ AppendPacket \/ Deliver
  PROVE  Unharmed'
<1> USE DEF kernel, peer, writing, decoding, Goto, Panics
<1>1. /\ UNCHANGED <<registered, raced, closing>>
      /\ pc # "closing" /\ InDecodePacket
      /\ payload' = payload
  BY DEF ReadHead, Store, AppendPacket, Deliver, InDecodePacket
<1>2. Typed(conn) /\ payload \in Buffer /\ got \in Nat
  BY DEF Unharmed, Fields
<1>3. Nil \notin Buffer BY Bytes
<1>4. Typed(conn') /\ got' \in Nat /\ (Whole => Whole')
  <2> USE DEF Typed, Whole
  <2>1. CASE ReadHead
    <3>1. /\ conn'.rBuffer = conn.rBuffer /\ conn'.packetBuffer = conn.packetBuffer
          /\ conn'.continueBuffer = conn.continueBuffer /\ DOMAIN conn' = DOMAIN conn
      BY <2>1, <1>2 DEF ReadHead
    <3>2. got' = got + 1 BY <2>1 DEF ReadHead
    <3> QED BY <3>1, <3>2, <1>2
  <2>2. CASE Store
    <3>1. conn.rBuffer \o payload \in Buffer BY <1>2, Bytes
    <3>2. got' = got /\ (conn' = conn \/ conn' = [conn EXCEPT !.rBuffer = conn.rBuffer \o payload])
      BY <2>2 DEF Store
    <3> QED BY <3>1, <3>2, <1>2
  <2>3. CASE AppendPacket
    <3>1. CASE conn.packetBuffer = Nil BY <2>3, <3>1, <1>2 DEF AppendPacket
    <3>2. CASE conn.packetBuffer # Nil
      <4>1. conn.packetBuffer \o payload \in Buffer BY <3>2, <1>2, Bytes
      <4>2. conn' = [Zero EXCEPT !.packetBuffer = conn.packetBuffer \o payload,
                                 !.continueBuffer = conn.continueBuffer,
                                 !.messageMode = conn.messageMode]
            /\ got' = got
        BY <2>3, <3>2 DEF AppendPacket
      <4>3. /\ DOMAIN Zero = DOMAIN conn' /\ conn'.rBuffer = <<>>
            /\ conn'.packetBuffer = conn.packetBuffer \o payload
            /\ conn'.continueBuffer = conn.continueBuffer
        BY <4>2 DEF Zero
      <4>4. {"rBuffer", "packetBuffer", "continueBuffer"} \subseteq DOMAIN Zero BY DEF Zero
      <4>5. <<>> \in Buffer BY Bytes
      <4> QED BY <4>1, <4>2, <4>3, <4>4, <4>5, <1>2, <1>3
    <3> QED BY <3>1, <3>2
  <2>4. CASE Deliver
    <3>1. got' = got BY <2>4 DEF Deliver
    <3>2. CASE conn' = conn BY <3>1, <3>2, <1>2
    <3>3. CASE conn' # conn
      <4>1. conn.packetBuffer # Nil BY <2>4, <3>3 DEF Deliver
      <4>2. <<>> \in Buffer BY Bytes
      <4>3. CASE final
        <5>1. PICK b \in {<<>>, conn.continueBuffer} :
                conn' = [conn EXCEPT !.packetBuffer = <<>>, !.messageMode = 0,
                                     !.continueBuffer = b]
          BY <2>4, <3>3, <4>3 DEF Deliver
        <5>2. /\ DOMAIN conn' = DOMAIN conn /\ conn'.rBuffer = conn.rBuffer
              /\ conn'.packetBuffer = <<>> /\ conn'.continueBuffer = b
          BY <5>1, <1>2
        <5> QED BY <5>2, <4>2, <1>2, <1>3, <3>1
      <4>4. CASE ~final
        <5>1. conn.continueBuffer # Nil BY <2>4, <3>3, <4>4 DEF Deliver
        <5>2. conn.continueBuffer \o conn.packetBuffer \in Buffer
          BY <4>1, <5>1, <1>2, Bytes
        <5>3. conn' = [conn EXCEPT !.packetBuffer = <<>>,
                           !.continueBuffer = conn.continueBuffer \o conn.packetBuffer]
          BY <2>4, <3>3, <4>4 DEF Deliver
        <5>4. /\ DOMAIN conn' = DOMAIN conn /\ conn'.rBuffer = conn.rBuffer
              /\ conn'.packetBuffer = <<>>
              /\ conn'.continueBuffer = conn.continueBuffer \o conn.packetBuffer
          BY <5>3, <1>2
        <5> QED BY <5>2, <5>4, <4>2, <1>2, <1>3, <3>1
      <4> QED BY <4>3, <4>4
    <3> QED BY <3>2, <3>3
  <2> QED BY <2>1, <2>2, <2>3, <2>4
<1>5. panicked' # panicked => panicked' /\ raced
  BY DEF ReadHead, Store, AppendPacket, Deliver, Unharmed, Whole, InDecodePacket
<1>6. Fields' BY <1>1, <1>2, <1>4 DEF Unharmed, Fields
<1> QED BY <1>1, <1>4, <1>5, <1>6 DEF Unharmed, InDecodePacket

\* The environment, and the beginning of a Close.
LEMMA OthersHarmless ==
  ASSUME Unharmed,
         PeerSends \/ PeerLeaves \/ TextFills \/ (\E g \in Closers : Begins(g))
  PROVE  Unharmed'
<1> USE DEF kernel, peer, writing, decoding
<1>1. UNCHANGED <<conn, payload, got, raced, panicked, registered, pc>>
  BY DEF PeerSends, PeerLeaves, TextFills, Begins
<1>3. closing' = closing \/ \E g \in Closers : closing' = [closing EXCEPT ![g] = 1]
  BY DEF PeerSends, PeerLeaves, TextFills, Begins
<1>4. /\ closing' \in [Goroutines -> Nat] /\ closing'[Poller] = closing[Poller]
      /\ \A g \in Goroutines : closing'[g] > 3 => closing[g] > 3
  BY <1>3, WsCloseAssumption DEF WsCloseAssumption, Unharmed, Goroutines
<1> QED BY <1>1, <1>4, UnharmedStill DEF Unharmed, InDecodePacket

\* The invariant holds always.
LEMMA AlwaysUnharmed == Spec => []Unharmed
<1>1. Init => Unharmed
  <2> SUFFICES ASSUME Init PROVE Unharmed OBVIOUS
  <2> USE DEF Init
  <2>1. Nil \notin Buffer BY Bytes
  <2>2. conn = [rBuffer |-> <<>>, masks |-> FALSE, opcode |-> 0, fragmentLength |-> 0,
                packetBuffer |-> <<>>, continueBuffer |-> <<>>, messageMode |-> 0]
    BY DEF Zero
  <2>3. <<>> \in Buffer BY Bytes
  <2>4. <<>> # Nil BY <2>1, <2>3
  <2>5. Whole BY <2>2, <2>4 DEF Whole
  <2>6. Typed(conn)
    <3>1. conn = [Zero EXCEPT !.packetBuffer = <<>>, !.continueBuffer = <<>>] OBVIOUS
    <3> HIDE DEF Init
    <3>2. DOMAIN conn = DOMAIN Zero /\ conn.rBuffer = <<>>
          /\ conn.packetBuffer = <<>> /\ conn.continueBuffer = <<>>
      BY <3>1 DEF Zero
    <3>3. {"rBuffer", "packetBuffer", "continueBuffer"} \subseteq DOMAIN Zero BY DEF Zero
    <3> QED BY <3>2, <3>3, <2>3 DEF Typed
  <2>7. Fields BY <2>3, <2>6 DEF Fields
  <2> QED BY <2>5, <2>7 DEF Unharmed, Goroutines, InDecodePacket
<1>2. Unharmed /\ [Next]_vars => Unharmed'
  <2> SUFFICES ASSUME Unharmed, [Next]_vars PROVE Unharmed' OBVIOUS
  <2>1. CASE UNCHANGED vars
    BY <2>1 DEF vars, kernel, peer, writing, decoding, Unharmed, Fields, Whole, InDecodePacket
  <2>2. ASSUME NEW g \in Goroutines, CloseCode(g) PROVE Unharmed' BY <2>2, CloseCodeHarmless
  <2>3. CASE Polling BY <2>3, ReadingHarmless, WritingHarmless DEF Polling
  <2> QED BY <2>1, <2>2, <2>3, OthersHarmless DEF Next, Goroutines
<1> QED BY <1>1, <1>2, PTL DEF Spec

-----------------------------------------------------------------------------

Frames == {Request, Junk, Text, Part, Rest, Bye}

\* The peer keeps the protocol: a request or junk, then frames, of which a rest
\* comes after a part and nothing else but a CLOSE does.
Protocol ==
  /\ sent \in Seq(Frames) /\ Len(sent) <= MaxSend
  /\ \A i \in DOMAIN sent : i > 1 => sent[i] \notin {Request, Junk}
  /\ \A i \in DOMAIN sent : i > 1 => /\ sent[i] = Rest => sent[i - 1] = Part
                                     /\ sent[i] \in {Text, Part} => sent[i - 1] # Part

\* The poller is past the request when it decodes frames.
Reading ==
  /\ got \in 0..Len(sent)
  /\ isHandleShake \/ pc \in {"answer", "open", "head"} => got > 0
  /\ pc = "head" => isHandleShake

\* Open has been called if the handshake is done, except between the two.
Opening ==
  /\ isHandleShake \in BOOLEAN
  /\ opened = IF isHandleShake /\ pc # "open" THEN 1 ELSE 0
  /\ pc \in {"handshake", "answer"} => ~isHandleShake
  /\ pc = "open" => isHandleShake

Orderly == Protocol /\ Reading /\ Opening

\* No frame is taken for another one.
LEMMA FramesDiffer ==
  /\ {Text, Part, Rest, Bye} \cap {Request, Junk} = {}
  /\ Part \notin {Request, Text, Rest, Bye} /\ Rest \notin {Text, Bye} /\ Text # Bye
  /\ \A frame \in {Text, Part, Rest, Bye} :
       frame.opcode \in {CONTINUATION, TEXTMODE, CLOSE}
<1>1. Request.opcode = -1 /\ Junk.opcode = -1 /\ Bye.opcode = 8 /\ Rest.opcode = 0
      /\ Text.opcode = 1 /\ Part.opcode = 1
  BY DEF Request, Junk, Bye, Rest, Text, Part, CLOSE, TEXTMODE, CONTINUATION
<1>2. Text.final = TRUE /\ Part.final = FALSE BY DEF Text, Part
<1>3. Text # Part BY <1>2
<1> QED BY <1>1, <1>3 DEF CLOSE, TEXTMODE, CONTINUATION

\* The peer's next frame keeps the protocol.
LEMMA FollowingKeeps ==
  ASSUME Protocol, NEW frame \in Following
  PROVE  /\ frame \in Frames
         /\ Len(sent) # 0 => /\ frame \notin {Request, Junk}
                             /\ frame = Rest => sent[Len(sent)] = Part
                             /\ frame \in {Text, Part} => sent[Len(sent)] # Part
<1>1. CASE sent = <<>> BY <1>1 DEF Following, Frames
<1>2. CASE sent # <<>>
  <2>1. CASE Last(sent) \in {Request, Text, Rest}
    <3>2. Last(sent) # Part BY <2>1, FramesDiffer
    <3>1. frame \in {Text, Part, Bye} BY <1>2, <2>1, <3>2 DEF Following
    <3> QED BY <1>2, <2>1, <3>1, FramesDiffer DEF Frames, Last
  <2>2. CASE Last(sent) = Part
    <3>1. Last(sent) \notin {Request, Text, Rest} BY <2>2, FramesDiffer
    <3>2. frame \in {Rest, Bye} BY <1>2, <2>2, <3>1 DEF Following
    <3> QED BY <1>2, <2>2, <3>2, FramesDiffer DEF Frames, Last
  <2>3. CASE Last(sent) \notin {Request, Text, Rest} /\ Last(sent) # Part
    BY <1>2, <2>3 DEF Following
  <2> QED BY <2>1, <2>2, <2>3
<1> QED BY <1>1, <1>2

\* What the peer sends.
LEMMA PeerOrderly ==
  ASSUME Orderly, PeerSends
  PROVE  Orderly'
<1>1. PICK frame \in Following : sent' = Append(sent, frame)
  BY DEF PeerSends
<1>2. Len(sent) < MaxSend /\ UNCHANGED <<got, pc, isHandleShake, opened>>
  BY DEF PeerSends, decoding, callbacks
<1>3. sent \in Seq(Frames) /\ Len(sent) \in Nat BY DEF Orderly, Protocol
<1>4. /\ frame \in Frames
      /\ Len(sent) # 0 => /\ frame \notin {Request, Junk}
                          /\ frame = Rest => sent[Len(sent)] = Part
                          /\ frame \in {Text, Part} => sent[Len(sent)] # Part
  BY ONLY FollowingKeeps, Orderly, frame \in Following DEF Orderly
<1>5. /\ sent' \in Seq(Frames) /\ Len(sent') = Len(sent) + 1 /\ sent'[Len(sent) + 1] = frame
      /\ \A i \in 1..Len(sent) : sent'[i] = sent[i]
  BY <1>1, <1>3, <1>4
<1>6. Protocol'
  <2>1. Len(sent') <= MaxSend
    BY <1>2, <1>3, <1>5, WsCloseAssumption DEF WsCloseAssumption
  <2>2. ASSUME NEW i \in DOMAIN sent', i > 1
        PROVE  /\ sent'[i] \notin {Request, Junk}
               /\ sent'[i] = Rest => sent'[i - 1] = Part
               /\ sent'[i] \in {Text, Part} => sent'[i - 1] # Part
    <3>1. i \in Nat /\ i - 1 \in 1..Len(sent) /\ i <= Len(sent) + 1
      BY <1>3, <1>5, <2>2
    <3>2. sent'[i - 1] = sent[i - 1] BY <1>5, <3>1
    <3>3. CASE i = Len(sent) + 1
      <4>1. Len(sent) # 0 /\ i - 1 = Len(sent) /\ sent'[i] = frame
        BY <1>3, <1>5, <3>1, <3>3
      <4>2. sent'[i - 1] = sent[Len(sent)] BY <3>2, <4>1
      <4> QED BY <1>4, <4>1, <4>2
    <3>4. CASE i # Len(sent) + 1
      <4>1. i \in DOMAIN sent /\ sent'[i] = sent[i]
        BY <1>3, <1>5, <2>2, <3>1, <3>4
      <4> QED BY <2>2, <3>2, <4>1 DEF Orderly, Protocol
    <3> QED BY <3>3, <3>4
  <2> QED BY <1>5, <2>1, <2>2 DEF Protocol
<1>7. Reading' BY <1>2, <1>3, <1>5 DEF Orderly, Reading
<1>8. Opening' BY <1>2 DEF Orderly, Opening
<1> QED BY <1>6, <1>7, <1>8 DEF Orderly

\* The other steps send nothing.
LEMMA OthersOrderly ==
  ASSUME Orderly, Unharmed, sent' = sent,
         PeerLeaves \/ TextFills \/ (\E g \in Closers : Begins(g))
           \/ (\E g \in Goroutines : CloseCode(g)) \/ Polling \/ UNCHANGED vars
  PROVE  Orderly'
<1> USE DEF kernel, peer, writing, decoding, callbacks
<1>1. Protocol' BY DEF Orderly, Protocol
<1>2. CASE PeerLeaves \/ TextFills \/ UNCHANGED vars
  <2>1. UNCHANGED <<got, pc, isHandleShake, opened>> BY <1>2 DEF PeerLeaves, TextFills, vars
  <2> QED BY <1>1, <2>1 DEF Orderly, Reading, Opening
<1>3. ASSUME NEW g \in Closers, Begins(g) PROVE Orderly'
  <2>1. UNCHANGED <<got, pc, isHandleShake, opened>> BY <1>3 DEF Begins
  <2> QED BY <1>1, <2>1 DEF Orderly, Reading, Opening
<1>4. ASSUME NEW g \in Goroutines, CloseCode(g) PROVE Orderly'
  <2>1. UNCHANGED <<got, isHandleShake, opened>>
        /\ (pc' # pc => pc' = "wait" /\ g = Poller /\ CloseFd(g))
    BY <1>4 DEF CloseCode, Push, EpollRemove, Unregister, OnClose, Close, Clear, CloseFd
  <2>2. pc' # pc => pc = "closing"
    <3>1. CloseFd(g) => closing[g] \in 1..13 BY <1>4, Numbers DEF CloseFd
    <3> QED BY <2>1, <3>1 DEF Unharmed
  <2> QED BY <1>1, <2>1, <2>2 DEF Orderly, Reading, Opening
<1>5. CASE Polling
  <2> USE DEF Goto, Closes, Panics
  <2>1. CASE ReadRequest
    <3>1. got' = got + 1 /\ got < Len(sent) /\ pc = "handshake" /\ pc' \in {"answer", "closing"}
          /\ UNCHANGED <<isHandleShake, opened>>
      BY <2>1 DEF ReadRequest, Unread
    <3>2. Len(sent) \in Nat BY DEF Orderly, Protocol
    <3> QED BY <1>1, <3>1, <3>2 DEF Orderly, Reading, Opening
  <2>2. CASE Answer
    <3>1. UNCHANGED <<got, opened>> /\ pc = "answer"
          /\ \/ isHandleShake' = TRUE /\ pc' = "open"
             \/ isHandleShake' = isHandleShake /\ pc' = "wait"
      BY <2>2 DEF Answer
    <3>2. CASE isHandleShake' = TRUE /\ pc' = "open"
      <4>1. ~isHandleShake BY <3>1 DEF Orderly, Opening
      <4>2. opened' = 0 /\ isHandleShake' BY <3>1, <3>2, <4>1 DEF Orderly, Opening
      <4>3. Opening' BY <3>2, <4>2 DEF Opening
      <4>4. Reading' BY <3>1, <3>2 DEF Orderly, Reading
      <4> QED BY <1>1, <4>3, <4>4 DEF Orderly
    <3>3. CASE isHandleShake' = isHandleShake /\ pc' = "wait"
      BY <1>1, <3>1, <3>3 DEF Orderly, Reading, Opening
    <3> QED BY <3>1, <3>2, <3>3
  <2>3. CASE Open
    <3>1. UNCHANGED <<got, isHandleShake>> /\ pc = "open" /\ pc' = "wait" /\ opened' = opened + 1
      BY <2>3 DEF Open
    <3> QED BY <1>1, <3>1 DEF Orderly, Reading, Opening
  <2>4. CASE ReadHead
    <3>1. got' = got + 1 /\ got < Len(sent) /\ pc = "head" /\ pc' = "switch"
          /\ UNCHANGED <<isHandleShake, opened>>
      BY <2>4 DEF ReadHead, Unread
    <3>2. Len(sent) \in Nat BY DEF Orderly, Protocol
    <3> QED BY <1>1, <3>1, <3>2 DEF Orderly, Reading, Opening
  <2>5. CASE Lookup
    <3>1. UNCHANGED <<got, isHandleShake, opened>> /\ pc \in {"readable", "writable"}
          /\ (pc' \in {"wait", "flush"} \/ pc' = IF isHandleShake THEN "head" ELSE "handshake")
      BY <2>5 DEF Lookup
    <3> QED BY <1>1, <3>1 DEF Orderly, Reading, Opening
  <2>6. CASE ~ReadRequest /\ ~Answer /\ ~Open /\ ~ReadHead /\ ~Lookup
    <3>1. /\ UNCHANGED <<got, isHandleShake, opened>>
          /\ pc # "open"
          /\ pc' = pc \/ pc' \notin {"handshake", "answer", "open", "head"}
      BY <1>5, <2>6 DEF Polling, Event, Flush, ReadFails, Switch, Payload, Store, Complete, Unmask,
                        AppendPacket, Deliver
    <3> QED BY <1>1, <3>1 DEF Orderly, Reading, Opening
  <2> QED BY <2>1, <2>2, <2>3, <2>4, <2>5, <2>6
<1> QED BY <1>2, <1>3, <1>4, <1>5

\* The invariant holds always.
LEMMA AlwaysOrderly == Spec => []Orderly
<1>1. Init => Orderly
  <2> SUFFICES ASSUME Init PROVE Orderly OBVIOUS
  <2>1. sent = <<>> /\ got = 0 /\ isHandleShake = FALSE /\ pc = "wait" /\ opened = 0 BY DEF Init
  <2>2. Protocol BY <2>1, WsCloseAssumption DEF Protocol, WsCloseAssumption
  <2>3. Reading BY <2>1 DEF Reading
  <2>4. isHandleShake \in BOOLEAN /\ ~isHandleShake BY <2>1
  <2>5. Opening BY <2>1, <2>4 DEF Opening
  <2> QED BY <2>2, <2>3, <2>5 DEF Orderly
<1>2. Unharmed /\ Orderly /\ [Next]_vars => Orderly'
  <2> SUFFICES ASSUME Unharmed, Orderly, [Next]_vars PROVE Orderly' OBVIOUS
  <2>1. CASE PeerSends BY <2>1, PeerOrderly
  <2>2. CASE ~PeerSends
    <3>1. \/ PeerLeaves \/ TextFills \/ (\E g \in Closers : Begins(g))
          \/ (\E g \in Goroutines : CloseCode(g)) \/ Polling \/ UNCHANGED vars
      BY <2>2 DEF Next, Goroutines
    <3>2. sent' = sent
      <4>1. CASE PeerLeaves \/ TextFills \/ (\E g \in Closers : Begins(g)) \/ UNCHANGED vars
        BY <4>1 DEF PeerLeaves, TextFills, Begins, vars, peer
      <4>2. CASE \E g \in Goroutines : CloseCode(g)
        BY <4>2 DEF CloseCode, Push, EpollRemove, Unregister, OnClose, Close, Clear, CloseFd, peer
      <4>3. CASE Polling
        BY <4>3 DEF Polling, Event, Lookup, Flush, ReadFails, ReadRequest, Answer, Open, ReadHead,
                    Switch, Payload, Store, Complete, Unmask, AppendPacket, Deliver, peer
      <4> QED BY <3>1, <4>1, <4>2, <4>3
    <3> QED BY <3>1, <3>2, OthersOrderly
  <2> QED BY <2>1, <2>2
<1> QED BY <1>1, <1>2, AlwaysUnharmed, PTL DEF Spec

-----------------------------------------------------------------------------

Opcodes == {CONTINUATION, TEXTMODE, CLOSE}

\* Records with the fields of conn.
Fieldwise(bytes, flags, opcodes, lengths, buffers, modes) ==
  [rBuffer : bytes, masks : flags, opcode : opcodes, fragmentLength : lengths,
   packetBuffer : buffers, continueBuffer : buffers, messageMode : modes]

\* What conn may be.
ConnType ==
  Fieldwise(Buffers, BOOLEAN, Opcodes, {0, 1}, Buffers \cup {Nil}, {0, TEXTMODE})

\* A field that is assigned a value of its type.
LEMMA FieldwiseAssigned ==
  ASSUME NEW D, NEW B, NEW O, NEW L, NEW F, NEW M, NEW c \in Fieldwise(D, B, O, L, F, M)
  PROVE  /\ \A v \in D : [c EXCEPT !.rBuffer = v] \in Fieldwise(D, B, O, L, F, M)
         /\ \A v \in B : [c EXCEPT !.masks = v] \in Fieldwise(D, B, O, L, F, M)
         /\ \A v \in O : [c EXCEPT !.opcode = v] \in Fieldwise(D, B, O, L, F, M)
         /\ \A v \in L : [c EXCEPT !.fragmentLength = v] \in Fieldwise(D, B, O, L, F, M)
         /\ \A v \in F : /\ [c EXCEPT !.packetBuffer = v] \in Fieldwise(D, B, O, L, F, M)
                         /\ [c EXCEPT !.continueBuffer = v] \in Fieldwise(D, B, O, L, F, M)
         /\ \A v \in M : [c EXCEPT !.messageMode = v] \in Fieldwise(D, B, O, L, F, M)
         /\ c.rBuffer \in D /\ c.masks \in B /\ c.opcode \in O /\ c.fragmentLength \in L
         /\ c.packetBuffer \in F /\ c.continueBuffer \in F /\ c.messageMode \in M
         /\ DOMAIN c = DOMAIN Zero
  BY DEF Fieldwise, Zero

LEMMA FieldAssigned ==
  ASSUME NEW c \in ConnType
  PROVE  /\ \A v \in Buffers : [c EXCEPT !.rBuffer = v] \in ConnType
         /\ \A v \in BOOLEAN : [c EXCEPT !.masks = v] \in ConnType
         /\ \A v \in Opcodes : [c EXCEPT !.opcode = v] \in ConnType
         /\ \A v \in {0, 1} : [c EXCEPT !.fragmentLength = v] \in ConnType
         /\ \A v \in Buffers \cup {Nil} : /\ [c EXCEPT !.packetBuffer = v] \in ConnType
                                          /\ [c EXCEPT !.continueBuffer = v] \in ConnType
         /\ \A v \in {0, TEXTMODE} : [c EXCEPT !.messageMode = v] \in ConnType
         /\ c.rBuffer \in Buffers /\ c.opcode \in Opcodes /\ c.fragmentLength \in {0, 1}
         /\ c.packetBuffer \in Buffers \cup {Nil} /\ c.continueBuffer \in Buffers \cup {Nil}
         /\ c.messageMode \in {0, TEXTMODE} /\ DOMAIN c = DOMAIN Zero
<1> DEFINE B == BOOLEAN
           F == Buffers \cup {Nil}
           M == {0, TEXTMODE}
           L == {0, 1}
           T == Fieldwise(Buffers, B, Opcodes, L, F, M)
<1>1. c \in T BY DEF ConnType
<1> HIDE DEF B, F, M, L
<1>2. /\ \A v \in Buffers : [c EXCEPT !.rBuffer = v] \in T
      /\ \A v \in B : [c EXCEPT !.masks = v] \in T
      /\ \A v \in Opcodes : [c EXCEPT !.opcode = v] \in T
      /\ \A v \in L : [c EXCEPT !.fragmentLength = v] \in T
      /\ \A v \in F : [c EXCEPT !.packetBuffer = v] \in T /\ [c EXCEPT !.continueBuffer = v] \in T
      /\ \A v \in M : [c EXCEPT !.messageMode = v] \in T
      /\ c.rBuffer \in Buffers /\ c.opcode \in Opcodes /\ c.fragmentLength \in L
      /\ c.packetBuffer \in F /\ c.continueBuffer \in F /\ c.messageMode \in M
      /\ DOMAIN c = DOMAIN Zero
  BY <1>1, FieldwiseAssigned
<1> HIDE DEF T
<1>3. T = ConnType BY DEF ConnType, T, B, F, M, L
<1> QED BY <1>2, <1>3, Zenon DEF B, F, M, L

LEMMA ZeroTyped == Zero \in ConnType
<1>1. FALSE \in BOOLEAN /\ <<>> \in Buffers BY DEF Buffers
<1>2. 0 \in Opcodes BY DEF Opcodes, CONTINUATION
<1> DEFINE B == BOOLEAN
           D == Buffers
           F == Buffers \cup {Nil}
           M == {0, TEXTMODE}
           L == {0, 1}
           no == FALSE
<1>3. no \in B /\ <<>> \in D /\ Nil \in F /\ 0 \in M /\ 0 \in L BY <1>1
<1>4. Zero = [rBuffer |-> <<>>, masks |-> no, opcode |-> 0, fragmentLength |-> 0,
         packetBuffer |-> Nil, continueBuffer |-> Nil, messageMode |-> 0]
  BY DEF Zero
<1> HIDE DEF B, D, F, M, L, no
<1>5. Zero \in Fieldwise(D, B, Opcodes, L, F, M) BY <1>2, <1>3, <1>4 DEF Fieldwise
<1> QED BY <1>5 DEF ConnType, B, D, F, M, L

\* What the decoder holds, and what it has handed on.
Contents ==
  /\ conn \in ConnType /\ final \in BOOLEAN /\ code \in Opcodes
  /\ emitted \in Seq(Buffers)

LEMMA FramesFinal == \A frame \in Frames : frame.final \in BOOLEAN
<1>1. Request.final = TRUE /\ Junk.final = FALSE /\ Text.final = TRUE /\ Part.final = FALSE
      /\ Rest.final = TRUE /\ Bye.final = TRUE
  BY DEF Request, Junk, Text, Part, Rest, Bye
<1>2. ASSUME NEW frame \in Frames PROVE frame.final \in BOOLEAN
  <2>1. frame \in {Request, Junk, Text, Part, Rest, Bye} BY DEF Frames
  <2>2. frame.final = TRUE \/ frame.final = FALSE BY <1>1, <2>1
  <2> QED BY <2>2, Zenon
<1> QED BY <1>2

\* remove clears one field.
LEMMA ClearTyped ==
  ASSUME Contents, NEW g, Clear(g)
  PROVE  Contents'
<1>1. PICK field \in DOMAIN Zero : conn' = [conn EXCEPT ![field] = Zero[field]]
  BY DEF Clear
<1>2. UNCHANGED <<final, code, emitted>> BY DEF Clear, callbacks
<1>3. field \in {"rBuffer", "masks", "opcode", "fragmentLength", "packetBuffer",
                 "continueBuffer", "messageMode"}
  BY DEF Zero
<1>4. Zero \in ConnType /\ conn \in ConnType BY ZeroTyped DEF Contents
<1>5. conn' \in ConnType
  <2>1. CASE field = "rBuffer" BY <1>1, <1>4, <2>1, FieldAssigned
  <2>2. CASE field = "masks"
    <3>1. Zero["masks"] = FALSE BY DEF Zero
    <3>2. FALSE \in BOOLEAN OBVIOUS
    <3>3. [conn EXCEPT !.masks = FALSE] \in ConnType BY <1>4, <3>2, FieldAssigned, Zenon
    <3> QED BY <1>1, <2>2, <3>1, <3>3
  <2>3. CASE field = "opcode" BY <1>1, <1>4, <2>3, FieldAssigned
  <2>4. CASE field = "fragmentLength" BY <1>1, <1>4, <2>4, FieldAssigned
  <2>5. CASE field = "packetBuffer" BY <1>1, <1>4, <2>5, FieldAssigned
  <2>6. CASE field = "continueBuffer" BY <1>1, <1>4, <2>6, FieldAssigned
  <2>7. CASE field = "messageMode" BY <1>1, <1>4, <2>7, FieldAssigned
  <2> QED BY <1>3, <2>1, <2>2, <2>3, <2>4, <2>5, <2>6, <2>7
<1> QED BY <1>2, <1>5 DEF Contents

\* The decoder at work.
LEMMA WritingTyped ==
  ASSUME Contents, Orderly, Unharmed, ReadHead \/ Store \/ AppendPacket \/ Deliver
  PROVE  Contents'
<1> USE DEF Goto, Panics
<1>1. conn \in ConnType /\ payload \in Buffers /\ Buffers = Buffer
  BY DEF Contents, Unharmed, Fields, Buffer, Buffers
<1>2. /\ conn.rBuffer \in Buffers /\ conn.opcode \in Opcodes
      /\ conn.packetBuffer \in Buffers \cup {Nil} /\ conn.continueBuffer \in Buffers \cup {Nil}
      /\ conn.messageMode \in {0, TEXTMODE}
  BY <1>1, FieldAssigned
<1>3. CASE ReadHead
  <2> DEFINE frame == sent[got + 1]
  <2>1. frame \in Frames /\ frame \in {Text, Part, Rest, Bye}
    <3>1. pc = "head" /\ got < Len(sent) BY <1>3 DEF ReadHead, Unread
    <3>2. got \in Nat /\ got > 0 /\ sent \in Seq(Frames)
      BY <3>1 DEF Orderly, Reading, Protocol
    <3>3. got + 1 \in DOMAIN sent /\ got + 1 > 1 BY <3>1, <3>2
    <3>4. frame \in Frames /\ frame \notin {Request, Junk}
      BY <3>2, <3>3 DEF Orderly, Protocol
    <3> QED BY <3>4 DEF Frames
  <2>2. frame.opcode \in Opcodes BY <2>1, FramesDiffer DEF Opcodes
  <2> DEFINE o == frame.opcode
             l == IF frame = Bye THEN 0 ELSE 1
             m == IF frame.opcode = TEXTMODE THEN TEXTMODE ELSE conn.messageMode
             c1 == [conn EXCEPT !.opcode = o]
             c2 == [c1 EXCEPT !.masks = TRUE]
             c3 == [c2 EXCEPT !.fragmentLength = l]
  <2>3. conn' = [c3 EXCEPT !.messageMode = m] BY <1>3 DEF ReadHead
  <2>4. l \in {0, 1} /\ m \in {0, TEXTMODE} BY <1>2
  <2>5. final' = frame.final /\ UNCHANGED <<code, emitted>> BY <1>3 DEF ReadHead, callbacks
  <2>6. final' \in BOOLEAN BY <2>1, <2>5, FramesFinal, Zenon
  <2> HIDE DEF frame, o, l, m, c1, c2, c3
  <2>7. c1 \in ConnType BY <1>1, <2>2, FieldAssigned DEF c1, o
  <2>8. TRUE \in BOOLEAN OBVIOUS
  <2>9. c2 \in ConnType BY <2>7, <2>8, FieldAssigned, Zenon DEF c2
  <2>10. c3 \in ConnType BY <2>4, <2>9, FieldAssigned DEF c3
  <2>11. conn' \in ConnType BY <2>3, <2>4, <2>10, FieldAssigned
  <2> QED BY <2>5, <2>6, <2>11 DEF Contents
<1>4. CASE Store
  <2>1. conn.rBuffer \o payload \in Buffers BY <1>1, <1>2, Bytes
  <2>2. /\ conn' = conn \/ conn' = [conn EXCEPT !.rBuffer = conn.rBuffer \o payload]
        /\ UNCHANGED <<final, code, emitted>>
    BY <1>4 DEF Store, callbacks
  <2>3. conn' \in ConnType BY <1>1, <2>1, <2>2, FieldAssigned
  <2> QED BY <2>2, <2>3 DEF Contents
<1>5. CASE AppendPacket
  <2>1. CASE conn.packetBuffer = Nil
    <3>1. UNCHANGED <<conn, final, code, emitted>> BY <1>5, <2>1 DEF AppendPacket, callbacks
    <3> QED BY <3>1 DEF Contents
  <2>2. CASE conn.packetBuffer # Nil
    <3> DEFINE b == conn.packetBuffer \o payload
               c1 == [Zero EXCEPT !.packetBuffer = b]
               c2 == [c1 EXCEPT !.continueBuffer = conn.continueBuffer]
    <3>1. b \in Buffers BY <1>1, <1>2, <2>2, Bytes
    <3>2. /\ conn' = [c2 EXCEPT !.messageMode = conn.messageMode] /\ code' = conn.opcode
          /\ UNCHANGED <<final, emitted>>
      BY <1>5, <2>2 DEF AppendPacket, callbacks
    <3> HIDE DEF b, c1, c2
    <3>3. c1 \in ConnType BY <3>1, ZeroTyped, FieldAssigned DEF c1
    <3>4. c2 \in ConnType BY <1>2, <3>3, FieldAssigned DEF c2
    <3>5. conn' \in ConnType BY <1>2, <3>2, <3>4, FieldAssigned
    <3> QED BY <1>2, <3>2, <3>5 DEF Contents
  <2> QED BY <2>1, <2>2
<1>6. CASE Deliver
  <2>1. UNCHANGED <<final, code>> BY <1>6 DEF Deliver
  <2>2. CASE UNCHANGED <<conn, emitted>> BY <2>1, <2>2 DEF Contents
  <2>3. CASE ~(UNCHANGED <<conn, emitted>>)
    <3>1. conn.packetBuffer # Nil BY <1>6, <2>3 DEF Deliver
    <3>2. conn.packetBuffer \in Buffers /\ <<>> \in Buffers /\ 0 \in {0, TEXTMODE}
      BY <1>2, <3>1 DEF Buffers
    <3> DEFINE c1 == [conn EXCEPT !.packetBuffer = <<>>]
               c2 == [c1 EXCEPT !.messageMode = 0]
    <3>3. c1 \in ConnType BY <1>1, <3>2, FieldAssigned
    <3>4. c2 \in ConnType
      <4> HIDE DEF c1
      <4> QED BY <3>2, <3>3, FieldAssigned
    <3>5. CASE final
      <4> DEFINE k == IF code = CONTINUATION THEN <<>> ELSE conn.continueBuffer
                 e == IF code = CONTINUATION THEN conn.continueBuffer \o conn.packetBuffer
                                             ELSE conn.packetBuffer
      <4>1. conn' = [c2 EXCEPT !.continueBuffer = k] /\ emitted' = Append(emitted, e)
        BY <1>6, <2>3, <3>5 DEF Deliver
      <4>2. k \in Buffers \cup {Nil} BY <1>2, <3>2
      <4>3. e \in Buffers
        <5>1. CASE code = CONTINUATION
          <6>1. conn.continueBuffer # Nil BY <1>6, <2>3, <5>1 DEF Deliver
          <6> QED BY <1>1, <1>2, <3>2, <5>1, <6>1, Bytes
        <5>2. CASE code # CONTINUATION BY <3>2, <5>2
        <5> QED BY <5>1, <5>2
      <4> HIDE DEF k, e, c1, c2
      <4>4. conn' \in ConnType BY <3>4, <4>1, <4>2, FieldAssigned
      <4>5. emitted' \in Seq(Buffers) BY <4>1, <4>3 DEF Contents
      <4> QED BY <2>1, <4>4, <4>5 DEF Contents
    <3>6. CASE ~final
      <4> DEFINE k == conn.continueBuffer \o conn.packetBuffer
      <4>1. conn' = [c1 EXCEPT !.continueBuffer = k] /\ emitted' = emitted
        BY <1>6, <2>3, <3>6 DEF Deliver
      <4>2. conn.continueBuffer # Nil BY <1>6, <2>3, <3>6 DEF Deliver
      <4>3. k \in Buffers BY <1>1, <1>2, <3>2, <4>2, Bytes
      <4> HIDE DEF k, c1, c2
      <4>4. conn' \in ConnType BY <3>3, <4>1, <4>3, FieldAssigned
      <4> QED BY <2>1, <4>1, <4>4 DEF Contents
    <3> QED BY <3>5, <3>6
  <2> QED BY <2>2, <2>3
<1> QED BY <1>3, <1>4, <1>5, <1>6

\* The other steps leave them.
LEMMA NothingWritten ==
  ASSUME [Next]_vars, ~ReadHead, ~Store, ~AppendPacket, ~Deliver,
         \A g \in Goroutines : ~Clear(g)
  PROVE  UNCHANGED <<conn, final, code, emitted>>
<1> USE DEF decoding, callbacks
<1>1. CASE UNCHANGED vars BY <1>1 DEF vars
<1>2. CASE PeerSends \/ PeerLeaves \/ TextFills \/ (\E g \in Closers : Begins(g))
  BY <1>2 DEF PeerSends, PeerLeaves, TextFills, Begins
<1>3. ASSUME NEW g \in Goroutines, CloseCode(g) PROVE UNCHANGED <<conn, final, code, emitted>>
  BY <1>3 DEF CloseCode, Push, EpollRemove, Unregister, OnClose, Close, CloseFd
<1>4. CASE Polling
  BY <1>4 DEF Polling, Event, Lookup, Flush, ReadFails, ReadRequest, Answer, Open, Switch, Payload,
              Complete, Unmask
<1> QED BY <1>1, <1>2, <1>3, <1>4 DEF Next, Goroutines

LEMMA AlwaysContents == Spec => []Contents
<1>1. Init => Contents
  <2> SUFFICES ASSUME Init PROVE Contents OBVIOUS
  <2>1. conn = [[Zero EXCEPT !.packetBuffer = <<>>] EXCEPT !.continueBuffer = <<>>]
    BY DEF Init
  <2>2. final = FALSE /\ code = 0 /\ emitted = <<>> BY DEF Init
  <2>3. <<>> \in Buffers BY DEF Buffers
  <2> DEFINE c == [Zero EXCEPT !.packetBuffer = <<>>]
  <2>4. c \in ConnType BY <2>3, ZeroTyped, FieldAssigned
  <2> HIDE DEF c
  <2>5. [c EXCEPT !.continueBuffer = <<>>] \in ConnType BY <2>3, <2>4, FieldAssigned
  <2>6. conn \in ConnType BY <2>1, <2>5 DEF c
  <2>7. code \in Opcodes /\ emitted \in Seq(Buffers) BY <2>2 DEF Opcodes, CONTINUATION
  <2>8. final \in BOOLEAN BY <2>2
  <2> QED BY <2>6, <2>7, <2>8 DEF Contents
<1>2. Orderly /\ Unharmed /\ Contents /\ [Next]_vars => Contents'
  <2> SUFFICES ASSUME Orderly, Unharmed, Contents, [Next]_vars PROVE Contents' OBVIOUS
  <2>1. CASE \E g \in Goroutines : Clear(g) BY <2>1, ClearTyped
  <2>2. CASE ReadHead \/ Store \/ AppendPacket \/ Deliver BY <2>2, WritingTyped
  <2>3. CASE /\ ~ReadHead /\ ~Store /\ ~AppendPacket /\ ~Deliver
             /\ \A g \in Goroutines : ~Clear(g)
    BY <2>3, NothingWritten DEF Contents
  <2> QED BY <2>1, <2>2, <2>3
<1> QED BY <1>1, <1>2, AlwaysOrderly, AlwaysUnharmed, PTL DEF Spec

\* The switches are true or false.
Switches ==
  {early, gone, watched, registered, open, isHandleShake, final, raced, panicked}
    \subseteq BOOLEAN

LEMMA SwitchesStep ==
  ASSUME Switches, Contents', Orderly', [Next]_vars
  PROVE  Switches'
<1> USE DEF peer, kernel, writing, decoding, callbacks, Goto, Closes, Panics
<1>1. final' \in BOOLEAN /\ isHandleShake' \in BOOLEAN BY DEF Contents, Orderly, Opening
<1>2. TRUE \in BOOLEAN /\ FALSE \in BOOLEAN OBVIOUS
<1>3. /\ early' = early /\ (gone' = gone \/ gone' = TRUE)
      /\ watched' = watched \/ watched' = FALSE
      /\ registered' = registered \/ registered' = FALSE
      /\ open' = open \/ open' = FALSE
      /\ raced' = raced \/ raced' = (raced \/ InDecodePacket)
      /\ panicked' = panicked \/ panicked' = TRUE
  <2>1. CASE UNCHANGED vars BY <2>1 DEF vars
  <2>2. CASE PeerSends \/ PeerLeaves \/ TextFills \/ (\E g \in Closers : Begins(g))
    BY <2>2 DEF PeerSends, PeerLeaves, TextFills, Begins
  <2>3. ASSUME NEW g \in Goroutines, CloseCode(g)
        PROVE  /\ early' = early /\ (gone' = gone \/ gone' = TRUE)
               /\ watched' = watched \/ watched' = FALSE
               /\ registered' = registered \/ registered' = FALSE
               /\ open' = open \/ open' = FALSE
               /\ raced' = raced \/ raced' = (raced \/ InDecodePacket)
               /\ panicked' = panicked \/ panicked' = TRUE
    BY <2>3 DEF CloseCode, Push, EpollRemove, Unregister, OnClose, Close, Clear, CloseFd
  <2>4. CASE Polling
    BY <2>4 DEF Polling, Event, Lookup, Flush, ReadFails, ReadRequest, Answer, Open, ReadHead,
                Switch, Payload, Store, Complete, Unmask, AppendPacket, Deliver
  <2> QED BY <2>1, <2>2, <2>3, <2>4 DEF Next, Goroutines
<1>4. early' \in BOOLEAN /\ gone' \in BOOLEAN BY <1>2, <1>3, Zenon DEF Switches
<1>5. watched' \in BOOLEAN /\ registered' \in BOOLEAN BY <1>2, <1>3, Zenon DEF Switches
<1>6. open' \in BOOLEAN /\ panicked' \in BOOLEAN BY <1>2, <1>3, Zenon DEF Switches
<1>7. raced' \in BOOLEAN
  <2>1. (raced \/ InDecodePacket) \in BOOLEAN BY Zenon
  <2> QED BY <1>3, <2>1, Zenon DEF Switches
<1> QED BY <1>1, <1>4, <1>5, <1>6, <1>7, Zenon DEF Switches

\* Where each goroutine is in CloseCode, and how often the callbacks were called.
Counts ==
  /\ closing \in [Goroutines -> 0..14]
  /\ (closing[Poller] # 0) = (pc = "closing")
  /\ onClose \in Nat /\ wsClose \in Nat
  /\ state \in {"EPollIN", "EPollOUT"}

\* A goroutine in CloseCode does the next call.
LEMMA CloseCodeCounts ==
  ASSUME Counts, Unharmed, NEW g \in Goroutines, CloseCode(g)
  PROVE  /\ closing[g] \in 1..13
         /\ \/ closing' = [closing EXCEPT ![g] = closing[g] + 1] /\ pc' = pc
            \/ closing' = [closing EXCEPT ![g] = 0] /\ pc' = "wait" /\ g = Poller
<1>1. closing[g] \in 1..13
  <2>1. PICK call : At(g, call)
    BY DEF CloseCode, Push, EpollRemove, Unregister, OnClose, Close, Clear, CloseFd
  <2> QED BY <2>1, Numbers
<1>2. \/ closing' = [closing EXCEPT ![g] = closing[g] + 1] /\ pc' = pc
      \/ closing' = [closing EXCEPT ![g] = 0] /\ pc' = "wait" /\ g = Poller
  BY DEF CloseCode, Push, EpollRemove, Unregister, OnClose, Close, Clear, CloseFd, Proceed
<1> QED BY <1>1, <1>2

LEMMA CountsStep ==
  ASSUME Counts, Unharmed, [Next]_vars
  PROVE  Counts'
<1> USE DEF writing, callbacks
<1>1. CASE UNCHANGED vars BY <1>1 DEF vars, Counts
<1>2. CASE PeerSends \/ PeerLeaves \/ TextFills
  <2>1. UNCHANGED <<closing, pc, onClose, wsClose>> /\ (state' = state \/ state' = "EPollOUT")
    BY <1>2 DEF PeerSends, PeerLeaves, TextFills
  <2> QED BY <2>1 DEF Counts
<1>3. ASSUME NEW g \in Closers, Begins(g) PROVE Counts'
  <2>1. closing' = [closing EXCEPT ![g] = 1] /\ UNCHANGED <<pc, onClose, wsClose, state>>
    BY <1>3 DEF Begins
  <2>2. g # Poller BY <1>3, WsCloseAssumption DEF WsCloseAssumption
  <2> QED BY <2>1, <2>2 DEF Counts, Goroutines
<1>4. ASSUME NEW g \in Goroutines, CloseCode(g) PROVE Counts'
  <2>1. state' = state /\ (onClose' = onClose \/ onClose' = onClose + 1)
        /\ (wsClose' = wsClose \/ wsClose' = wsClose + 1)
    BY <1>4 DEF CloseCode, Push, EpollRemove, Unregister, OnClose, Close, Clear, CloseFd
  <2>2. closing[g] \in 1..13 /\ Poller \in Goroutines BY <1>4, CloseCodeCounts DEF Goroutines
  <2>3. CASE closing' = [closing EXCEPT ![g] = closing[g] + 1] /\ pc' = pc
    BY <2>1, <2>2, <2>3 DEF Counts
  <2>4. CASE closing' = [closing EXCEPT ![g] = 0] /\ pc' = "wait" /\ g = Poller
    BY <2>1, <2>2, <2>4 DEF Counts
  <2> QED BY <1>4, <2>3, <2>4, CloseCodeCounts
<1>5. CASE Polling
  <2> USE DEF Goto, Closes, Panics
  <2>1. /\ pc # "closing" /\ UNCHANGED <<onClose, wsClose>>
        /\ state' \in {state, "EPollIN"}
        /\ \/ closing' = closing /\ pc' # "closing"
           \/ closing' = [closing EXCEPT ![Poller] = 1] /\ pc' = "closing"
    BY <1>5 DEF Polling, Event, Lookup, Flush, ReadFails, ReadRequest, Answer, Open, ReadHead,
                Switch, Payload, Store, Complete, Unmask, AppendPacket, Deliver
  <2> QED BY <2>1 DEF Counts, Goroutines
<1> QED BY <1>1, <1>2, <1>3, <1>4, <1>5 DEF Next, Goroutines

\* The types of everything else.
Typing == Orderly /\ Contents /\ Switches /\ Counts /\ Unharmed /\ Farewell

LEMMA AlwaysTyping == Spec => []Typing
<1>1. Init => Switches /\ Counts
  <2> SUFFICES ASSUME Init PROVE Switches /\ Counts OBVIOUS
  <2>1. Counts BY DEF Init, Counts, Goroutines
  <2>2. Switches BY Zenon DEF Init, Switches
  <2> QED BY <2>1, <2>2
<1>2. Switches /\ Contents' /\ Orderly' /\ [Next]_vars => Switches' BY SwitchesStep
<1>3. Counts /\ Unharmed /\ [Next]_vars => Counts' BY CountsStep
<1> QED BY <1>1, <1>2, <1>3, AlwaysOrderly, AlwaysContents, AlwaysUnharmed, AlwaysFarewell, PTL
        DEF Spec, Typing

\* The variables of a websocket connection keep their types, whoever closes it: in
\* particular the poller is in CloseCode exactly when it is not decoding, and Open is
\* called at most once.
THEOREM WsTypeCorrect == Spec => []TypeOK
<1>1. Typing => TypeOK
  <2> SUFFICES ASSUME Typing PROVE TypeOK OBVIOUS
  <2>1. {early, gone, watched, registered, open, isHandleShake, final, raced, panicked}
          \subseteq BOOLEAN
    BY DEF Typing, Switches
  <2>2. sent \in Seq({Request, Junk, Text, Part, Rest, Bye}) /\ Len(sent) <= MaxSend
        /\ got \in 0..Len(sent)
    BY DEF Typing, Orderly, Protocol, Reading, Frames
  <2>3. conn \in [rBuffer : Buffers, masks : BOOLEAN, opcode : {CONTINUATION, TEXTMODE, CLOSE},
               fragmentLength : {0, 1}, packetBuffer : Buffers \cup {Nil},
               continueBuffer : Buffers \cup {Nil}, messageMode : {0, TEXTMODE}]
    BY Zenon DEF Typing, Contents, ConnType, Fieldwise, Opcodes
  <2>4. payload \in Buffers BY DEF Typing, Unharmed, Fields, Buffer, Buffers
  <2>5. code \in {CONTINUATION, TEXTMODE, CLOSE} /\ emitted \in Seq(Buffers)
    BY DEF Typing, Contents, Opcodes
  <2>6. Len(Calls) = 13 BY DEF Calls
  <2>7. closing \in [Closers \cup {Poller} -> 0..Len(Calls) + 1]
    BY <2>6 DEF Typing, Counts, Goroutines
  <2>8. (closing[Poller] # 0) = (pc = "closing") /\ state \in {"EPollIN", "EPollOUT"}
        /\ onClose \in Nat /\ wsClose \in Nat
    BY DEF Typing, Counts
  <2>9. opened \in Nat /\ opened <= 1 BY DEF Typing, Orderly, Opening
  <2>10. writeQ \in Seq({"text", "close"}) /\ wire \in Seq({"response", "text", "close"})
    BY DEF Typing, Farewell
  <2> QED BY <2>1, <2>2, <2>3, <2>4, <2>5, <2>7, <2>8, <2>9, <2>10 DEF TypeOK
<1> QED BY <1>1, AlwaysTyping, PTL

-----------------------------------------------------------------------------

\* The callbacks that the end of the connection takes have been called.
Told == onClose > 0 /\ (opened = 1 => wsClose > 0)

\* Whoever is past OnClose, or past Close, has called it.
Calling ==
  \A g \in Goroutines : (closing[g] > 4 => onClose > 0) /\ (closing[g] > 5 => Told)

\* Before Open only the poller closes, and then it does nothing else.
BeforeOpen ==
  opened = 0 => /\ \A g \in Closers : closing[g] = 0
                /\ ~registered => pc = "closing" \/ ~open
                /\ ~open => pc = "wait"

\* A goroutine is about to make the calls that are missing.
Telling ==
  ~registered \/ ~open => Told \/ \E g \in Goroutines : closing[g] \in {4, 5}

Parting == ~early => (wsClose > 0 => opened = 1) /\ Calling /\ BeforeOpen /\ Telling

\* The numbers of the calls that matter here.
LEMMA Order ==
  ASSUME Typing, NEW g \in Goroutines, NEW call, At(g, call)
  PROVE  /\ closing[g] \in 1..13
         /\ call = "connectMgr.Remove" => closing[g] = 3
         /\ call = "OnClose" => closing[g] = 4
         /\ call = "Close" => closing[g] = 5
         /\ call = "fd" => closing[g] = 13
         /\ call \in {"push", "Remove"} => closing[g] < 3
         /\ call \in DOMAIN Zero => closing[g] > 5
<1>1. closing[g] \in 1..13 /\ Calls[closing[g]] = call BY DEF At, Calls
<1>2. \A k \in 1..13 : Calls[k] = "connectMgr.Remove" => k = 3 BY DEF Calls
<1>3. \A k \in 1..13 : Calls[k] = "OnClose" => k = 4 BY DEF Calls
<1>4. \A k \in 1..13 : Calls[k] = "Close" => k = 5 BY DEF Calls
<1>5. \A k \in 1..13 : Calls[k] = "fd" => k = 13 BY DEF Calls
<1>6. \A k \in 1..13 : Calls[k] \in {"push", "Remove"} => k < 3 BY DEF Calls
<1>7. \A k \in 1..5 : Calls[k] \in {"push", "Remove", "connectMgr.Remove", "OnClose", "Close"}
  BY DEF Calls
<1>8. DOMAIN Zero \cap {"push", "Remove", "connectMgr.Remove", "OnClose", "Close"} = {}
  BY DEF Zero
<1> QED BY <1>1, <1>2, <1>3, <1>4, <1>5, <1>6, <1>7, <1>8

\* A goroutine that may be in CloseCode: before Open, only the poller, outside of
\* DecodePacket.
LEMMA CloserIsLate ==
  ASSUME Typing, ~early, Parting, NEW g \in Goroutines, closing[g] # 0
  PROVE  /\ opened = 0 => g = Poller /\ pc = "closing" /\ open
         /\ opened = 1 => isHandleShake
         /\ opened = 0 => ~isHandleShake
         /\ opened \in {0, 1}
<1>1. opened \in {0, 1} /\ (opened = 1 => isHandleShake)
      /\ (opened = 0 => ~isHandleShake \/ pc = "open")
  BY DEF Typing, Orderly, Opening
<1>2. (closing[Poller] # 0) = (pc = "closing") BY DEF Typing, Counts
<1>3. opened = 0 => g \notin Closers BY DEF Parting, BeforeOpen
<1>4. opened = 0 => g = Poller /\ pc = "closing" BY <1>2, <1>3 DEF Goroutines
<1>5. opened = 0 => open BY <1>4 DEF Parting, BeforeOpen
<1> QED BY <1>1, <1>4, <1>5

\* A step of CloseCode.
LEMMA CloseCodeParts ==
  ASSUME Typing, Parting, ~early, NEW g \in Goroutines, CloseCode(g)
  PROVE  Parting'
<1> USE DEF callbacks, kernel
<1>1. closing \in [Goroutines -> 0..14] /\ onClose \in Nat /\ wsClose \in Nat
      /\ (closing[Poller] # 0) = (pc = "closing")
  BY DEF Typing, Counts
<1>2. closing[g] \in 1..13 BY CloseCodeCounts DEF Typing
<1>3. /\ opened = 0 => g = Poller /\ pc = "closing" /\ open
      /\ opened = 1 => isHandleShake
      /\ opened = 0 => ~isHandleShake
      /\ opened \in {0, 1}
  BY <1>2, CloserIsLate
<1>4. opened' = opened
  BY DEF CloseCode, Push, EpollRemove, Unregister, OnClose, Close, Clear, CloseFd
<1>5. CASE Push(g) \/ EpollRemove(g) \/ Clear(g)
  <2>1. closing' = [closing EXCEPT ![g] = closing[g] + 1]
        /\ UNCHANGED <<onClose, wsClose, registered, open, pc>>
    BY <1>5 DEF Push, EpollRemove, Clear, Proceed
  <2>2. PICK call \in {"push", "Remove"} \cup DOMAIN Zero : At(g, call)
    BY <1>5 DEF Push, EpollRemove, Clear
  <2>3. closing[g] < 3 \/ closing[g] > 5 BY <2>2, Order
  <2>4. Calling' BY <1>1, <1>4, <2>1, <2>3 DEF Parting, Calling, Told
  <2>5. BeforeOpen' BY <1>1, <1>3, <1>4, <2>1, WsCloseAssumption
                    DEF Parting, BeforeOpen, Goroutines, WsCloseAssumption
  <2>6. Telling' BY <1>1, <1>4, <2>1, <2>3 DEF Parting, Telling, Told
  <2> QED BY <1>4, <2>1, <2>4, <2>5, <2>6 DEF Parting
<1>6. CASE Unregister(g)
  <2>1. closing' = [closing EXCEPT ![g] = closing[g] + 1] /\ closing[g] = 3
        /\ UNCHANGED <<onClose, wsClose, open, pc>>
    BY <1>6, Order DEF Unregister, Proceed
  <2>2. closing'[g] = 4 BY <1>1, <2>1
  <2>3. Calling' BY <1>1, <1>4, <2>1 DEF Parting, Calling, Told
  <2>4. BeforeOpen' BY <1>1, <1>3, <1>4, <2>1, WsCloseAssumption
                    DEF Parting, BeforeOpen, Goroutines, WsCloseAssumption
  <2>5. Telling' BY <2>2 DEF Telling
  <2> QED BY <1>4, <2>1, <2>3, <2>4, <2>5 DEF Parting
<1>7. CASE OnClose(g)
  <2>1. closing' = [closing EXCEPT ![g] = closing[g] + 1] /\ closing[g] = 4
        /\ onClose' = onClose + 1 /\ UNCHANGED <<wsClose, registered, open, pc>>
    BY <1>7, Order DEF OnClose, Proceed
  <2>2. closing'[g] = 5 BY <1>1, <2>1
  <2>3. Calling' BY <1>1, <1>4, <2>1 DEF Parting, Calling, Told
  <2>4. BeforeOpen' BY <1>1, <1>3, <1>4, <2>1, WsCloseAssumption
                    DEF Parting, BeforeOpen, Goroutines, WsCloseAssumption
  <2>5. Telling' BY <2>2 DEF Telling
  <2> QED BY <1>4, <2>1, <2>3, <2>4, <2>5 DEF Parting
<1>8. CASE Close(g)
  <2>1. closing' = [closing EXCEPT ![g] = closing[g] + 1] /\ closing[g] = 5
        /\ wsClose' = (IF isHandleShake THEN wsClose + 1 ELSE wsClose)
        /\ UNCHANGED <<onClose, registered, open, pc>>
    BY <1>8, Order DEF Close, Proceed
  <2>2. onClose > 0 BY <2>1 DEF Parting, Calling
  <2>3. opened = 1 => wsClose' > 0 BY <1>1, <1>3, <2>1
  <2>4. wsClose' > 0 => opened = 1 BY <1>3, <2>1 DEF Parting
  <2>5. Told' BY <1>4, <2>1, <2>2, <2>3 DEF Told
  <2>6. Calling' BY <2>1, <2>2, <2>5 DEF Calling
  <2>7. BeforeOpen' BY <1>1, <1>3, <1>4, <2>1, WsCloseAssumption
                    DEF Parting, BeforeOpen, Goroutines, WsCloseAssumption
  <2> QED BY <1>4, <2>4, <2>5, <2>6, <2>7 DEF Parting, Telling
<1>9. CASE CloseFd(g)
  <2>1. /\ closing[g] = 13 /\ open' = FALSE /\ UNCHANGED <<onClose, wsClose, registered>>
        /\ \/ closing' = [closing EXCEPT ![g] = 0] /\ pc' = "wait" /\ g = Poller
           \/ closing' = [closing EXCEPT ![g] = 14] /\ pc' = pc /\ g # Poller
    BY <1>9, Order DEF CloseFd, Proceed
  <2>2. Told BY <2>1 DEF Parting, Calling
  <2>3. Calling' BY <1>1, <1>4, <2>1, <2>2 DEF Parting, Calling, Told
  <2>4. BeforeOpen'
    <3>1. CASE g = Poller
      BY <1>1, <1>4, <2>1, <3>1, WsCloseAssumption
      DEF Parting, BeforeOpen, Goroutines, WsCloseAssumption
    <3>2. CASE g # Poller BY <1>3, <1>4, <3>2 DEF BeforeOpen
    <3> QED BY <3>1, <3>2
  <2>5. Told' BY <1>4, <2>1, <2>2 DEF Told
  <2> QED BY <1>4, <2>1, <2>3, <2>4, <2>5 DEF Parting, Telling
<1> QED BY <1>5, <1>6, <1>7, <1>8, <1>9 DEF CloseCode

\* A step of the poller, and of the environment.
LEMMA OthersPart ==
  ASSUME Typing, Parting, ~early,
         \/ PeerSends \/ PeerLeaves \/ TextFills \/ (\E g \in Closers : Begins(g)) \/ Polling
         \/ UNCHANGED vars
  PROVE  Parting'
<1> USE DEF callbacks, kernel, peer, writing, decoding, Goto, Closes, Panics
<1>1. closing \in [Goroutines -> 0..14] /\ onClose \in Nat /\ wsClose \in Nat
      /\ (closing[Poller] # 0) = (pc = "closing")
  BY DEF Typing, Counts
<1>2. opened \in {0, 1} /\ (pc = "open" => opened = 0)
  BY DEF Typing, Orderly, Opening
<1>3. CASE PeerSends \/ PeerLeaves \/ TextFills \/ UNCHANGED vars
  <2>1. UNCHANGED <<opened, onClose, wsClose, closing, registered, open, pc>>
    BY <1>3 DEF PeerSends, PeerLeaves, TextFills, vars
  <2> QED BY <2>1 DEF Parting, Calling, BeforeOpen, Telling, Told
<1>4. ASSUME NEW g \in Closers, Begins(g) PROVE Parting'
  <2>1. /\ closing' = [closing EXCEPT ![g] = 1] /\ closing[g] = 0 /\ opened > 0
        /\ UNCHANGED <<opened, onClose, wsClose, registered, open, pc>>
    BY <1>4 DEF Begins
  <2>2. g \in Goroutines BY DEF Goroutines
  <2>3. Calling' BY <1>1, <2>1, <2>2 DEF Parting, Calling, Told
  <2>4. BeforeOpen' BY <2>1 DEF BeforeOpen
  <2>5. Telling' BY <1>1, <2>1, <2>2 DEF Parting, Telling, Told
  <2> QED BY <2>1, <2>3, <2>4, <2>5 DEF Parting
<1>5. CASE Open
  <2>1. pc = "open" /\ opened' = 1 /\ UNCHANGED <<onClose, wsClose, closing, registered, open>>
    BY <1>2, <1>5 DEF Open
  <2>2. registered /\ open /\ \A g \in Closers : closing[g] = 0
    BY <1>2, <2>1 DEF Parting, BeforeOpen
  <2>3. closing[Poller] = 0 BY <1>1, <2>1
  <2>4. \A g \in Goroutines : closing[g] = 0 BY <2>2, <2>3 DEF Goroutines
  <2> QED BY <1>1, <2>1, <2>2, <2>4 DEF Parting, Calling, BeforeOpen, Telling
<1>6. CASE Polling /\ ~Open
  <2>1. /\ UNCHANGED <<opened, onClose, wsClose, registered>>
        /\ \/ closing' = closing
           \/ closing' = [closing EXCEPT ![Poller] = 1] /\ pc' = "closing"
        /\ pc # "closing"
        /\ open' = open \/ (open' = FALSE /\ ~registered /\ pc' = "wait")
    BY <1>6 DEF Polling, Event, Lookup, Flush, ReadFails, ReadRequest, Answer, ReadHead, Switch,
                Payload, Store, Complete, Unmask, AppendPacket, Deliver
  <2>2. closing[Poller] = 0 /\ Poller \in Goroutines BY <1>1, <2>1 DEF Goroutines
  <2>3. Calling' BY <1>1, <2>1, <2>2 DEF Parting, Calling, Told
  <2>4. \A g \in Closers : closing'[g] = closing[g]
    BY <1>1, <2>1, WsCloseAssumption DEF Goroutines, WsCloseAssumption
  <2>5. BeforeOpen'
    <3>1. CASE open' = FALSE /\ ~registered /\ pc' = "wait"
      BY <2>1, <2>4, <3>1 DEF Parting, BeforeOpen
    <3>2. CASE open' = open /\ opened = 0
      <4>1. open
        <5>1. open \/ pc = "wait" BY <3>2 DEF Parting, BeforeOpen
        <5>2. CASE pc = "wait"
          BY <1>6, <5>2 DEF Polling, Event, Lookup, Flush, ReadFails, ReadRequest, Answer,
               ReadHead, Switch, Payload, Store, Complete, Unmask, AppendPacket, Deliver
        <5> QED BY <5>1, <5>2
      <4>2. registered BY <2>1, <3>2, <4>1 DEF Parting, BeforeOpen
      <4> QED BY <2>1, <2>4, <3>2, <4>1, <4>2 DEF Parting, BeforeOpen
    <3> QED BY <2>1, <3>1, <3>2 DEF BeforeOpen
  <2>6. Telling'
    <3>1. \A g \in Goroutines : closing[g] \in {4, 5} => closing'[g] = closing[g]
      BY <1>1, <2>1, <2>2
    <3>2. ~registered' \/ ~open' => ~registered \/ ~open BY <2>1
    <3> QED BY <2>1, <3>1, <3>2 DEF Parting, Telling, Told
  <2> QED BY <2>1, <2>3, <2>5, <2>6 DEF Parting
<1> QED BY <1>3, <1>4, <1>5, <1>6

LEMMA AlwaysParting == Spec => []Parting
<1>1. Init => Parting
  BY DEF Init, Parting, Calling, BeforeOpen, Telling, Goroutines
<1>2. Typing /\ Parting /\ [Next]_vars => Parting'
  <2> SUFFICES ASSUME Typing, Parting, [Next]_vars PROVE Parting' OBVIOUS
  <2>1. early' = early
    BY DEF Next, vars, peer, PeerSends, PeerLeaves, TextFills, Begins, CloseCode, Push,
           EpollRemove, Unregister, OnClose, Close, Clear, CloseFd, Polling, Event, Lookup, Flush,
           ReadFails, ReadRequest, Answer, Open, ReadHead, Switch, Payload, Store, Complete,
           Unmask, AppendPacket, Deliver
  <2>2. CASE early BY <2>1, <2>2 DEF Parting
  <2>3. CASE ~early
    <3>1. ASSUME NEW g \in Goroutines, CloseCode(g) PROVE Parting'
      BY <2>3, <3>1, CloseCodeParts
    <3> QED BY <2>3, <3>1, OthersPart DEF Next, Goroutines
  <2> QED BY <2>2, <2>3
<1> QED BY <1>1, <1>2, AlwaysTyping, PTL DEF Spec

\* However many goroutines close: the handler's Close follows its Open and is not
\* left out, OnClose neither, unless a closer came before Open; and no descriptor is
\* closed before the close frame (websocket_ctrl.go:71-119).
THEOREM AlwaysPartings == Spec => []Partings
<1>1. Typing /\ Parting => Paired
  <2> SUFFICES ASSUME Typing, Parting, ~early
               PROVE  /\ wsClose > 0 => opened = 1
                      /\ Quiet /\ ~open => onClose > 0 /\ (opened = 1 => wsClose > 0)
    BY DEF Paired
  <2>1. wsClose > 0 => opened = 1 BY DEF Parting
  <2>2. ASSUME Quiet, ~open PROVE Told
    <3>1. Len(Calls) = 13 BY DEF Calls
    <3>2. closing[Poller] = 0 BY <2>2 DEF Quiet, Typing, Counts
    <3>3. \A g \in Goroutines : closing[g] \in {0, 14} BY <2>2, <3>1, <3>2 DEF Quiet, Goroutines
    <3> QED BY <2>2, <3>3 DEF Parting, Telling
  <2> QED BY <2>1, <2>2 DEF Told
<1>2. Paired /\ Goodbye => Partings BY DEF Partings
<1> QED BY <1>1, <1>2, AlwaysTyping, AlwaysParting, AlwaysGoodbye, PTL

-----------------------------------------------------------------------------

\* The part of a message that waits for its rest, n things having been read.
Continued(n) == IF n > 0 /\ sent[n] = Part THEN <<n>> ELSE <<>>

\* The poller has a frame in its hands.
AtWork == pc \in {"switch", "payload", "store", "complete", "unmask", "append", "deliver"}

\* It may come to read one: nothing is closed, and no field has been cleared.
MayRead == ~AtWork /\ pc # "closing" /\ open /\ (registered \/ InDecodePacket)

\* Between two frames.
Idle ==
  /\ conn.rBuffer = <<>> /\ conn.packetBuffer = <<>>
  /\ conn.continueBuffer = Continued(got)
  /\ Cardinality(Ends(got)) = Len(emitted)

\* The messages up to the frame in hand.
Behind ==
  /\ got > 1 /\ final = sent[got].final
  /\ conn.continueBuffer = Continued(got - 1)
  /\ Cardinality(Ends(got - 1)) = Len(emitted)

\* The head of the frame in hand.
Header ==
  /\ pc # "switch" => sent[got] # Bye
  /\ pc # "deliver" => /\ conn.packetBuffer = <<>> /\ conn.opcode = sent[got].opcode
                       /\ conn.masks = TRUE
                       /\ conn.fragmentLength = IF sent[got] = Bye THEN 0 ELSE 1

\* Its payload, masked and unmasked.
Body ==
  /\ pc \in {"switch", "payload", "store"} => conn.rBuffer = <<>>
  /\ pc = "store" => payload = <<-got>> \/ (payload = <<>> /\ ~open)
  /\ pc \in {"complete", "unmask", "append"} => conn.rBuffer = <<-got>>
  /\ pc = "append" => payload = <<got>>
  /\ pc = "deliver" => /\ conn.rBuffer = <<>> /\ conn.packetBuffer = <<got>>
                       /\ code = sent[got].opcode

Decoding ==
  ~raced => /\ RightMessages
            /\ AtWork => Behind /\ Header /\ Body
            /\ MayRead => Idle

\* The ends of messages among one frame more.
LEMMA OneMore ==
  ASSUME Orderly, NEW n \in Nat, n < Len(sent)
  PROVE  /\ sent[n + 1] \in {Text, Rest} => Cardinality(Ends(n + 1)) = Cardinality(Ends(n)) + 1
         /\ sent[n + 1] \notin {Text, Rest} => Ends(n + 1) = Ends(n)
         /\ Ends(n) \subseteq Ends(n + 1)
         /\ sent[n + 1] \in {Text, Rest} => n + 1 \in Ends(n + 1)
<1>1. IsFiniteSet(Ends(n))
  <2>1. IsFiniteSet(1..n) BY FS_Interval
  <2>2. Ends(n) \subseteq 1..n BY DEF Ends
  <2> QED BY <2>1, <2>2, FS_Subset
<1>2. \A i \in 1..(n + 1) : i \in 1..n \/ i = n + 1 OBVIOUS
<1>3. 1..n \subseteq 1..(n + 1) /\ n + 1 \in 1..(n + 1) /\ n + 1 \notin 1..n OBVIOUS
<1>4. CASE sent[n + 1] \in {Text, Rest}
  <2>1. Ends(n + 1) = Ends(n) \cup {n + 1} BY <1>2, <1>3, <1>4 DEF Ends
  <2>2. n + 1 \notin Ends(n) BY <1>3 DEF Ends
  <2> QED BY <1>1, <1>4, <2>1, <2>2, FS_AddElement
<1>5. CASE sent[n + 1] \notin {Text, Rest}
  <2>1. Ends(n + 1) = Ends(n) BY <1>2, <1>3, <1>5 DEF Ends
  <2> QED BY <1>5, <2>1
<1> QED BY <1>4, <1>5

\* What is emitted stays right when more is sent and read.
LEMMA RightStill ==
  ASSUME Orderly, RightMessages, emitted' = emitted, got' \in Nat, got' >= got,
         \A i \in 1..got : sent'[i] = sent[i]
  PROVE  RightMessages'
<1>1. got \in Nat BY DEF Orderly, Reading, Protocol
<1>2. ASSUME NEW i \in Ends(got)
      PROVE  i \in Ends(got)' /\ Message(i)' = Message(i) /\ Ends(i)' = Ends(i)
  <2>1. i \in 1..got /\ sent[i] \in {Text, Rest} BY DEF Ends
  <2>2. i \in 1..got' BY <1>1, <2>1
  <2>3. sent'[i] = sent[i] BY <2>1
  <2>4. \A k \in 1..i : sent'[k] = sent[k] BY <1>1, <2>1
  <2> QED BY <2>1, <2>2, <2>3, <2>4 DEF Ends, Message
<1> QED BY <1>2 DEF RightMessages

\* What the peer sends does not change what was read.
LEMMA PeerDecoding ==
  ASSUME Typing, Decoding, PeerSends
  PROVE  Decoding'
<1> SUFFICES ASSUME ~raced' PROVE Decoding' BY DEF Decoding
<1>1. PICK frame \in Following : sent' = Append(sent, frame)
  BY DEF PeerSends
<1>2. UNCHANGED <<raced, registered, open, got, pc, conn, final, payload, code, emitted>>
  BY DEF PeerSends, kernel, decoding, callbacks
<1>3. sent \in Seq(Frames) /\ got \in 0..Len(sent) /\ Len(sent) \in Nat
  BY DEF Typing, Orderly, Protocol, Reading
<1>4. \A i \in 1..Len(sent) : sent'[i] = sent[i] BY <1>1, <1>3
<1>5. \A i \in 1..got : sent'[i] = sent[i] BY <1>3, <1>4
<1>6. RightMessages /\ (AtWork => Behind /\ Header /\ Body) /\ (MayRead => Idle)
  BY <1>2 DEF Decoding
<1>7. RightMessages' BY <1>2, <1>3, <1>5, <1>6, RightStill DEF Typing
<1>8. \A n \in 0..got : Ends(n)' = Ends(n) /\ Continued(n)' = Continued(n)
  BY <1>3, <1>5 DEF Ends, Continued
<1>9. ASSUME AtWork' PROVE (Behind /\ Header /\ Body)'
  <2>1. AtWork BY <1>2, <1>9 DEF AtWork
  <2>2. Behind /\ Header /\ Body BY <1>6, <2>1
  <2>3. got > 1 /\ sent'[got] = sent[got] /\ got - 1 \in 0..got
    BY <1>3, <1>5, <2>2 DEF Behind
  <2>4. Behind' BY <1>2, <1>8, <2>2, <2>3 DEF Behind
  <2>5. Header' BY <1>2, <2>2, <2>3 DEF Header
  <2>6. Body' BY <1>2, <2>2, <2>3 DEF Body
  <2> QED BY <2>4, <2>5, <2>6
<1>10. ASSUME MayRead' PROVE Idle'
  <2>1. MayRead BY <1>2, <1>10 DEF MayRead, AtWork, InDecodePacket
  <2>2. got \in 0..got BY <1>3
  <2> QED BY <1>2, <1>6, <1>8, <2>1, <2>2 DEF Idle
<1> QED BY <1>7, <1>9, <1>10 DEF Decoding

\* A step outside of the decoder: what it holds stays, and it may not read more than
\* before.
LEMMA DecodingStill ==
  ASSUME Typing, Decoding, UNCHANGED <<sent, got, conn, final, payload, code, emitted>>,
         pc' = pc \/ (~AtWork /\ ~AtWork'), MayRead' => MayRead,
         raced' = raced, open' => open
  PROVE  Decoding'
<1> SUFFICES ASSUME ~raced' PROVE Decoding' BY DEF Decoding
<1>1. RightMessages /\ (AtWork => Behind /\ Header /\ Body) /\ (MayRead => Idle)
  BY DEF Decoding
<1>2. got \in Nat BY DEF Typing, Orderly, Protocol, Reading
<1>3. RightMessages' BY <1>1, <1>2, RightStill DEF Typing
<1>4. ASSUME AtWork' PROVE (Behind /\ Header /\ Body)'
  <2>1. AtWork /\ pc' = pc BY <1>4 DEF AtWork
  <2> QED BY <1>1, <2>1 DEF Behind, Header, Body, Continued, Ends
<1>5. ASSUME MayRead' PROVE Idle'
  BY <1>1, <1>5 DEF Idle, Continued, Ends
<1> QED BY <1>3, <1>4, <1>5 DEF Decoding

\* The environment, and CloseCode.
LEMMA OthersDecoding ==
  ASSUME Typing, Decoding,
         \/ PeerLeaves \/ TextFills \/ (\E g \in Closers : Begins(g))
         \/ (\E g \in Goroutines : CloseCode(g)) \/ UNCHANGED vars
  PROVE  Decoding'
<1> USE DEF peer, kernel, writing, decoding, callbacks
<1>1. CASE PeerLeaves \/ TextFills \/ (\E g \in Closers : Begins(g)) \/ UNCHANGED vars
  <2>1. UNCHANGED <<sent, got, conn, final, payload, code, emitted, raced, pc, open, registered>>
    BY <1>1 DEF PeerLeaves, TextFills, Begins, vars
  <2>2. MayRead' = MayRead BY <2>1 DEF MayRead, AtWork, InDecodePacket
  <2> QED BY <2>1, <2>2, DecodingStill
<1>2. ASSUME NEW g \in Goroutines, CloseCode(g) PROVE Decoding'
  <2>1. CASE Clear(g)
    <3>1. /\ UNCHANGED <<sent, got, final, payload, code, emitted, pc, open, registered>>
          /\ raced' = (raced \/ InDecodePacket)
      BY <2>1 DEF Clear
    <3>2. ~registered
      <4>1. PICK field \in DOMAIN Zero : At(g, field) BY <2>1 DEF Clear
      <4>2. closing[g] > 3 BY <1>2, <4>1, Order
      <4> QED BY <1>2, <4>2 DEF Typing, Unharmed
    <3> SUFFICES ASSUME ~raced' PROVE Decoding' BY DEF Decoding
    <3>3. ~raced /\ ~InDecodePacket' BY <3>1 DEF InDecodePacket
    <3>4. ~AtWork' /\ ~MayRead' BY <3>1, <3>2, <3>3 DEF AtWork, InDecodePacket, MayRead
    <3>5. got \in Nat BY DEF Typing, Orderly, Protocol, Reading
    <3>6. RightMessages' BY <3>1, <3>3, <3>5, RightStill DEF Typing, Decoding
    <3> QED BY <3>4, <3>6 DEF Decoding
  <2>2. CASE ~Clear(g)
    <3>1. /\ UNCHANGED <<sent, got, conn, final, payload, code, emitted, raced>>
          /\ registered' => registered
          /\ open' => open
          /\ pc' = pc \/ (pc' = "wait" /\ g = Poller /\ CloseFd(g) /\ ~open')
      BY <1>2, <2>2 DEF CloseCode, Push, EpollRemove, Unregister, OnClose, Close, CloseFd
    <3>2. closing[g] # 0 BY <1>2, CloseCodeCounts DEF Typing
    <3>3. g = Poller => pc = "closing" BY <3>2 DEF Typing, Unharmed
    <3>4. pc' = pc \/ (~AtWork /\ ~AtWork') BY <3>1, <3>3 DEF AtWork
    <3>5. MayRead' => MayRead BY <3>1 DEF MayRead, AtWork, InDecodePacket
    <3> QED BY <3>1, <3>4, <3>5, DecodingStill
  <2> QED BY <2>1, <2>2
<1> QED BY <1>1, <1>2

\* The poller, when it reads nothing and writes to nothing.
LEMMA WaitingDecoding ==
  ASSUME Typing, Decoding, Event \/ Lookup \/ Flush \/ ReadFails \/ Answer \/ Open
  PROVE  Decoding'
<1> USE DEF peer, kernel, writing, decoding, callbacks, Goto, Closes, Panics
<1>1. /\ UNCHANGED <<sent, got, conn, final, payload, code, emitted, raced, registered>>
      /\ open' => open
  BY DEF Event, Lookup, Flush, ReadFails, Answer, Open
<1>2. ~AtWork /\ ~AtWork' BY DEF Event, Lookup, Flush, ReadFails, Answer, Open, AtWork
<1>3. MayRead' => MayRead
  <2>1. CASE Lookup BY <1>1, <1>2, <2>1 DEF Lookup, MayRead, InDecodePacket
  <2>2. CASE Event \/ Flush BY <1>1, <1>2, <2>2 DEF Event, Flush, MayRead, InDecodePacket
  <2>3. CASE ReadFails \/ Answer \/ Open
    BY <1>1, <1>2, <2>3 DEF ReadFails, Answer, Open, MayRead, InDecodePacket
  <2> QED BY <2>1, <2>2, <2>3
<1> QED BY <1>1, <1>2, <1>3, DecodingStill

\* The request, and the head of a frame.
LEMMA ReadingDecoding ==
  ASSUME Typing, Decoding, ReadRequest \/ ReadHead
  PROVE  Decoding'
<1> USE DEF peer, kernel, writing, decoding, callbacks, Goto, Closes
<1> SUFFICES ASSUME ~raced' PROVE Decoding' BY DEF Decoding
<1>1. /\ UNCHANGED <<sent, emitted, raced, open, registered>>
      /\ got' = got + 1 /\ got < Len(sent) /\ open
  BY DEF ReadRequest, ReadHead, Unread
<1>2. /\ sent \in Seq(Frames) /\ Len(sent) \in Nat /\ got \in Nat /\ got + 1 \in DOMAIN sent
      /\ Len(emitted) \in Nat
  BY <1>1 DEF Typing, Orderly, Protocol, Reading, Contents
<1>3. Idle
  <2>1. MayRead BY <1>1 DEF ReadRequest, ReadHead, MayRead, AtWork, InDecodePacket
  <2> QED BY <1>1, <2>1 DEF Decoding
<1>4. RightMessages' BY <1>1, <1>2, RightStill DEF Typing, Decoding
<1>5. CASE ReadRequest
  <2>1. UNCHANGED <<conn, final, payload, code>> /\ ~AtWork'
    BY <1>5 DEF ReadRequest, AtWork
  <2>2. ASSUME MayRead' PROVE Idle'
    <3>1. sent[got + 1] = Request BY <1>1, <1>5, <2>2 DEF ReadRequest, MayRead
    <3>2. got = 0 BY <1>2, <3>1 DEF Typing, Orderly, Protocol
    <3>3. Request # Part /\ Request \notin {Text, Rest} BY FramesDiffer
    <3>4. Continued(got) = <<>> /\ Continued(got') = <<>>
      BY <1>1, <3>1, <3>2, <3>3 DEF Continued
    <3>5. Ends(got + 1) = Ends(got) BY <1>1, <1>2, <3>1, <3>3, OneMore DEF Typing
    <3>6. Ends(got)' = Ends(got) BY <1>1, <3>5 DEF Ends
    <3>7. Continued(got)' = <<>> BY <1>1, <3>4 DEF Continued
    <3> QED BY <1>1, <1>3, <2>1, <3>4, <3>6, <3>7 DEF Idle
  <2> QED BY <1>4, <2>1, <2>2 DEF Decoding
<1>6. CASE ReadHead
  <2> DEFINE frame == sent[got + 1]
             l == IF frame = Bye THEN 0 ELSE 1
             m == IF frame.opcode = TEXTMODE THEN TEXTMODE ELSE conn.messageMode
  <2>1. /\ pc' = "switch" /\ final' = frame.final /\ pc = "head"
        /\ conn' = [conn EXCEPT !.opcode = frame.opcode, !.masks = TRUE, !.fragmentLength = l,
                                !.messageMode = m]
    BY <1>6 DEF ReadHead
  <2>2. DOMAIN conn = DOMAIN Zero
    BY FieldAssigned DEF Typing, Contents
  <2> HIDE DEF frame, l, m
  <2>3. /\ conn'.opcode = frame.opcode /\ conn'.masks = TRUE /\ conn'.fragmentLength = l
        /\ conn'.rBuffer = conn.rBuffer /\ conn'.packetBuffer = conn.packetBuffer
        /\ conn'.continueBuffer = conn.continueBuffer
    BY <2>1, <2>2 DEF Zero
  <2>4. sent'[got'] = frame /\ got' - 1 = got BY <1>1, <1>2 DEF frame
  <2>5. got' > 1
    BY <1>1, <1>2, <2>1 DEF Typing, Orderly, Reading
  <2>6. Behind'
    <3>1. Continued(got - 1)' = Continued(got) /\ Ends(got - 1)' = Ends(got)
      BY <1>1, <1>2, <2>4 DEF Continued, Ends
    <3>2. Cardinality(Ends(got - 1)') = Len(emitted)' BY <1>1, <1>3, <3>1 DEF Idle
    <3>3. conn'.continueBuffer = Continued(got - 1)' BY <1>3, <2>3, <3>1 DEF Idle
    <3> QED BY <2>1, <2>4, <2>5, <3>2, <3>3 DEF Behind
  <2>7. Header' BY <1>3, <2>1, <2>3, <2>4 DEF Header, Idle, l
  <2>8. Body' BY <1>3, <2>1, <2>3 DEF Body, Idle
  <2>9. ~MayRead' BY <2>1 DEF MayRead, AtWork
  <2> QED BY <1>4, <2>6, <2>7, <2>8, <2>9 DEF Decoding
<1> QED BY <1>5, <1>6

\* The payload of a frame, unmasked.
LEMMA Unmasked == \A n \in Nat : [i \in DOMAIN <<-n>> |-> -(<<-n>>)[i]] = <<n>>
<1> SUFFICES ASSUME NEW n \in Nat PROVE [i \in DOMAIN <<-n>> |-> -(<<-n>>)[i]] = <<n>>
  OBVIOUS
<1> DEFINE s == <<-n>>
<1>1. DOMAIN s = 1..1 /\ s[1] = -n /\ -(-n) = n OBVIOUS
<1> HIDE DEF s
<1>2. \A i \in 1..1 : -s[i] = n BY <1>1
<1>3. [i \in DOMAIN s |-> -s[i]] = [i \in 1..1 |-> n] BY <1>1, <1>2
<1>4. [i \in 1..1 |-> n] = <<n>> OBVIOUS
<1> QED BY <1>3, <1>4 DEF s

\* The poller has a frame in its hands, which is not the peer's first.
LEMMA InHand ==
  ASSUME Typing, Decoding, ~raced, AtWork
  PROVE  /\ ~panicked /\ RightMessages /\ Behind /\ Header /\ Body
         /\ got \in Nat /\ got > 1 /\ got \in DOMAIN sent /\ got - 1 \in DOMAIN sent
         /\ sent[got] \in {Text, Part, Rest, Bye}
         /\ DOMAIN conn = DOMAIN Zero
<1>1. Behind /\ Header /\ Body /\ RightMessages BY DEF Decoding
<1>2. sent \in Seq(Frames) /\ got \in 0..Len(sent) /\ Len(sent) \in Nat
  BY DEF Typing, Orderly, Protocol, Reading
<1>3. got > 1 BY <1>1 DEF Behind
<1>4. got \in DOMAIN sent /\ got - 1 \in DOMAIN sent BY <1>2, <1>3
<1>5. sent[got] \in Frames /\ sent[got] \notin {Request, Junk}
  BY <1>2, <1>3, <1>4 DEF Typing, Orderly, Protocol
<1>6. sent[got] \in {Text, Part, Rest, Bye} BY <1>5 DEF Frames
<1>7. DOMAIN conn = DOMAIN Zero BY FieldAssigned DEF Typing, Contents
<1>8. ~panicked BY DEF Typing, Unharmed
<1> QED BY <1>1, <1>2, <1>3, <1>4, <1>6, <1>7, <1>8

\* A step of the decoder that reads and emits nothing keeps what is behind.
LEMMA BehindStill ==
  ASSUME Typing, Decoding, ~raced, AtWork, AtWork',
         UNCHANGED <<sent, got, final, emitted, raced>>,
         conn'.continueBuffer = conn.continueBuffer, Header', Body'
  PROVE  Decoding'
<1>1. RightMessages /\ Behind /\ got \in Nat BY InHand
<1>2. RightMessages' BY <1>1, RightStill DEF Typing
<1>3. Behind' BY <1>1 DEF Behind, Continued, Ends
<1> QED BY <1>2, <1>3 DEF Decoding, MayRead

\* From the head to the masked payload.
LEMMA FetchingDecoding ==
  ASSUME Typing, Typing', Decoding, Switch \/ Payload \/ Store \/ Complete
  PROVE  Decoding'
<1> USE DEF peer, kernel, writing, decoding, callbacks, Goto, Closes, Panics
<1> SUFFICES ASSUME ~raced' PROVE Decoding' BY DEF Decoding
<1>1. /\ UNCHANGED <<sent, got, final, code, emitted, raced, open, registered>> /\ ~raced
      /\ AtWork
  BY DEF Switch, Payload, Store, Complete, AtWork
<1>2. /\ ~panicked /\ RightMessages /\ Behind /\ Header /\ Body
      /\ got \in Nat /\ got > 1 /\ sent[got] \in {Text, Part, Rest, Bye}
      /\ DOMAIN conn = DOMAIN Zero
  BY <1>1, InHand
<1>3. RightMessages' BY <1>1, <1>2, RightStill DEF Typing
<1>4. CASE Switch
  <2>1. UNCHANGED <<conn, payload>> /\ pc = "switch" BY <1>4 DEF Switch
  <2>2. ~panicked' BY DEF Typing, Unharmed
  <2>3. CASE pc' = "closing"
    BY <1>3, <2>3 DEF Decoding, AtWork, MayRead
  <2>4. CASE pc' # "closing"
    <3>1. pc' = "payload" /\ conn.opcode # CLOSE BY <1>4, <2>2, <2>4 DEF Switch
    <3>2. sent[got] # Bye
      <4>1. Bye.opcode = CLOSE BY DEF Bye
      <4> QED BY <1>2, <2>1, <3>1, <4>1 DEF Header
    <3>3. Header' BY <1>1, <1>2, <2>1, <3>1, <3>2 DEF Header
    <3>4. Body' BY <1>1, <1>2, <2>1, <3>1 DEF Body
    <3>5. AtWork' BY <3>1 DEF AtWork
    <3> QED BY <1>1, <2>1, <3>3, <3>4, <3>5, BehindStill
  <2> QED BY <2>3, <2>4
<1>5. CASE Payload
  <2>1. conn' = conn /\ pc = "payload" /\ pc' = "store" BY <1>5 DEF Payload
  <2>2. conn.fragmentLength = 1 /\ conn.rBuffer = <<>> BY <1>2, <2>1 DEF Header, Body
  <2>3. payload' = IF open THEN <<-got>> ELSE <<>> BY <1>5, <2>2 DEF Payload
  <2>4. Header' BY <1>1, <1>2, <2>1 DEF Header
  <2>5. Body' BY <1>1, <2>1, <2>2, <2>3 DEF Body
  <2>6. AtWork' BY <2>1 DEF AtWork
  <2> QED BY <1>1, <2>1, <2>4, <2>5, <2>6, BehindStill
<1>6. CASE Store
  <2>1. payload' = payload /\ pc = "store" BY <1>6 DEF Store
  <2>2. conn.fragmentLength = 1 /\ conn.rBuffer = <<>> BY <1>2, <2>1 DEF Header, Body
  <2>3. CASE payload = <<>>
    <3>1. ~open
      <4>1. <<-got>> # <<>> OBVIOUS
      <4> QED BY <1>2, <2>1, <2>3, <4>1 DEF Body
    <3>2. pc' = "wait" BY <1>6, <2>2, <2>3 DEF Store
    <3> QED BY <1>1, <1>3, <3>1, <3>2 DEF Decoding, AtWork, MayRead
  <2>4. CASE payload # <<>>
    <3>1. payload = <<-got>> BY <1>2, <2>1, <2>4 DEF Body
    <3>2. pc' = "complete" /\ conn' = [conn EXCEPT !.rBuffer = conn.rBuffer \o payload]
      BY <1>6, <2>4 DEF Store
    <3>3. conn.rBuffer \o payload = <<-got>> BY <2>2, <3>1
    <3>4. conn' = [conn EXCEPT !.rBuffer = <<-got>>] BY <3>2, <3>3
    <3>5. /\ conn'.rBuffer = <<-got>> /\ conn'.opcode = conn.opcode
          /\ conn'.masks = conn.masks /\ conn'.fragmentLength = conn.fragmentLength
          /\ conn'.packetBuffer = conn.packetBuffer
          /\ conn'.continueBuffer = conn.continueBuffer
      BY <1>2, <3>4 DEF Zero
    <3>6. Header' BY <1>1, <1>2, <2>1, <3>2, <3>5 DEF Header
    <3>7. Body' BY <1>1, <3>2, <3>5 DEF Body
    <3>8. AtWork' BY <3>2 DEF AtWork
    <3> QED BY <1>1, <3>5, <3>6, <3>7, <3>8, BehindStill
  <2> QED BY <2>3, <2>4
<1>7. CASE Complete
  <2>1. UNCHANGED <<conn, payload>> /\ pc = "complete" BY <1>7 DEF Complete
  <2>2. conn.fragmentLength = 1 /\ conn.rBuffer = <<-got>> BY <1>2, <2>1 DEF Header, Body
  <2>3. pc' = "unmask" BY <1>7, <2>2 DEF Complete
  <2>4. Header' BY <1>1, <1>2, <2>1, <2>3 DEF Header
  <2>5. Body' BY <1>1, <2>1, <2>2, <2>3 DEF Body
  <2>6. AtWork' BY <2>3 DEF AtWork
  <2> QED BY <1>1, <2>1, <2>4, <2>5, <2>6, BehindStill
<1> QED BY <1>4, <1>5, <1>6, <1>7

\* From the masked payload to the packet.
LEMMA PackingDecoding ==
  ASSUME Typing, Typing', Decoding, Unmask \/ AppendPacket
  PROVE  Decoding'
<1> USE DEF peer, kernel, writing, decoding, callbacks, Goto, Closes, Panics
<1> SUFFICES ASSUME ~raced' PROVE Decoding' BY DEF Decoding
<1>1. /\ UNCHANGED <<sent, got, final, emitted, raced, open, registered>> /\ ~raced
      /\ AtWork
  BY DEF Unmask, AppendPacket, AtWork
<1>2. /\ ~panicked /\ RightMessages /\ Behind /\ Header /\ Body
      /\ got \in Nat /\ got > 1 /\ sent[got] \in {Text, Part, Rest, Bye}
      /\ DOMAIN conn = DOMAIN Zero
  BY <1>1, InHand
<1>3. CASE Unmask
  <2>1. conn' = conn /\ pc = "unmask" /\ pc' = "append" BY <1>3 DEF Unmask
  <2>2. conn.masks = TRUE /\ conn.rBuffer = <<-got>> BY <1>2, <2>1 DEF Header, Body
  <2>3. payload' = [i \in DOMAIN conn.rBuffer |-> -conn.rBuffer[i]] BY <1>3, <2>2 DEF Unmask
  <2>4. payload' = <<got>> BY <1>2, <2>2, <2>3, Unmasked
  <2>5. Header' BY <1>1, <1>2, <2>1 DEF Header
  <2>6. Body' BY <1>1, <2>1, <2>2, <2>4 DEF Body
  <2>7. AtWork' BY <2>1 DEF AtWork
  <2> QED BY <1>1, <2>1, <2>5, <2>6, <2>7, BehindStill
<1>4. CASE AppendPacket
  <2>1. pc = "append" /\ payload = <<got>> /\ conn.packetBuffer = <<>>
    BY <1>2, <1>4 DEF AppendPacket, Header, Body
  <2>2. ~panicked' BY DEF Typing, Unharmed
  <2>3. /\ pc' = "deliver" /\ code' = conn.opcode
        /\ conn' = [Zero EXCEPT !.packetBuffer = conn.packetBuffer \o payload,
                                !.continueBuffer = conn.continueBuffer,
                                !.messageMode = conn.messageMode]
    BY <1>4, <2>2 DEF AppendPacket
  <2>4. conn.packetBuffer \o payload = <<got>> BY <2>1
  <2>5. /\ conn'.rBuffer = <<>> /\ conn'.packetBuffer = <<got>>
        /\ conn'.continueBuffer = conn.continueBuffer
    BY <2>3, <2>4 DEF Zero
  <2>6. code' = sent[got].opcode BY <1>2, <2>1, <2>3 DEF Header
  <2>7. Header' BY <1>1, <1>2, <2>1, <2>3 DEF Header
  <2>8. Body' BY <1>1, <2>3, <2>5, <2>6 DEF Body
  <2>9. AtWork' BY <2>3 DEF AtWork
  <2> QED BY <1>1, <2>5, <2>7, <2>8, <2>9, BehindStill
<1> QED BY <1>3, <1>4

\* Two fragments put together.
LEMMA Joined ==
  ASSUME NEW a \in Int, NEW b \in Int
  PROVE  <<a>> \o <<b>> = <<a, b>>
<1> DEFINE s == <<a>> \o <<b>>
<1>1. s \in Seq(Int) /\ Len(s) = 2 /\ s[1] = a /\ s[2] = b OBVIOUS
<1> HIDE DEF s
<1>2. DOMAIN s = 1..2 /\ s = [i \in 1..2 |-> s[i]] BY <1>1
<1>3. <<a, b>> = [i \in 1..2 |-> <<a, b>>[i]] OBVIOUS
<1>4. \A i \in 1..2 : s[i] = <<a, b>>[i] BY <1>1
<1>5. [i \in 1..2 |-> s[i]] = [i \in 1..2 |-> <<a, b>>[i]] BY <1>4
<1> QED BY <1>2, <1>3, <1>5 DEF s

\* The message of a frame is the next one.
LEMMA DeliverDecoding ==
  ASSUME Typing, Typing', Decoding, Deliver
  PROVE  Decoding'
<1> USE DEF peer, kernel, writing, decoding, callbacks, Goto, Panics
<1> SUFFICES ASSUME ~raced' PROVE Decoding' BY DEF Decoding
<1>1. /\ UNCHANGED <<sent, got, final, code, raced, open, registered>> /\ ~raced
      /\ AtWork /\ pc = "deliver"
  BY DEF Deliver, AtWork
<1>2. /\ RightMessages /\ Behind /\ Header /\ Body
      /\ got \in Nat /\ got > 1 /\ sent[got] \in {Text, Part, Rest, Bye}
      /\ got \in DOMAIN sent /\ DOMAIN conn = DOMAIN Zero
  BY <1>1, InHand
<1>3. /\ conn.rBuffer = <<>> /\ conn.packetBuffer = <<got>> /\ code = sent[got].opcode
      /\ final = sent[got].final /\ sent[got] # Bye
      /\ conn.continueBuffer = Continued(got - 1)
      /\ Cardinality(Ends(got - 1)) = Len(emitted)
  BY <1>1, <1>2 DEF Header, Body, Behind
<1>4. ~panicked' BY DEF Typing, Unharmed
<1>5. pc' = "wait" BY <1>4 DEF Deliver
<1>6. ~AtWork' BY <1>5 DEF AtWork
<1>7. /\ got - 1 \in Nat /\ got - 1 < Len(sent) /\ (got - 1) + 1 = got /\ got - 1 > 0
  BY <1>2 DEF Typing, Orderly, Protocol
<1>8. /\ sent[got] \in {Text, Rest} => /\ Cardinality(Ends(got)) = Cardinality(Ends(got - 1)) + 1
                                       /\ got \in Ends(got)
      /\ sent[got] \notin {Text, Rest} => Ends(got) = Ends(got - 1)
  <2> DEFINE n == got - 1
  <2>1. n \in Nat /\ n < Len(sent) /\ n + 1 = got BY <1>7
  <2> HIDE DEF n
  <2>2. /\ sent[n + 1] \in {Text, Rest} => /\ Cardinality(Ends(n + 1)) = Cardinality(Ends(n)) + 1
                                           /\ n + 1 \in Ends(n + 1)
        /\ sent[n + 1] \notin {Text, Rest} => Ends(n + 1) = Ends(n)
    BY <2>1, OneMore DEF Typing
  <2> QED BY <2>1, <2>2 DEF n
<1>9. emitted \in Seq(Buffers) /\ Len(emitted) \in Nat BY DEF Typing, Contents
<1>10. Ends(got)' = Ends(got) BY <1>1 DEF Ends
<1>11. Continued(got)' = Continued(got) BY <1>1 DEF Continued
<1>12. ASSUME sent[got] \in {Text, Rest}, emitted' = Append(emitted, Message(got))
       PROVE  RightMessages' /\ Cardinality(Ends(got)') = Len(emitted)'
  <2>1. Len(emitted') = Len(emitted) + 1 /\ Cardinality(Ends(got)) = Len(emitted) + 1
    BY <1>3, <1>8, <1>9, <1>12
  <2>2. ASSUME NEW n \in DOMAIN emitted'
        PROVE  \E i \in Ends(got) : emitted'[n] = Message(i) /\ Cardinality(Ends(i)) = n
    <3>1. n \in 1..Len(emitted) + 1 BY <1>9, <1>12
    <3>2. CASE n = Len(emitted) + 1
      <4>1. emitted'[n] = Message(got) BY <1>9, <1>12, <3>2
      <4> QED BY <1>8, <1>12, <2>1, <3>2, <4>1
    <3>3. CASE n # Len(emitted) + 1
      <4>1. n \in DOMAIN emitted /\ emitted'[n] = emitted[n] BY <1>9, <1>12, <3>1, <3>3
      <4> QED BY <1>2, <4>1 DEF RightMessages
    <3> QED BY <3>2, <3>3
  <2>3. \A i : Ends(i)' = Ends(i) /\ Message(i)' = Message(i) BY <1>1 DEF Ends, Message
  <2> QED BY <1>1, <2>1, <2>2, <2>3 DEF RightMessages
<1>13. CASE sent[got] = Text
  <2>1. code = TEXTMODE /\ final BY <1>3, <1>13 DEF Text
  <2>2. code # CONTINUATION BY <2>1 DEF TEXTMODE, CONTINUATION
  <2>3. /\ emitted' = Append(emitted, conn.packetBuffer)
        /\ conn' = [conn EXCEPT !.packetBuffer = <<>>, !.messageMode = 0,
                                !.continueBuffer = conn.continueBuffer]
    BY <1>4, <2>1, <2>2 DEF Deliver
  <2>4. conn'.packetBuffer = <<>> /\ conn'.continueBuffer = conn.continueBuffer
        /\ conn'.rBuffer = <<>>
    BY <1>2, <1>3, <2>3 DEF Zero
  <2>5. sent[got - 1] # Part BY <1>2, <1>7, <1>13 DEF Typing, Orderly, Protocol
  <2>6. Continued(got - 1) = <<>> /\ Continued(got) = <<>>
    BY <1>13, <2>5, FramesDiffer DEF Continued
  <2>7. Message(got) = <<got>> BY <1>13 DEF Message
  <2>8. RightMessages' /\ Cardinality(Ends(got)') = Len(emitted)'
    BY <1>3, <1>12, <1>13, <2>3, <2>7
  <2>9. Idle' BY <1>3, <1>11, <2>4, <2>6, <2>8 DEF Idle
  <2> QED BY <1>6, <2>8, <2>9 DEF Decoding
<1>14. CASE sent[got] = Rest
  <2>1. code = CONTINUATION /\ final BY <1>3, <1>14 DEF Rest
  <2>2. /\ emitted' = Append(emitted, conn.continueBuffer \o conn.packetBuffer)
        /\ conn' = [conn EXCEPT !.packetBuffer = <<>>, !.messageMode = 0, !.continueBuffer = <<>>]
    BY <1>4, <2>1 DEF Deliver
  <2>3. conn'.packetBuffer = <<>> /\ conn'.continueBuffer = <<>> /\ conn'.rBuffer = <<>>
    BY <1>2, <1>3, <2>2 DEF Zero
  <2>4. sent[got - 1] = Part BY <1>2, <1>7, <1>14 DEF Typing, Orderly, Protocol
  <2>5. Continued(got - 1) = <<got - 1>> /\ Continued(got) = <<>>
    BY <1>7, <1>14, <2>4, FramesDiffer DEF Continued
  <2>6. <<got - 1>> \o <<got>> = <<got - 1, got>>
    BY <1>2, <1>7, Joined
  <2>7. Message(got) = <<got - 1, got>> BY <1>14, FramesDiffer DEF Message
  <2>8. emitted' = Append(emitted, Message(got)) BY <1>3, <2>2, <2>5, <2>6, <2>7
  <2>9. RightMessages' /\ Cardinality(Ends(got)') = Len(emitted)' BY <1>12, <1>14, <2>8
  <2>10. Idle' BY <1>11, <2>3, <2>5, <2>9 DEF Idle
  <2> QED BY <1>6, <2>9, <2>10 DEF Decoding
<1>15. CASE sent[got] = Part
  <2>1. ~final BY <1>3, <1>15 DEF Part
  <2>2. /\ emitted' = emitted
        /\ conn' = [conn EXCEPT !.packetBuffer = <<>>,
                                !.continueBuffer = conn.continueBuffer \o conn.packetBuffer]
    BY <1>4, <2>1 DEF Deliver
  <2>3. sent[got - 1] # Part BY <1>2, <1>7, <1>15 DEF Typing, Orderly, Protocol
  <2>4. Continued(got - 1) = <<>> /\ Continued(got) = <<got>>
    BY <1>2, <1>15, <2>3 DEF Continued
  <2>5. <<>> \o <<got>> = <<got>> BY <1>2
  <2>6. conn' = [conn EXCEPT !.packetBuffer = <<>>, !.continueBuffer = <<got>>]
    BY <1>3, <2>2, <2>4, <2>5
  <2>7. conn'.packetBuffer = <<>> /\ conn'.continueBuffer = <<got>> /\ conn'.rBuffer = <<>>
    BY <1>2, <1>3, <2>6 DEF Zero
  <2>8. Ends(got) = Ends(got - 1) BY <1>8, <1>15, FramesDiffer
  <2>9. RightMessages' BY <1>1, <1>2, <2>2, RightStill DEF Typing
  <2>10. Idle' BY <1>3, <1>10, <1>11, <2>2, <2>4, <2>7, <2>8 DEF Idle
  <2> QED BY <1>6, <2>9, <2>10 DEF Decoding
<1> QED BY <1>2, <1>3, <1>13, <1>14, <1>15

LEMMA AlwaysDecoding == Spec => []Decoding
<1>1. Init => Decoding
  <2> SUFFICES ASSUME Init PROVE Decoding OBVIOUS
  <2>1. conn.rBuffer = <<>> /\ conn.packetBuffer = <<>> /\ conn.continueBuffer = <<>>
    BY DEF Init, Zero
  <2>2. sent = <<>> /\ got = 0 /\ emitted = <<>> /\ pc = "wait" BY DEF Init
  <2>3. Ends(0) = {} BY DEF Ends
  <2>4. Cardinality(Ends(got)) = Len(emitted)
    <3>1. Cardinality({}) = 0 BY FS_EmptySet
    <3>2. Ends(got) = {} /\ Len(emitted) = 0 BY <2>2, <2>3
    <3> QED BY <3>1, <3>2
  <2>5. Idle BY <2>1, <2>2, <2>4 DEF Idle, Continued
  <2>6. ~AtWork BY <2>2 DEF AtWork
  <2>7. RightMessages BY <2>2 DEF RightMessages
  <2> QED BY <2>5, <2>6, <2>7 DEF Decoding
<1>2. Typing /\ Typing' /\ Decoding /\ [Next]_vars => Decoding'
  <2> SUFFICES ASSUME Typing, Typing', Decoding, [Next]_vars PROVE Decoding' OBVIOUS
  <2> QED BY PeerDecoding, OthersDecoding, WaitingDecoding, ReadingDecoding, FetchingDecoding,
             PackingDecoding, DeliverDecoding DEF Next, Polling, Goroutines
<1> QED BY <1>1, <1>2, AlwaysTyping, PTL DEF Spec

\* Closing by others cannot hurt the decoder between two events: without a field
\* cleared during a DecodePacket nothing panics, and the messages are those of the
\* peer, each once, in order and with its own bytes (websocket_ctrl.go:71-95,
\* websocket_frame.go:20-102).
THEOREM AlwaysConfined == Spec => []Confined
<1>1. Typing /\ Decoding => Confined BY DEF Typing, Unharmed, Decoding, Confined
<1> QED BY <1>1, AlwaysTyping, AlwaysDecoding, PTL
=============================================================================
