-------------------------- MODULE ServerStopProofs --------------------------
(***************************************************************************)
(* Proofs about ServerStop, for any number of clients, messages, pollers   *)
(* and calls of Stop and whatever channel: a call that comes alone to a    *)
(* server at rest cannot panic or hang, and no message is handled twice.   *)
(***************************************************************************)
EXTENDS ServerStop, FiniteSetTheorems, TLAPS

\* The variables that are updated one entry at a time.
Shape ==
  /\ client \in [Conns -> {"away", "backlog", "open", "closed"}]
  /\ unread \in [Conns -> Int]
  /\ poller \in [Pollers -> {"loop", "wait", "events", "emit", "done"}]
  /\ batch \in [Pollers -> SUBSET Conns]
  /\ stop \in [Stoppers -> {"idle", "lock", "clear", "stuck", "epolls", "listener", "exit",
                            "done"}]
  /\ epolls \subseteq Pollers /\ watched \subseteq Conns

\* A connection no poller has heard of: it is not registered, nothing has come
\* from its client, and no event for it waits to be handled.
Fresh(c) == c \notin connects /\ unread[c] = 0 /\ \A q \in Pollers : c \notin batch[q]

\* The connection the acceptor is making is open, and stays so.
Made ==
  /\ acceptor \in {"addread", "add"} =>
       current \in Conns /\ client[current] = "open" /\ Fresh(current)
  /\ \A c \in Conns : client[c] \in {"away", "backlog"} => Fresh(c)
  /\ \A c \in connects : c \in Conns /\ client[c] = "open"

\* What is closed was closed by a Stop that has come this far.
ByStop ==
  /\ closed => \E s \in Stoppers : stop[s] \in {"listener", "exit", "done"}
  /\ epolls # Pollers => \E s \in Stoppers : stop[s] \in {"epolls", "listener", "exit", "done"}

\* While the server is calm one Stop at most has been called, and from its
\* ClearAll on the server is at rest.
Calm ==
  calm => /\ ~panicked
          /\ \A s, t \in Stoppers : stop[s] # "idle" /\ stop[t] # "idle" => s = t
          /\ \A s \in Stoppers : stop[s] # "stuck"
          /\ \A s \in Stoppers : stop[s] \notin {"idle", "lock"} => AtRest

\* The inductive invariant.
StopInv == Shape /\ Made /\ ByStop /\ Calm

\* The initial state.
LEMMA InitStopInv == Init => StopInv
<1> SUFFICES ASSUME Init PROVE StopInv OBVIOUS
<1>1. Shape BY DEF Init, Shape
<1>2. Made BY DEF Init, Made, Fresh
<1>3. ByStop BY DEF Init, ByStop
<1>4. Calm BY DEF Init, Calm
<1> QED BY <1>1, <1>2, <1>3, <1>4 DEF StopInv

\* At rest nothing is registered, and the acceptor makes no connection.
LEMMA RestIsEmpty ==
  ASSUME Shape, Made, AtRest
  PROVE  connects = {} /\ acceptor \notin {"addread", "add"} /\ Backlog = {}
<1>1. \A c \in Conns : client[c] \notin {"open", "backlog"} BY DEF AtRest
<1> QED BY <1>1 DEF Made, Backlog

\* The clients: one that connects ends the calm, and at rest nobody speaks.
LEMMA ClientsKeep ==
  ASSUME StopInv, NEW c \in Conns, Connect(c) \/ Speak(c) \/ Leave(c)
  PROVE  StopInv'
<1> USE DEF StopInv, accepting, managing, polling, channel
<1>1. CASE Connect(c)
  <2>1. Shape' BY <1>1 DEF Connect, Shape
  <2>2. Made' BY <1>1 DEF Connect, Shape, Made, Fresh
  <2>3. ByStop' BY <1>1 DEF Connect, ByStop
  <2>4. Calm' BY <1>1 DEF Connect, Calm, Called
  <2> QED BY <2>1, <2>2, <2>3, <2>4
<1>2. CASE Speak(c)
  <2>1. Shape' BY <1>2 DEF Speak, Shape
  <2>2. Made' BY <1>2 DEF Speak, Shape, Made, Fresh
  <2>3. ByStop' BY <1>2 DEF Speak, ByStop
  <2>4. Calm' BY <1>2 DEF Speak, Calm, AtRest
  <2> QED BY <2>1, <2>2, <2>3, <2>4
<1>3. CASE Leave(c)
  <2>1. Shape' BY <1>3 DEF Leave, Shape
  <2>2. Made' BY <1>3 DEF Leave, Shape, Made, Fresh
  <2>3. ByStop' BY <1>3 DEF Leave, ByStop
  <2>4. Calm' BY <1>3 DEF Leave, Calm, AtRest
  <2> QED BY <2>1, <2>2, <2>3, <2>4
<1> QED BY <1>1, <1>2, <1>3

\* Start and the acceptor.  At rest accept(2) finds nobody; before that the
\* epolls are open.
LEMMA AcceptorKeeps ==
  ASSUME StopInv, Start \/ Acceptor
  PROVE  StopInv'
<1> USE DEF StopInv, clients, managing, polling, channel
<1>1. CASE Start \/ Listen \/ Exited \/ Incoming
  <2>1. UNCHANGED <<stop, clients, managing, polling, channel, calm, panicked>>
        /\ acceptor' \notin {"addread", "add"}
    BY <1>1 DEF Start, Listen, Exited, Incoming
  <2>2. Shape' BY <2>1 DEF Shape
  <2>3. Made' BY <2>1 DEF Made, Fresh
  <2>4. ByStop' BY <2>1 DEF ByStop
  <2>5. Calm' BY <2>1 DEF Calm, AtRest
  <2> QED BY <2>2, <2>3, <2>4, <2>5
<1>2. CASE Accept /\ listening
  <2>1. PICK c \in Backlog : /\ client' = [client EXCEPT ![c] = "open"]
                             /\ current' = c /\ acceptor' = "addread"
    BY <1>2 DEF Accept
  <2>2. UNCHANGED <<stop, unread, managing, polling, channel, calm, panicked>>
    BY <1>2 DEF Accept
  <2>3. c \in Conns /\ client[c] = "backlog" BY DEF Backlog
  <2>4. Shape' BY <2>1, <2>2, <2>3 DEF Shape
  <2>5. Made' BY <2>1, <2>2, <2>3 DEF Shape, Made, Fresh
  <2>6. ByStop' BY <2>2 DEF ByStop
  <2>7. ~AtRest BY <2>3 DEF AtRest
  <2>8. Calm' BY <2>2, <2>7 DEF Calm
  <2> QED BY <2>4, <2>5, <2>6, <2>8
<1>3. CASE Accept /\ ~listening
  <2>1. UNCHANGED <<stop, clients, managing, polling, channel, calm, panicked>>
        /\ acceptor' = "done"
    BY <1>3 DEF Accept
  <2>2. Shape' BY <2>1 DEF Shape
  <2>3. Made' BY <2>1 DEF Made, Fresh
  <2>4. ByStop' BY <2>1 DEF ByStop
  <2>5. Calm' BY <2>1 DEF Calm, AtRest
  <2> QED BY <2>2, <2>3, <2>4, <2>5
<1>4. CASE AddRead
  <2>1. UNCHANGED <<stop, clients, current, connects, epolls, poller, batch, closed, calm>>
        /\ watched' \subseteq watched \cup {current}
        /\ acceptor = "addread" /\ acceptor' \in {"addread", "add"}
    BY <1>4 DEF AddRead
  <2>2. current \in Conns /\ ~AtRest BY <2>1 DEF Made, AtRest
  <2>3. PollerOf(current) \in Pollers
    BY <2>2, ServerStopAssumption DEF ServerStopAssumption, PollerOf, Conns, Pollers
  <2>4. calm => epolls = Pollers BY <2>2 DEF Calm, ByStop
  <2>5. calm => panicked' = panicked BY <1>4, <2>3, <2>4 DEF AddRead
  <2>6. Shape' BY <2>1, <2>2 DEF Shape
  <2>7. Made' BY <2>1 DEF Made, Fresh
  <2>8. ByStop' BY <2>1 DEF ByStop
  <2>9. Calm' BY <2>1, <2>5 DEF Calm, AtRest
  <2> QED BY <2>6, <2>7, <2>8, <2>9
<1>5. CASE Add
  <2>1. /\ acceptor = "add" /\ acceptor' = "wait" /\ connects' = connects \cup {current}
        /\ UNCHANGED <<stop, clients, polling, closed, calm, panicked>>
    BY <1>5 DEF Add
  <2>2. Shape' BY <2>1 DEF Shape
  <2>3. Made' BY <2>1 DEF Made, Fresh
  <2>4. ByStop' BY <2>1 DEF ByStop
  <2>5. Calm' BY <2>1 DEF Calm, AtRest
  <2> QED BY <2>2, <2>3, <2>4, <2>5
<1> QED BY <1>1, <1>2, <1>3, <1>4, <1>5 DEF Acceptor

\* Connections other than the acceptor's are closed, and leave the registry.
LEMMA ClosedKeeps ==
  ASSUME StopInv, NEW gone \in SUBSET Conns,
         \A c \in gone : ~Fresh(c),
         client' = [c \in Conns |-> IF c \in gone THEN "closed" ELSE client[c]],
         connects' = connects \ gone, watched' = watched \ gone,
         batch' \in [Pollers -> SUBSET Conns],
         \A q \in Pollers : batch'[q] \subseteq batch[q],
         poller' \in [Pollers -> {"loop", "wait", "events", "emit", "done"}],
         \A q \in Pollers : poller'[q] = "emit" => poller[q] = "emit",
         UNCHANGED <<stop, unread, acceptor, current, epolls, closed, calm, panicked>>
  PROVE  StopInv'
<1> USE DEF StopInv
<1>1. Shape' BY DEF Shape
<1>2. \A c \in Conns : Fresh(c) => Fresh(c)' BY DEF Fresh
<1>3. Made' BY <1>2 DEF Made
<1>4. ByStop' BY DEF ByStop
<1>5. AtRest => AtRest' BY DEF AtRest
<1>6. Calm' BY <1>5 DEF Calm
<1> QED BY <1>1, <1>3, <1>4, <1>6

\* A poller moves on with nothing in its hands, and has looked at what is ready.
LEMMA PollerMoves ==
  ASSUME StopInv, NEW q \in Pollers, EpollWait(q) \/ NextBatch(q) \/ Events(q)
  PROVE  StopInv'
<1> USE DEF StopInv, clients, accepting, managing, channel
<1>1. UNCHANGED <<stop, clients, acceptor, current, connects, watched, epolls, closed, calm,
                  panicked>>
  BY DEF EpollWait, NextBatch, Events
<1>2. PICK w \in {"loop", "wait", "events"} : poller' = [poller EXCEPT ![q] = w]
  BY DEF EpollWait, NextBatch, Events
<1>3. batch' = batch \/ batch' = [batch EXCEPT ![q] = Ready(q)]
  BY DEF EpollWait, NextBatch, Events
<1>4. Ready(q) \in SUBSET Conns /\ \A c \in Ready(q) : unread[c] # 0 BY DEF Ready, Shape
<1>5. Shape' BY <1>1, <1>2, <1>3, <1>4 DEF Shape
<1>6. \A c \in Conns : Fresh(c) => Fresh(c)' BY <1>1, <1>3, <1>4 DEF Fresh, Shape
<1>7. Made' BY <1>1, <1>6 DEF Made
<1>8. ByStop' BY <1>1 DEF ByStop
<1>9. AtRest => AtRest' BY <1>1, <1>2 DEF AtRest, Shape
<1>10. Calm' BY <1>1, <1>9 DEF Calm
<1> QED BY <1>5, <1>7, <1>8, <1>10

\* An event leads to a message, if the connection is registered, or to a close.
LEMMA HandleKeeps ==
  ASSUME StopInv, NEW q \in Pollers, Handle(q)
  PROVE  StopInv'
<1> USE DEF StopInv, accepting, channel
<1>1. PICK c \in batch[q] :
        /\ batch' = [batch EXCEPT ![q] = @ \ {c}]
        /\ IF c \in connects /\ unread[c] > 0
           THEN /\ unread' = [unread EXCEPT ![c] = @ - 1]
                /\ poller' = [poller EXCEPT ![q] = "emit"]
                /\ UNCHANGED <<client, connects, watched>>
           ELSE Closing(c) /\ UNCHANGED <<unread, poller>>
  BY DEF Handle
<1>2. UNCHANGED <<stop, acceptor, current, epolls, closed, calm, panicked>> BY DEF Handle
<1>3. c \in Conns /\ ~Fresh(c) BY DEF Shape, Fresh
<1>4. /\ batch' \in [Pollers -> SUBSET Conns]
      /\ \A p \in Pollers : batch'[p] \subseteq batch[p]
  BY <1>1 DEF Shape
<1>5. CASE c \in connects /\ unread[c] > 0
  <2>1. /\ unread' = [unread EXCEPT ![c] = @ - 1]
        /\ poller' = [poller EXCEPT ![q] = "emit"]
        /\ UNCHANGED <<client, connects, watched>>
    BY <1>1, <1>5
  <2>2. Shape'
    <3>1. unread[c] - 1 \in Int BY <1>3 DEF Shape
    <3>2. unread' \in [Conns -> Int] BY <3>1, <2>1 DEF Shape
    <3>3. poller' \in [Pollers -> {"loop", "wait", "events", "emit", "done"}]
      BY <2>1 DEF Shape
    <3> QED BY <3>2, <3>3, <2>1, <1>2, <1>4 DEF Shape
  <2>3. ASSUME NEW d \in Conns, Fresh(d) PROVE Fresh(d)'
    <3>1. d # c BY <2>3, <1>3
    <3>2. unread'[d] = unread[d] BY <3>1, <2>1 DEF Shape
    <3> QED BY <3>2, <2>1, <2>3, <1>4 DEF Fresh
  <2>4. Made' BY <2>1, <2>3, <1>2 DEF Made
  <2>5. ByStop' BY <1>2 DEF ByStop
  <2>6. ~AtRest BY <1>5, RestIsEmpty
  <2>7. Calm' BY <2>6, <1>2 DEF Calm
  <2> QED BY <2>2, <2>4, <2>5, <2>7
<1>6. CASE ~(c \in connects /\ unread[c] > 0)
  <2>1. Closing(c) /\ UNCHANGED <<unread, poller>> BY <1>1, <1>6
  <2>2. client' = [d \in Conns |-> IF d \in {c} THEN "closed" ELSE client[d]]
    BY <2>1, <1>3 DEF Closing, Shape
  <2>3. connects' = connects \ {c} /\ watched' = watched \ {c} BY <2>1 DEF Closing
  <2>4. poller' \in [Pollers -> {"loop", "wait", "events", "emit", "done"}]
        /\ \A p \in Pollers : poller'[p] = "emit" => poller[p] = "emit"
    BY <2>1 DEF Shape
  <2>5. {c} \in SUBSET Conns /\ \A d \in {c} : ~Fresh(d) BY <1>3
  <2> HIDE DEF StopInv
  <2> QED BY <2>1, <2>2, <2>3, <2>4, <2>5, <1>2, <1>4, ClosedKeeps
<1> QED BY <1>5, <1>6

\* While a poller holds a message the server is not at rest, so that in the calm
\* the channel is open.
LEMMA EmitKeeps ==
  ASSUME StopInv, NEW q \in Pollers, Emit(q)
  PROVE  StopInv'
<1> USE DEF StopInv, clients, accepting, managing
<1>1. poller[q] = "emit"
      /\ UNCHANGED <<stop, clients, acceptor, current, connects, watched, epolls, batch, closed,
                     calm>>
  BY DEF Emit
<1>2. poller' = poller \/ poller' = [poller EXCEPT ![q] = "events"] BY DEF Emit
<1>3. ~AtRest BY <1>1 DEF AtRest
<1>4. calm => ~closed BY <1>3 DEF Calm, ByStop
<1>5. calm => panicked' = panicked BY <1>4 DEF Emit
<1>6. Shape' BY <1>1, <1>2 DEF Shape
<1>7. Made' BY <1>1 DEF Made, Fresh
<1>8. ByStop' BY <1>1 DEF ByStop
<1>9. Calm' BY <1>1, <1>3, <1>5 DEF Calm
<1> QED BY <1>6, <1>7, <1>8, <1>9

\* ClearByEpFd and CloseByOther close connections that are registered.
LEMMA ClearKeeps ==
  ASSUME StopInv, (\E q \in Pollers : Clear(q)) \/ CloseByOther
  PROVE  StopInv'
<1> USE DEF accepting, channel
<1>1. ASSUME NEW q \in Pollers, Clear(q) PROVE StopInv'
  <2> DEFINE mine == {c \in connects : PollerOf(c) = q}
  <2>1. mine \in SUBSET Conns /\ \A c \in mine : ~Fresh(c) BY DEF StopInv, Made, Fresh
  <2>2. /\ client' = [c \in Conns |-> IF c \in mine THEN "closed" ELSE client[c]]
        /\ connects' = connects \ mine /\ watched' = watched \ mine
        /\ poller' = [poller EXCEPT ![q] = "done"]
        /\ UNCHANGED <<stop, unread, acceptor, current, epolls, batch, closed, calm, panicked>>
    BY <1>1 DEF Clear
  <2>3. /\ poller' \in [Pollers -> {"loop", "wait", "events", "emit", "done"}]
        /\ \A p \in Pollers : poller'[p] = "emit" => poller[p] = "emit"
        /\ batch' \in [Pollers -> SUBSET Conns]
        /\ \A p \in Pollers : batch'[p] \subseteq batch[p]
    BY <2>2 DEF StopInv, Shape
  <2> HIDE DEF mine
  <2> QED BY <2>1, <2>2, <2>3, ClosedKeeps
<1>2. CASE CloseByOther
  <2>1. PICK c \in connects : Closing(c) BY <1>2 DEF CloseByOther
  <2>2. {c} \in SUBSET Conns /\ \A d \in {c} : ~Fresh(d) BY DEF StopInv, Made, Fresh
  <2>3. /\ client' = [d \in Conns |-> IF d \in {c} THEN "closed" ELSE client[d]]
        /\ connects' = connects \ {c} /\ watched' = watched \ {c}
    BY <2>1, <2>2 DEF Closing, StopInv, Shape
  <2>4. UNCHANGED <<stop, unread, acceptor, current, epolls, poller, batch, closed, calm,
                    panicked>>
    BY <1>2 DEF CloseByOther
  <2>5. /\ poller' \in [Pollers -> {"loop", "wait", "events", "emit", "done"}]
        /\ \A p \in Pollers : poller'[p] = "emit" => poller[p] = "emit"
        /\ batch' \in [Pollers -> SUBSET Conns]
        /\ \A p \in Pollers : batch'[p] \subseteq batch[p]
    BY <2>4 DEF StopInv, Shape
  <2> QED BY <2>2, <2>3, <2>4, <2>5, ClosedKeeps
<1> QED BY <1>1, <1>2

\* Stop before it clears the connections: a second call ends the calm, and so does
\* ClearAll if it does not find the server at rest.
LEMMA StopKeeps ==
  ASSUME StopInv, NEW s \in Stoppers, Stop(s) \/ Lock(s)
  PROVE  StopInv'
<1> USE DEF StopInv, clients, accepting, managing, polling, channel, Step
<1>1. UNCHANGED <<clients, acceptor, current, connects, polling, closed, panicked>>
  BY DEF Stop, Lock
<1>2. PICK w \in {"lock", "clear"} : stop' = [stop EXCEPT ![s] = w] BY DEF Stop, Lock
<1>3. stop[s] \in {"idle", "lock"} BY DEF Stop, Lock
<1>4. Shape' BY <1>1, <1>2 DEF Shape
<1>5. Made' BY <1>1 DEF Made, Fresh
<1>6. ByStop' BY <1>1, <1>2, <1>3 DEF ByStop, Shape
<1>7. AtRest' = AtRest BY <1>1 DEF AtRest
<1>8. CASE Stop(s)
  <2>1. stop' = [stop EXCEPT ![s] = "lock"] /\ calm' = (calm /\ ~Called) BY <1>8 DEF Stop
  <2>2. calm' => calm /\ \A t \in Stoppers : stop[t] = "idle" BY <2>1 DEF Called
  <2>3. Calm' BY <2>1, <2>2, <1>1, <1>7 DEF Calm, Shape
  <2> QED BY <2>3, <1>4, <1>5, <1>6
<1>9. CASE Lock(s)
  <2>1. stop' = [stop EXCEPT ![s] = "clear"] /\ calm' = (calm /\ AtRest) /\ stop[s] = "lock"
    BY <1>9 DEF Lock
  <2>2. Calm' BY <2>1, <1>1, <1>7 DEF Calm, Shape
  <2> QED BY <2>2, <1>4, <1>5, <1>6
<1> QED BY <1>8, <1>9

\* The rest of Stop.  At rest there is nothing to clear, and the only Stop closes
\* the channel the first time.
LEMMA StoppingKeeps ==
  ASSUME StopInv, NEW s \in Stoppers,
         ClearStuck(s) \/ ClearNone(s) \/ CloseEpoll(s) \/ CloseChannel(s) \/ CloseListener(s)
           \/ Exit(s)
  PROVE  StopInv'
<1> USE DEF StopInv, clients, accepting, managing, polling, channel, Step
<1>1. stop[s] \notin {"idle", "lock", "stuck"}
  BY DEF ClearStuck, ClearNone, CloseEpoll, CloseChannel, CloseListener, Exit
<1>2. calm => AtRest BY <1>1 DEF Calm
<1>3. CASE ClearStuck(s)
  <2>1. connects # {} BY <1>3 DEF ClearStuck
  <2>2. ~calm BY <2>1, <1>2, RestIsEmpty
  <2>3. /\ stop[s] = "clear" /\ stop' = [stop EXCEPT ![s] = "stuck"] /\ watched' \subseteq watched
        /\ UNCHANGED <<clients, acceptor, current, connects, epolls, poller, batch, closed, calm,
                       panicked>>
    BY <1>3 DEF ClearStuck
  <2>4. Shape' BY <2>3 DEF Shape
  <2>5. Made' BY <2>3 DEF Made, Fresh
  <2>6. ByStop' BY <2>3 DEF ByStop, Shape
  <2>7. Calm' BY <2>2, <2>3 DEF Calm
  <2> QED BY <2>4, <2>5, <2>6, <2>7
<1>4. CASE CloseEpoll(s)
  <2>1. /\ stop[s] = "epolls" /\ epolls' \subseteq epolls
        /\ UNCHANGED <<stop, clients, acceptor, current, connects, watched, poller, batch, closed,
                       calm, panicked>>
    BY <1>4 DEF CloseEpoll
  <2>2. Shape' BY <2>1 DEF Shape
  <2>3. Made' BY <2>1 DEF Made, Fresh
  <2>4. ByStop' BY <2>1 DEF ByStop
  <2>5. Calm' BY <2>1 DEF Calm, AtRest
  <2> QED BY <2>2, <2>3, <2>4, <2>5
<1>5. CASE ClearNone(s) \/ CloseChannel(s) \/ CloseListener(s) \/ Exit(s)
  <2>1. PICK w \in {"epolls", "listener", "exit", "done"} : stop' = [stop EXCEPT ![s] = w]
    BY <1>5 DEF ClearNone, CloseChannel, CloseListener, Exit
  <2>2. stop[s] \in {"epolls", "listener", "exit", "done"} => w # "epolls"
    BY <1>5, <2>1 DEF ClearNone, CloseChannel, CloseListener, Exit, Shape
  <2>3. closed' = closed \/ w = "listener"
    BY <1>5, <2>1 DEF ClearNone, CloseChannel, CloseListener, Exit, Shape
  <2>4. UNCHANGED <<unread, acceptor, current, connects, polling, calm>>
    BY <1>5 DEF ClearNone, CloseChannel, CloseListener, Exit
  <2>5. client' \in [Conns -> {"away", "backlog", "open", "closed"}]
        /\ \A c \in Conns :
             client'[c] # client[c] => client[c] = "backlog" /\ client'[c] = "closed"
    BY <1>5 DEF ClearNone, CloseChannel, CloseListener, Exit, Shape
  <2>6. panicked' # panicked => stop[s] = "epolls" /\ panicked' = closed
    BY <1>5 DEF ClearNone, CloseChannel, CloseListener, Exit
  <2>7. Shape' BY <2>1, <2>4, <2>5 DEF Shape
  <2>8. Made' BY <2>4, <2>5 DEF Made, Fresh
  <2>9. ByStop' BY <2>1, <2>2, <2>3, <2>4 DEF ByStop, Shape
  <2>10. calm => ~panicked'
    <3>1. calm /\ stop[s] = "epolls" => ~closed BY DEF Calm, ByStop
    <3> QED BY <3>1, <2>6 DEF Calm
  <2>11. AtRest => AtRest' BY <2>4, <2>5 DEF AtRest, Shape
  <2>12. Calm' BY <1>1, <1>2, <2>1, <2>4, <2>10, <2>11 DEF Calm, Shape
  <2> QED BY <2>7, <2>8, <2>9, <2>12
<1> QED BY <1>3, <1>4, <1>5

\* The dispatch loop touches nothing of the invariant.
LEMMA DispatchKeeps == StopInv /\ (Dispatch \/ DispatchEnds) => StopInv'
<1> SUFFICES ASSUME StopInv, Dispatch \/ DispatchEnds PROVE StopInv' OBVIOUS
<1> USE DEF StopInv, clients, accepting, managing, polling
<1>1. UNCHANGED <<stop, clients, acceptor, current, connects, polling, closed, calm, panicked>>
  BY DEF Dispatch, DispatchEnds
<1>2. Shape' BY <1>1 DEF Shape
<1>3. Made' BY <1>1 DEF Made, Fresh
<1>4. ByStop' BY <1>1 DEF ByStop
<1>5. Calm' BY <1>1 DEF Calm, AtRest
<1> QED BY <1>2, <1>3, <1>4, <1>5

\* Every step keeps the invariant.
LEMMA NextStopInv == StopInv /\ [Next]_vars => StopInv'
<1> SUFFICES ASSUME StopInv, [Next]_vars PROVE StopInv' OBVIOUS
<1>1. CASE UNCHANGED vars
  <2> USE <1>1 DEF vars, clients, accepting, managing, polling, channel
  <2>1. Shape' BY DEF StopInv, Shape
  <2>2. Made' BY DEF StopInv, Made, Fresh
  <2>3. ByStop' BY DEF StopInv, ByStop
  <2>4. Calm' BY DEF StopInv, Calm, AtRest
  <2> QED BY <2>1, <2>2, <2>3, <2>4 DEF StopInv
<1>2. ASSUME NEW c \in Conns, Connect(c) \/ Speak(c) \/ Leave(c) PROVE StopInv'
  BY <1>2, ClientsKeep
<1>3. CASE Start \/ Acceptor BY <1>3, AcceptorKeeps
<1>4. ASSUME NEW q \in Pollers, Poller(q) PROVE StopInv'
  BY <1>4, PollerMoves, HandleKeeps, EmitKeeps, ClearKeeps DEF Poller
<1>5. CASE Dispatch \/ DispatchEnds BY <1>5, DispatchKeeps
<1>6. CASE CloseByOther BY <1>6, ClearKeeps
<1>7. ASSUME NEW s \in Stoppers, Stop(s) \/ Stopping(s) PROVE StopInv'
  BY <1>7, StopKeeps, StoppingKeeps DEF Stopping
<1> QED BY <1>1, <1>2, <1>3, <1>4, <1>5, <1>6, <1>7 DEF Next

\* The invariant holds always.
LEMMA AlwaysStopInv == Spec => []StopInv
<1>1. Init => StopInv BY InitStopInv
<1>2. StopInv /\ [Next]_vars => StopInv' BY NextStopInv
<1> QED BY <1>1, <1>2, PTL DEF Spec

\* A call of Stop that comes alone to a server at rest neither panics (in AddRead
\* on a closed epoll, in a send on the closed channel, in a second close of it) nor
\* waits for the lock of ClearAll (server.go:172-197, connectmgr.go:88-97).
THEOREM CalmStopIsSafe == Spec => []CalmStop
<1>1. StopInv => CalmStop BY DEF StopInv, Calm, CalmStop
<1> QED BY <1>1, AlwaysStopInv, PTL

-----------------------------------------------------------------------------
(* The types of the variables.  That no more than MaxConn * MaxMsg messages *)
(* are dispatched is a fact about all the places where a message can be.    *)

\* What a client has not sent or nobody has read, and all of that: its message k.
Waiting(c) == toSend[c] + (IF unread[c] > 0 THEN unread[c] ELSE 0)
Left == {m \in Conns \X (1..MaxMsg) : m[2] <= Waiting(m[1])}

\* The pollers that hold a message.
Holding == {q \in Pollers : poller[q] = "emit"}

\* No message is dispatched twice, or made up.
Conserved ==
  /\ \A c \in Conns : Waiting(c) <= MaxMsg
  /\ Cardinality(Left) + Cardinality(Holding) + emitCh + dispatched <= MaxConn * MaxMsg

\* The types of the variables that StopInv does not mention, and of some it does.
Typing ==
  /\ status \in {"stopped", "started", "stopping"}
  /\ holder \in Stoppers \cup {None}
  /\ acceptor \in {"idle", "listen", "wait", "accept", "addread", "add", "done"}
  /\ current \in Conns \cup {None}
  /\ eventfd \in {"clear", "set", "closed"}
  /\ unread \in [Conns -> -1..MaxMsg] /\ toSend \in [Conns -> 0..MaxMsg]
  /\ emitCh \in 0..EmitCap /\ dispatched \in Nat

\* Those that are true or false.
Flags ==
  /\ listening \in BOOLEAN /\ closed \in BOOLEAN /\ doMessage \in BOOLEAN
  /\ calm \in BOOLEAN /\ panicked \in BOOLEAN

\* What the proofs use of the assumption.
LEMMA Constants ==
  MaxConn \in Nat /\ MaxMsg \in Nat /\ NumPoller \in Nat \ {0} /\ EmitCap \in Nat \ {0}
  BY ServerStopAssumption DEF ServerStopAssumption

\* The sets that are counted are finite.
LEMMA Finite ==
  /\ Cardinality(Conns \X (1..MaxMsg)) = MaxConn * MaxMsg
  /\ \A S \in SUBSET (Conns \X (1..MaxMsg)) :
       IsFiniteSet(S) /\ Cardinality(S) \in Nat /\ Cardinality(S) <= MaxConn * MaxMsg
  /\ \A S \in SUBSET Pollers : IsFiniteSet(S) /\ Cardinality(S) \in Nat
<1>1. IsFiniteSet(Conns) /\ Cardinality(Conns) = MaxConn
  BY Constants, FS_Interval DEF Conns
<1>2. IsFiniteSet(1..MaxMsg) /\ Cardinality(1..MaxMsg) = MaxMsg BY Constants, FS_Interval
<1>3. IsFiniteSet(Conns \X (1..MaxMsg)) /\ Cardinality(Conns \X (1..MaxMsg)) = MaxConn * MaxMsg
  BY <1>1, <1>2, FS_Product
<1>4. IsFiniteSet(Pollers) BY Constants, FS_Interval DEF Pollers
<1>5. \A S \in SUBSET (Conns \X (1..MaxMsg)) :
        IsFiniteSet(S) /\ Cardinality(S) <= Cardinality(Conns \X (1..MaxMsg))
  BY <1>3, FS_Subset
<1>6. \A S \in SUBSET Pollers : IsFiniteSet(S) BY <1>4, FS_Subset
<1> QED BY <1>3, <1>5, <1>6, FS_CardinalityType

\* They are sets of this kind.
LEMMA Sets ==
  /\ IsFiniteSet(Left) /\ Cardinality(Left) \in Nat
  /\ IsFiniteSet(Holding) /\ Cardinality(Holding) \in Nat
<1>1. Left \in SUBSET (Conns \X (1..MaxMsg)) /\ Holding \in SUBSET Pollers BY DEF Left, Holding
<1> QED BY <1>1, Finite

\* Initially all messages are still to be sent.
LEMMA InitTyping == Init => Typing /\ Conserved
<1> SUFFICES ASSUME Init PROVE Typing /\ Conserved OBVIOUS
<1>1. Typing BY Constants DEF Init, Typing
<1>2. \A c \in Conns : Waiting(c) = MaxMsg BY Constants DEF Init, Waiting
<1>3. Holding = {} BY DEF Init, Holding
<1>4. Cardinality(Left) <= MaxConn * MaxMsg BY Finite DEF Left
<1>5. Cardinality(Holding) = 0 BY <1>3, FS_EmptySet
<1>6. emitCh = 0 /\ dispatched = 0 BY DEF Init
<1>7. MaxConn * MaxMsg \in Nat BY Constants
<1>8. Conserved BY <1>2, <1>4, <1>5, <1>6, <1>7, Sets, Constants DEF Conserved
<1> QED BY <1>1, <1>8

\* Steps that move no message.
LEMMA ConservedKept ==
  ASSUME Conserved, \A c \in Conns : Waiting(c)' = Waiting(c), Holding' = Holding,
         UNCHANGED <<emitCh, dispatched>>
  PROVE  Conserved'
<1>1. Left' = Left BY DEF Left
<1> QED BY <1>1 DEF Conserved

\* Clients: a message that is sent waits as before.
LEMMA ClientsType ==
  ASSUME StopInv, Typing, Conserved, NEW c \in Conns, Connect(c) \/ Speak(c) \/ Leave(c)
  PROVE  Typing' /\ Conserved'
<1> USE DEF accepting, managing, polling, channel
<1>1. CASE Connect(c)
  <2>1. Typing' BY <1>1 DEF Connect, Typing
  <2>2. Holding' = Holding /\ \A d \in Conns : Waiting(d)' = Waiting(d)
    BY <1>1 DEF Connect, Holding, Waiting
  <2>3. Conserved' BY <1>1, <2>2, ConservedKept DEF Connect
  <2> QED BY <2>1, <2>3
<1>2. CASE Speak(c)
  <2>1. /\ unread[c] >= 0 /\ toSend[c] > 0
        /\ unread' = [unread EXCEPT ![c] = @ + 1] /\ toSend' = [toSend EXCEPT ![c] = @ - 1]
        /\ UNCHANGED <<stop, client, accepting, managing, polling, channel, calm, panicked>>
    BY <1>2 DEF Speak
  <2>2. unread[c] \in -1..MaxMsg /\ toSend[c] \in 0..MaxMsg BY DEF Typing
  <2>3. Waiting(c) = toSend[c] + unread[c] /\ Waiting(c) <= MaxMsg
    BY <2>1, <2>2 DEF Waiting, Conserved
  <2>4. unread[c] + 1 \in -1..MaxMsg /\ toSend[c] - 1 \in 0..MaxMsg
    BY <2>1, <2>2, <2>3, Constants
  <2>5. unread' \in [Conns -> -1..MaxMsg] /\ toSend' \in [Conns -> 0..MaxMsg]
    BY <2>1, <2>4 DEF Typing
  <2>6. Typing' BY <2>1, <2>5 DEF Typing
  <2>7. \A d \in Conns : Waiting(d)' = Waiting(d)
    <3> SUFFICES ASSUME NEW d \in Conns PROVE Waiting(d)' = Waiting(d) OBVIOUS
    <3>1. CASE d = c
      <4>1. unread'[c] = unread[c] + 1 /\ toSend'[c] = toSend[c] - 1 BY <2>1 DEF Typing
      <4> QED BY <2>1, <2>2, <3>1, <4>1 DEF Waiting
    <3>2. CASE d # c BY <2>1, <3>2 DEF Waiting, Typing
    <3> QED BY <3>1, <3>2
  <2>8. Holding' = Holding BY <2>1 DEF Holding
  <2>9. Conserved' BY <2>1, <2>7, <2>8, ConservedKept
  <2> QED BY <2>6, <2>9
<1>3. CASE Leave(c)
  <2>1. /\ unread[c] = 0 /\ unread' = [unread EXCEPT ![c] = -1]
        /\ UNCHANGED <<stop, client, toSend, accepting, managing, polling, channel, calm, panicked>>
    BY <1>3 DEF Leave
  <2>2. unread' \in [Conns -> -1..MaxMsg] BY <2>1, Constants DEF Typing
  <2>3. Typing' BY <2>1, <2>2 DEF Typing
  <2>4. \A d \in Conns : Waiting(d)' = Waiting(d)
    <3> SUFFICES ASSUME NEW d \in Conns PROVE Waiting(d)' = Waiting(d) OBVIOUS
    <3>1. CASE d = c
      <4>1. unread'[c] = -1 BY <2>1 DEF Typing
      <4> QED BY <2>1, <3>1, <4>1 DEF Waiting
    <3>2. CASE d # c BY <2>1, <3>2 DEF Waiting, Typing
    <3> QED BY <3>1, <3>2
  <2>5. Holding' = Holding BY <2>1 DEF Holding
  <2>6. Conserved' BY <2>1, <2>4, <2>5, ConservedKept
  <2> QED BY <2>3, <2>6
<1> QED BY <1>1, <1>2, <1>3

\* The acceptor, Stop, and whoever closes a connection.
LEMMA ControlTypes ==
  ASSUME StopInv, StopInv', Typing, Conserved,
         \/ Start \/ Acceptor \/ CloseByOther
         \/ \E s \in Stoppers : Stop(s) \/ Stopping(s)
  PROVE  Typing' /\ Conserved'
<1> USE DEF clients, accepting, managing, polling, channel
<1>1. UNCHANGED <<unread, toSend, poller, emitCh, doMessage, dispatched>>
  BY DEF Start, Acceptor, Listen, Exited, Incoming, Accept, AddRead, Add, CloseByOther, Stop,
         Stopping, Lock, ClearStuck, ClearNone, CloseEpoll, CloseChannel, CloseListener, Exit
<1>2. Conserved'
  <2>1. Holding' = Holding /\ \A c \in Conns : Waiting(c)' = Waiting(c)
    BY <1>1 DEF Holding, Waiting
  <2> QED BY <1>1, <2>1, ConservedKept
<1>3. CASE Start BY <1>1, <1>2, <1>3 DEF Typing, Start
<1>4. CASE Acceptor
  <2>1. CASE Listen BY <1>1, <1>2, <2>1 DEF Typing, Listen
  <2>2. CASE Exited BY <1>1, <1>2, <2>2 DEF Typing, Exited
  <2>3. CASE Incoming BY <1>1, <1>2, <2>3 DEF Typing, Incoming
  <2>4. CASE Accept BY <1>1, <1>2, <2>4 DEF Typing, Accept, Backlog
  <2>5. CASE AddRead BY <1>1, <1>2, <2>5 DEF Typing, AddRead
  <2>6. CASE Add BY <1>1, <1>2, <2>6 DEF Typing, Add
  <2> QED BY <1>2, <1>4, <2>1, <2>2, <2>3, <2>4, <2>5, <2>6 DEF Acceptor
<1>5. CASE CloseByOther BY <1>1, <1>2, <1>5 DEF Typing, CloseByOther
<1>6. ASSUME NEW s \in Stoppers, Stop(s) \/ Stopping(s) PROVE Typing'
  <2> USE DEF Step
  <2>1. CASE Stop(s) BY <1>1, <2>1 DEF Typing, Stop
  <2>2. CASE Lock(s) BY <1>1, <2>2 DEF Typing, Lock
  <2>3. CASE ClearStuck(s) BY <1>1, <2>3 DEF Typing, ClearStuck
  <2>4. CASE ClearNone(s) BY <1>1, <2>4 DEF Typing, ClearNone
  <2>5. CASE CloseEpoll(s) BY <1>1, <2>5 DEF Typing, CloseEpoll
  <2>6. CASE CloseChannel(s) BY <1>1, <2>6 DEF Typing, CloseChannel
  <2>7. CASE CloseListener(s) BY <1>1, <2>7 DEF Typing, CloseListener
  <2>8. CASE Exit(s) BY <1>1, <2>8 DEF Typing, Exit
  <2> QED BY <1>6, <2>1, <2>2, <2>3, <2>4, <2>5, <2>6, <2>7, <2>8 DEF Stopping
<1> QED BY <1>2, <1>3, <1>4, <1>5, <1>6

\* A poller's steps that leave the messages alone.
LEMMA PollerTypes ==
  ASSUME StopInv, Typing, Conserved, NEW q \in Pollers,
         EpollWait(q) \/ Clear(q) \/ Events(q) \/ NextBatch(q)
  PROVE  Typing' /\ Conserved'
<1> USE DEF clients, accepting, managing, polling, channel
<1>1. /\ UNCHANGED <<unread, toSend, accepting, holder, channel, calm, panicked>>
      /\ poller[q] # "emit"
  BY DEF EpollWait, Clear, Events, NextBatch
<1>2. PICK w \in {"loop", "wait", "events", "done"} : poller' = [poller EXCEPT ![q] = w]
  BY DEF EpollWait, Clear, Events, NextBatch
<1>3. Typing' BY <1>1 DEF Typing
<1>4. Holding' = Holding BY <1>1, <1>2 DEF Holding, StopInv, Shape
<1>5. \A c \in Conns : Waiting(c)' = Waiting(c) BY <1>1 DEF Waiting
<1>6. Conserved' BY <1>1, <1>4, <1>5, ConservedKept
<1> QED BY <1>3, <1>6

\* A message goes from a client to a poller, from there to the channel, and to a
\* handler.
LEMMA HandleTypes ==
  ASSUME StopInv, Typing, Conserved, NEW q \in Pollers, Handle(q)
  PROVE  Typing' /\ Conserved'
<1> USE DEF accepting, channel
<1>1. PICK c \in batch[q] :
        IF c \in connects /\ unread[c] > 0
        THEN /\ unread' = [unread EXCEPT ![c] = @ - 1]
             /\ poller' = [poller EXCEPT ![q] = "emit"]
        ELSE UNCHANGED <<unread, poller>>
  BY DEF Handle
<1>2. UNCHANGED <<toSend, accepting, holder, channel, calm, panicked>> /\ poller[q] = "events"
  BY DEF Handle
<1>3. c \in Conns BY DEF StopInv, Shape
<1>4. CASE ~(c \in connects /\ unread[c] > 0)
  <2>1. UNCHANGED <<unread, poller>> BY <1>1, <1>4
  <2>2. Typing' BY <1>2, <2>1 DEF Typing
  <2>3. Holding' = Holding /\ \A d \in Conns : Waiting(d)' = Waiting(d)
    BY <1>2, <2>1 DEF Holding, Waiting
  <2> QED BY <1>2, <2>2, <2>3, ConservedKept
<1>5. CASE c \in connects /\ unread[c] > 0
  <2>1. unread' = [unread EXCEPT ![c] = @ - 1] /\ poller' = [poller EXCEPT ![q] = "emit"]
    BY <1>1, <1>5
  <2>2. unread[c] \in 1..MaxMsg /\ toSend[c] \in 0..MaxMsg /\ unread'[c] = unread[c] - 1
    BY <1>3, <1>5, <2>1, Constants DEF Typing
  <2>3. unread' \in [Conns -> -1..MaxMsg]
    <3>1. unread[c] - 1 \in -1..MaxMsg BY <2>2, Constants
    <3> QED BY <2>1, <3>1 DEF Typing
  <2>4. Typing' BY <1>2, <2>3 DEF Typing
  <2> DEFINE last == <<c, Waiting(c)>>
  <2>5. /\ Waiting(c) \in 1..MaxMsg /\ Waiting(c)' = Waiting(c) - 1
        /\ \A d \in Conns : d # c => Waiting(d)' = Waiting(d)
    <3>1. Waiting(c) = toSend[c] + unread[c] BY <2>2 DEF Waiting
    <3>2. Waiting(c)' = toSend[c] + (unread[c] - 1) BY <1>2, <2>2 DEF Waiting
    <3>3. Waiting(c) <= MaxMsg BY <1>3 DEF Conserved
    <3>4. \A d \in Conns : d # c => Waiting(d)' = Waiting(d)
      BY <1>2, <2>1 DEF Waiting, Typing
    <3> QED BY <2>2, <3>1, <3>2, <3>3, <3>4, Constants
  <2>6. \A d \in Conns : Waiting(d) \in Int
    BY Constants DEF Waiting, Typing
  <2>7. Left' = Left \ {last} /\ last \in Left
    <3>1. last \in Left BY <1>3, <2>5 DEF Left
    <3>2. ASSUME NEW m \in Conns \X (1..MaxMsg) PROVE m \in Left' <=> m \in Left \ {last}
      <4>1. m = <<m[1], m[2]>> /\ m[1] \in Conns /\ m[2] \in 1..MaxMsg OBVIOUS
      <4>2. CASE m[1] # c BY <2>5, <4>1, <4>2 DEF Left
      <4>3. CASE m[1] = c
        <5>1. m[2] <= Waiting(c) - 1 <=> m[2] <= Waiting(c) /\ m[2] # Waiting(c)
          BY <2>5, <4>1
        <5> QED BY <2>5, <4>1, <4>3, <5>1 DEF Left
      <4> QED BY <4>2, <4>3
    <3> QED BY <3>1, <3>2 DEF Left
  <2>8. Holding' = Holding \cup {q} /\ q \notin Holding
    BY <1>2, <2>1 DEF Holding, StopInv, Shape
  <2>9. Cardinality(Left') = Cardinality(Left) - 1 BY <2>7, Sets, FS_RemoveElement
  <2>10. Cardinality(Holding') = Cardinality(Holding) + 1 BY <2>8, Sets, FS_AddElement
  <2>11. Conserved'
    <3>1. emitCh \in Nat /\ dispatched \in Nat BY Constants DEF Typing
    <3>2. MaxConn * MaxMsg \in Nat BY Constants
    <3>3. Cardinality(Left) + Cardinality(Holding) + emitCh + dispatched <= MaxConn * MaxMsg
      BY DEF Conserved
    <3>4. Cardinality(Left') + Cardinality(Holding') + emitCh + dispatched <= MaxConn * MaxMsg
      BY <2>9, <2>10, <3>1, <3>2, <3>3, Sets
    <3>5. \A d \in Conns : Waiting(d)' <= MaxMsg BY <2>5, <2>6, Constants DEF Conserved
    <3> QED BY <1>2, <3>4, <3>5 DEF Conserved
  <2> QED BY <2>4, <2>11
<1> QED BY <1>4, <1>5

\* The channel takes a message only below its capacity.
LEMMA EmitTypes ==
  ASSUME StopInv, Typing, Conserved, NEW q \in Pollers, Emit(q)
  PROVE  Typing' /\ Conserved'
<1> USE DEF clients, accepting, managing
<1>1. /\ poller[q] = "emit"
      /\ UNCHANGED <<unread, toSend, accepting, holder, closed, doMessage, dispatched, calm>>
  BY DEF Emit
<1>2. emitCh \in 0..EmitCap /\ dispatched \in Nat BY DEF Typing
<1>3. \A c \in Conns : Waiting(c)' = Waiting(c) BY <1>1 DEF Waiting
<1>4. CASE closed
  <2>1. panicked' = TRUE /\ UNCHANGED <<poller, emitCh>> BY <1>4 DEF Emit
  <2>2. Typing' BY <1>1, <2>1 DEF Typing
  <2>3. Holding' = Holding BY <2>1 DEF Holding
  <2> QED BY <1>1, <1>3, <2>1, <2>2, <2>3, ConservedKept
<1>5. CASE ~closed
  <2>1. /\ emitCh < EmitCap /\ emitCh' = emitCh + 1 /\ UNCHANGED panicked
        /\ poller' = [poller EXCEPT ![q] = "events"]
    BY <1>5 DEF Emit
  <2>2. emitCh' \in 0..EmitCap BY <1>2, <2>1, Constants
  <2>3. Typing' BY <1>1, <2>1, <2>2 DEF Typing
  <2>4. Holding' = Holding \ {q} /\ q \in Holding
    BY <1>1, <2>1 DEF Holding, StopInv, Shape
  <2>5. Cardinality(Holding') = Cardinality(Holding) - 1 BY <2>4, Sets, FS_RemoveElement
  <2>6. Left' = Left BY <1>3 DEF Left
  <2>7. MaxConn * MaxMsg \in Nat BY Constants
  <2>8. Cardinality(Left) + Cardinality(Holding) + emitCh + dispatched <= MaxConn * MaxMsg
    BY DEF Conserved
  <2>9. Cardinality(Left) + Cardinality(Holding') + emitCh' + dispatched <= MaxConn * MaxMsg
    BY <1>2, <2>1, <2>5, <2>7, <2>8, Sets
  <2>10. Conserved' BY <1>1, <1>3, <2>6, <2>9 DEF Conserved
  <2> QED BY <2>3, <2>10
<1> QED BY <1>4, <1>5

\* The dispatch loop.
LEMMA DispatchTypes ==
  ASSUME Typing, Conserved, Dispatch \/ DispatchEnds
  PROVE  Typing' /\ Conserved'
<1> USE DEF clients, accepting, managing, polling
<1>1. UNCHANGED <<unread, toSend, poller, accepting, holder, closed, calm, panicked>>
  BY DEF Dispatch, DispatchEnds
<1>2. emitCh \in 0..EmitCap /\ dispatched \in Nat BY DEF Typing
<1>3. \/ emitCh > 0 /\ emitCh' = emitCh - 1 /\ dispatched' = dispatched + 1
      \/ UNCHANGED <<emitCh, dispatched>>
  BY DEF Dispatch, DispatchEnds
<1>4. emitCh' \in 0..EmitCap /\ dispatched' \in Nat
  BY <1>2, <1>3, Constants
<1>5. Typing' BY <1>1, <1>4 DEF Typing
<1>6. \A c \in Conns : Waiting(c)' = Waiting(c) BY <1>1 DEF Waiting
<1>7. Holding' = Holding /\ Left' = Left BY <1>1, <1>6 DEF Holding, Left
<1>8. Cardinality(Left) + Cardinality(Holding) + emitCh + dispatched <= MaxConn * MaxMsg
  BY DEF Conserved
<1>9. Cardinality(Left) + Cardinality(Holding) + emitCh' + dispatched' <= MaxConn * MaxMsg
  <2>1. PICK left, held \in Nat : left = Cardinality(Left) /\ held = Cardinality(Holding) BY Sets
  <2>2. PICK queued, out, waiting, done \in Nat :
          queued = emitCh' /\ out = dispatched' /\ waiting = emitCh /\ done = dispatched
    BY <1>2, <1>4, Constants
  <2>3. \/ queued = waiting - 1 /\ out = done + 1
        \/ queued = waiting /\ out = done
    BY <1>3, <2>2
  <2>4. left + held + queued + out = left + held + waiting + done BY <2>3
  <2> QED BY <1>8, <2>1, <2>2, <2>4
<1>10. Conserved' BY <1>6, <1>7, <1>9 DEF Conserved
<1> QED BY <1>5, <1>10

\* No step makes anything else of a flag.
LEMMA NextFlags == Flags /\ [Next]_vars => Flags'
<1> SUFFICES ASSUME Flags, [Next]_vars PROVE Flags' OBVIOUS
<1> USE DEF Flags, clients, accepting, managing, polling, channel
<1>1. CASE UNCHANGED vars BY <1>1 DEF vars
<1>2. ASSUME NEW c \in Conns, Connect(c) \/ Speak(c) \/ Leave(c) PROVE Flags'
  BY <1>2, Zenon DEF Connect, Speak, Leave
<1>3. CASE Start BY <1>3 DEF Start
<1>4. CASE Acceptor
  <2>1. CASE Listen BY <2>1 DEF Listen
  <2>2. CASE Exited BY <2>2 DEF Exited
  <2>3. CASE Incoming BY <2>3 DEF Incoming
  <2>4. CASE Accept BY <2>4 DEF Accept
  <2>5. CASE AddRead BY <2>5 DEF AddRead
  <2>6. CASE Add BY <2>6 DEF Add
  <2> QED BY <1>4, <2>1, <2>2, <2>3, <2>4, <2>5, <2>6 DEF Acceptor
<1>5. ASSUME NEW q \in Pollers, Poller(q) PROVE Flags'
  <2>1. CASE EpollWait(q) \/ Clear(q) \/ Events(q) BY <2>1 DEF EpollWait, Clear, Events
  <2>2. CASE Handle(q) \/ NextBatch(q) BY <2>2 DEF Handle, NextBatch
  <2>3. CASE Emit(q) BY <2>3 DEF Emit
  <2> QED BY <1>5, <2>1, <2>2, <2>3 DEF Poller
<1>6. CASE Dispatch \/ DispatchEnds BY <1>6 DEF Dispatch, DispatchEnds
<1>7. CASE CloseByOther BY <1>7 DEF CloseByOther
<1>8. ASSUME NEW s \in Stoppers, Stop(s) \/ Stopping(s) PROVE Flags'
  <2>1. CASE Stop(s) BY <2>1 DEF Stop
  <2>2. CASE Lock(s) BY <2>2 DEF Lock
  <2>3. CASE ClearStuck(s) \/ ClearNone(s) \/ CloseEpoll(s) BY <2>3 DEF ClearStuck, ClearNone, CloseEpoll
  <2>4. CASE CloseChannel(s) BY <2>4 DEF CloseChannel
  <2>5. CASE CloseListener(s) \/ Exit(s) BY <2>5 DEF CloseListener, Exit
  <2> QED BY <1>8, <2>1, <2>2, <2>3, <2>4, <2>5 DEF Stopping
<1> QED BY <1>1, <1>2, <1>3, <1>4, <1>5, <1>6, <1>7, <1>8 DEF Next

\* Every step keeps the types.
LEMMA NextTyping ==
  StopInv /\ StopInv' /\ Typing /\ Conserved /\ [Next]_vars => Typing' /\ Conserved'
<1> SUFFICES ASSUME StopInv, StopInv', Typing, Conserved, [Next]_vars
             PROVE  Typing' /\ Conserved'
  OBVIOUS
<1>1. CASE UNCHANGED vars
  <2> USE <1>1 DEF vars, clients, accepting, managing, polling, channel
  <2>1. Typing' BY DEF Typing
  <2>2. Holding' = Holding /\ \A c \in Conns : Waiting(c)' = Waiting(c) BY DEF Holding, Waiting
  <2> QED BY <2>1, <2>2, ConservedKept
<1>2. ASSUME NEW c \in Conns, Connect(c) \/ Speak(c) \/ Leave(c) PROVE Typing' /\ Conserved'
  BY <1>2, ClientsType
<1>3. CASE \/ Start \/ Acceptor \/ CloseByOther
           \/ \E s \in Stoppers : Stop(s) \/ Stopping(s)
  BY <1>3, ControlTypes
<1>4. ASSUME NEW q \in Pollers, Poller(q) PROVE Typing' /\ Conserved'
  BY <1>4, PollerTypes, HandleTypes, EmitTypes DEF Poller
<1>5. CASE Dispatch \/ DispatchEnds BY <1>5, DispatchTypes
<1> QED BY <1>1, <1>2, <1>3, <1>4, <1>5 DEF Next

\* Every variable keeps its type: the channel never has more messages than its
\* capacity, and no more are dispatched than the clients have to send, whoever
\* stops the server in between.
THEOREM StopTypeCorrect == Spec => []TypeOK
<1>1. Init => Typing /\ Conserved /\ Flags BY InitTyping DEF Init, Flags
<1>2. Flags /\ [Next]_vars => Flags' BY NextFlags
<1>3. StopInv /\ StopInv' /\ Typing /\ Conserved /\ [Next]_vars => (Typing /\ Conserved)'
  BY NextTyping
<1>4. StopInv /\ Typing /\ Conserved /\ Flags => TypeOK
  <2> SUFFICES ASSUME StopInv, Typing, Conserved, Flags PROVE TypeOK OBVIOUS
  <2>1. dispatched \in 0..MaxConn * MaxMsg
    <3>1. MaxConn * MaxMsg \in Nat /\ emitCh \in Nat /\ dispatched \in Nat
      BY Constants DEF Typing
    <3>2. Cardinality(Left) + Cardinality(Holding) + emitCh + dispatched <= MaxConn * MaxMsg
      BY DEF Conserved
    <3> QED BY <3>1, <3>2, Sets
  <2>2. connects \subseteq Conns BY DEF StopInv, Made
  <2> QED BY <2>1, <2>2 DEF StopInv, Shape, Typing, Flags, TypeOK
<1> QED BY <1>1, <1>2, <1>3, <1>4, AlwaysStopInv, PTL DEF Spec
=============================================================================
