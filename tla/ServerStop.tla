----------------------------- MODULE ServerStop -----------------------------
(***************************************************************************)
(* Start and Stop of a TCP server (server/server.go): what Stop does to    *)
(* the acceptor, the pollers and the dispatch loop while they run.  The    *)
(* connection manager's lock, the epoll descriptors, the channel of        *)
(* messages, the listening socket and the eventfd are shared.              *)
(*                                                                         *)
(* Close of a connection is one step, which waits for the lock, and a peer *)
(* speaks once its connection is registered: module ConnLifecycle is about *)
(* the races of Close and about events that come too early.  Descriptors   *)
(* are not reused.                                                         *)
(***************************************************************************)
EXTENDS Integers, FiniteSetsExt

CONSTANTS
  Stoppers,   \* goroutines that call Stop
  MaxConn,    \* bound: clients that connect
  MaxMsg,     \* bound: messages of each client
  NumPoller,  \* event loops
  EmitCap,    \* capacity of emitCh
  None

Conns == 0..MaxConn - 1     \* a connection, its client and its ID
Pollers == 0..NumPoller - 1

ASSUME ServerStopAssumption ==
  /\ {MaxConn, MaxMsg} \subseteq Nat
  /\ {NumPoller, EmitCap} \subseteq Nat \ {0}
  /\ None \notin Conns \cup Stoppers

VARIABLES
  status,      \* Server.status
  stop,        \* where each call of Stop is
  holder,      \* whose ClearAll holds the connection manager's lock
  acceptor,    \* where Start and Acceptor.Run are
  current,     \* the connection the acceptor makes
  listening,   \* kernel: the listening socket is open
  eventfd,     \* kernel: "clear", "set" or "closed"
  client,      \* "away", "backlog", "open" or "closed"
  unread,      \* kernel: messages of a client nobody has read, -1: it has left
  toSend,      \* messages a client has still to send
  connects,    \* ConnectManager.connects
  watched,     \* kernel: connections the epoll of their poller watches
  epolls,      \* kernel: pollers whose epoll descriptor is open
  poller,      \* where each poller is
  batch,       \* events of its last epoll_wait it has not handled
  emitCh,      \* number of messages in the channel
  closed,      \* emitCh is closed
  doMessage,   \* the dispatch loop runs
  dispatched,  \* history: number of messages taken from emitCh
  calm,        \* history: Stop has met a server at rest, and nobody has come since
  panicked

clients == <<client, unread, toSend>>
accepting == <<status, acceptor, current, listening, eventfd>>
managing == <<holder, connects>>
polling == <<watched, epolls, poller, batch>>
channel == <<emitCh, closed, doMessage, dispatched>>
vars == <<stop, clients, accepting, managing, polling, channel, calm, panicked>>

Init ==
  /\ status = "stopped"
  /\ stop = [s \in Stoppers |-> "idle"]
  /\ holder = None
  /\ acceptor = "idle" /\ current = None
  /\ listening = TRUE /\ eventfd = "clear"
  /\ client = [c \in Conns |-> "away"]
  /\ unread = [c \in Conns |-> 0]
  /\ toSend = [c \in Conns |-> MaxMsg]
  /\ connects = {} /\ watched = {} /\ epolls = Pollers
  /\ poller = [q \in Pollers |-> "loop"]
  /\ batch = [q \in Pollers |-> {}]
  /\ emitCh = 0 /\ closed = FALSE /\ doMessage = TRUE /\ dispatched = 0
  /\ calm = TRUE
  /\ panicked = FALSE

Called == \E s \in Stoppers : stop[s] # "idle"

-----------------------------------------------------------------------------
(* The clients.                                                            *)

Connect(c) ==
  /\ client[c] = "away" /\ listening
  /\ client' = [client EXCEPT ![c] = "backlog"]
  /\ calm' = (calm /\ ~Called)
  /\ UNCHANGED <<stop, unread, toSend, accepting, managing, polling, channel, panicked>>

Speak(c) ==
  /\ client[c] = "open" /\ c \in connects
  /\ unread[c] >= 0 /\ toSend[c] > 0
  /\ unread' = [unread EXCEPT ![c] = @ + 1]
  /\ toSend' = [toSend EXCEPT ![c] = @ - 1]
  /\ UNCHANGED <<stop, client, accepting, managing, polling, channel, calm, panicked>>

Leave(c) ==
  /\ client[c] = "open" /\ c \in connects /\ unread[c] = 0
  /\ unread' = [unread EXCEPT ![c] = -1]
  /\ UNCHANGED <<stop, client, toSend, accepting, managing, polling, channel, calm, panicked>>

-----------------------------------------------------------------------------
(* The acceptor: Server.Start and Acceptor.Run, on the main goroutine.     *)

Start ==
  /\ acceptor = "idle" /\ status = "stopped"
  /\ status' = "started"
  /\ acceptor' = "listen"
  /\ UNCHANGED <<stop, clients, current, listening, eventfd, managing, polling, channel,
                 calm, panicked>>

\* Adds the eventfd and the listening socket to its epoll.
Listen ==
  /\ acceptor = "listen"
  /\ acceptor' = IF listening THEN "wait" ELSE "done"
  /\ UNCHANGED <<stop, clients, status, current, listening, eventfd, managing, polling,
                 channel, calm, panicked>>

\* An event of the eventfd, which Exit has written to.
Exited ==
  /\ acceptor = "wait" /\ eventfd = "set"
  /\ acceptor' = "done" /\ eventfd' = "closed"
  /\ UNCHANGED <<stop, clients, status, current, listening, managing, polling, channel,
                 calm, panicked>>

Backlog == {c \in Conns : client[c] = "backlog"}

\* An event of the listening socket, which may be closed before accept(2).
Incoming ==
  /\ acceptor = "wait" /\ listening /\ Backlog # {}
  /\ acceptor' = "accept"
  /\ UNCHANGED <<stop, clients, status, current, listening, eventfd, managing, polling,
                 channel, calm, panicked>>

Accept ==
  /\ acceptor = "accept"
  /\ IF listening
     THEN \E c \in Backlog :
            /\ client' = [client EXCEPT ![c] = "open"]
            /\ current' = c /\ acceptor' = "addread"
            /\ UNCHANGED eventfd
     ELSE /\ acceptor' = "done" /\ eventfd' = "closed"
          /\ UNCHANGED <<client, current>>
  /\ UNCHANGED <<stop, unread, toSend, status, listening, managing, polling, channel,
                 calm, panicked>>

PollerOf(c) == c % NumPoller

\* Fails when Stop has closed the epoll; Close then uses the poller that was not set.
AddRead ==
  /\ acceptor = "addread"
  /\ IF PollerOf(current) \in epolls
     THEN acceptor' = "add" /\ watched' = watched \cup {current} /\ UNCHANGED panicked
     ELSE panicked' = TRUE /\ UNCHANGED <<acceptor, watched>>
  /\ UNCHANGED <<stop, clients, status, current, listening, eventfd, managing, epolls,
                 poller, batch, channel, calm>>

Unlocked == holder = None

Add ==
  /\ acceptor = "add" /\ Unlocked
  /\ connects' = connects \cup {current}
  /\ acceptor' = "wait" /\ current' = None
  /\ UNCHANGED <<stop, clients, status, listening, eventfd, holder, polling, channel,
                 calm, panicked>>

Acceptor == Listen \/ Exited \/ Incoming \/ Accept \/ AddRead \/ Add

-----------------------------------------------------------------------------
(* The pollers: Poller.Wait.                                               *)

\* Mutant: Close does not remove the connection from the manager.
ClosingKeeps(c) ==
  /\ client' = [client EXCEPT ![c] = "closed"]
  /\ watched' = watched \ {c}
  /\ UNCHANGED connects

Closing(c) ==
  /\ client' = [client EXCEPT ![c] = "closed"]
  /\ connects' = connects \ {c}
  /\ watched' = watched \ {c}

EpollWait(q) ==
  /\ poller[q] = "loop" /\ q \in epolls
  /\ poller' = [poller EXCEPT ![q] = "wait"]
  /\ UNCHANGED <<stop, clients, accepting, managing, watched, epolls, batch, channel,
                 calm, panicked>>

\* ClearByEpFd, after the error of epoll_wait(2) on a closed descriptor.
Clear(q) ==
  /\ poller[q] = "loop" /\ q \notin epolls
  /\ Unlocked
  /\ LET mine == {c \in connects : PollerOf(c) = q} IN
     /\ client' = [c \in Conns |-> IF c \in mine THEN "closed" ELSE client[c]]
     /\ connects' = connects \ mine
     /\ watched' = watched \ mine
  /\ poller' = [poller EXCEPT ![q] = "done"]
  /\ UNCHANGED <<stop, unread, toSend, accepting, holder, epolls, batch, channel, calm,
                 panicked>>

Ready(q) == {c \in watched : PollerOf(c) = q /\ unread[c] # 0}

\* A poller inside epoll_wait(2) gets events also when the descriptor is closed.
Events(q) ==
  /\ poller[q] = "wait" /\ Ready(q) # {}
  /\ batch' = [batch EXCEPT ![q] = Ready(q)]
  /\ poller' = [poller EXCEPT ![q] = "events"]
  /\ UNCHANGED <<stop, clients, accepting, managing, watched, epolls, channel, calm,
                 panicked>>

\* Mutant: a message that is passed on is decoded again at the next event.
HandleAgain(q) ==
  /\ poller[q] = "events" /\ Unlocked
  /\ \E c \in batch[q] :
       /\ batch' = [batch EXCEPT ![q] = @ \ {c}]
       /\ IF c \in connects /\ unread[c] > 0
          THEN /\ poller' = [poller EXCEPT ![q] = "emit"]
               /\ UNCHANGED <<unread, client, connects, watched>>
          ELSE Closing(c) /\ UNCHANGED <<unread, poller>>
  /\ UNCHANGED <<stop, toSend, accepting, holder, epolls, channel, calm, panicked>>

\* Look-up and DecodePacket.  Connections that are unknown or at their end are closed.
Handle(q) ==
  /\ poller[q] = "events" /\ Unlocked
  /\ \E c \in batch[q] :
       /\ batch' = [batch EXCEPT ![q] = @ \ {c}]
       /\ IF c \in connects /\ unread[c] > 0
          THEN /\ unread' = [unread EXCEPT ![c] = @ - 1]
               /\ poller' = [poller EXCEPT ![q] = "emit"]
               /\ UNCHANGED <<client, connects, watched>>
          ELSE Closing(c) /\ UNCHANGED <<unread, poller>>
  /\ UNCHANGED <<stop, toSend, accepting, holder, epolls, channel, calm, panicked>>

NextBatch(q) ==
  /\ poller[q] = "events" /\ batch[q] = {}
  /\ poller' = [poller EXCEPT ![q] = "loop"]
  /\ UNCHANGED <<stop, clients, accepting, managing, watched, epolls, batch, channel,
                 calm, panicked>>

\* A send on a closed channel panics, also one that has been waiting.
Emit(q) ==
  /\ poller[q] = "emit"
  /\ IF closed
     THEN panicked' = TRUE /\ UNCHANGED <<poller, emitCh>>
     ELSE /\ emitCh < EmitCap /\ emitCh' = emitCh + 1
          /\ poller' = [poller EXCEPT ![q] = "events"]
          /\ UNCHANGED panicked
  /\ UNCHANGED <<stop, clients, accepting, managing, watched, epolls, batch, closed,
                 doMessage, dispatched, calm>>

Poller(q) == EpollWait(q) \/ Clear(q) \/ Events(q) \/ Handle(q) \/ NextBatch(q) \/ Emit(q)

-----------------------------------------------------------------------------
(* The dispatch loop, and a handler or the heartbeat that closes.          *)

Dispatch ==
  /\ doMessage /\ emitCh > 0
  /\ emitCh' = emitCh - 1
  /\ dispatched' = dispatched + 1
  /\ UNCHANGED <<stop, clients, accepting, managing, polling, closed, doMessage, calm,
                 panicked>>

\* Mutant: the loop ends when the channel is closed.
DispatchEndsEarly ==
  /\ doMessage /\ closed
  /\ doMessage' = FALSE
  /\ UNCHANGED <<stop, clients, accepting, managing, polling, emitCh, closed, dispatched,
                 calm, panicked>>

\* A closed channel still delivers what is in it.
DispatchEnds ==
  /\ doMessage /\ closed /\ emitCh = 0
  /\ doMessage' = FALSE
  /\ UNCHANGED <<stop, clients, accepting, managing, polling, emitCh, closed, dispatched,
                 calm, panicked>>

CloseByOther ==
  /\ Unlocked
  /\ \E c \in connects : Closing(c)
  /\ UNCHANGED <<stop, unread, toSend, accepting, holder, epolls, poller, batch, channel,
                 calm, panicked>>

-----------------------------------------------------------------------------
(* Server.Stop.                                                            *)

Step(s, from, to) == stop[s] = from /\ stop' = [stop EXCEPT ![s] = to]

Stop(s) ==
  /\ Step(s, "idle", "lock")
  /\ status' = "stopping"
  /\ calm' = (calm /\ ~Called)
  /\ UNCHANGED <<clients, acceptor, current, listening, eventfd, managing, polling, channel,
                 panicked>>

\* No client is connected and no poller has a message in its hands.
AtRest ==
  /\ \A c \in Conns : client[c] \in {"away", "closed"}
  /\ \A q \in Pollers : poller[q] # "emit"

\* ClearAll takes the lock of the connection manager.
Lock(s) ==
  /\ Step(s, "lock", "clear") /\ Unlocked
  /\ holder' = s
  /\ calm' = (calm /\ AtRest)
  /\ UNCHANGED <<clients, accepting, connects, polling, channel, panicked>>

\* It closes every connection; Remove, called by Close, waits for that same lock.
ClearStuck(s) ==
  /\ Step(s, "clear", "stuck")
  /\ \E c \in connects : watched' = watched \ {c}
  /\ UNCHANGED <<clients, accepting, managing, epolls, poller, batch, channel, calm,
                 panicked>>

ClearNone(s) ==
  /\ Step(s, "clear", "epolls") /\ connects = {}
  /\ holder' = None
  /\ UNCHANGED <<clients, accepting, connects, polling, channel, calm, panicked>>

\* EventLoop.Stop
CloseEpoll(s) ==
  /\ stop[s] = "epolls" /\ epolls # {}
  /\ epolls' = epolls \ {Min(epolls)}
  /\ UNCHANGED <<stop, clients, accepting, managing, watched, poller, batch, channel, calm,
                 panicked>>

\* Mutant: the channel stays open.
CloseChannelMissing(s) ==
  /\ epolls = {}
  /\ Step(s, "epolls", "listener")
  /\ UNCHANGED <<clients, accepting, managing, polling, channel, calm, panicked>>

\* close(emitCh), which panics the second time.
CloseChannel(s) ==
  /\ epolls = {}
  /\ Step(s, "epolls", "listener")
  /\ closed' = TRUE
  /\ panicked' = closed
  /\ UNCHANGED <<clients, accepting, managing, polling, emitCh, doMessage, dispatched, calm>>

CloseListener(s) ==
  /\ Step(s, "listener", "exit")
  /\ listening' = FALSE
  /\ client' = [c \in Conns |-> IF client[c] = "backlog" THEN "closed" ELSE client[c]]
  /\ UNCHANGED <<unread, toSend, status, acceptor, current, eventfd, managing, polling,
                 channel, calm, panicked>>

\* Mutant: the acceptor is not told.
ExitMissing(s) ==
  /\ Step(s, "exit", "done")
  /\ UNCHANGED <<clients, accepting, managing, polling, channel, calm, panicked>>

\* The acceptor may have closed the eventfd already.
Exit(s) ==
  /\ Step(s, "exit", "done")
  /\ eventfd' = IF eventfd = "closed" THEN "closed" ELSE "set"
  /\ UNCHANGED <<clients, status, acceptor, current, listening, managing, polling, channel,
                 calm, panicked>>

Stopping(s) ==
  \/ Lock(s) \/ ClearStuck(s) \/ ClearNone(s) \/ CloseEpoll(s) \/ CloseChannel(s)
  \/ CloseListener(s) \/ Exit(s)

-----------------------------------------------------------------------------

Next ==
  /\ ~panicked
  /\ \/ \E c \in Conns : Connect(c) \/ Speak(c) \/ Leave(c)
     \/ Start \/ Acceptor
     \/ \E q \in Pollers : Poller(q)
     \/ Dispatch \/ DispatchEnds
     \/ CloseByOther
     \/ \E s \in Stoppers : Stop(s) \/ Stopping(s)

Spec == Init /\ [][Next]_vars

\* Goroutines that can run do run.  Clients, Start, Stop and other closes may not come.
Fairness ==
  /\ WF_vars(~panicked /\ Acceptor)
  /\ \A q \in Pollers : WF_vars(~panicked /\ Poller(q))
  /\ WF_vars(~panicked /\ (Dispatch \/ DispatchEnds))
  /\ \A s \in Stoppers : WF_vars(~panicked /\ Stopping(s))

FairSpec == Spec /\ Fairness

-----------------------------------------------------------------------------

\* Every variable has its type.
TypeOK ==
  /\ status \in {"stopped", "started", "stopping"}
  /\ stop \in [Stoppers -> {"idle", "lock", "clear", "stuck", "epolls", "listener", "exit",
                            "done"}]
  /\ holder \in Stoppers \cup {None}
  /\ acceptor \in {"idle", "listen", "wait", "accept", "addread", "add", "done"}
  /\ current \in Conns \cup {None}
  /\ listening \in BOOLEAN
  /\ eventfd \in {"clear", "set", "closed"}
  /\ client \in [Conns -> {"away", "backlog", "open", "closed"}]
  /\ unread \in [Conns -> -1..MaxMsg] /\ toSend \in [Conns -> 0..MaxMsg]
  /\ connects \subseteq Conns /\ watched \subseteq Conns
  /\ epolls \subseteq Pollers
  /\ poller \in [Pollers -> {"loop", "wait", "events", "emit", "done"}]
  /\ batch \in [Pollers -> SUBSET Conns]
  /\ emitCh \in 0..EmitCap /\ closed \in BOOLEAN
  /\ doMessage \in BOOLEAN /\ dispatched \in 0..MaxConn * MaxMsg
  /\ calm \in BOOLEAN /\ panicked \in BOOLEAN

\* A Stop that finds no client connected and no message on its way, and that no
\* client and no second Stop follows, neither panics nor waits for its own lock,
\* also not by what the pollers and the dispatch loop do after it has returned.
CalmStop == calm => ~panicked /\ \A s \in Stoppers : stop[s] # "stuck"

\* Such a Stop returns, and the dispatch loop ends.
CalmStopReturns ==
  \A s \in Stoppers :
    stop[s] # "idle" /\ calm ~> ~calm \/ (stop[s] = "done" /\ ~doMessage)

\* When Stop has returned, Start returns too, though the listening socket may be
\* closed before Run watches it or between its event and accept(2), and the
\* eventfd may be closed before Exit writes to it.  If a connection is being
\* made meanwhile the process may panic instead, and a second Stop that hangs
\* keeps the lock that the acceptor waits for.
StartReturns ==
  \A s \in Stoppers :
    stop[s] = "done" ~> \/ acceptor \in {"idle", "done"}
                       \/ panicked
                       \/ \E t \in Stoppers : stop[t] = "stuck"

\* Whoever has to come back from a stop comes back.
EverybodyReturns == CalmStopReturns /\ StartReturns

\* A message that is in emitCh when Stop closes it is dispatched.
Drained ==
  \A n \in 1..MaxConn * MaxMsg :
    dispatched + emitCh >= n ~> dispatched >= n \/ panicked

\* Stop returns: "Stop 停止" (server.go:172), after it has cleared all connections,
\* "ClearAll 清除所有连接" (connectmgr.go:88).
StopReturns == \A s \in Stoppers : stop[s] = "lock" ~> stop[s] = "done" \/ panicked
=============================================================================
