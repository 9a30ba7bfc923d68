# netman in TLA+

netman is a TCP / UDP / websocket server framework in Go. It runs its own event
loops on epoll: an acceptor goroutine accepts connections, a few poller
goroutines read messages from them, every message is handled in a goroutine of
its own, and handlers, pollers and a heartbeat goroutine write to and close the
same connections. Very little of this is under a lock. The modules of this
directory model the parts where that matters, TLC checks them on small
instances, and TLAPS proves the main results for every value of the constants.

## Inventory

| Component | State | Operations | Hard parts |
|---|---|---|---|
| Write path (`server/baseconnect.go`, `util/queue.go`) | `state`, `writeQ`, `writeBuff`, epoll interest | `Send`, `Write`, `ProceedWrite`, `GetWriteBuff`, `ModWrite`, `ModRead` | handlers and the poller share the fields without a common lock; partial writes; EAGAIN |
| Connection lifecycle (`server/acceptor_linux.go`, `connectmgr.go`, `router.go` `Close`, `eventloop/epoll.go`, `event.go`) | registry fd → connection, epoll sets, descriptors | accept, `AddRead`, `Add`, `Get`, `Close`, `Remove`, `HeartbeatCheck` | descriptors are reused; `Close` runs in several goroutines; events may be stale |
| Router decoder (`server/router.go`, `util/datapack.go`) | `packDataLength`, `readBuffer`, `temporaryMessage`, `tlsRawSize` | `DecodePacket`, `UnPack` | partial reads; the TLS layer buffers what epoll then no longer sees |
| Websocket (`server/websocket*.go`) | handshake flag, partly read frame header, fragments, message mode | `DecodePacket`, `Text`, `Binary`, `Ping`, `CloseCode`, `Close` | the parser is re-entered in the middle of a header; control frames between fragments; close handshake |
| Routing (`server/routermgr.go`, `middleware.go`, `util/pipeline.go`) | routes, groups, middlewares | `Add`, `ResolveGroup`, `Dispatch`, `Pipeline.Process` | order of middlewares, overlap of groups, routes added after `Start` |
| UDP server (`server/acceptor_udp_*.go`, `server_udp.go`, `receiveFromUDP`) | the listening socket, a connected socket per peer, the registry | `Run`, `makeUdpConnect`, `receiveFromUDP` | all sockets share a port; datagrams that arrive before the socket is connected; error paths |
| Server (`server/server.go`, `eventloop/event.go`) | `emitCh`, status, the registry's lock, epoll descriptors, eventfd | `Start`, `doMessage`, `Stop`, `ClearAll`, `ClearByEpFd` | `Stop` against pollers and acceptor, `ClearAll` under its own lock |
| BSD event loop (`eventloop/kqueue.go`) | a read and a write filter per descriptor | `ModWrite`, `ModRead`, `AddRead`, `AddWrite`, `Wait` | two system calls where epoll has one, without a lock |
| options, sockets, helpers | none of their own | thin wrappers | not concurrent by themselves |

The parts interact through calls (poller → connection → registry), through the
descriptor number (registry, epoll and kernel each map it to something), through
the channel `emitCh` (poller → dispatch loop → handler goroutine) and through the
unlocked fields of a connection.

What makes each part correct:

- *write path*: the bytes of a packet leave once, in order, and are not mixed
  with another packet's; nothing that was accepted waits without an event that
  will send it; `state` agrees with the epoll interest;
- *lifecycle*: a connection only ever touches its own socket; the registry and
  epoll agree with the open sockets; `OnClose` runs once and after the close; a
  connection whose peer has gone is closed;
- *decoders*: messages come out in order, once, with their own bytes, however the
  stream is cut; a message that has arrived is handed over without waiting for a
  later one; connections are closed for a cause only;
- *routing*: the handler of a message runs inside exactly the middlewares of its
  groups, global ones first, in the order of registration;
- *UDP server*: a datagram is handled once, as a message of the peer that has sent
  it, in the order of sending, and is not left in a socket;
- *server*: `Stop` terminates, `Start` returns after it, no goroutine sends on the
  closed channel, and what is in the channel is handled;
- *BSD event loop*: it does for the write path what epoll does.

`PROJECT.json` lists the hazards with their source lines.

## Modules

| Module | Lines modelled | Role |
|---|---|---|
| `ConnWrite` | `baseconnect.go`, `Queue`, the write half of `Poller.Wait` | write path of one connection |
| `PacketStream` | – | abstract: packets go out whole and in the order of the calls |
| `ConnWriteStream` | – | `ConnWrite` as an implementation of `PacketStream` |
| `ConnWriteProofs` | – | TLAPS proofs about `ConnWrite`, and that `ConnWriteStream` implements `PacketStream` |
| `ConnLifecycle` | acceptor, registry, `Close`, `Poller.Wait`, heartbeat | connections, descriptors and who closes them |
| `ConnLifecycleProofs` | – | TLAPS proofs about `ConnLifecycle` |
| `RouterDecode` | `DecodePacket`, `UnPack`, `BaseConnect.Read` | framing of the incoming stream, plain and TLS |
| `WsDecode` | `websocket.go`, `websocket_frame.go`, control frames of `websocket_ctrl.go` | the websocket decoder and every close it causes |
| `MCWsDecode` | – | the frames TLC tries in `WsDecode` |
| `WsDecodeProofs` | – | TLAPS proofs about `WsDecode` |
| `WsClose` | `websocket_ctrl.go`, `websocket.go`, `websocket_frame.go` | `Close` of a websocket connection by others while the poller decodes |
| `WsCloseProofs` | – | TLAPS proofs about `WsClose` |
| `Routing` | `routermgr.go`, `middleware.go`, `pipeline.go`, `Server.AddRouter`, `Use`, `Start` | registration of routers and groups, and the pipeline of a message |
| `MCRouting` | – | the symmetry of `Routing` |
| `RouterProofs` | – | TLAPS proofs about the router protocol: `RouterDecode` and `Routing` |
| `UdpServer` | `acceptor_udp_base.go`, `acceptor_udp_linux.go`, `server_udp.go`, `receiveFromUDP` | the UDP server and the kernel's choice of a socket |
| `UdpServerProofs` | – | TLAPS proofs about `UdpServer` |
| `ServerStop` | `server.go`, `event.go`, `acceptor_linux.go`, `ClearAll`, `ClearByEpFd` | `Start` and `Stop` against everything that runs |
| `ServerStopProofs` | – | TLAPS proofs about `ServerStop` |
| `KqueueWrite` | the write half of `kqueue.go` | the write path on BSD, as an implementation of `ConnWrite` |
| `KqueueWriteProofs` | – | TLAPS proofs about `KqueueWrite`; the theorems of `ConnWriteProofs` for it |

Operators whose comment begins with "Mutant:" are wrong variants of the operator
that follows them. They are not part of any specification. Each stands for a
plausible bug and shows that some property would notice it.

### ConnWrite

Senders (`Writers`) run `Write`, and the poller runs `ProceedWrite`. Each access
of the shared state is one step: the test of `c.state` (`CheckState`), the push
on the queue (`Enqueue`, `PushRest`), `unix.Write` (`WriteSome`, `WriteAgain`,
`WriteFailed`), `SetState` (`SetOut`, `SetIn`), `ModWrite` and `ModRead`. The
kernel's send buffer has `room` free bytes; `wire` is the history of what it
accepted, one segment for each system call. A packet is `PacketLen` bytes and
what remains of it is a suffix, so a chunk is `[pkt, from]`. `PollerWriters` are
senders that run on the poller's goroutine, as the websocket handshake answer
and pong do: they only start while the poller is between two events.

- `BytesKept` – the data: a packet's bytes leave in order and once (`PacketOrder`);
  its unsent rest has one place (sender, queue or `writeBuff`) and starts at the
  next byte (`OneHome`); nothing is lost while the connection is up (`NothingLost`).
- `HalfSentIsWatched`, `HalfSentIsFinished` – the poller does not forget a half-sent
  packet, and sends it to its end.
- `OneSenderIsServed` – state and interest agree at rest, and a full socket buffer
  does not close the connection, while only one goroutine has sent (`OneSender`).
  With two senders neither holds: drop `OneSender` and TLC shows it.
- `NothingStranded` – fails with a handler goroutine (`ConnWrite_stranded`).

### PacketStream and ConnWriteStream

`PacketStream` is what a caller of `Send` would like to rely on: a backlog sent
from its first byte to its last, packet after packet. `ConnWriteStream` maps
`writeBuff`, the queue and the packet in a sender's hand to that backlog. The
refinement holds when every `Send` runs on the poller's goroutine. With handler
goroutines it does not: packets are stranded (`ConnWrite_stranded`), and torn. A
partial write queues the rest of its packet, and before `SetState`, or once the
poller has gone back to the read state, another packet is written directly and
lands between the two halves, though `src/README.md:47` promises peers a header
followed by its body. To see it, set `PollerWriters = {}` in
`ConnWriteStream_poller.cfg`.

### ConnLifecycle

A connection `c` (its ID) is created with a descriptor `fdOf[c]` and keeps using
this number for ever. `open` is the kernel's table: which socket a number means
now. `registry`, `watched` and `batch` are the connection manager, the epoll
sets and the events a poller has taken and not handled. Each system call and
each locked access of the registry is a step. `Close` has five (`CloseUnwatch`,
`CloseUnregister`, `CloseFd`, `CloseDrop`, which sets the read buffer to nil, and
`CloseReport`, which calls `OnClose` if `unix.Close` succeeded), and any goroutine of
`Actors` may be between them, while the acceptor gives the number away again. The
heartbeat goes on with two more (`BeatUnregister`, `BeatUnwatch`). A read is split into
the system call and the use of the read buffer (`DecodeRead`, `DecodeStore`). A client
may send or leave as soon as it is accepted.

Two history variables say what has happened: `early`, that an event of a connection was
looked up before the acceptor had registered it, and `others`, that a handler or the
heartbeat has called `Close`. `Calm` is that neither has. It is a premise of the first
three properties, because after such a step they can fail:

- `NoneForgotten` (the registry and epoll agree with the open sockets at rest, and
  every end is reported, once), `UsesOwnSocket` (a socket is closed by the `Close` of its own
  connection, a poller reads its connection's own socket, and nothing panics) and
  `GoneIsClosed` (`ConnLifecycle_pollers`): while `Calm`, one poller owns a descriptor from
  one event to the next, and numbers that are reused between the steps of its `Close`
  do no harm.
- `ReportedIsClosed` and `OnCloseOnce` hold whoever closes, and however early an event is;
  `OnCloseOnce` leaves out connections whose number is given to another one.

What `Calm` keeps out:

- *Early events* (`early`). The acceptor watches a descriptor (`acceptor_linux.go:128`)
  before it registers the connection (`:134`). A client that sends or leaves at once makes
  an event in between; it finds no connection, the poller closes the descriptor as an
  unknown one (`epoll.go:64`), and the acceptor then registers a connection whose descriptor
  is closed and for which `OnClose` never runs. The poller goes on to `Poller.Remove`
  (`epoll.go:65`): if the number means a new connection by then, that one is taken out of
  epoll, and neither read nor closed any more. Take `~early` out of `Calm` and TLC shows both.
- *Closes by others* (`others`). `Close` does not record that it has run, so a second one
  closes whatever has the number now; a heartbeat that runs between two steps of a poller
  makes it write into a nil buffer, lets it close the descriptor as an unknown one so that
  `OnClose` is never called, or removes a new connection from registry and epoll. TLC
  finds them when `Closers` or `Heartbeats` get a member in `ConnLifecycle_pollers.cfg` and
  `~others` is taken out of `Calm`.

`Send` is not in this module. A handler that still holds a connection after `unix.Close`
writes to `SocketOf(c)`, whichever connection has the number now, even before `OnClose`;
nothing in the code keeps it from that.

### RouterDecode

Bytes are `[pkt, at]`, so a message shows which bytes it was made from. The peer
may cut the stream anywhere (`PeerSends` sends one byte, or a whole header when
`splits` is false). In TLS mode the peer seals records, `Fill` is the TLS layer
reading from the socket (as much as there is, up to `RawRead`), `Decrypt` takes a
complete record, and `DecodePacket` sees `input`. A header that is not one gives
an arbitrary length (`Lengths`), so a decoder that loses its place would be seen
to emit anything.

- `Framed` – messages hold the right bytes (`MessagesExact`), and so does the read
  buffer of one that is not complete (`BufferIsPrefix`).
- `NothingWaits` – a connection that should be closed is (`EndIsNoticed`), and a packet
  that has been sent is decoded without a later packet's help (`Decoded`); in TLS mode only for peers that wait for the answer. Another TLS peer's
  second record may be read together with the first: `DecodePacket` resets
  `tlsRawSize` (`router.go:154`), which is what tells of it (`baseconnect.go:35`),
  and the message stays in the TLS layer until the peer sends again. With
  `Pipelining = {"plain", "tls"}` in `RouterDecode_stream.cfg` TLC shows it.
- `ClosedForCause` – connections are not closed otherwise, as long as headers arrive in one piece (`~splits`). A header
  that arrives in two pieces closes the connection of a peer that has done nothing
  wrong (`router.go:85`); TLC shows it when `\/ splits` is taken out of
  `ClosedForCause`.

### WsDecode

The stream is a sequence of frames; `at` is the byte of it that is read next and
`inbound` how many have arrived, so `Arrive` may cut it anywhere. One step is one
`readData` and what follows it up to the next one; a `DecodePacket` that returns
EAGAIN goes back to "wait", and the next one enters where `parseHeader` and
`headerBytes` say. A read whose bytes are not the ones it is for (`at.byte # Due`)
makes the decoder "lost". `Messages` and `Broken` say what RFC 6455 makes of the
frames, from whole frames and without the decoder's variables; the decoder is
compared with them. `Short` stands for 125, and a frame whose length is beyond it has
an extended length.

- `Exact` – the right messages, in order; between events the decoder holds what it
  has read of a frame (`Resumes`); the right answers, in order (`PingsAnswered`).
- `ClosedRightly` – what the decoder closes the connection for, exactly. By the protocol
  that is the end of the stream, a CLOSE, a frame that breaks a rule and a text that is not
  UTF-8 (`Justified`). The code deviates from it in two directions, and both are written
  down so that any further deviation is a violation. It closes for legal frames
  (`WronglyRefused`): an empty PONG, and a PING or PONG that is not UTF-8 inside of a text
  message. It accepts broken ones (`Overlooked`): a CLOSE that is not final, whose payload
  even goes into the message that is open, a long PONG, and a message that begins after
  fragments of another one that were all empty. Replace `WronglyRefused` or `Overlooked` by
  `FALSE` and TLC shows each of them.
- `NothingWaits` – no frame that has arrived, and no end of the stream, waits for
  ever, except after a frame without a mask (`Unmasked`), for whose key the decoder
  does wait for ever.

All of them are for headers with an extended length that arrive in one piece
(`~splits`), although `websocket.go:46` says that frames may come in several reads.
When the length has arrived and the masking key has not, the next event parses the
first two bytes again: `fragmentLength` becomes 126 or 127 (`websocket.go:224`),
`parseHeaderStep` keeps the length from being read again (`:239`), and the message is
cut to that many bytes. `Exact` without its two `~splits` shows it.

### WsClose

`CloseCode`, `remove` and `reset` are a list of calls and cleared fields (`Calls`), and a
goroutine that closes goes through it one entry at a time (`closing`): handlers, the
heartbeat (`Closers`), and the poller itself when a frame or an error makes it close.
Meanwhile the poller handles events; one step of its `DecodePacket` is one statement
that touches a field which `remove` clears, so every order of these accesses occurs. A
nil buffer in use is a panic, which ends the program. An exception is `Deliver`, which
stands for all accesses of `websocket_frame.go:51-92` in one step: a field that is cleared
in the middle of them makes the run `raced`, like one that is cleared before. Frames arrive whole and hold one
byte; how they are put together from pieces is `WsDecode`'s subject. `raced` is a
history variable: a field was cleared during a `DecodePacket`.

- `Confined` – without `raced` nothing panics and messages are the peer's. With it they
  are not: leave `~raced` out and TLC finds a write into a nil `packetBuffer`, and a
  message that was never unmasked because `masks` had been cleared.
- `EndsForGood` – `remove` takes the connection out of the manager before it clears
  anything, so no later event gets into the decoder.
- `Partings` (`Paired`) – the callbacks `Open` and `Close` pair up, unless the closer comes before
  the handshake is complete (`early`): then `Close` may come first, or not at all.
- `Partings` (`Goodbye`) – no descriptor is closed without a close frame on the wire or
  in the queue.
- `GoneIsClosed` – a connection whose peer has left is closed, whatever is queued.
- `OnCloseOnce` and `CloseIsAnswered` do not hold, though comments promise them
  (`websocket_ctrl.go:80`, `websocket.go:147`): a second closer calls `OnClose` again, and
  a CLOSE frame is never answered when the answer is queued behind a text that has
  filled the socket. Add them to `WsClose_race.cfg` to see it.

### Routing

The program registers routers (`AddRouter`, `GroupAddRouter`), middlewares (`Use`)
and groups (`NewGroup`), `Start` runs `ResolveGroup`, and goroutines `Dispatch`.
`ResolveGroup` is a loop of assignments; `Resolve(id)` is what it leaves for an ID.
A pipeline is the sequence of what its nested closures call: `Carry` puts a stage
in front of what has been built, and `Then` does so with the reversed stages, one after
the other. A
middleware may call next, may stop the message (`Break`) or call next again when
it returns (`Leave`). `calls` is the history of registrations; `RouterOf` and
`MiddlewaresOf` read from it, without the maps of the code, what is due.

- `RightRoute` – with the router application the router that is called (`LatestRouter`) and
  the middlewares it is called inside of (`Guarded`) come from the same registration: the
  last group that had the ID before `Start`, or else the server. Global middlewares are
  outermost. A router that only groups have is never called without all the middlewares
  of one of these groups (`Protected`).
- A group's routers are read once, in `Start`; those added later are never called.
- With the websocket application the ID is the number of the message, and `Dispatch`
  (`routermgr.go:89`) adds the middlewares of a group that has a router for this number,
  though `src/README.md:269` says that a websocket has only global ones. `RightRoute` says
  of a websocket's message that the global middlewares are outermost (`GlobalFirst`), and
  not that there are no others: ask for `entered[d] = globalMiddlewares` there, and TLC shows
  a message inside of a group's.

### UdpServer

A server of connected UDP sockets. The acceptor takes a datagram from the listening
socket (`Receive`), makes a socket (`Bind`), connects it to the sender (`Connect`),
watches it (`AddRead`), registers it (`Add`) and emits the datagram (`EmitFirst`); a
failing call (`Fails`) drops it. From `AddRead` on, the poller of the connection reads
its datagrams (`Read`, `EmitRead`), or closes it as unknown if it comes before `Add`
(`Orphan`). The kernel gives a datagram to a socket connected to its sender, or
else to one of the sockets that are bound and not connected, and they all share the
port; which of several it takes is a hash nobody knows, hence `\E s \in Targets(p)`.
A datagram records in `stray` that the socket it went to was about to be connected.

- `InOrder` – no datagram is handled twice. Through one connection a peer's
  datagrams keep their order, except for the one that the connection was made for:
  the acceptor emits it after the poller has begun to read the next ones.
- `Attributed` – a handler gets a datagram of another peer only if the kernel queued it
  between `bind` and `connect`, and never as the first of a connection.
- `Verdicts` – the acceptor and the poller disagree about datagrams longer than their
  header says, and about empty ones; nothing else is handled.
- `Served` – a complete datagram in a socket reaches a handler unless the socket is
  closed, leaked by a failed `connect` (nobody closes it, and it keeps the port), or a
  call of the acceptor fails.

### ServerStop

`Stop` runs in any number of goroutines, step by step: the status, the lock of the
registry (`Lock`), `ClearAll` (`ClearStuck` when a connection is there, because `Close`
asks for the same lock; `ClearNone`), `EventLoop.Stop` (`CloseEpoll`, one descriptor at
a time), `close(emitCh)`, `close` of the listening socket, `Exit`. Around it the
acceptor accepts clients, pollers wait, read and send on the channel, the dispatch loop
receives, and others close connections. A poller that is inside `epoll_wait(2)` when its
epoll is closed still gets events; the next call fails, and `ClearByEpFd` runs (`Clear`).
`calm` is a history variable: `Stop` came once, found a server at rest, and no client
came after it.

- `CalmStop`, `EverybodyReturns` (`CalmStopReturns`) – then nothing panics, `Stop` returns
  and the dispatch loop ends, whatever the pollers still do. Outside of `calm` all of
  that fails: a
  message on its way is sent on a closed channel, a second `Stop` closes it again, a
  client that is being accepted meets a closed epoll and the nil poller of `Close`.
- `EverybodyReturns` (`StartReturns`) – once a `Stop` has returned, `Start` does, on each
  of the three ways out of `Run` and without an event that gets lost.
- `Drained` – what is in the channel is handled.
- `StopReturns` does not hold: with one connection open `Stop` waits for the lock that
  its own `ClearAll` holds, for ever (`connectmgr.go:90`, `router.go:38`), and with it
  everybody who needs the registry. Add it to `ServerStop_quiet.cfg` to see it.

### KqueueWrite

The same code as `ConnWrite` over the other poller. A kqueue has a filter for each
direction, and `ModWrite` and `ModRead` are two system calls each: `DeleteRead` and
`AddWrite`, `DeleteWrite` and `AddRead`. The other actions are those of `ConnWrite`, of
which `KqueueWrite` has an instance. The refinement `Epoll` shows a filter set as an
interest, a sender between its two calls as finished, and the poller between its two
calls as not yet begun.

- `OneFilter` – an open descriptor never has two filters, and has none only while one
  goroutine is between its two calls.
- `ImplementsEpoll` – every behaviour is one of `ConnWrite`, so its safety carries over.
- `HalfSentIsFinished` – the liveness of the write path, which the refinement of the
  steps does not give.

## Runs

| Run | Instance | Result |
|---|---|---|
| `ConnWrite_handlers` | 2 handlers × 2 packets of 2 bytes, buffer of 1 byte | 5 properties hold (490 408 states) |
| `ConnWriteStream_poller` | 2 senders on the poller's goroutine, 3-byte packets, buffer 2 | refinement and liveness hold (116 588 states) |
| `KqueueWrite_handlers` | as `ConnWrite_handlers` | 3 properties hold (630 080 states) |
| `ConnLifecycle_pollers` | 3 connections, 2 descriptors, 2 pollers, 1 handler | 4 properties hold (218 288 states) |
| `ConnLifecycle_everyone` | 2 connections, 2 descriptors, 2 pollers, handler and heartbeat close | 2 properties hold (1 448 824 states) |
| `RouterDecode_stream` | 3 packets, bodies of 0–4 bytes, limit 3, header of 2, both modes | 4 properties hold (274 744 states) |
| `WsDecode_stream` | 3 frames out of 25, good, bad and wrongly judged, key and extended length of 2 bytes | 4 properties hold (549 999 states) |
| `Routing_overlap` | 2 IDs, 2 routers, 2 middlewares, 2 groups of 1–2 middlewares, 3 registrations | 2 properties hold (2 092 148 states) |
| `UdpServer_peers` | 2 peers, 3 datagrams of 4 kinds, 1 failing call, 2 pollers, channel of 1 | 5 properties hold (141 800 states) |
| `ServerStop_quiet` | 2 calls of `Stop`, 2 clients with a message each, 1 poller, channel of 1 | 4 properties hold (177 102 states) |
| `WsClose_race` | 1 closer and the poller, a request and up to 3 frames, 1 queued text | 5 properties hold (761 331 states) |
| `ConnWrite_stranded` | 1 handler | violated: a packet is queued after the poller went back to reading |

*Bounds.* A packet of two bytes and a buffer of one make every write partial
and every second one EAGAIN; with a buffer of 2 and packets of 3 both full and
partial writes occur. Two senders and the poller are the three parties of every
race found; `MaxSend` is 2 or more so that a packet can follow a half-sent one
of the same sender. Three connections over two descriptors reuse a number while
the other one stays in use; two pollers suffice because a connection belongs to
one. A header of 2 bytes can be split; bodies of up to 4 bytes need several
reads (`MaxRead` 2) and several records (`MaxRecord` 4); a raw read of 5 bytes
can take more than one record. In
`WsDecode` three frames are a message in two fragments with a control frame in
between; `MCFrames` holds a frame for each rule and each outcome, and payloads of
half a character. A peer that has broken a rule says nothing more, and a peer
with `splits` sends one frame. No run has a state constraint: the bounds
`MaxSend`, `MaxConn`, `MaxMsg`, `MaxPacket`, `MaxFrame`, `MaxDatagram` and `MaxFail` are
guards. Three datagrams are one that makes a connection, one that comes before it is
connected, and one after; a second peer may send any of them. A channel of one message
is full as soon as two goroutines send. Two calls of `Stop` meet at every pair of
steps; two pollers in `ServerStop` behave as in a run of three minutes that differs
from `ServerStop_quiet` in `NumPoller = 2` only. In `WsClose_race` a closer and
the poller, which closes as well, are two goroutines in `CloseCode` at every pair of
steps, and a request, two fragments and a CLOSE fit into `MaxSend` = 4; the theorems are
for any number of closers. Three
registrations over two groups and the server are enough for each pair of them to
have the same ID, in either order, and for a group to be overwritten; with
`MaxRun` 2 a message can be handed to its router twice. One dispatching goroutine
suffices, because dispatchers share only what no longer changes after `Start`. Deadlock is not
checked, because in all the models the peers may stop and everything then rests.

*Fairness.* Weak fairness of every goroutine's steps: the Go scheduler runs what
can run, and no step of a goroutine disables another one's for ever. In
`ConnWrite` a peer that is up keeps reading, which `HalfSentIsFinished` and
`EverythingSent` need and TCP cannot promise: they are about such peers. Senders
need not send, handlers need not return, and peers need not send or leave. In
`ConnLifecycle` the heartbeat's `Beat` is fair because messages are bounded: every
connection is idle in the end. In `UdpServer` and `ServerStop` the acceptor, the
pollers, the dispatch loop and a `Stop` that has begun are fair, as are in `WsClose` the
poller and a `Close` that has begun: they are goroutines that can run; peers, clients, calls of `Start` and `Stop`, failures and closes by others are not.

## Proofs

All proofs hold for any values of the constants that satisfy the named
assumptions (`ConnWriteAssumption`, `ConnLifecycleAssumption`, `KqueueWriteAssumption`,
`UdpServerAssumption`, `ServerStopAssumption`, `WsCloseAssumption`, `WsDecodeAssumption`,
`RouterDecodeAssumption`, `RoutingAssumption`), which TLC evaluates in the runs. The
assumptions say what the constants are, and nothing about the behaviour. `RouterProofs` extends
both `RouterDecode` and `Routing`, which is why the specification of the latter is `RoutingSpec`.

`ConnWriteProofs`:

- `TypeCorrect`. `TypeOK` alone is not inductive: a system call appends a segment
  of 1 to `Left` bytes only if there is something to send. `TypeInv` adds that a
  sender's packet is begun and its offset within it (`Begun`), and that the
  poller flushes at least one byte (`FlushHasBytes`).
- `NeverHalfSentUnwatched`. `Watched` adds where the poller can be while
  `writeBuff` holds bytes: it never is on its way to `ModRead` then.
- `NeverOverwritten`: an action property, from `GetWriteBuff` alone.
- `PacketsKept`: `BytesKept`, that is `PacketOrder`, `OneHome` and `NothingLost`, for any
  number of concurrent senders. `HomeInv` adds that a packet whose `Send` has not
  begun is nowhere (`Fresh`). The argument: a step either moves no packet
  (`HomeStill`), brings a new one (`HomeSend`), moves one to the end of the queue
  (`HomePush`) or from its head to `writeBuff` (`HomePop`), or writes a chunk
  (`HomeWrite`, `HomeFlush`). The last case rests on `EmitChunk`: writing a chunk
  that starts at the next byte keeps `PacketOrder` and moves the next byte.
- `OneSenderServed`: `OneSenderIsServed`, whose hypothesis is that only one goroutine has
  sent. `Turns` says whose turn it then is: between the sender's check of the state and
  the end of its `ModWrite` the poller waits for readable events; afterwards `state`
  and the interest agree until the poller has gone through `ModRead` and `SetIn`.
- `StreamImplemented`: every behaviour of `ConnWrite` is one of `PacketStream`, provided that
  all senders run on the poller (`OnePoller`, as in the run `ConnWriteStream_poller`; the
  run `ConnWrite_stranded` shows why it is needed). `Polled` says that then one operation is
  under way at a time, that a packet is written directly only while nothing waits, and
  that only the first chunk of the backlog can have been cut. `Laid` follows: the backlog is
  `writeBuff`, then the queue, then what a sender holds. `Listed` counts the packets on
  the wire by the segments that end one. Each step of `ConnWrite` then accepts a packet
  (`StreamAccept`), sends from the first chunk (`StreamTransmit`), ends the connection
  (`StreamEnd`), or changes neither backlog nor wire.

`ConnLifecycleProofs`:

- `LifecycleTypeCorrect` and `ReportedStaysClosed`, for any number of connections,
  descriptors, pollers, handlers and with or without a heartbeat. The invariant
  `IInv` needs `Made` (a socket is open only under the number its connection was
  made with; goroutines outside of `Free` hold a connection) and `Counted`.
- `ReportedOnce`: `OnCloseOnce`. If the number of `c` is given to nobody else, the
  socket a `Close` of `c` finds open is `c` itself, which by `ReportedIsClosed` has
  not been reported.
- `CalmForgetsNone` (`NoneForgotten`) and `CalmUsesOwnSocket` (`UsesOwnSocket`), for any
  peers, handlers and heartbeat: both properties speak of the time in which `Calm` holds, and
  are false after it (see the section on `ConnLifecycle`). The invariant `Settled` holds while
  `Calm` does. It says that a poller works on an open connection of its own and has no second
  event of it (`Own`, `Due`), that it reports a connection for the first time although the
  number may already be another one's (`Parting`), that registry and epoll hold open
  connections only (`NoneStale`), and that an open one is in both or with a poller that is
  closing it (`NoneLost`).

`KqueueWriteProofs`:

- `AlwaysOneFilter` (and `KqueueTypeCorrect`). `OneFilter` is not inductive: `KInv` adds
  who may be where (`FiltersInv`). Only the poller deletes WRITE, so the filter whose
  event it handles stays until `ModRead`; only a sender that finds READ deletes it, so
  two senders are never between their calls together, nor a sender and the poller.
- `KqueueImplementsEpoll`: the initial state maps to the initial state, and each step to
  a step of `ConnWrite` or to none (`StepMaps`). `AddWrite` and `DeleteWrite` are the
  steps that epoll does not have; the failing `DeleteRead` is the `ModWrite` of epoll
  that changes nothing.
- `KqueueKeepsPackets`, `KqueueWatchesHalfSent` and `KqueueImplementsStream`: what
  `ConnWriteProofs` proves of the safety of the epoll build, instantiated with the variables of the
  BSD build and carried over by the refinement.

`RouterProofs`, of `RouterDecode`, for any number and length of packets, any limit, header, read size
and size of TLS records:

- `AlwaysFramed` and `RouterTypeCorrect`. `Framed` speaks of what has been handed on and
  of the part of a body that was put aside; it is kept only if the next bytes to be read are
  the next of the stream. The invariant says so (`Continues`): what lies in the TLS layer
  and in the kernel leads from the byte where the decoder is (`At`) to the one that the
  peer sends next. `Leads` is about a sequence with the ends of records in it: there is a
  place in the stream for each element (`Walk`), and taking elements off or adding them at
  the end keeps that (`ReadableLeads`, `Reads`). Where packets are sent in pieces that split
  a header it says only what the decoder relies on (`Whole`).
- `AlwaysClosedForCause`: an action property, from the same invariant.

`UdpServerProofs`, for any number of peers, datagrams, pollers and failing calls:

- `UdpTypeCorrect`. `Making` counts each socket against a datagram that has left the
  listening socket, so that the acceptor never lacks a number for a new one.
- `AlwaysAttributed`. The property speaks of what was handled; the invariant
  (`Connection`) of what a socket has in its queue from the moment the acceptor is about
  to connect it: a datagram there is stray or of the peer. What a socket received before
  the call returns is stray by definition, and the kernel adds only the peer's
  afterwards. `Good` carries that through the poller's hand and the channel, because the
  peer and the first datagram of a connection never change (`GoodKept`).
- `AlwaysVerdicts`, from the same invariant.
- `AlwaysInOrder`: `InOrder`. The invariant `Flow` follows a datagram by its number: it is
  in one place (`OnePlace`), a socket's are rising (`Rising`), those a socket still holds
  were sent after all that have left it, to the poller's hand or to the channel and beyond (`Ahead`,
  `Carried`), so the line of what was or will be dispatched is in order for each connection
  (`Lined`), but for the datagram the connection was made for, which the acceptor may bring late.

`ServerStopProofs`, for any number of pollers, clients and calls of `Stop`:

- `CalmStopIsSafe`: `CalmStop`. The property says nothing of what makes a `Stop` safe, so
  `StopInv` adds that nobody else stops while `calm` (`Made`, `Calm`), that from
  `ClearAll` on the server is at rest and stays so, and that whatever is closed was
  closed by a `Stop` that had come that far (`ByStop`): a poller then finds its epoll
  closed with nothing to send, and the channel is closed once.
- `StopTypeCorrect`. The bound on `dispatched` needs `Conserved`: a message is unread, with a
  poller, in the channel or dispatched, and there were no more than clients can send.

`WsCloseProofs`, for any number of closing goroutines and frames:

- `AlwaysGoodbye`, a part of `Partings`. Whoever is past the first entry of `Calls` has said
  goodbye, and only such a goroutine, or the poller that finds the connection
  unregistered, closes the descriptor (`Farewell`).
- `AlwaysEndsForGood`: once the connection is unregistered and the poller outside of
  `DecodePacket`, no step leads back into it.
- `WsTypeCorrect`, from what the peer may send (`Protocol`), where the poller is in it
  (`Reading`, `Opening`) and what the fields of the connection can be (`Contents`).
- `AlwaysPartings`: `Partings`. Before `Open` only the poller can close (`BeforeOpen`), unless
  a closer was early, which the property leaves out; whoever has passed `OnClose` or
  `Close` has called it (`Calling`), and a connection that is gone has been told of, or a
  goroutine is about to (`Telling`).
- `AlwaysConfined`: `Confined`. While the connection is registered, and to the end of a
  `DecodePacket` in which nothing is cleared, both buffers are there (`Unharmed`), which is the
  part about panics. That the messages are the peer's rests on `Decoding`: between frames the
  buffers hold a part that waits for its rest and nothing else (`Idle`); within one, what
  the step the poller is at needs of the frame in hand (`Behind`, `Header`, `Body`).

`RouterProofs`, of `Routing`, for any number of routes, groups, middlewares and goroutines:

- `AlwaysRightRoute`: `RightRoute`, complete for the router application, and `GlobalFirst` for
  websockets (`PrefixOfConcat`). The property compares what a message meets with the
  calls of `AddRouter`; in between are the maps and the pipeline. Before `Start` each map has the
  router of the newest call for its key (`Registered`); `ResolveIs` shows that the loop of
  `ResolveGroup` makes of them what the calls amount to, which then holds for good
  (`Resolved`), because calls on a running server change neither (`StillRouted`). `ThenIs`:
  the pipeline that is built from the reversed stages calls them in their order and the
  destination last. A message is inside of a beginning of its pipeline (`Within`), so it has reached
  the destination only when it has entered all of them.
- `RoutingTypeCorrect`, from the same invariant.
- The prover cannot use the induction theorems of its library, which take an operator.
  `ArrayReduceIs` is about a recursive function all the same: `LeastNumber` (a set of numbers
  that is not empty has a least element) follows from the theorem on well-founded relations, and
  a least number at which the function and its closed form differ is impossible.

`WsDecodeProofs`, for any set of frames, any number of them, any lengths of payloads, of
length fields and of masking keys, and any cut of the stream into reads:

- `WsDecodeTypeCorrect`, of every peer. That the counts stay in their ranges depends on where
  the decoder is: `Located` says that it is in a frame the peer has begun, that what has
  not been read is in the kernel or has yet to arrive (`Accounted`: there is a place where
  each frame begins), and that no more of a payload is kept than it has (`Inside`).
- `AlwaysExact`: `Exact`. It speaks of what the decoder has done when it is between two frames,
  so the invariant follows it through one: `Parsing` says for each place in the header and
  the payload what the fields are in terms of the frame in hand (`InHead`, `InHeader`,
  `InPayload`). It needs that no segment ends within a long header (`Uncut`), without
  which it is false. `Gathering` says what the frames before it amount to: `continueBuffer` is
  the payloads of the fragments of the open message, joined, `messageMode` its kind, and
  what was emitted and answered is all that these frames ask for. A connection that closes
  has emitted a part of it (`Told`). All frames but the last are good, because the peer says no
  more after a bad one (`Civil`). `Meaning` gives each of these one frame further on in terms
  of the frame before; it is where the flattened sequences of `Messages` are taken apart
  (`FlattenStep`).
- `AlwaysClosedRightly`: `ClosedRightly`, an invariant (`JudgedRightly`: a message of text that
  gets to its last frame is judged as a whole) and an action property, proved for each
  cause of a close on its own (`ForCause`), from the same invariant. It is as strong as
  the code allows: the legal frames that close the connection, and the broken ones that do
  not, are named in the statement.

Only model-checked: everything under fairness (liveness is beyond the prover). The
expected violation (`ConnWrite_stranded`) is a behaviour that TLC finds.

## Findings

Where the code does not do what it says, the properties name the deviation, so that they
hold of the code and still fail for any further one. `PROJECT.json` has the quotations.

| Where | What | Property |
|---|---|---|
| `baseconnect.go:114` | a packet is queued after the poller went back to reading | `NothingStranded` is violated |
| `acceptor_linux.go:128` | an event before the registration leaves a dead connection in the registry | `NoneForgotten`, `UsesOwnSocket`, `GoneIsClosed` hold while `Calm` |
| `websocket.go:199` | an empty PONG closes the connection | `ClosedRightly`, `WronglyRefused` |
| `websocket_frame.go:71` | a binary PING or PONG inside of a text closes the connection | `ClosedRightly`, `WronglyRefused` |
| `websocket.go:149` | broken frames that are accepted | `ClosedRightly`, `Overlooked` |
| `routermgr.go:89` | a websocket's messages get a group's middlewares | `RightRoute` asks for `GlobalFirst` only |
| `connectmgr.go:94` | `Stop` with a connection open waits for its own lock | `EverybodyReturns` is about a server at rest |

## Not modelled

- The TLS branch of `Write` (it switches the descriptor to blocking mode).
- `Send` in `ConnLifecycle`, so that a handler's write to a reused descriptor is described
  above and not checked. The goroutine that runs `OnOpen` gets a connection whose `Send` and
  `Close` do nothing (`baseconnect.go:67`), and is left out.
- In `WsClose`: frames in pieces, PING and PONG, and a descriptor that is given to a new
  connection between two calls of `Close` (`ConnLifecycle` has that for the router's
  connections).
- `Send` on a UDP connection, reuse of descriptors and `Stop` in the UDP server. The
  kernel's choice among several connected sockets of one peer is left open, as is that
  among unconnected ones.
- The BSD acceptors and the read half of kqueue's `Wait`, which are the code of the
  epoll build line by line.
- Websockets over TLS; the encoding of `Text` and `Binary`; lengths of eight bytes, which
  are read as those of two; what the websocket decoder does after it has misread a
  byte; a short length in an extended field, which the code accepts.
- The TLS handshake, and close-notify alerts, which `DecodePacket` sees as the
  end of the stream. (With TLS 1.2 an alert right behind the last message turns
  its read into `io.EOF`, and the message is lost.)
- Go's data races on the fields of a connection beyond the order of the accesses:
  a slice or interface value is read and written whole.
- `GetConnects` and the heartbeat iterate over the registry without its lock; a
  look-up of one connection is one step here.
- The order in which the goroutines started for two messages run.
- An idle time of 0, which passes the heartbeat's check (`connectmgr.go:102`) and lets
  every tick close every connection.
- `AddRouter` and `Use` on a server that runs, which race with `Dispatch`; the
  values middlewares keep in a context.
- Options, addresses, interfaces, logging: no state that changes while a server runs.

## Plan

Done: `ConnWrite`, `PacketStream`, `ConnWriteStream`, `ConnLifecycle`, `RouterDecode`,
`WsDecode`, `WsClose`, `Routing`, `UdpServer`, `ServerStop`, `KqueueWrite`, and proofs of
all safety properties that the runs check. Next:

1. `MessageStream`, an abstract specification that both decoders implement: messages in
   order, each once and complete.
2. `Send` in `ConnLifecycle`: what holds of a handler that writes to a closed
   connection.
