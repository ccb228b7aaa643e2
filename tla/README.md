# A TLA+ model of pane

`pane` is an actor framework: panes are clients of a routing server, and talk to
each other over sessions the server sets up between a *consumer* of a service
and a *provider* of it. The specifications here model four state machines: the
routing server (`pane-session/src/server.rs`), the looper of a client with its request
correlation, the event source that reads and writes a connection on the looper
thread, and a pane from setup to the end of its threads (all `pane-app`). They are
checked with TLC on small instances, and their main invariants are proved with
TLAPS for every value of the constants. `PROJECT.json` holds the exact list of runs, mutants,
source lines, hazards and theorems; this file explains them.

## 1. The system

| part | source | state | operations |
|---|---|---|---|
| ProtocolServer | `pane-session/src/server.rs` | provider index, routing table, per-connection session counter, writer channels, addresses, the watch table and its reverse index, connections to tear down for overflow | accept, actor loop: NewConnection, DeclareInterest, RevokeInterest, service frames, Watch, Unwatch, Disconnected, overflow teardown |
| Request correlation | `pane-session/src/{correlator,active_session}.rs`, `pane-app/src/dispatch.rs` | tokens, token-to-session map, outstanding count and cap, callback table | insert, fire_reply, fire_failed, fail_tokens, cascades per session and per connection, clear |
| Looper | `pane-app/src/{looper,looper_core}.rs` | batch, revoked sessions, the tables above, exit channel | collect, six dispatch phases, yield, connection_lost, shutdown, run_destruction |
| ServiceHandle, send_and_wait | `pane-app/src/service_handle.rs` | a blocked thread and its one-shot channel | send_request, try_send_request, send_and_wait, revoke on drop |
| Service dispatch, reply ports | `pane-app/src/service_dispatch.rs`, `service_handle.rs` | receivers per session, one-shot reply ports | decode, call the handler, reply or fail on drop |
| ConnectionSource | `pane-app/src/connection_source.rs` | partial frame, write buffer, highwater mark | readiness, drain, flush, before_sleep, removal |
| Pane setup | `pane-app/src/{builder,pane}.rs`, `pane-session/src/{handshake,bridge}.rs` | handshake, buffered messages, opened sessions | handshake, open_service, replay of buffered messages |
| Frame codec and transports | `pane-session/src/{frame,transport}.rs` | position in the stream | read, write, partial read |
| Publish and subscribe | `pane-app/src/subscriber_sender.rs` | subscriber senders | connect, publish, disconnect |
| Messenger, timers, watchdog | `pane-app/src/{messenger,timer,watchdog}.rs` | timer table, heartbeat | set, cancel, fire, tick |

Threads and interactions. The server has one actor thread which owns all tables
and reads one event channel. Every connection has a reader thread that feeds that
channel and a writer thread that drains a bounded channel to the socket; the actor
uses `try_send` only, and a connection whose channel is full is torn down. A client
has one looper thread; it runs the handler's callbacks, under `catch_unwind`
for most of them. Other threads of the client may block in `send_and_wait` until
the looper's callback table answers them. The connection reaches the looper in one of
two ways. With `bridge.rs` a reader thread sends what it decodes into a channel, which
`PaneBuilder` reads during setup and a forwarding thread after it, and a writer thread
drains a bounded channel to the socket. With `ConnectionSource` the looper thread does
the I/O itself, when its event loop reports the socket ready.

What is hard here: two-keyed tables changed by several handlers; teardown of one
connection that overflows another; events of a connection that arrive after the
actor gave up on it; messages reordered by the phases of a batch; answers that
race teardowns, timeouts and the end of the looper; panics half way through a
handler; frames cut anywhere by partial reads and writes; an event loop that may sleep
with something left to write; messages that arrive before anybody is registered for
them; threads that end in turn; and the promise that every request is settled once.

## 2. Modules

| module | what it is |
|---|---|
| `ProtocolServer` | the server: actor, reader and writer threads; clients as environment |
| `MCProtocolServer` | its symmetry set for TLC |
| `ProtocolServerProofs`, `ProtocolServerDelivery` | its theorems: types, the tables, the event order and watches; then routes and sessions as the clients see them |
| `Requests` | abstract: a request is issued, then settled once, and the result stands |
| `RequestDispatch` | correlator and callback table as operators on one record, `Core` |
| `Looper` | the looper thread, callers of `send_and_wait`, environment |
| `MCLooper` | instance for TLC |
| `LooperProofs` | what the operators on `Core` keep, and the theorems |
| `FrameLink` | abstract: frames come out complete, in order, none lost or doubled |
| `FrameCodec` | `FrameReader` and `FrameWriter` as operators on records |
| `ConnectionSource` | the event source, the looper's dispatch calls, a peer |
| `MCConnectionSource` | instance for TLC |
| `ConnectionProofs`, `ConnectionFrames` | theorems about `ConnectionSource`: bytes, sleep and backpressure; then frames |
| `PaneClient` | setup, request dispatch, reply ports, handles, bridge threads |
| `PaneProofs`, `PaneRequests`, `PaneReceivers` | theorems about `PaneClient`: types, what is in flight and revocations; the requests; the sessions `open_service` takes and their receivers |

### ProtocolServer

Each field of `ServerState` is a variable of the same name. A missing map entry
is `NoRoute`, `0` or `{}`. The Vec of providers of a service is a set, and its order
is the order of registration, kept in `arrivals`; `FirstProvider` is the first one in
that order, and if that is the consumer itself the declaration is declined. An address
is its connection.

The actor's handlers are actions: `ProcessNewConnection`, `ProcessFrame` (with one
operator per kind of frame), and `ProcessDisconnect` with `FinishDisconnect`. A
handler changes its tables in one step, because no other thread sees them, and
leaves the `try_enqueue` calls it still has to make in `outbox`; `TryEnqueue`
makes them one by one, so that writer threads free slots in between. The actor takes
up nothing else until `outbox` is empty. `process_disconnect` has two such rounds
(PaneExited, then ServiceTeardown) and is therefore two actions. `EndEvent`,
`DrainOne` and `EndDrain` are the overflow part of `actor_loop`.

A reader is `none`, `run` or `done`; a writer may die on a failed write while the
reader goes on; a connection torn down for overflow keeps its reader (as in the
code, where nothing closes the socket's read half), so it is a ghost member of
`torn` until its `Disconnected` comes and it joins `gone`. The other ghosts,
`learned`, `open`, `issued`, `intent` and the `via` of a service frame, are what the clients
were told or asked for; the properties compare them with the tables.

### Looper and RequestDispatch

`Core` is the request state of `LooperCore`. `Insert`, `RecordResolution`,
`CascadeSession`, `CascadeConnection`, `fire_reply`, `fire_failed`, `cancel`, `clear`
and `SendRequest` are the methods of that name. An entry is reduced to the party
its closures report to: the handler or a blocked call. The ghost `outcome` records what became of a
request, and becomes `again` if it is told twice. A request whose frame the write channel did not take is
`refused` if its sender learns so (`try_send_request` returns an error, the channel of `send_and_wait` closes)
and `forgotten` if it does not (`send_request`).

The buckets of a batch are one sequence together with `Phase`, the order in which
`dispatch_batch` visits the buckets: nothing is added to a batch while it is dispatched, so
the next event is the earliest one of the lowest phase. `Collect`, `CollectSync`
and `CollectClosed` fill it; `StartDispatch`, one of `ProcessSync`, `DispatchAnswer`,
`DispatchTeardown`, `DispatchControl`, `SkipStale`, `DispatchWork` per event,
and `EndBatch` work through it. `DispatchWork` may yield and leave phase 5
messages for the next batch, as the message and time limits allow. Every callback may return `Continue`, `Stop` or
panic; whether a panic is caught (the looper ends through `run_destruction`) or
unwinds the thread (closures of `fail_tokens`) follows the code. The handler
may send requests from a callback, and the write channel may refuse the frame.

The environment sends only what server and peers can send: nothing on a session
after its teardown, no announcement of a session twice. Peers may answer one token twice.

### FrameCodec, FrameLink and ConnectionSource

A byte is a position in a frame: the prefix, the service and the payload keep their
lengths, the contents are abstract, and a reader that lost its place would see the bytes
of two frames mixed. `FrameReader` fills a buffer of the length it wants, first
for the prefix and then for the body; `FrameWriter` is a buffer with `flush_pos`, reset when
all is out.

In `ConnectionSource` one step is one system call or one channel operation of the
looper thread, so threads and peer act between any two. `BeforeSleep` and
`BeforeSleepTakes` are `before_sleep`; `ProcessEvents`, `Drain`/`DrainDone`,
`Read`/`ReadDone`/`ReadEof`, `Write`/`FlushDone`/`FlushBlocked`/`FlushFails` are
`process_events` in the order of its code. The two dispatch calls per turn of the looper,
one blocking and one not, are `round`; a poll reports readiness for the interest
registered (external: calloop, the socket). `HandlerSend` writes into the buffer
directly, `ChannelSend` into the channel. The peer uses the blocking codec. The ghosts
`given` and `wrote` are the frames that entered each direction, `received` and `delivered` those that came out.

### PaneClient

`Open`, `Opened`, `Buffer` and `OpenFails` are `open_service`; `RunWith`, `Drain` and
`StartLooper` are `run_with`; `Take` is the looper, reduced to which message it takes (a
request may be overtaken by messages of earlier phases; `Looper` has the phases).
`DispatchRequest` finds the receiver or fails the request, `AnswerPort` is a reply port
consumed by `reply` or by `Drop`, on the looper or on another thread, and `DropHandle` revokes. A Messenger
or CancelHandle that a callback keeps holds a sender of the write channel too: `clones`, with `KeepSender`
and `DropSender`.
`Reader`, `ForwarderEnds` and `Writer` are the threads. `OneSocket` says whether the halves
of the transport are one socket, as for `UnixStream`. The server is environment: it
issues sessions, to the pane as consumer or as provider, and sends requests, teardowns and lifecycle messages.
It asks the first provider of a service only; `first` are the services for which that is the pane, and
`Promoted` adds one when the provider before it disconnects, at any time, also between a
DeclareInterest of the pane and its answer. `Take` has no step that skips a request of a revoked session
(looper.rs:759-762): only a LocalRevoke puts a session into `revoked_sessions`, and the reader thread, the one
sender of `rx`, sends none. `Looper` has LocalRevoke and the skip.

## 3. What TLC checks

| run | instance | shows |
|---|---|---|
| `server_routing` | 3 connections, 1 service, 2 session ids, 2-slot channels, 4 frames | `TypeOK`. `RoutingSymmetric`: both keys of a route are there or neither. `RouteAnnounced`: both ends are told of it. `NoCrossTalk`: a frame goes over the route its sender meant. `SessionOrder`: a client reads of a session its InterestAccepted under an id new to it, then service frames, then one ServiceTeardown and nothing more. `SessionIdsFresh`: the next id of a connection is above all it was issued, unless it was torn down for overflow |
| `server_failures` | 2 connections, 2 frames of six kinds, 1-slot channels, 1 loss | `RouteEndsLive` (an id that routes is below the counter, and its provider is registered), `NoPhantomSession` (no session a client believes open was dropped silently), `ClosedForgotten` (no table mentions a connection once it is closed), `WatchSymmetric`, `WatchNeverLost` (from Watch to the exit notice there is no window in which the watcher is forgotten); liveness: `ActorReturns`, `VanishedForgotten`, `WatchAnswered` |
| `looper_requests` | 2 sessions, 2 requests, 1 blocked call, cap 1, batches of any size, 3 arrivals of all nine kinds | `TypeOK`, `TablesAgree`, `ExitSettles`, `NoCallStranded`, `EarlierReplyWins`, `SubscribersKnown`, the refinement `SettledOnce`; liveness: `CloseEnds`, `AnsweredSettles` |
| `connection` | 3 frames in all, 2-byte prefix, 3-byte sockets, 1-slot channel; the peer sends good, aborting and overlong frames | `TypeOK`, `BytesInOrder`, `RemovalHasCause`, `NeverAsleepOnBytes`, `BackpressureKept`; the refinements `OutboundLink`, `InboundLink`; `SentAwakeTaken` (an awake looper empties the channel) and `FramesArrive` (the frames written arrive, in both directions) |
| `pane_services` | 2 services, one with requests, the other also provided, one socket, 1-slot channel, 2 arrivals | `TypeOK`, `RequestAccounted`, `OwnSession`, `ReceiverKnown`, `RequestsInOrder`, `RevokeAccounted` |
| `pane_end` | 1 service, with requests and also provided, one socket, 1-slot channel, 3 arrivals | `OpenReturns`, `ExitNoticedOrReading` |
| `server_overflow`, `looper_subscribers`, `connection_asleep`, `pane_answers`, `pane_subscriber`, `pane_exit` | | violated, see section 6 |

Bounds. One-slot channels make every second notice an overflow, so in `server_failures`
the teardown paths are taken all the time. `server_routing` has two slots, because with one
no two messages ever wait in order, and a fourth frame, so that something follows an overflow; three connections are the fewest in which
a teardown reaches a third party (consumer, provider and a further peer); two
session ids reach exhaustion with the third declaration. A batch needs two messages to reorder them,
and a further one to carry leftovers over: three arrivals give both. `MsgLimit` is 2, so that
a batch of three phase 5 messages yields. Every bound is a conjunct of a guard
of an environment action; none stops the actor or the looper. The invariants of
`server_failures` are theorems for any number of connections, so two of them suffice there to meet all the
kinds of frame together with a loss; it has no symmetry, which is unsound for its liveness properties. `FramesArrive` compares what was written with
what arrived, instead of following each frame: with boundedly many frames the two say the same. A socket
of three bytes holds one frame of the pane and less than the longer frames of the peer, so that
frames are cut in transit, and a frame of the pane is as long as the highwater mark. The safety of a pane takes two services (a message of the one arrives
while the other is being opened); its liveness properties are checked with one service and a further arrival. Deadlock is not checked,
because a system whose clients have sent all their frames does stop.

Fairness. Server: the actor thread and the readers of vanished clients run (the
operating system schedules them, and a read on a closed socket returns). Nothing
is assumed of writer threads, since a client that does not read blocks them; only
`WatchAnswered` assumes, in its own hypothesis, that the watcher reads.
Looper: its thread runs. ConnectionSource: the looper thread runs and the peer
reads; other sources never have to wake the loop. PaneClient: the threads run (handles and
ports of a looper that ends are dropped), the server answers a declaration and notices the end of a
stream; a port or handle that another thread holds may be held for ever. The environment is otherwise never fair: for the looper no answer has to
come, nothing has to close. `InfraFailure` (the event loop reports an error) is outside
the fair action.

## 4. What is proved

All theorems hold for every value of the constants that satisfies the named
assumptions: for the server, `SessionLimit > 1`, `Capacity > 0` and markers that are
no connection or route; for the looper, `MsgLimit > 0` and distinct markers; for the
connection, positive lengths and capacities and frames of the pane no longer than `MaxMessage`;
for the pane, `WriteCapacity > 0`. The bounds
on frames, events and arrivals are arbitrary naturals. The theorems are about
all of `Spec`, environment included.

Server.

- `TypeCorrect`, `RoutingCorrect`, `RouteEndsCorrect`, `WatchCorrect`, `DisconnectForgets`: `TypeOK`,
  `RoutingSymmetric`, `RouteEndsLive`, `WatchSymmetric`, `ClosedForgotten`.
  The inductive invariant is `IInv` of `ProtocolServer`. `RoutingSymmetric` needs
  `RouteEndsLive`, because an id that still routes must not be issued again.
  `ClosedForgotten` needs `QueueOrder`: a closed connection stays forgotten only
  because no event of it can follow its `Disconnected` in the channel, which holds
  because its reader posts that event last. `RouteEndsLive` needs `TablesTidy`:
  only registered connections provide. The main lemma about
  the two-keyed table is that the ends `remove_connection` collects are all the entries that name the
  dying connection.
- `SessionIdsCorrect`: `SessionIdsFresh`. Besides `IInv` it needs `CountersKnown`: only a
  connection with a writer, or one torn down for overflow, has a counter.
- `WatchCannotBeLost`, `RoutesAreAnnounced`: `WatchNeverLost` and `RouteAnnounced`, with
  `DeliveryInv`. It adds to `IInv` that the actor takes an event only when every send of the last
  handler has been made (`ActorQuiet`), and that whoever it sends to has a handle or was torn down
  (`TargetsKnown`): a message of `outbox` reaches the channel, or the connection fails as a whole.
- `NoSessionIsPhantom`: `NoPhantomSession`, with `SessionInv`. The property alone is not inductive:
  an `InterestAccepted` may be stale when it is read. `AcceptedBacked` says that then the
  `ServiceTeardown` is behind it in the same channel, and `OpenBacked` that the same holds once it is read.
- `ServiceFramesKeepTheirRoute`: `NoCrossTalk`, with `CrossTalkInv`. A route a client knows keeps its
  session id for good (`KnownRoute`: that id routes this route or nothing), because `alloc_session`
  is past every id it has issued; so a frame that waited in the event channel cannot meet a later route.
- `SessionsAreOrdered`: `SessionOrder`, with `OrderInv` of `ProtocolServerDelivery`. The property speaks of the
  writer channel only. The invariant adds what the sends still in `outbox` will find there
  (`SendsOrdered`) and that no two of them are about one session of one client (`SendsApart`), since their order
  is open. `RoutesHeld` says that a client holds, or is about to be offered, every session that routes, so that
  a frame or a teardown for it is in place; `IdsIssued` that nothing in flight names an id not issued, so that a new
  InterestAccepted is the first its client hears of that id.
- `RoutesAreKept`: the action property `RouteKept`; an entry of `routing_table` is written once and
  afterwards only removed. It follows from `DeliveryInv`, by which the ids `alloc_session` returns route nothing.
  `RouteKept` is defined beside its proof and is not checked by a run.

Looper.

- `LooperTypeCorrect`, `TablesAlwaysAgree`, `ExitAlwaysSettles`, `CallsNeverStranded`
  from `LooperInvariant`, whose `IInv` (in `LooperProofs`) is `TypeOK`, `Good(core)`,
  `NoCallStranded`, `ExitSettles` and, while the looper runs, that no request has been
  dropped. `Good` is the type of the record, that nothing was told twice, and `Agree`:
  tokens not yet issued have outcome `none`, a token has an entry and a session exactly
  while its outcome is pending, and the outstanding count is the cardinality of the token map.
- `RequestsSettledOnce`: `Looper` implements `Requests` under
  `outcome <- core.outcome`. Every operator that settles takes its tokens from
  the callback table, where by `Good` the outcome is pending.
- `EarlierRepliesWin`: `EarlierReplyWins`, with `OrderInv`. While a request whose reply came first is
  pending, the reply is in the batch, whose phases put it before every failure, or it is in the inbox
  before every failure and no failure has been collected (`ReplyAhead`). A yield keeps this, because only phase 5
  is left over and neither replies nor teardowns are of phase 5.
- `SubscribersAreKnown`: `SubscribersKnown`, with `SessionInv`: a session is torn down once and never
  announced again, so no departure can take away a subscriber that is still routed.

Connection.

- `ConnectionCorrect` proves `ConnectionInv`, and from it `TypeCorrect`, `BytesCorrect`, `AsleepCorrect`
  and `BackpressureCorrect`. `NeverAsleepOnBytes` follows from `AsleepDrained`, which is stronger: `before_sleep` returns a
  synthetic event whenever bytes are pending, so a looper asleep has none. That needs `InterestJustified` (write
  interest outlives its bytes only inside the write path), the types need `RoomToRead` (a reader
  that is between two reads wants at least one byte), and both need that `process_events` runs for
  an active source only. `BytesCorrect` rests on lemmas about slices of concatenations.
- `OutboundCorrect`, `InboundCorrect`: both directions implement `FrameLink` (`OutboundLink`,
  `InboundLink`), and `RemovalCorrect`: `RemovalHasCause`. The argument is the place of a reader.
  `Layout` gives the offset at which each frame begins in the stream of bytes; `Placed` says that a
  reader that has completed `d` frames holds exactly the bytes from the offset of frame `d + 1`, or of
  its body, on. One lemma about `read_into` and the state of `FrameReader` (`ReadsNext`) then serves the
  blocking codec of the peer and the incremental reader of the source. A reader in its place decodes a length
  or a kind of a frame that was written, so an error has its cause in such a frame.

Pane.

- `TypeCorrect`: `TypeOK`. `PaneCorrect` proves `PaneInv`, and from it `RevokeCorrect`: `RevokeAccounted`. The invariant
  consists of `Links` (an `InterestAccepted` on its way offers a session nobody else holds or is
  offered), `Held` (a handle has a receiver, of its service), `Sides` (the pane is provider only of services of
  which it is first provider), `Closed` (a server that has closed the connection has no route left) and
  `RevokeAccounted`, which needs `Closed` and `Held`.
- `RequestOrder`: `RequestsInOrder`, with `OrderInv`: the requests handled, those in
  `buffered_messages`, those in `rx` and those on the wire are in order, each queue and one queue after
  another.
- `RequestsAccounted`: `RequestAccounted`, with `PresentInv` (until the looper stops, every request is in
  one of these four queues) and `SettleInv` (a dispatched request has one port, or one answer that is queued, was
  refused by `try_send` or has been written). A refused answer counts as a place: the theorem says where every request is,
  not that every request is answered, which is false (section 6, `pane_answers`). The counts of the property follow from the order of the four
  queues, which keeps their ids apart.
- `ReceiversKnown`, `OwnSessionCorrect`: `ReceiverKnown` and `OwnSession`, from `ReceiverCorrect`, which proves `ReceiverInv`.
  `GrantOrder` says that the sessions offered in `rx` and on the wire rise, so a session issued later is offered
  later. `DeclareInv`: a service has at most one DeclareInterest, in the write channel or at the server, and until it is
  answered `open_service` waits and the service has no session, unless the pane is its first provider. `SessionInv`:
  a session issued in answer to it is the first one of its service; its `InterestAccepted` is on its way while `open_service` waits;
  afterwards it has its receivers and every handle of the service is on it. So when the pane becomes first provider between the two, the
  announcement of a subscriber cannot overtake the answer. `RefuseInv` transfers this to the requests that found no receiver.

Every safety invariant and every refinement the passing runs check is a theorem. Only model-checked are
the liveness properties, `ActorReturns`, `VanishedForgotten`, `WatchAnswered`, `CloseEnds`, `AnsweredSettles`,
`SentAwakeTaken`, `FramesArrive`, `OpenReturns` and `ExitNoticedOrReading`: they rest on fairness,
which is beyond the prover.

## 5. Hazards

`PROJECT.json` lists them at their lines. For the server they are partial
updates of two-keyed tables, overflow while tearing down, and events of a
connection already given up. For the looper they are reordering by phases, panics,
refused writes, timeouts and exits with requests outstanding. For the
connection they are partial I/O, sleeping on unwritten bytes, backpressure and removal;
for the pane, what arrives during setup, full channels, and threads that end. A hazard no
property covers, or covers only in part, carries a note.

## 6. Where code and text disagree

1. `server_overflow`. The list of overflowed connections is drained once after
   an event; a connection that overflows because of the drain itself waits
   for some later event. The comment on the field says they are torn down after the
   current event completes.
2. `looper_subscribers`. ServiceTeardown is dispatched in an earlier phase than
   InterestAccepted. If both messages of one session fall into one batch, the handler hears
   of the departure first and keeps a subscriber that is gone.
3. `connection_asleep`. A frame that another thread sends into the write channel while the
   looper is blocked in the poll stays there until something else wakes the loop. The comment on
   `before_sleep` claims the same result as a channel that wakes the poll.
4. `pane_answers`. Reply and Failed are offered to the bounded write channel with `try_send`, and the result
   is ignored. When the channel is full the answer is lost and the connection lives on; the requester waits until
   its session or connection ends. `service_dispatch.rs` says, twice, that every Request produces exactly one
   Reply or Failed on the wire.
5. `pane_subscriber`. `open_service` matches InterestAccepted by service only. A pane that is first provider of a service
   and opens it may take the announcement of a subscriber for its answer, and gets a handle for that
   session. The comment on `buffered_messages` says that messages which are no response to the DeclareInterest are buffered, and
   invariant I13 of the architecture document that a handle is a confirmed binding. `OwnSession`, what does hold, says that the pane misses no
   session of its own by this: the server declines its declaration.
6. `pane_exit`. When a pane has ended, its writer thread ends, but over a `UnixStream` the
   reader thread still holds the socket and waits for a frame; nothing calls `shutdown`, so the
   server is not told. A comment in `pane-hello` says that closing the write channel lets the
   server detect the disconnect.

Observations from reading, without a run:

- A connection torn down for overflow keeps its reader, and its next DeclareInterest gets session
  id 1 again, because `remove_connection` forgets the counter. `stress.rs` says "The monotonic counter
  means revoked sessions are never reused"; `SessionIdsFresh` is true, and proved, with this exception.
- `connection_lost` calls `disconnected()` before the connection's requests are failed; the
  architecture document (docs/architecture.md:995-996) gives the opposite order.
- `send_request` has no error to return. When the write channel refuses its frame, it cancels the entry, and neither
  `on_reply` nor `on_failed` ever runs (service_handle.rs:144-150). `ExitSettles` is about requests that were written.
- On a full socket the loop does not block: with bytes pending `before_sleep` returns a synthetic event each time, also when
  write interest is registered, so the looper polls with timeout zero until the peer reads. The module comment
  (connection_source.rs:10-13) says write interest is removed "to avoid busy-spinning". `NeverAsleepOnBytes` would also
  hold of a `before_sleep` that left this case to the write interest.
- Before its first event a `ConnectionSource` has no token, so `before_sleep` cannot ask for a flush.
- A flush that fails because the peer closed removes the source before unread frames of the peer are read,
  when the readiness in process was only for writing.
- `FrameWriter::enqueue` does not compare a frame with `max_message_size`; the peer's reader does.
- The watchdog counts a looper that waits for events as stalled; it only logs.
- After a caught panic the handler is used again: `fail_tokens` runs `on_failed` with it.
- `on_failed` closures run outside `catch_unwind` in teardown and destruction; a
  panic there unwinds the looper without an exit reason.
- On `connection_lost` with a handler that stops, two exit reasons are sent.
- The cap negotiated in the handshake does not reach `ActiveSession`, and
  `process_sync_request` does not ask for it.
- A request on a session already torn down is settled only when the looper ends.
- Nothing in production code sends `LocalRevoke`, and only tests install async entries.

## 7. What is not modelled, and why

- Payload contents, versions, peer credentials, logging and file paths: no property tells their values apart.
- The handshake: one question and one answer before any shared state exists. Inside `accept` it is one step.
- `LooperCore::run` (the loop used without calloop), the NewConnection handoff and the async executor:
  other ways to drive the dispatch that `Looper` models.
- Timers (a table only the looper thread touches) and the watchdog (it only logs).
- Publishing: a notification goes through an unbounded queue of the `par` library to the write buffer;
  the order in which subscribers come and go is in `Looper`.
- In-memory transports, peer authentication, the example program: I/O. Lenses and attributes: pure
  higher-order functions.
- `src/reference`: sources of Haiku (C++) and documentation of Haiku and Plan 9, kept in the repository
  to read. No crate builds or calls them, so they are no part of the program.

## 8. What could follow

1. Server and panes composed: the environment assumptions of `Looper` and `PaneClient` (nothing after
   a teardown, no announcement twice) shown to be what `ProtocolServer` provides. `SessionOrder` is the
   server's half of it.
2. The NewConnection handoff between bridge and `ConnectionSource`.
