# fast-relay in TLA+

A specification of the relay server in this repository: clients hold one
WebSocket each, identified by a public key, and send frames that name up to ten
recipient keys; the server hands the payload to the connections registered under
those keys and forgets it. Paths below are relative to the repository
(`src/internal/...`).

## 1. The system

| Part | Source | State | Operations |
|---|---|---|---|
| Connection registry | `internal/domains/relayer/relayer.go` | `connectors` (sync.Map), `connCount` (atomic) | `OnConnect`, `OnDisconnect`, `GetConnectorByKey`, `Count` |
| Router | `relayer.go` `HandleMessage`, `internal/core/protocol.go` | counters `processed`, `delivered`, `noRecip`; the loop's locals | `HandleMessage`, `ExtractTargets`, `DeliverTo` |
| Connector | `internal/network/ws_connector.go` | `isClosed`, `outChan`, an RWMutex, the WebSocket | `SafePush`, `Close`, `ReadWriteLoop` with its write pump |
| Frame reader | `ws_connector.go` `readMessageWithFixedFromID`, `internal/core/message.go` | the bytes not yet read, the buffer | one frame in, a buffer or an error out |
| Buffers | `internal/mem` | `refs`, the memory | `NewBuffer`, `Retain`, `Release` |
| Metrics | `relayer.go` | `latencyCh`, Welford sums, reservoir | `RecordLatency`, worker, `LatencySnapshot`, `FetchMetrics`, `Close` |
| HTTP server | `internal/server/server.go`, `cmd/relayer` | handlers in progress, CPU sampler | `wsHandler`, `/metrics`, `/register`, `Shutdown`, authentication |
| Interactive client | `cmd/client` | recipients chosen, the line being sent | `/chat`, `/exit`, `/quit`, a line in chunks |
| Load generators | `cmd/churntest`, `cmd/loadtest` | a connection and a reader per client, contexts, totals | dial, send, receive, leave, retry; cancel and summary |

How they interact. `wsHandler` authenticates a request, makes a connector, calls
`OnConnect` and runs `ReadWriteLoop` until the connection ends. The read loop
turns a frame into a reference-counted buffer and calls `HandleMessage`, which
looks each recipient up in the registry and pushes the buffer to that
connection's `outChan`, retaining it once per push. The recipient's write pump
takes it out, writes it, releases it and reports the outcome. Everything that
several goroutines touch is shared without a global lock: the registry map, the
counters and the reference counts are single atomic words or a concurrent map,
and only `isClosed`/`outChan` of one connector have a lock. The clients share
nothing with the server but their WebSocket; what one of them has closed, the
server's goroutine for it learns later.

What is hard, and what must be true for each part:

* *Registry.* Map and counter change in two steps; a key may be taken over by a
  second connection at any time and the first one leaves later. The counter must
  not drift, and nobody may evict the connection that replaced it.
* *Router.* Between lookup and push the connector may be closed or replaced.
  Each recipient key gets a message at most once, nobody else gets it, the list
  of recipients never leaves the sender's goroutine, and a slow recipient never
  blocks the sender.
* *Buffers.* Sender and up to ten recipients release one buffer in any order:
  never too early, never twice, always in the end.
* *Connector.* Pushes race with two callers of `Close`; in Go a send on a closed
  channel and a second close are panics. When a write fails the pump has to wake
  the read loop and release all that is queued.
* *Frame reader.* Every error return has to release the buffer it allocated, and
  only frames whose length adds up may pass.
* *Interactive client.* It cuts lines into frames while the server reads the
  frames at its own pace, and a signal, a failed read or a failed write may end it
  between two of them. Nothing may be swapped or sent to recipients chosen later,
  and only the end of a line that was being written may be lost.
* *Load generators.* A dial that timed out may be accepted by the server after the
  next one; a client that left may still be registered; a read goroutine may
  outlive its client and count after the totals were printed.
* *Metrics and shutdown.* The latency channel is bounded and is closed by
  shutdown while connections may still deliver.

## 2. Modules

| Module | What it is |
|---|---|
| `Directory` | abstract: what the registry promises, one step per connect and disconnect |
| `Registry` | the registry, both halves of `OnConnect` and `OnDisconnect`; implements `Directory` |
| `RegistryProofs` | its theorems |
| `DropQueue` | abstract: what `SafePush` and `Close` promise (`core.Connector`); `Connector` implements it, `Relay` relies on it |
| `Connector` | one connector at the level of its lock and channel; implements `DropQueue` |
| `ConnectorProofs` | its theorems |
| `Relay` | extends `Registry` by read loops, `HandleMessage`, write pumps and buffers of any number of connections |
| `RelayProofs` | its theorems about the registry, types, audience and uniqueness of messages, and the use of the queues |
| `Multicast` | abstract: what `HandleMessage` and the write pumps promise together; `Relay` implements it |
| `RelayDeliveryProofs` | the proof of that, of the reference counts, of what is counted, of the order on a link and of what a connection leaves behind |
| `Clients` | extends `Registry` by the clients of both load generators and the handlers of their connections |
| `ClientsProofs` | its theorems |
| `Frame` | one turn of the read loop: the frame reader read by read, the layout of `core.Message`, `ExtractTargets` |
| `Chat` | extends `Frame` by the interactive client at the other end and by one turn after another |
| `FrameProofs` | the theorems about `Frame` and `Chat` |
| `Latency` | the latency worker's arithmetic and `LatencySnapshot` |
| `Metrics` | extends `Latency` by the counters, the channel, the worker, `FetchMetrics`, `Close` |
| `Server` | extends `Metrics` by `/metrics` requests and the shutdown of the process |
| `MetricsProofs` | the theorems about `Latency`, `Metrics` and `Server` |
| `DataLemmas` | what the last two proof modules need to know of numbers, sequences, sums and sorting |
| `MC...` | give the constants values for TLC |

Definitions whose comment calls them a *fault* are variants of the action that
follows them with a plausible mistake in it. No specification uses them: put in
place of the action, each makes the property it is meant for fail.

### Registry

`connectors` and `connCount` are the fields of `Relayer`; `life[c]` is how far
connection `c` is through `wsHandler`. `OnConnectSwap`/`OnConnectAdd` are the two
statements of `OnConnect`, `OnDisconnectDelete`/`OnDisconnectAdd` those of
`OnDisconnect`. Two connections of the same key overlap in all ways. `Registry` runs as part of
`Clients` and of `Relay`, which say when connections come and go.

### Clients

Every dial is a connection `c` of the server, and `owner[c]` the client that may
make it. `link[c]` and `broken` are what the two sides of the socket know: the
handler (`HandlerStep`) upgrades a request, runs `OnConnect`, and runs
`OnDisconnect` when reading fails; `link[c]` says how far it is before that,
`life[c]` from then on. A client is two goroutines. `loop[a]` is its position in
`runChurnClient` or `runConnector`:

    churn: start -> dialing -> online -> close -> join -> offline -> start
             \-> retry <-/
    load:  start -> dialing -> online -> join -> close -> done
                          \-> done  \-> drop -> dropped   (failed write)

and `reader[a]` its position in the read goroutine. `Cancel` and `Summarise` are
`main`: cancelling the context, and `wg.Wait` with the totals that follow it. A
total is an atomic counter that only grows, so what matters of it is whether it is
still added to after it was printed: `late`. A given-up dial (`DialFail`) breaks the
attempt, and the handler may upgrade it all the same, register it, and find out
when it reads. Both programs call their clients C1, C2, ..., so one of each may
have the same key.

### Relay

Each connection has a position `rpc` in `wsHandler`, `ReadWriteLoop` and
`HandleMessage`, and a position `wpc` in its write pump:

    rpc: idle -> read -> handle -> lookup -> retain -> push -> lookup ... release -> read
                   |                                     \-> undo -> lookup
                   \-> leave (OnDisconnect, Close) -> hangup -> done
    wpc: none -> recv -> write -> sent -> recv ... -> done
                          \-> failed -> close -> hangup -> drain -> done

One action is one statement that other goroutines can observe: a lookup in the
map, an addition to a reference count, a push, a locked half of `Close`, a
`conn.Close`. `ExtractTargets`, the increment of `processed` and `ZeroToIDs` are
one action, because until the first push the read loop is the only holder of the
buffer. The end of a write and the release after it are one action, because whether
the write succeeded shows on nothing that this process shares; the counter is an
action of its own (`PumpCountSuccess`, `PumpCountFailure`). Between the two, at "sent"
and "failed", the buffer may be gone and the message in no counter. `SafePush` and the locked half of `Close` are atomic here, as the
abstract queue `DropQueue` has them. `Connector` shows that the lock implements that
queue; `UsesDropQueues` that each `outChan` and `isClosed` of the relay, with the
`DeliverTo` of every read loop that turns to it as a call of `SafePush`, behaves as
one (`Queue(d)`). `dest` is the connector of the target whose turn it is, and is
`None` as soon as a refused push was undone or the loop over the targets is over.

A message is a number. The frame's content is its set of recipients (repeated
recipients are rejected by the reader), and the order in which `HandleMessage`
visits them is left open, which allows more behaviours than the code's loop. The
payload has no influence and is left out. `wire` is a history variable: what was
written to each WebSocket.

`Multicast` is implemented with `submitted` as `received`, the audience as the
recipients without the sender's key, `reached` as the pairs of a message and a key
that occur on a `wire`, and `count` as `delivered` plus the pumps that are about to
add one to it: a write is a `Reach`, all that happens between is stuttering.

The peer and the network decide on `PeerStep`: connecting, sending a frame
(`ReadFrame`), violating the protocol (`ReadInvalid`), leaving (`ReadError`), and
whether a write succeeds (`PumpWriteOK`, `PumpWriteFail`). A write cannot succeed
once this side has called `conn.Close`; a frame can still arrive then, while the
closing handshake is under way.

### Connector

The RWMutex has the semantics of Go's `sync.RWMutex`: a writer that waits holds
back new readers (`wlock` is set by `LockAnnounce`), and enters when the readers
there are have left. The channel keeps its own `chanClosed`; sending on a closed
channel or closing it again sets `panicked`.

### Frame

A WebSocket message is a sequence of cells: the recipient count, recipients, the
declared length, payload bytes. `wire` is the message, `pos` how much of it was
read, and `ending` how it ends; each read of
`readMessageWithFixedFromID` is an action (`ReadCount`, `ReadHeader`, `ReadBody`,
`Probe`), an `io.ReadFull` that meets the end too early takes the branch of its
error, and `Switch` is what the read loop does with the result. `Return` is a
`return` statement and leaves the reference alone; the three returns that follow the
allocation (lines 165, 176 and 180 of `ws_connector.go`) have a `Release` of their own,
as in the code. A key is one cell
instead of 32 bytes and the length one cell instead of four, so a buffer is a
sequence `<<from, count, to ..., length, data ...>>`, and the accessors `ToIDAt`,
`Payload`, `ZeroToIDs` keep the offset arithmetic of `core.Message` in cells.

### Chat

The peer is either any program, which sends one message of any shape, or the
interactive client. `Command` is `/chat` and `/exit`, `TypeLine`, `SendChunk` and
`LineSent` are the loop that cuts a line into chunks of `maxPayloadPerFrame`,
`Leave` is `/quit`. `Lost` ends the client at any point, between two chunks of a line
as well: a signal or a read that failed cancels its context, or `conn.Write` fails. `sock` is what was written and not yet read; the server takes
the next message when its read loop comes round (`NextMessage`), whatever the
client is doing then. The connection may break in every message, which the server
then gets only the beginning of, and between two messages (`ReaderFails`). `typed` and `heard` are history: what was typed for whom, and
the buffers that were handed to `HandleMessage`.

### Latency, Metrics and Server

`Latency` computes in exact fractions: the mean in units of `1/Scale`, the sum of
squares in units of `1/Scale^2`, percentiles in units of 1/100. `Aggregate` is the
worker's critical section, `LatencySnapshot` the copy under the lock with all that
is computed from it. Sorting the copy is some order of its places that sorts it; the
result does not depend on which.

In `Metrics` a pump goes `idle -> write -> record -> idle`; the message it writes
comes from `Process`, which stands for the whole of `Relay` with one recipient per
message. `RecordLatency` has the three outcomes of its `select` (queued, dropped,
panic on a closed channel). `FetchMetrics` reads the snapshot and the three
counters in four steps.

`Server` runs `main`: `Signal`, the statements of `Server.Shutdown`, the wait for
requests in progress (`Drained`, `DrainTimeout`). `http.Server.Shutdown` does not
wait for hijacked connections, so pumps go on until the process ends (`Alive`).

## 3. What is checked

| Run | Question | Result |
|---|---|---|
| `clients` | registry under clients that give up, leave, return and share names; is a cancel always answered, are the totals final, does the registry empty? | holds |
| `clients_online` | is a connected client always registered? | violated, see 6 |
| `relay_reconnect` | references, delivery and privacy, the erased recipient list included, while a key is taken over | holds |
| `relay_fanout` | do the counters add up, from below and from above, for messages to two recipients; is the relay a multicast? | holds |
| `relay_order` | order on each link, senders never held up; is every connector used as the queue it promises to be? buffers freed and closed connections cleaned up in the end | holds |
| `relay_no_recipient` | is `noRecip` bounded by `processed`? | violated, see 6 |
| `connector` | panics, deadlock, unfounded refusals; do `SafePush` and `Close` return? | holds |
| `frame` | which frames pass, what they become, does each way out of the reader balance the buffer, what arrives of a line when client or connection end anywhere in it? | holds |
| `chat_limit` | can a client read whatever another one sends? | violated, see 6 |
| `latency` | online mean and variance, reservoir, percentiles against references | holds |
| `server` | accounting of latencies, answers of `/metrics`, end of the process | holds |
| `server_panic` | may deliveries go on during shutdown? | violated, see 6 |

Bounds. `clients` has three connections of one key. With one churn client they are
three dials, so an attempt that was given up, a connection that is being left and
the current one meet in the registry; with a churn and a load client two programs
take the key from each other. A third client or key would add nothing: entries of
different keys do not touch each other, and any two connections of one key are
covered. The `relay` runs
have two or three connections. Two of one key and one of another are what a
take-over needs (the two of one key are interchangeable, so the run uses that
symmetry); three keys are what a message with two recipients needs; two
connections with three messages fill a queue of two and keep one in the pump.
`MaxMsgs` bounds the frames received in one behaviour; a frame interacts with
another only through a queue place, an order on a link or a counter, for which
two or three suffice. Queues hold one or two messages, so full, partly full and
empty all occur. `connector` has three pushers, both closers and a channel of
two. `frame` has every message of up to six cells with values up to 4, for at most
3 recipients and 2 payload bytes: counts and lengths below, at and above their
limits, and messages too short and too long by one. Its chat client types two lines
of one to three bytes, in chunks of two, with no list and with lists of one, two, a repeated and too
many recipients: a line may be one chunk, or two, and may be read by the server
after the recipients were changed. `latency` has six samples in a
reservoir of four, so the reservoir is full twice over in its replacing branch, and
durations whose gaps differ, so interpolation positions are told apart. `server`
has a latency channel of one place and four messages from two pumps: full, empty
and closed with a sample queued and one in the worker's hand all occur.

Fairness. `FairSpec` of `Relay` has weak fairness for each connection's goroutine
steps (`ReaderStep`, `PumpStep`): the Go scheduler runs what can run, and
`conn.Write` is called with a timeout of five seconds, so a write ends one way or
the other. A blocked `Reader` returns after this side has hung up
(`HangupFairness`). Nothing makes a peer connect, send or leave.
`FairClients` has weak fairness for a client's two goroutines, for the server's
handlers and for `main`'s summary: goroutines run, timers fire and `websocket.Dial`
has a timeout of five seconds. `Stop` has strong fairness because the `select` it
comes from takes each ready case with the same chance while a ticker keeps another
one ready, and `ReadFail` has because a read whose context is cancelled fails in the
end although a frame may be there each time. Nothing makes anyone cancel, and no
connection fails unless somebody closes it.
`SenderNeverBlocked` relies on no fairness at all: it says
that the step is enabled. `FairSpec` of `Connector` has fairness for calls that
have begun, none for beginning one and none for the receiver. `ServerFairSpec` has
fairness for `main` and the worker only; the deadline of ten seconds is an action
of `main` that is enabled as long as a request is in progress.

Deadlock is checked for `Connector`. The other systems may stop: every connection
has left, the clients have returned, the message is dealt with, the samples are used up, the process has
ended.

## 4. What is proved

`RegistryProofs`, for any finite sets of connections and keys: type correctness,
`NoStaleEntry`, `CountTracksRegistry`, `OnlyOwnerDeletes`, and that the registry
implements `Directory`. `RegTypeOK /\ NoStaleEntry` is inductive. The counting
equation follows because each step moves one element into or out of two of the
sets it relates, which the lemmas `SwapCounts` to `DisconnectAddCounts` state; the
same lemmas give the refinement, whose count is `connCount` plus the connections
that still have to add one minus those that still have to subtract one. The
assumptions are `RegistryAssumption`.

`SoleIsRegistered` says when a connection that has connected and not begun to
disconnect is what its key resolves to: whenever no other connection of the key has
connected. So only a takeover can make an online connection unreachable (see 6).

`ConnectorProofs`, for any number of pushers and closers and any capacity: type
correctness with the bound of the channel, `NoPanic`, and that the connector
implements `DropQueue`. `NoPanic` alone is not inductive. `LockInv` adds that the
pushers between `RLock` and `RUnlock` are the holders of the read lock, that a
closer in its critical section is alone, and so that the flag a pusher tested is
still false when it sends. The assumptions are `ConnectorAssumption`.

Two more results need no fairness. `LockNeverStuck`: whoever is inside `SafePush` or
`Close` can take the next step, or waits for a closer that can, or that waits for readers
who can; so the callers never wait for one another in a circle. It names the guards of
the steps instead of ENABLED, and needs that a lock that is taken has an owner inside
its critical section, or waiting to enter (`WriterInside`).
`CloseLeavesClosed`: whoever has returned from `Close` leaves a closed connector,
also when another call did the closing.

`RelayProofs`, for any finite sets of connections and keys, any frames, any
capacity of the queues and any number of messages, from `RegistryAssumption` and
`RelayAssumption`. A step of the relay is a step of `Registry` or leaves it alone
(`RelayImplementsRegistry`), so `NoStaleEntry` and `CountTracksRegistry` hold here,
too. Three invariants follow, each inductive given the ones before:

1. `ControlOK` (with the types): at which positions of `rpc` and `wpc` a goroutine
   holds a message and a connector.
2. `AudienceOK`: the message a read loop routes is its own, the targets left are
   recipients other than the sender's key, and whoever has a message is of a
   recipient key and got it after the list was zeroed. The step from a lookup to
   its connector needs `NoStaleEntry`: the connector found has the key looked up.
   `OnlyToRecipients` is its consequence.
3. `UniqueOK`: at most one connection of a key has a message, at one place (queue,
   hand or WebSocket), and nobody of a key that a read loop has yet to serve has the
   message it routes. `OncePerKey` is its consequence. It is not inductive without
   the part about pending targets (`PendingOK`), which says why a take-over between
   two targets cannot lead to a second push.

`NothingStranded` is inductive with the types.

`RelayUsesDropQueues` is the composition with `Connector`: a step of the relay is, for
each connection, a step of its `DropQueue` or leaves that queue alone. A `DeliverPush`
takes a call of the read loop from its beginning to its outcome (`DeliverIsPush`); the
step that turns to the next target, or ends the loop, is the call's return
(`TurnEndIsReturn`); `PumpRecv` and `PumpDrain` are receives, either locked half of
`Close` shuts the queue. With `ConnectorImplementsDropQueue` nothing that the relay
assumes of a connector is left to trust: what one side proves is what the other
side uses.

`RelayDeliveryProofs` proves `RefsExact` and `NeverRevived` from these. In every step
the holders of a message stay as they are, one joins, one leaves or one hands over
to another (`Balanced`), and the count moves along. That the holder that joins is
new and the one that leaves is gone is what `PlacesOK`, `PendingOK` and
`AudienceOK` are needed for.

The same module proves `CountersAddUp`, from both sides. From below it is `NoSilentLoss`.
A message is *open* while it is queued, being written, or being routed with no push done,
and *settled* when it was processed and is not open. The *ledger* is the two counters and
the pumps that are about to add to one of them. As long as nothing is closed, no pump
drains (`DrainOK`), each step settles at most one message, and a step that settles one
adds one to the ledger (`Accounted`): `HandleDone` counts, and a write that ends leaves a
pump that is about to. A pump that then counts leaves the ledger as it is. So at most the
ledger's sum is settled (`AccountOK`). What is open has a holder, hence a reference by `RefsExact`, and
`processed` is the number of messages whose list was erased (`ProcessedOK`).

From above it is `CountedOnce`, which holds always, with closing and draining. A pair of a
message and a recipient key is *through* when no read loop has yet to serve the key and no
connection of the key keeps the message for its pump; a message has *ended* when its read
loop has left the loop over the targets. Neither is ever undone (`Lasting`), and every
step that counts a delivery or a failure makes one pair through or one message ended
(`Paid`). That a pair that is through is not served or kept again needs `UniqueOK`.

It proves `LinkFIFO`: what a connection is given is in the order of
the numbers for each sender, because the message a read loop routes has a greater
number than all that this read loop routed before.

And it proves the refinement: every step of the relay is a `Submit`,
a `Reach` or a stutter of `Multicast`. A successful write is a `Reach` because
`OnlyToRecipients` puts the key into the audience and `OncePerKey` says that it did
not have the message.

The last two theorems are about the end. `ConnectionsLeaveNothing`: when both goroutines
of a connection have returned, in whatever order and whoever closed it first, it is closed
and hung up, no key resolves to it, and it holds no message. `LeavingOK` is the invariant:
a closed connection is hung up or whoever closed it is about to hang up, and a read loop
closes after `OnDisconnect`. `RelayEndsAsItBegan`: when that is so of all connections there
have been, the registry is empty, the counter is zero and every buffer is freed, from
`RefsExact` and `CountTracksRegistry`. That this moment comes is liveness, which TLC
checks (`ClosedIsCleanedUp`, `BuffersFreed`).

`ClientsProofs`, for any clients, programs, keys and connections, from
`RegistryAssumption` and `ClientsAssumption`: every step of the clients is a step of
`Registry` or leaves it alone, hence the registry's theorems and the refinement of
`Directory`; the types; and `LateCounts`. The invariant under it (`StageOK`) says
where the reader may be at each position of its client's loop, and that a reader
left behind finds its connection closed. `SoleClientIsReachable` carries
`SoleIsRegistered` over to the clients.

`FrameProofs`, for any limits, any chat client and any message of any other program,
from `FrameAssumption` and `ChatAssumption`: all seven invariants of the `frame` run.
Two inductive invariants carry them.

1. `TurnInv` is about one turn of the read loop. `ProgressOK` says for each position
   which checks the message has passed so far and that the buffer holds the sender
   and a copy of what was read; `RefOK` says at which positions there is a reference,
   and with it `TurnLeavesNothing`, return by return. The checks together are `MessageOK`, and the
   outcome is "ok" exactly for these messages: that is `AcceptsExactlyWellFormed`. The
   buffer of an accepted message is the sender in front of the whole message, and
   `MessageAsSent` and `StrippingKeepsTheRest` follow by computing the offsets of the
   accessors. `TargetsExact` is about the loop of `ExtractTargets` on that buffer:
   after each recipient the targets are the recipients so far without the sender, in
   their order (`FirstTargets`), by induction over the list.
2. `ChatInv` is about both ends while a chat client is the peer. `ClientOK` says that
   every frame written is a chunk of a line for the recipients it was typed for, and
   what is being read is such a frame or, if the connection broke, the beginning of one;
   so the only violation the server can find is a repeated recipient. `FlowOK` is a
   conservation law: the bytes typed, each with its recipients, are those heard, then
   those in the message being read, then those waiting in the socket, then those of
   the line still to be written. Every step leaves that sequence as it is, or extends
   it by a line typed, and moves bytes from one part to the next. From the moment the
   connection is broken or the loop has returned, what is heard stays and is a beginning of
   what is typed. `ArrivesAsTyped` is its consequence: with all of the line
   written, nothing in the socket and the connection whole, the parts behind those heard
   are empty.

`AcceptedLength` follows from both: what is accepted is at most a full header and
`MaxDataLen` long, and a full header and `ChunkSize` when the chat client sent it.

`MetricsProofs`, for any durations, reservoir, channel capacity, pumps and callers,
from `LatencyAssumption` and `MetricsAssumption`: the types, with the bounds of the
channel and the reservoir and a sum of squares that is never negative;
`ReservoirIsSample`; `EveryDeliveryTimed`, which is inductive with the types because
each step moves one latency from one of the terms to the next;
`CloseFlushes`, because a worker that exited left nothing in its hand or in the
closed channel (`WorkerOK`); and `AnswerConsistent`, because the number of latencies
was at most that of the deliveries when it was read and deliveries only grow
(`ReportOK`). `PanicOnlyInShutdown` relates the position of `main` to that of `Close`
(`PhaseOK`): no delivery panics before Shutdown has closed the App, and the process does
not end in order before `Close` has returned.

The numbers of the latency report are proved, too. `MomentsAreExact` becomes inductive
with `latencyCount = SumFunction(recorded)` (`MomentsInv`). A new sample adds one
summand, and moves the mean that every square in the sum is taken from; the sum of the
squares around the new mean is expanded into sums around the old one (`SumIsLinear`),
which the invariant gives, and the rest is Welford's identity (`SquaresAddUp`). That the
division of the update comes out even follows from `Scale` being a multiple of n and
of n + 1 (`NeighboursDivide`). `LatencyAssumption` has `Durations` finite for the sums
to be defined: they are 64-bit integers in the code. `QuantilesAreR7` compares the
interpolation between two places of the sorted copy with a definition that does not
sort. It needs that a sorting order exists (`OrderExists`: the place of a sample is
the number of those that are smaller, or equal and in front, which makes a bijection),
that its k-th element is the k-th smallest sample and the only one (`OrderCounts`,
`OnlyOneInPlace`), and that both sides look at the same place (`PlaceFound`).

`DataLemmas` holds what these proofs need to know of data. The induction theorems of
the library take an operator as a parameter and cannot be instantiated here, so
induction is a lemma about sets (`SetInduction`): a set of natural numbers with 0 and
every successor is all of them, because the rest has no least element. From it follow
the existence and the uniqueness of functions defined by a loop, hence of
`FlattenSeq` and `SumFunction` of the community modules, which are such loops.

Model-checked only are: all liveness (`BuffersFreed`, `ClosedIsCleanedUp`,
`CancelEnds`, `Drains`, `CallsReturn`, `ShutdownEnds`), which is out of the prover's
reach, and `SenderNeverBlocked`, which is about ENABLED, as
well. What can be said of the first without ENABLED is in the theorems: a push has an
outcome whether the queue is full, closed or neither (`RelayUsesDropQueues`), and the lock
under it is never stuck (`LockNeverStuck`). Every other property of a passing run is a
theorem.

## 5. What is not modelled

* The CPU gauge, `/register`, the JSON of `/metrics`, logging, flags: I/O without
  state that another part depends on.
* Authentication: a pure check of a request before any of this begins. Only its
  result, the key of a connection, is there.
* jemalloc, the WebSocket library, `net/http`: external; their behaviour is the
  environment described above.
* Floating-point rounding in the statistics, and the square root.
* Of the interactive client: how the text of a recipient becomes a key
  (`parseRecipients`), and its reader, which prints frames and keeps nothing.
* Of the load generators: the goroutines that poll `/metrics` and print statistics
  every second, random choices (left open here) and what frames contain. The frames
  of one client to another are what `Relay` is about.

## 6. Where code and documentation disagree

* An online client can be unreachable (`clients_online`). A client that gives up a
  dial after five seconds (`cmd/churntest/main.go:176`) dials again. If the server
  accepts the first attempt after the second, `OnConnect` lets it take the key over,
  and when its handler finds that nobody is there, `OnDisconnect` deletes the entry.
  The live connection stays online and unregistered. `Comunication.md:100` says
  frames are delivered to recipients "if they're online". What holds is
  `SoleClientIsReachable`: a client connected at both ends is found under its key if no
  other connection of that key has been accepted.
* A client cannot read the largest frame another one sends (`chat_limit`). The chunks
  of `cmd/client/main.go:169` are as long as the library's default read limit, and
  the header comes on top. What holds is `AcceptedLength`: a message of the client is at
  most a chunk and a full header, so a read limit of that sum would do.
* `noRecip` counts more than "messages dropped because no recipient was found"
  (`relayer.go:23`): a refused push counts once for the target and, if nobody else
  got the message, once more for the message; a failed write counts too
  (`relay_no_recipient`). What holds is `CountedOnce` (`CountersExact`): deliveries and
  failures together are at most one per message and recipient, and one more per message.
* A delivery during shutdown ends the process with a panic (`server_panic`).
  `Server.Shutdown` closes the App before the HTTP server, and the HTTP server does
  not wait for WebSocket connections; a pump that then calls `RecordLatency` sends
  on the closed channel. `cmd/relayer/main.go:31` calls the shutdown graceful, and
  `app.go:74` wants `RecordLatency` safe to call from any write pump; what a call
  after `Close` does is unspecified (`app.go:80`), so it is the server that breaks
  the contract by closing the App under running connections. What holds is
  `PanicOnlyInShutdown`: before that moment no delivery panics.

Four more places where a comment or a message says more than the code does, without a
run of their own.

* `relayer.go:28` says that `latencyCount` "matches delivered count". `RecordLatency`
  drops a sample that finds the channel full (`relayer.go:232`), after the delivery was
  counted, and nothing makes up for it: from then on `latencyCount` stays below
  `delivered`. What holds is `EveryDeliveryTimed`: the difference is exactly what was
  dropped, plus what is on its way.
* The client says that what is typed without recipients is broadcast
  (`cmd/client/main.go:25`, `:106`, and to its user at `:139`), and prints "sent" for each
  such line. The server discards a frame without recipients (`ws_connector.go:120`, as
  `Comunication.md:97` has it), so nobody gets it. In `Chat` these lines are typed and
  written like any other, and no part of `BytesTyped`. What holds is that they reach
  nobody, the recipients chosen before or after included, and do no harm to the lines
  around them (`ArrivesAsTyped`).
* `relayer.go:20` says that `connCount` "mirrors len(connectors)": it does
  up to the halves of `OnConnect` and `OnDisconnect` still to come, and so can be -1
  for a moment, when a connection is replaced and gone before its own addition;
  `CountTracksRegistry` says exactly how far it is off.
* `buffer.go:24` says that `Retain` panics on a buffer whose count has reached zero; it
  only adds one. The relay never does that (`NeverRevived`, proved as `FreedForGood`), so
  it is the missing check and not a failure of the relay.
