# Verification of legio

legio is a peer-to-peer network: nodes link to each other over WebSockets and WebRTC data
channels, announce their neighbours to the whole network, compute routes from what they hear and
carry signaling and user messages over them. This directory models that program in TLA+, checks
the models with TLC and proves the main invariants with TLAPS. Paths below are relative to the
repository; line numbers are those of the modelled commit.

## The system

| Component | State | Operations | What makes it correct |
|---|---|---|---|
| `Graph` (`src/impl/graph.cpp`, `state.cpp`) | a vertex per known node with its last `State` and its edges, the routing table, two sequence numbers, a shared mutex | `update` broadcasts a Hello; `notify` handles Hello, State and Neighbor events; `insert`, `updateVertice`, `updateEdges`, `broadcastState`, `computeRoutingTable` | states only get newer; no one has a newer state of a node than the node; edges and table follow the states; all nodes end up with all states |
| `Routing`, `RoutingTable` | the set of channels, a channel per neighbour, the published table | `addChannel`, `removeChannel`, `addNeighbor`, `broadcast`, `route`, `findRoute`, `setTable` | a neighbour is reached through a channel that leads to it; a route goes to the next hop |
| `Transport`, `BroadcastableTransport` | a send sequence number, the last number accepted from every node | `send`, `broadcast`, `incoming`, `checkSequence` | no message twice; order; a broadcast reaches everyone; a flood ends |
| `Networking` | WebSockets it dials, peerings by node | `update` (one more peering, up to four), `connectWebSocket`, `connectPeer`, `receive` | one peering per node; peerings are not leaked |
| `Peering` | a peer connection and a data channel | `connect`, `receive`, `sendLocalDescription`, `setDataChannel` | two simultaneous offers settle on one connection; callbacks act on their own channel |
| `Server` | WebSocket server, port mapping, external address | constructor, `PlumMappingCallback`, `url`, destructor | the URL follows the last mapping and names a port that is served |
| `Scheduler` | tasks ordered by time and number | `enqueue`, `schedule`, `cancel`, `run` | order, no early run, no run after `cancel` |
| `Message`, `CipherBody`, `State`, binary utilities | none | encoding, signing, encryption and back | decoding inverts encoding, notices damage and ends |
| `Component`, events, `Node`, `peer/main.cpp` | the list of components | `emit` calls every component's `notify` on the emitting thread; the main loop calls `update` every 200 ms | |
| cryptography, identifiers | keys | calls into Crypto++ | taken for granted, as far as the codecs rely on it |

How they interact: a channel's message callback runs on a thread of libdatachannel, enters
`Routing::route` and is emitted as an event; `Graph` and the transports handle it on that same
thread, call back into `Routing` to forward or broadcast, and `Routing::addNeighbor` emits a
Neighbor event that `Graph` handles, also on the same thread. The locks are taken in the order `Networking::mMutex`,
`Graph::mMutex`, `Routing::mMutex`, `RoutingTable::mMutex`. In a WebAssembly build there is one
thread and all callbacks run on it.

What is hard: callbacks of different channels interleave between any two lock acquisitions, and the
handler of a Neighbor event and the members of `Peering` have no lock at all that keeps other
threads out; a channel is removed by any thread at any moment and without an event; states
and broadcasts arrive several times and in different orders over the cycles of the network;
channels fail with messages in them; sequence numbers wrap around; the first state of an unknown
node makes the local state be broadcast from inside the insertion. `PROJECT.json` lists these
hazards line by line with the properties that watch them.

## Modules

| Module | Models |
|---|---|
| `RouteComputation` | `Graph::computeRoutingTable`, one action per step of its loop |
| `SequenceNumbers` | `uint32_t` numbers and `compare_sequence` |
| `LinkState` | `Graph` and `Routing` of a network of nodes, and the channels between them, with the callbacks of a node one after another |
| `GraphThreads` | the concurrent callbacks of one node in its `Graph` and `Routing`, one action per access to shared data |
| `Transport` | `Transport` and `BroadcastableTransport` over the links of a network that is otherwise at rest |
| `Peering` | `Networking` and `Peering` of two nodes: offers, answers, data channels, and the callbacks that run while `connect` does |
| `OfferAnswer` | what an exchange of offers and answers promises; `Peering` implements it |
| `Server` | the constructor and the destructor of `Server` against the mapping callback |
| `Scheduler` | `Scheduler`, with any threads that schedule and cancel |
| `Binary` | base64, hexadecimal, packed strings, byte order and the reader, as operators |
| `Codec` | a message or a text through its encoding, perhaps some damage, and its decoding |
| `RouteComputationProofs`, `LinkStateProofs`, `GraphThreadsProofs`, `TransportProofs`, `PeeringProofs`, `ServerProofs`, `SchedulerProofs`, `CodecProofs` | theorems and proofs about the module of that name |
| `MCRouteComputation`, `MCLinkState`, `MCGraphThreads`, `MCTransport`, `MCPeering`, `MCServer`, `MCScheduler`, `MCCodec` | instances for TLC |

`LinkState` uses the table that `RouteComputation` publishes: `computeRoutingTable` in `LinkState`
is the operator form of `DirectRoutes`, and `SearchPublishesDirectRoutes` is the theorem that the
loop computes just that. `LinkState` and `Transport` share `SequenceNumbers`. `Peering` takes the
`Transport` as given (descriptions arrive in order or are lost, which is what `InOrder` says of it),
and a data channel that it opens is a channel of `LinkState`, as an accepted WebSocket of `Server` is.
`GraphThreads` is a node of `LinkState` seen from inside: `LinkState` says what a network does whose nodes
handle one callback at a time, `GraphThreads` what is left of it for a node when callbacks overlap.
`Codec` uses `Binary`.

### RouteComputation

`edges`, `nextHop`, `distance` and `visited` are the fields of `Vertice`, `queue` the priority
queue, `top` the pair under treatment, `left` the part of the inner loop still to come. `Visit` is
lines 239-240, `Scan` an iteration of 241-250, `Pop` 252, `Publish` 255-261. The queue orders equal
distances by address and the edges are an `unordered_map`: both orders are left open.

### LinkState

`graph[n]` is the `Graph` of node n, `mChannels[n]` and `mNeighbors[n]` are those of its `Routing`;
`status`, `opened` and `net` are the connections behind the channels, which libdatachannel keeps:
a channel is opened by one node (`Dialer`), accepted by another (`Acceptor`) and used once. Two
nodes may be linked by several channels. `Close` is a failing connection, which loses a suffix of
what is in flight; `OnClosed` is `removeChannel`, which accepted WebSockets never call because `Server`
sets no `onClosed` on them.

The callbacks of a node do not overlap: `MayStart` lets one begin, or the state of the node's channels
change, only when no other has something left to do (`rest`). This is what happens in a WebAssembly
build, which has one thread, and in a native build for as long as no two callbacks are at work at a time.
It is a premise of every result about `LinkState`, and a real one: the handler of a Neighbor event
(graph.cpp:70-76) does not hold `Graph::mMutex`, and most of the properties are false of a
native build whose callbacks overlap (see `GraphThreads` and the end of this file). Nodes
interleave: a callback is up to three steps, a Hello `ReceiveHello` (`hasNeighbor`), `AddNeighbor`
(`addNeighbor`) and `NeighborEvent`, a State `ReceiveState` (`insert`, including the broadcast of
the local state that it may start) and `Forward`.

`InitGraph` computes what the constructor of `Graph` does: it inserts a state with the number 0 - 1 of a
`uint32_t`, and the broadcast that this starts, whose number is 0, has to count as newer.

Abstractions: the ECDH key in a State, constant for an identifier while the program runs, is left
out; signatures are taken to be verified; a Hello that could change nothing is not sent
(`HelloWanted`), which leaves out only steps that end where they started.

### GraphThreads

One node of a native build and its local vertex. A channel stands for the thread of its callbacks,
of which `MaxCallbacks` may be at work at a time. A Hello is `ReceiveHello`, `AddNeighbor` and the
event (`ReadNeighbors`, `updateEdges`, then `broadcastState`) without `Graph::mMutex`; the first
state of another node (`Insert` ... `Unlock`) runs `broadcastState` under it. `updateEdges` is
`Current`, `Added`, `Removed`, `Erase` and `Apply`, and `broadcastState` is `LoadSequence` ...
`SendState`: each access to `edges`, `state`, `mStateSequence`, `mNeighbors` and `mChannels` is a
step. In the `updateEdges` that `updateVertice` calls, the wanted neighbours are a reference to
those of the stored state (`Wanted`), which another thread may have replaced since. `RemoveChannel`
is `Routing::removeChannel`, which any thread may call at any moment, whatever the callbacks of the
channel are doing.

The races are undefined behaviour in C++; the outcomes modelled are those in which each access
still takes effect as a whole. The history variable `overlapped` records that two callbacks were at work
at a time: `StateIsCurrent` is about the behaviours in which they never were.

### Transport

Nodes with a fixed set of links. `TakeSequence` is `mSendSequence++` in `send` or `broadcast`, `Send`
the sending that follows, `SendToSelf` and `DeliverToSelf` the same for a message to the node itself,
which is handled on the sending thread. `Incoming` is `incoming` with `checkSequence`, `Forward` the forwarding
of a broadcast, `Deliver` the application's callback. A message to a node that is not a neighbour is
numbered and then dropped, because the table has no route to it. The payload is the count of the
message; encryption is left out. `mSendSequence` starts with any of `StartSequence`: the code
gives it no initial value.

### Peering and OfferAnswer

Two nodes that are linked already. `mPeerings`, `mDataChannel`, `mChannels` and `neighbor` are the
members of `Networking`, `Peering` and `Routing` that concern the other node; `Others` counts the
peerings of a node with third nodes. Each node has two threads: "connect" is a call of
`Peering::connect`, "rtc" runs the callbacks of the connection and its channels one at a time.
`Networking::mMutex` keeps `Receive` out of a call of `connect`, and nothing keeps the callbacks
out: `mDataChannel` is read, reset and replaced without a lock. So `connect` is `Connect`
(`removeChannel` of what is there), `Close`, `Reset`, `Assign` and `Listen`, `onOpen` is `OnOpen`
and `AddNeighbor`, each with a read of `mDataChannel` of its own, and `thread` says where each of
the two is. Two reads are one step where that leaves nothing out: the test in `disconnect` with line
45 (only `connect` makes the pointer null, so the test stays true), and lines 106 to 117 of
`setDataChannel`. If those meet two channels, the first one is left without an `onClosed`, which the
model covers because an `onClosed` need not come; if they meet null on the way, it is on the thread
of the callbacks, and nothing looked at the functions set in between. A null `mDataChannel` that is
used ends the behaviour (`crashed`): a second call of `connect` while a callback is under way does
get there.

`Update` and `ConnectPeer` end in `Connect`; `Receive` is `Networking::receive` with the tiebreak of `Peering::receive`
(`Ignores`); `Callback` is `onLocalDescription` or `onGatheringStateChange`; `OnDataChannel`, `OnOpen`
and `OnClosed` act on `mDataChannel` as it is when they run, as the code does.

`signaling`, `description`, `gathering`, `callbacks`, `end`, `handlers` and `coming` belong to
libdatachannel, and the actions on them (`Gather`, `Acknowledge`, `Closed`, ...) are taken from how
the code uses it: the first data channel makes an offer, an offer that is set is answered at once
and rolls back an own one, an answer to no offer is refused, the descriptions of a connection come
in the order of their causes, `onOpen` and `onClosed` wait for the function to call and may come
late or never once a channel is closed, and a channel that nobody refers to is closed. `Send` may
lose a description: `Transport::send` throws as long as the state of the remote node is not known,
and a channel may fail.

`OfferAnswer` has the one variable `accepted` and the one step from no accepted offer to one.
`OneOfferIsAccepted` is the refinement: with `accepted` read as the nodes whose offer the other one
has answered, every behaviour of `Peering` is one of `OfferAnswer`.

### Server

`PlumInit`, `Listen`, `UpdateExternal`, `CreateMapping` and `AssignMappingId` are the steps of the
constructor, each of which may fail where the code throws. `Report` is a call of libplum, which may
come between `plum_create_mapping` and the assignment to `mMappingId`; `CheckMappingId`, `Restart` and
`Publish` are the parts of `PlumMappingCallback` between which `mMutex` is free. `Destroy` is the
destructor. The members keep their names. `pem` stands for the two PEM settings.
Failures in the callback end the process (`terminated`): nothing catches the exception there.

### Scheduler

`mTasks` is the set of the keys of the map. `Begin` is a call that has read the clock and not taken
the lock yet, `Schedule` the part under the lock, `Cancel` is `cancel`, `Run` ... `RunReturns` the
loop of `run`: `Dequeue` takes the first task if it is due, `EndTask` is its end, by return or
exception. A task runs on the main thread and may itself schedule, and need not end. In the code
tasks that for ever schedule others for a time that has passed keep `run` from returning and starve
the tasks behind them; with `MaxTasks` tasks there are no such endless chains, so `TasksRun` states
the premise that they do not happen: that `run` returns again and again. `started`, `cancelled`,
`refused` and `enqueued` are histories. Nothing schedules a task in this version of the program, so
the callers are any.

### Binary and Codec

A binary is a sequence of numbers below `ByteMod`; a message is a record with the fields of
`Message`, and a sequence once `toBinary` has framed it, its integers in network byte order
(`htons`, `htonl` and back). A behaviour of `Codec` takes one input: a State through
`State::toMessage`, `Message::sign`, `Message::Message` and `State::FromMessage`; two strings
through `pack_strings`, `CipherBody::Encrypt`, the same frame, `CipherBody::decrypt` and
`unpack_strings`; bytes through hexadecimal or base64; or any text through the base64 decoder.
`Damage` cuts, extends or changes the binary; `Parse` includes `Routing::route`, which drops a
message without a source before any component gets it. The decoder is a loop of actions, because it
need not end.

Of Crypto++ the model keeps what the code gets from it: the signature made for a source and some
bytes verifies for these and for nothing else, and `VerifyMessage` reads the two numbers of a
signature from the start of what it is given and ignores bytes that follow (`StartsWithSignature`);
both ends of an exchange get the same key stream (`Agreed`, any function of the two keys and the
vector), and identifiers are the points of the curve. `Input` says what the program encodes: in
particular a string of a description holds no zero. The neighbours of a State are written in some
order (`SetToSeq`), as the order of an `unordered_map` is. `decrypted` keeps that
`AesGcmDecryption::decrypt` uses the filter for encryption: the text is followed by twice the size
of a tag of other bytes.

## Runs

| Run | Shows | Bounds |
|---|---|---|
| `route_computation` | the search ends and publishes the one-hop routes | all graphs on 3 vertices, self-loops and cycles included |
| `route_next_hops` | it gives no next hop to nodes further away (violation) | the same |
| `link_state_failures` | neighbours that are lost and found again are announced; no number is used twice; states never get older although each arrives over both channels; linked nodes end up announcing each other | 2 nodes with a WebSocket and a data channel in the other direction, both of which may fail at any moment; one callback of a node at a time |
| `link_state_network` | states are numbered, stored and flooded consistently from the wrapped number of the constructor on; all nodes converge; `findRoute` and the table agree | 3 nodes, a triangle that grows one channel at a time; one callback of a node at a time |
| `graph_threads` | neighbours are reached through channels of the node; those whose channels stay are all broadcast, whatever the races; the local state is current unless callbacks have overlapped | 3 channels, two of them to one neighbour and one of these two removed at any moment, 1 first state, 2 callbacks at a time |
| `graph_unlocked` | the graph is updated by two threads at once (violation) | 2 channels |
| `transport_order` | order, delivery of broadcasts, end of floods | triangle with a tail, 3 messages of one source to anyone, one thread |
| `transport_threads` | no duplicates, losses only to newer messages | triangle with a tail, 2 messages, 2 application threads, native threads |
| `peering` | the offers settle on one (refinement of `OfferAnswer`), the connection comes up, a data channel opens, the neighbour's channel is one of `Routing` | two calls of `connect`, both of the node with the smaller identifier or one of each, with callbacks in between; any description but the answers of the other node may be lost; that node has four other peerings, the first one three |
| `server` | the URL leads to the server, the mapped port is the server's, the last report is published | every configuration of three ports (0 is one), two hosts and PEM or not; up to three reports; every failure |
| `scheduler` | one fate for each task, order of `enqueue`, every task runs if `run` keeps returning | main thread and one more, 3 tasks, 3 instants |
| `codecs` | decoding inverts encoding, damage is noticed, the base64 decoder ends | see below |

Bounds and why they are enough. `SeqMod` replaces 2^32; it only has to leave the half range above
the number of messages in a run. In `LinkState` a node may broadcast `MaxStateSequence` = 14 states
(the runs never reach it: with two or three channels a node has fewer occasions). `Staged`
(`link_state_network`) lets a new channel connect only when the network is at rest; within a stage
all interleavings of the nodes are explored, and `link_state_failures` explores channels that come
up and fail at any time. Three nodes are the fewest with a node that forwards and one that learns
from a forwarder; a triangle is the smallest network in which the same state arrives twice, and the
tail of `transport_order` adds a node that only forwarded copies reach. One source is enough in
`Transport` because `checkSequence` keeps its numbers by source. `Starts` has the numbers wrap
around after the first message or not at all. In `GraphThreads` two channels to one neighbour are
what lets a neighbour be removed and added again while another callback is at work; `MaxCallbacks` =
2 is the fewest that race.

In `Peering` a second call of `connect` is what replaces a data channel, and one of each side is
what makes offers cross; `MaxCalls` = 2 has either. In `Server` three reports are a success, a
failure and another success; `MaxReports` bounds nothing else. In `Scheduler` three tasks with three
instants have two that are due at the same instant, and one before or after them. In `Codec` a byte
has four values and an identifier three bytes, so that a body of sixteen bytes is already too long
for its length field and all changes of one byte can be tried; base64 and hexadecimal work on bytes
of 256 values, all texts of up to four bytes out of four that reach both ends of the tables, and
whole identifiers of 33 bytes.

Deadlock is checked, except in `peering`, `server` and `codecs`, where what is modelled ends: all
calls of `connect` are made and answered, the server is destroyed or has failed, the input is decoded.
`LinkState` never stops because `Update` may always be called, `Scheduler` because `Node::update` is
called again, and the other models end in an explicit final step.

## Fairness

`LinkState`: weak fairness of `Update` (the main loop calls it every 200 ms for ever) and of the callbacks of each
channel at each node (libdatachannel runs what is due). Connecting and failing are not assumed to
happen. `Transport`: as long as something is started or has arrived, some thread takes a step.
`RouteComputation`: the thread that holds the lock goes on. No node is assumed to send.
`Peering`: as long as a call of `connect`, a callback or an arrived message has a step to take, one is taken
(a behaviour has finitely many of them, so all are); the callbacks of a closed channel may never come, and
no node is assumed to connect. `Scheduler`: time passes, the main loop calls `Node::update` again and
again, and the calls of `schedule` end; tasks need not. `Codec`: the program goes on; a step of the decoder that
changes nothing, as it takes at a white space, is no progress and is not helped by that.

## Proofs

Every safety property of a passing run is a theorem too: what the runs show on small instances
holds for every value of the constants that the assumptions admit. The theorems are listed in
`PROJECT.json`. What follows is the argument of each module.

**`RouteComputationProofs`**: type correctness and `PublishesDirectRoutes` for any set of vertices.
The inductive invariant `SearchInv` says that only neighbours of the local vertex get a next hop,
themselves, at distance 1, and nothing but them and the local vertex is queued (`HopsAreDirect`);
that the local vertex is taken first and once (`LocalComesFirst`); that a neighbour without a next
hop is one the scan of the local vertex has still to look at (`HopsAreComplete`); and that a
published table is the next hops of a search that has started. The published table alone says
nothing during the search, which is why these are needed.

**`LinkStateProofs`**, for any nodes, channels and failures, with the callbacks of a node one at a
time. The inductive invariant `LinkInv` adds to the type invariant that the stored states and edges
agree and a node always holds a state of its own, one below its counter (`GraphsOK`), that no
message in a queue or about to be forwarded carries a sequence the source has not used
(`MessagesOK`), that a node knows only channels it is an end of (`ChannelsOK`), that a callback that
is to add a neighbour does so for the peer of its channel (`RestOK`), that a neighbour is reached
through a channel of the node, and `NeighborsAreAnnounced`, which is inductive with the agreement of
states and edges: the event finds no change only for neighbours that the state has.
`OwnStateIsNewest` follows because the comparison of numbers is the order of naturals as long as all
of them stay below the half range. `StatesNeverGoBack` is a property of steps. For
`OneStatePerSequence` all the copies of states, stored or under way, are seen as a set: a step keeps
them within it (`Within`) or adds one state, which has the number that the node's counter stands at
(`NextState`) and which no copy has yet, since all copies are below the counter.

**`GraphThreadsProofs`**, for any channels, neighbours, strangers and removals.
`NeighborsUseChannels` is inductive, as `addNeighbor` and `removeChannel` each hold the lock. For
`EveryNeighborIsBroadcast`, each neighbour whose own channels stay has been broadcast, or some
thread is going to broadcast it (`Promised`), or no trace of it has got to the edges, the state or
what some thread puts there, and a thread is still to compare the edges (`DueInv`, with `KnownInv`
for what the locals of the threads can hold): no race takes that duty away from all threads.
`OneByOne` says, for each step of the only callback at work, what it has taken and what it has still
to publish; it holds while no two callbacks have overlapped, also when channels are removed in
between, and gives `StateIsCurrent`.

**`TransportProofs`**, for any links, threads and messages, and numbers that start anywhere.
`SentInv`: the messages of a source are numbered in a row, although the numbers wrap around, and
everything in the network is one of them. `AcceptedOnce`: what a node has accepted it refuses from
then on, and it refuses nothing but what is as old as something that it has accepted; this gives
`AtMostOnce`. `FloodInv`: the source and the nodes that have accepted a broadcast have sent it to
all their neighbours, which have it on the way or refuse it; in a quiet network the nodes that
refuse it are then closed under neighbours, which in a connected network are all nodes
(`LostOnlyToNewer`). `ThreadInv`, for one thread: a queue holds an older broadcast before a newer
message of its source, so a node refuses only what it has accepted (`InOrder`,
`BroadcastsReachEveryone`).

**`PeeringProofs`**, for any bound on the calls of `connect` and any descriptions that may be lost.
`NegotiationInv` is about the signaling: a node offers once, before it answers; an answer is sent
after the offers; and who has answered did so to the offer that stands, no offer of the other side
being left in a callback or on its way (`OneAnswers`). So the answer of one node excludes that of
the other, and every step is one of `OfferAnswer` or leaves `accepted` alone (`PeeringAgrees`:
initial states, then each action). `ChannelInv` is about the data channels and the two threads that
use them, which only `connect` changes together with the signaling: `connect` is the only one to
make `mDataChannel` null, so it finds one to close; Routing has no null channel, and the entry of
the neighbour is none or one of Routing's (`PeeringNeighborUsesChannel`): `onClosed` may remove
another channel than the one that closed, but the entry goes with it.

**`ServerProofs`**, for any ports, hosts, configurations and reports. `ServerInv` says between which
steps of the constructor there is a server, a mapping and a callback, and that the mapping is that
of the server's port: the callback restarts the server on the port it has, so `MappedPortIsServed`
and `LastReportIsPublished` survive a report at any of the points where `mMutex` is free.
`UrlIsServed` says that the address of `url()` is one of `Served`: the local address with the
server's port, the address in libplum's last report while the mapping is of the server's port, or
the configured one.

**`SchedulerProofs`**, for any threads, tasks and instants. The tasks that wait, were started and were
cancelled are disjoint and as many as numbers were taken, with room for the calls under way (`EveryTaskHasOneFate`); the
tasks that a thread enqueued are in the order of the keys, no later than now, and the call that has
read the clock comes after them (`EnqueuesAreOrdered`). The latter is what makes `EnqueuedInOrder`
inductive although the clock is read outside the lock.

**`CodecProofs`**, for any sizes of bytes, keys, vectors, tags and identifiers and any inputs.
`CodecInv` says that a message under way that was not damaged is the one that was written, and that
one that has been read from a damaged binary is the one that was written, with whatever follows its
signature. `FrameComesBack` follows `Message::Message` through what `operator binary` wrote, reader
position by reader position; `StateComesBack` cuts the body of a State into the identifiers it was
put together from; `StringsComeBack` undoes the cipher and finds the two zeros before the bytes that
`decrypt` leaves behind. The converse is `AcceptedIsSigned`: whatever the flags and lengths of a
binary say, if it is accepted with a source then it begins, byte for byte, with the signed one and
the signature after it, and `FrameComesBack` reads it as what was written. For the texts, `TextInv`
follows the loops of the decoder over what `to_base64` wrote: between two groups it has so many
whole groups of the bytes (`BetweenGroups`), within one the first characters of it (`WithinGroup`);
`GroupIs` is the arithmetic of three bytes in four characters. The loops of the decoder are actions
of the model, so no induction over data is needed.

What the proofs rest on, besides the definitions, are assumptions that the modules name and the runs
evaluate:

- `NodeAssumption`, `LinkStateAssumption`, `NoStateAssumption`, `ThreadAssumption`,
  `PeeringAssumption`, `NoChannelAssumption`, `ServerAssumption`, `SchedulerAssumption`, `NoTaskAssumption`,
  `NoCallAssumption`: types of the constants, a channel has two different ends, null values are none of the
  others. `LinkStateAssumption` has `MaxStateSequence < HalfRange`: a node broadcasts fewer than 2^31 - 1 states.
- `SeqModAssumption`, `TransportAssumption`: links go both ways, and a source sends at most half the range of the
  sequence numbers. After as many messages that a node missed, the next one would pass for an old one.
- `ByteModAssumption`, `CodecAssumption`, `InputsAssumption`: bytes have more than three values (the flags take
  four), identifiers are of one size and finitely many, and inputs are `Input`.

Three theorems have hypotheses. `TransportInOrder` and `TransportBroadcastsReachEveryone` are about
`SingleThread`, the WebAssembly build; on native threads both are false, and `LostOnlyToNewer` says
what is left. `TransportBroadcastsReachEveryone` and `TransportLostOnlyToNewer` are about links that
are `Connected`, without which no broadcast can reach everyone. Besides, the models themselves
assume that libdatachannel runs one callback at a time for a channel, and `LinkState` one at a time
for a node.

Only model-checked: liveness (`Terminates`, `Converges`, `LinkedNodesAnnounceEachOther`,
`FloodsEnd`, `Negotiates`, `OneConnectOpens`, `TasksRun`, `DecodingEnds`), which TLAPS does not cover,
and the two properties that are expected to be violated.

## What the checks found

- `computeRoutingTable` (graph.cpp:244) tests `node->nextHop` where the next hop of the target is
  meant, and a distance of -1 stands for infinity: no node more than one hop away is ever routed to.
  A consequence is that `findRoute`, which looks up the channel of the destination instead of that
  of the next hop (routing.cpp:163), still returns the right channel (`RouteIsNextHop`); a repaired
  search would make that line wrong, and the mutant of `RouteIsNextHop` is just that repair.
- The Neighbor event updates the graph without the lock (graph.cpp:74-75, against the comments at
  143 and 173). `StateIsCurrent` needs its condition that no callbacks have overlapped, and so do
  most of the properties of `LinkState`: an insertion that holds the lock tests its state, a
  Neighbor event stores a newer one, and the insertion then stores the older state; two broadcasts
  take one number; a neighbour is taken out of the edges and the routing table. A neighbour whose
  channel is removed and which another channel adds again may never be broadcast: one event puts it
  in the edges, it is away when that event reads the neighbours for the broadcast, and the second
  event finds no change (the reason why `EveryNeighborIsBroadcast` is about neighbours whose
  channels stay).
- `Peering::mDataChannel` is read and written by `connect` and by the callbacks without a lock. With
  a second call of `connect`, a callback that comes between line 47 and line 104 finds it null,
  which `Routing::addChannel` uses (`crashed`); with a single call that does not happen
  (`OneConnectOpens`).
- Read in the code and part of the models, without a statement of the repository that they
  contradict: `removeChannel` emits no event, so lost neighbours stay announced; accepted WebSockets
  are never removed; a State lost with a channel is not repeated when the channel is replaced; a
  source may receive its own broadcast once; a direct message is lost when a later broadcast of the
  same source overtakes it, because both share the numbers.
- The same for the newer models. Peering: when the offer of the node with the larger identifier is
  lost, or any answer, the negotiation stops for good, because the peering stays in `mPeerings` and
  nothing offers again (the exceptions in `Negotiates`); with several calls of `connect`, `onClosed`
  of an old channel removes the current one from `Routing`, and the entry of a neighbour may stay on
  a channel that is closed (the reason why `OneConnectOpens` is about one call). Server: with an
  external host, no external port and port 0, the URL has port 0 (`PublishesAnyPort`); a report that
  comes before `mMappingId` is assigned is ignored, and nothing repeats it. Binary: the base64
  decoder appends a byte for each character of an incomplete group, the last of them a zero that was
  not encoded (identifiers, of 33 bytes, have no such group), and does not end at a white space.
  `AesGcmDecryption::decrypt` leaves bytes behind the text, which `unpack_strings` does not look at
  but a user message is delivered with. Bytes that are appended to a signed message become part of
  its signature, which is verified without them: the message is accepted as what was written.
  Scheduler: a task that schedules itself for a time that has passed is always the first, and the
  tasks that are due later wait for ever (the premise of `TasksRun`).

## Not modelled

- Relaying of messages for other nodes: no table ever has a route to one that is not a neighbour.
- `Node::attach` and `detach` against the threads that emit events: data races on a vector, whose
  outcomes are a crash or anything else. The order of construction is part of `Init` in `LinkState`.
- The mathematics of Crypto++; `Sha256`, the comparisons and hashes of keys. `Peering` takes the order of
  identifiers as total.
- Functions nothing calls: `operator^=`, `readInt`, `writeInt`, `removeNeighbor`, `RoutingTable::remove` and `clear`,
  `weak_bind`, `scope_guard`.
- The pimpl class `legio::Node`, which only forwards calls, declarations, log output, the
  arguments of the peer program.

## Plan

All components with behaviour of their own have a module, and every safety property that a run
checks has a theorem. What is left:

1. An abstract specification of a flooded broadcast (the set of nodes that have delivered a message
   grows by one node at a time) that `Transport` implements, from `AcceptedOnce`.
2. What of the convergence of `LinkState` is safety: in a network at rest the stored states of
   connected nodes are equal. Its invariant relates a queue to what both ends of the channel have
   stored, as `NodesForward` does for broadcasts.
3. How long the damage of overlapping callbacks lasts: whether the next event of a node, if no other
   callback is at work then, repairs its state.
4. `LostOnlyToNewer` more precisely: the node that the message was overtaken at lies on a path from
   the source to the node that misses it.
