# DPN: specification, model checking and proofs

This directory holds a TLA+ development of the Distributed Peer Network (DPN),
the message-oriented middleware on top of zmq whose sources are in `src/dpn`.
It says what the components do, checks on small instances what they promise,
and proves part of that for networks of any size.

## 1. Inventory

| Component | State | Operations | Source |
|---|---|---|---|
| Label | `Contents`: message ID, peer, port and interface of both ends | setters, `Swap`, `reset` | `label/inc/Label.hpp` |
| Message | capacity, size, offset, buffer, a zmq message that points at the buffer | `resize`, `reset`, `contents` | `message/src/Message.cpp` |
| Port | a ROUTER socket, its name, `connections_`, `bindings_` | `Connect`, `Disconnect`, `Bind`, `Unbind`, `Close`, `Send`, `Receive` | `port/src/Port.cpp` |
| Hub | `ports_`, `poller_`, the captured event (`pollPortID_`) | `AddPort`, `RemovePort`, `Close`, `ClosePort`, `Connect`, `Disconnect`, `Unbind`, `Send`, `Poll`, `Receive` | `hub/src/Hub.cpp` |
| Peer | its hub, ONE label message for both directions, the counter `messageID_`, `interface_map_`, `pub_map_` | `Push`, `Request`, `Publish`, `ServiceInterfaces`, `GetPendingPackage`, port management | `peer/src/Peer.cpp` |
| Interfaces | a pointer to their peer | `HandleIncomingMessage` of the pull, reply and subscription interface | `interface/inc` |
| ContextManager | a map from names to zmq contexts | `AddContext`, `GetContext` | `context-manager/src` |
| Logger, Error, TopicInterface | spdlog loggers; error texts; commented out | | `util`, `interface/inc` |

How they interact. The application calls a peer. A call that sends writes the
label of the package into the label buffer of the peer, counts the package, and
hands the label and the messages of the caller to the hub, which hands them to
the port registered under a port ID; the port puts an address frame and an empty
frame in front and gives all frames to zmq. A call that receives polls all ports
of the hub; the callback of the poller captures the ID of a port with an event;
the hub then receives, blocking, from the port registered under that ID, copies
the frames into the label buffer and the messages, and the peer looks the
destination interface of the label up and calls it. A reply interface pushes an
answer with the swapped label, a subscription interface files the swapped label
as a receipt, and `Publish` pushes to all receipts of a topic.

There is one thread for each peer (the tests and the README of the repository
use peers in several threads of a process, over inproc). Threads share no C++
object, but they do share memory: a zmq message built by `rebuild` without a
free function points at the buffer (`Message.cpp:33`), and over inproc exactly
this pointer travels. The receiving thread copies the label out of the buffer
of the sending peer, while that peer goes on using it.

What is hard, and so what the models are about:

- the label buffer is reused by the next send and by every receive, while
  earlier packages still point at it (`Peer.cpp:218`, `Port.cpp:265`);
- a send moves the zmq message out of the `Message` (`Port.cpp:335`), and only
  a receive or a resize puts it back: labels and bodies go missing;
- request and reply are matched by comparing counters of two different peers
  (`Peer.cpp:131`);
- sends block at the high-water mark, in the thread that should also receive;
- `ports_`, `poller_`, the addresses held by zmq and `connections_` are four
  registers changed by different calls, some of which throw half way;
- a poll that finds several ports ready keeps only the last event;
- packages have any number of messages, a receive has ten frames and as many
  messages as the caller passed;
- a message is a buffer with two views, what `size` and `offset` say and what
  its zmq message says, that drift apart and are sent by reference;
- a request measures its wait by a clock that may be set, while replies to
  requests given up earlier still arrive;
- a connection is made by one thread and noticed later by the other; a ROUTER
  keeps the first of two connections of a name, and frees the name late.

What makes each component correct:

- *Peer*: a package is handled by the interface it was sent to, with its
  contents, in order; a request is executed once and returns with its own reply;
  pushes return; receipts are filed under the topic they came for; a request
  ends in its time.
- *Hub*: a registered port is polled and named by its ID; an event is captured,
  for a port that has a package; every waiting package is read.
- *Port and Message*: a receive returns one whole package; two ports agree on
  their connection, what is listed can be used, and connections can be undone.

The full list of hazards, with the line where each bites and the properties
that watch it, is in `PROJECT.json`.

## 2. Modules

| Module | What it is |
|---|---|
| `Label` | labels, `Swap`, the 32-bit counter step, and what a racing copy of a label may read (`Torn`) |
| `Peer` | the state machine of any number of peers: one action for each call and for each step between two points where another thread may act |
| `Promises` | EXTENDS Peer: what the comments of `Peer.hpp` promise to callers |
| `Mailbox` | the abstract specification of `Push`: posted, taken in order, handled |
| `PushPull` | EXTENDS Promises: the use of push and pull that the test of the repository makes, its invariant, and the refinement mapping to `Mailbox` |
| `TimedRequest` | EXTENDS Promises: the loop of `RequestImpl` in time, with a clock that may be set, late replies, and the invariant about them |
| `RemoteCall` | the abstract specification of `Request`: called, executed, returned |
| `RequestReply` | EXTENDS Promises: the use of request and reply that the test of the repository makes, its invariant, and the refinement mapping to `RemoteCall` |
| `Hub` | one hub, its ports, and zmq as their environment |
| `Connections` | two or more default ports that are added, connected and disconnected by a thread each, the commands zmq passes between them, and what holds of these at every moment |
| `Message` | operators: one message, its two views and what changes them |
| `Framing` | EXTENDS Message: how a package becomes frames and frames become messages again, and what the socket holds |
| `PeerProofs` | EXTENDS Peer: type correctness, receipts, the number of labels and cycles of waiting peers, proved |
| `PushPullProofs` | EXTENDS PushPull and PeerProofs: the invariant of one-way use, the promises of `Push` and the refinement of `Mailbox`, proved |
| `TimedRequestProofs` | EXTENDS TimedRequest and PeerProofs: the time a request takes, and whose reply ends it, proved |
| `HubProofs` | EXTENDS Hub: its invariant, and the safety properties of the hub, proved |
| `RequestReplyProofs` | EXTENDS RequestReply and PeerProofs: the invariant, the safety properties and the refinement, proved |
| `ConnectionsProofs` | EXTENDS Connections: its invariant, and what two ports may rely on, proved |
| `FramingProofs` | EXTENDS Framing: its invariant, and which packages a receive takes and loses, proved |
| `SequenceLemmas` | lemmas on queues and lists, for `HubProofs`, `ConnectionsProofs` and `FramingProofs` |
| `MCPeer`, `MCPushPull`, `MCTimedRequest`, `MCRequestReply`, `MCHub`, `MCFraming`, `MCConnections` | values for the constants, for TLC |

### Peer

| State | Code |
|---|---|
| `labelBuf[p]` | the memory behind `labelMessage_` (`Uninit` until first written: `Message.cpp:13` does not clear it) |
| `loaded[p]` | whether `labelMessage_.contents()` still holds its zmq message |
| `messageID[p]`, `pub_map[p]`, `interface_map_[p]` | the members of the same name |
| `pipe[p][q]` | packages sent by p and not yet received by q (zmq) |
| `open[p]` | the default port is not closed |
| `pc`, `op`, `out`, `body`, `in` | where the thread is, the call it is in, the labels that call sends, whether its messages still have contents, the package being received |

A call that sends is three steps: the call itself (`Push`, `Request`, `Publish`,
or the push of a reply interface), `WriteLabel` (`SendMessages` up to the
counter, while other threads may read a mixture of old and new label), and
`SendPackage` (zmq takes the frames; it blocks until the pipe has room), or
`SendThrows` and `SendLost` when there is no one to receive. A call that receives is
two: `Receive` (the package leaves the pipe and its label is copied out of the
sender's memory, whatever is there by then) and one of the `Handle` actions,
which contain the whole handler up to its return or to the push of a reply.
While a thread is "copying" its own buffer is being written, so others may read
a mixture then too. A label with no zmq message (`shared = FALSE`) is an empty
frame; the receiver then goes by what its own buffer holds.

The history fields `sent` of packages and deliveries record what the sender
wrote; no guard reads them.

### Hub

`ports_`, `poller_`, `pollPortID_`, `connections_` are the members; `listed`
is whether `bindings_` lists the name of the port (`Bind` always binds that one);
`socket`, `bound`, `links`, `inbox` are the zmq side: state of the socket, who
holds an address, connections, waiting packages. A call that throws before it
changed anything is no step. `RemovePort` of a closed port changes `ports_` and
throws in the poller, which the action contains. `Poll` and `Receive` are two
steps because packages arrive in between; the application makes no other call on
the hub in between (`Peer.cpp:189-198`). Which port object `new Port` returns
does not matter, so `AddPort` takes an unused one (`Fresh`). `Reap` gives the address of a closed
socket back some time after `Close`, as the reaper thread of zmq does.

### PushPull and Mailbox

A mailbox is a queue of posted messages and one in hand. In `PushPull` the queue
is the pipe, preceded in time by the message of the call under way, and the one
in hand is the package being received, under the interface its label names as
the receiver read it. `PushesDelivered` says that this is a mailbox, with its
fairness: each push is handled once, in order, by its interface, in the end;
`PushedInOrder` is the same without the fairness. All pushes leave by the
interface `Outbox` for the `Inbox` of the consumer, so that all labels name one route.

### TimedRequest

The client's actions are those of `Peer` with a clock added: `StartWaiting` reads
the clock when the request has been sent, `PollAgain` is the whole rest of the
loop after a package that is no reply, `GiveUp` the poll that throws. `waited` and
`polled` are the time since the first reading and since the poll began; `drift`
is how far the clock has been set since, so that `elapsedTimeout` is what the code
computes. `answering`, `answers` and `answered` are history: which request the
repliers and the packages on their way answer. `Replier` is the one peer that is asked.

### Connections

| State | Code and zmq |
|---|---|
| `bound` | the peers that have added their port |
| `connections_[p]` | the member, by peer |
| `pipe[c]` | who connected to whom by pipe c |
| `end[c][p]` | what p makes of its end: `coming` (not yet noticed), `routed` (sends by it), `ignored` (the name was taken), `cut` (disconnected here), `ending`, `ended` (disconnected there), `gone` |
| `mailbox[p]` | the commands for the socket of p, which the next call handles |
| `connecting[p]` | the thread is between the start of `Connect` and its end |
| `spoilt` | history: how the connections of a pair came to overlap |

A call handles all commands first, so each call but the end of `Connect` has an
empty mailbox as its guard (`Drained`); `Connect` is two steps because commands may
come after it has handled those there were. Connecting to a port that is not
bound yet is kept by zmq until `AddPort` binds it.

### Message and Framing

`NewMessage`, `resize`, `reset`, `write`, `shown` (by `size` and `offset`),
`frame` (by `contents`) and `sent` are the methods of a message. In `Framing`
`queue` is the socket of the receiver, `slots` the messages it passes to
`Receive`, `letter` a message its owner keeps: it resizes it, within its
capacity or not, resets it, writes it and sends it again. A frame of `letter`
in the queue is read from the buffer as it is then. `Receive` and `ReceiveOne`
are the two overloads. A datum is named by its package, message and position, so
that a mixture of two packages shows. When the frames read begin with an address the hub
gets the name of a port from it; it may get one from other data as well, of which
`SetPortName` asks only for a number behind a `-` (`Hub.hpp:43-51`), so that a
receive which meets the rest of a long package throws or returns. `unread` is history: the packages that
have frames at the socket, with what their messages showed when they were sent.

## 3. Runs

| Run | Shows | Bounds |
|---|---|---|
| `peer` (MCPeer.cfg) | every call, with timeouts, closed ports, failing handlers, torn and missing labels: `PeerInv`, `LabelTokens`, `SubscriptionsKeyed`, `OnlyCyclesBlock`, `BlockedForEver` | 2 peers, 3 interfaces, pipes of 1, counters modulo 2, 2 receipts a topic |
| `one_way` (OneWay.cfg) | one producer pushing to one interface: `OneWayInv`, `RouteIntact`, `NothingSkipped`, `PushReturns`, and the refinements `PushedInOrder` and `PushesDelivered` | 2 pull interfaces of which one is pushed to, pipe of 4, counter modulo 8, so that the IDs in flight differ |
| `request_reply` (MCRequestReply.cfg) | requests are remote calls: `LockstepInv`, `NoOverwriteInFlight`, `LabelsIntact`, `ReplyNotDropped`, `OnlyReplyAccepted`, `ExactlyOnce`, `RequestsReturn` | 2 clients with their repliers, counter modulo 3 |
| `timed_request` (MCTimedRequest.cfg) | requests that time out: `TimeInv`, `OneLabelInv`, `TimeKept`, `OwnReply`, `NotTooSoon`, `RequestEnds` | 1 client, 1 replier, 6 requests, timeouts of 0, 1 and 3, a clock set by up to 1 |
| `hub` (MCHub.cfg) | all management calls, polling and reading: `HubInv`, `RegisteredIsPolled`, `LinksListed`, `EventPortIsRead`, `WaitingIsRead` | 2 IDs, 3 port objects, 2 entries in `connections_`, 2 packages |
| `framing` (Framing.cfg) | `FramesInv`, `ReturnsOnePackage`, `OnlyOddPackagesLost`, `TakesOnePackage` | 2 packages of up to 6 messages, 5 frames instead of 10, 2 messages of capacity 2, offsets 0 and 1 |
| `connections` (MCConnections.cfg) | `ConnectionsInv`, `RoutesAgree`, `ListedIsUsable`, `DisconnectedIsCut`, `Connects` | 2 ports, 4 connections |
| `two_interfaces` | finding: `RouteIntact` fails with two pull interfaces | 2 peers |
| `two_subscribers` | finding: `BodyIntact` fails with two receipts | 3 peers |
| `two_clients` | finding: `ReplyNotDropped` fails with two clients of a replier | 3 peers |
| `client_with_inbox` | finding: `OnlyReplyAccepted` fails when a client is also pushed to | 3 peers |
| `hub_deaf` | finding: `EventIsCaptured` fails once a registered port is closed | 2 IDs, 3 port objects, 2 packages |

Together the runs draw the line between the uses in which the single label
buffer and the per-peer counters are enough, and those in which they are not:
the promises hold for one producer and one interface and for requests in
lockstep, and each fails as soon as one party more takes part.

Why the bounds are enough. Every interference in `Peer` is between two threads
over one buffer or three threads over one counter; the passing runs have two
threads that interfere and the findings need at most three. In the run `peer` a cycle of
waiting peers is a pair; `OnlyCyclesBlock` and `BlockedForEver` are stated for cycles of
any length, with the peers that wait for one of them, and the theorem `CyclesAreForEver`
covers these. A counter modulo 2
in the run `peer` makes every comparison of IDs go both ways. In `Hub` three port
objects let an ID be used a second time while another ID is in use, and two
entries in `connections_` let a name be listed twice. In `TimedRequest` a timeout of 3
lets two packages be dropped within one request, with time left for another poll, and six requests
let a late reply meet any of several later ones; the counters do not wrap, so
that a number names one request. In `Connections` four connections are two from
either side, or one that is cut and three that follow. In `Framing` 5 frames leave room for
3 messages, so packages of 0 to 6 messages include too few, enough, more than
the receiver has messages, and two kinds of too many: the rest of a package of 4
messages has one frame, that of one of 6 has three, the second of which is empty in one
case and not in the other, so that a receive may copy from it or not.

The runs `peer`, `timed_request`, `hub`, `framing`, `connections` and `hub_deaf`
do not check deadlock: both ports of `peer` may be closed and its pushes may wait for each
other, and in the others the requests, port objects, packages or connections may be used up.

Fairness. A thread inside a call goes on (weak fairness on `Send`, `Handle`,
`RequestTimeout`), and an application that services its interfaces does it again
and again (weak fairness on `Receive` for each sender). This is `FairSpec`. `InTurnSpec`,
for the run `peer`, adds that a ROUTER takes from its pipes in turn and the application
comes back to its interfaces between other calls (strong fairness on `Receive` for each other
peer): without it a peer could be passed over for ever while packages of others come first.
No application has to make a call, close a port or give up waiting.
In `TimedRequest` fairness is asked of the client only: its polls go on, time passes, and
a poll whose time is up throws. Nothing is assumed of the repliers, which may
stop at any point: this is what a timeout is for. In
`Connections` both peers use their port again and again, so that it handles its
commands and reads pipes to their end; no one has to connect or disconnect.
In `Hub` the application keeps polling and reads what it polled. What
`wait` does while the poller holds a closed socket is undefined (`Dangling`), so
nothing is assumed of it then.

## 4. Findings

Five runs end in a violation of what a comment of the code says; each finding in
`PROJECT.json` quotes the comment.

1. A push to a second interface changes the destination of the package of the
   first (`Peer.hpp:90-91`, `Peer.cpp:218`).
2. Only the first receipt of a topic is sent the contents (`Peer.hpp:74-75`,
   `Peer.cpp:57-60`).
3. A second client of a replier makes the counters diverge, and from then on
   replies are dropped (`Peer.hpp:49`, `Peer.cpp:131`).
4. A request takes a package pushed by a third peer for its reply
   (`Peer.hpp:49`, `Peer.cpp:131`).
5. A closed port that is still registered makes its whole hub deaf
   (`Hub.hpp:57-59`, `Hub.cpp:175-178`).

What the passing runs show where no comment is contradicted, or where the
conditions of a property are needed:

- A push does not always return at once (`Peer.hpp:93` says it does): `SendData`
  waits for room in the pipe. `OnlyCyclesBlock` shows what that comes to where
  every peer services its interfaces: it hangs only if it waits on a cycle of peers that wait
  for room to send to one another, as a member of the cycle or behind one.
  `BlockedForEver`, proved for any number of peers, shows that such a cycle is never left.
- A request waits no longer than its timeout (`TimeKept`), but the send before
  the wait blocks at the high-water mark without any limit, although `Peer.hpp:49-50`
  has a request return with a reply or when its timeout expires: when the replier stops
  reading, the first request that finds the pipe full never returns. So `RequestEnds`
  says that a request ends or waits for room.
- A package of more than ten frames loses ten at a time (`Port.cpp:199`). What is left
  of it is received next: a receive throws when it finds no name of a port in the first frame,
  but `SetPortName` takes any data with a number behind a `-` for one (`sensor-7`,
  `Hub.hpp:43-51`, `Port.hpp:72-81`), and then returns with the last messages of the package
  or, if the second frame is not empty, with nothing copied. `TakesOnePackage` and
  `OnlyOddPackagesLost` say that no other package is affected, `ReturnsOnePackage`
  is stated for packages that fit.
- `EventPortIsRead` and `WaitingIsRead` hold as long as no port of the hub was
  unbound (`NeverUnbound`). A port added under the ID of one that was unbound is
  polled but not registered, and `Receive` then blocks, past any timeout, on the
  registered port of that ID.
- `OwnReply` holds with one replier. After one timeout the counters of client and
  replier stay apart, so that replies to later requests are dropped, but none is
  taken for another. With two repliers a package without a label can be: the
  label buffer of the client still holds the label of its own request, whose
  number matches. It also takes a client that asks from an interface whose number is
  no reply interface of the replier (else a replier that reads a stale label
  answers its own answer), and handlers that do not fail (a failure leaves the
  label of the request with the replier, which answers the next one with it): these are
  the conditions of `OneReplier`.
- The list of connections goes wrong in three ways, all found by leaving `spoilt` out of the
  properties: two ports connect to each other before either has noticed
  (each keeps its own and ignores the other); one of two connections of
  a pair is disconnected (the test of the repository makes both,
  `peer/test/test.cpp:169-170`, and disconnects both), after which the other is
  still listed but was ignored from the start; a port
  disconnects and connects again at once, when the name is not free yet.
- `README.md:126` of the repository describes an offset at which the data of a
  message begin. A frame always begins at the start of the buffer, so a message with an offset does
  not send what it shows, and a receive writes from the offset on and then sets it to 0; `ReturnsOnePackage` is
  stated for messages without one.

## 5. Proofs

TLC looks at small networks; the theorems hold for any sets of peers, clients
and interfaces, any high-water mark, any width of the message counter, and any use of the API the
constant `App` allows; those about the hub for any port IDs, port objects and packages; those
about connections for any peers and number of connections; those about frames for packages and
messages of any length, any number of frames a receive has room for and of messages it is given.

| Theorem | States | Module |
|---|---|---|
| `PeerInvariant` | `Spec => []PeerInv` | `PeerProofs` |
| `ReceiptsKeyed` | `Spec => []SubscriptionsKeyed` | `PeerProofs` |
| `NoLabelIsMade` | `Spec => []LabelTokens` | `PeerProofs` |
| `CyclesAreForEver` | `Spec => BlockedForEver` | `PeerProofs` |
| `BuffersHoldOneRoute` | `Spec => []OneWayInv` | `PushPullProofs` |
| `PushKeepsRoute` | `Spec => []RouteIntact` | `PushPullProofs` |
| `NoPushSkipped` | `Spec => []NothingSkipped` | `PushPullProofs` |
| `PushesAreMailed` | `Spec => PushedInOrder`, where `PushedInOrder` is `Box!Spec` | `PushPullProofs` |
| `PollsInTime` | `TimedSpec => []TimeInv` | `TimedRequestProofs` |
| `RequestsKeepTime` | `TimedSpec => []TimeKept` | `TimedRequestProofs` |
| `RequestsWaitTheirTime` | `TimedSpec => NotTooSoon` | `TimedRequestProofs` |
| `OneLabelGoesRound` | `TimedSpec => []OneLabelInv` | `TimedRequestProofs` |
| `RequestsEndWithTheirReply` | `TimedSpec => []OwnReply` | `TimedRequestProofs` |
| `Lockstep` | `Spec => []LockstepInv` | `RequestReplyProofs` |
| `NeverOverwritten` | `Spec => []NoOverwriteInFlight` | `RequestReplyProofs` |
| `LabelsArrive` | `Spec => []LabelsIntact` | `RequestReplyProofs` |
| `ReplyEnds` | `Spec => []ReplyNotDropped` | `RequestReplyProofs` |
| `ReplyIsRequested` | `Spec => []OnlyReplyAccepted` | `RequestReplyProofs` |
| `Implements` | `Spec => ExactlyOnce`, where `ExactlyOnce` is `Remote!Spec` | `RequestReplyProofs` |
| `HubInvariant` | `Spec => []HubInv` | `HubProofs` |
| `RegisteredPortsArePolled` | `Spec => []RegisteredIsPolled` | `HubProofs` |
| `ConnectionsAreListed` | `Spec => []LinksListed` | `HubProofs` |
| `PolledPortHasPackage` | `Spec => []EventPortIsRead` | `HubProofs` |
| `ConnectionsFit` | `Spec => []ConnectionsInv` | `ConnectionsProofs` |
| `BothEndsAgree` | `Spec => []RoutesAgree` | `ConnectionsProofs` |
| `ListedConnectionIsUsable` | `Spec => []ListedIsUsable` | `ConnectionsProofs` |
| `NoRouteIsLeft` | `Spec => []DisconnectedIsCut` | `ConnectionsProofs` |
| `FramesFit` | `Spec => []FramesInv` | `FramingProofs` |
| `OddAreLost` | `Spec => OnlyOddPackagesLost` | `FramingProofs` |
| `OnePackageIsTaken` | `Spec => TakesOnePackage` | `FramingProofs` |

Assumptions, all evaluated by TLC in the runs:

- `LabelAssumption` (the counter has at least one value), `PeerAssumption` (pipes
  have room for one package; the other constants have their types),
  `FinitePeers` (there are finitely many peers, for `NoLabelIsMade`);
- `PairAssumption` (each client has a replier of its own, which is not a client)
  and `UseAssumption` (clients only make requests of their replier, with no
  timeout; repliers only service their interfaces), for `RequestReply`. The
  findings 3 and 4 show that both are needed;
- `PushPullAssumption` (one producer pushes from one interface to one pull
  interface of one consumer, which services its interfaces; no other calls are
  made), for `PushPull`. Finding 1 shows that one interface is needed;
- `TimedAssumption` (the client only makes requests, and no more than its counter can number;
  the other peers only service their interfaces or receive; the bounds are large enough to let every
  timeout expire), for the times; and `OneReplier`, for whose reply ends a
  request (section 4 says what happens without it);
- `HubAssumption` (there is a port ID, and `None` is no port),
  `ConnectionsAssumption` (`None` is no peer), `MessageAssumption` and
  `FramingAssumption` (a receive has room for three frames and gets at least one message).

*Peer.* The inductive invariant is `PeerInv`: `TypeOK` and `CallOK`. `TypeOK`
alone is not inductive: that the buffer holds a label once a label is sent, that a
thread which sends has a label to send, and that one which copies has received
something, are facts about the place the thread is at, which `CallOK` states.
What is read from memory that another thread writes is a label all the same, since each
field comes from one of the labels written there (lemma `TornType` and those
around it). `SubscriptionsKeyed` is inductive with `PeerInv`:
`HandleSubscription` files the swapped label under its own source interface, and
that interface was looked up.

*Labels.* `LabelTokens` compares two cardinalities, so its proof needs no
arithmetic on pipes but a function: for each step there is an injection from the full labels after
it to those before it (`SendMoves`: the last package of the pipe takes the
label of the sender's buffer; `ReceiveMoves`: the package in hand has that of
the head, and every other place in the pipe that of the place behind it; `LabelsStay` for the
rest). `PeerInv` is needed for a thread that ends a receive: the label it keeps is that of the package it had.

*Cycles.* Peers that wait for one another take no step (`WaitingTakesNoStep`: the
only actions of a peer about to send are the ends of that send, and all are disabled while the
pipe is full and both ports are open), and a step of another peer changes neither what
they send nor the pipes and ports between them (`OthersStandStill`: a pipe is written by its sender and
read by its receiver, and a port is closed by its owner). So the set of peers that
shows `Blocked` before a step shows it afterwards.

*Pushes.* In one-way use only the first package carries a label; from then on the
consumer goes by its own buffer. `OneWayInv` says why this is sound. Only
the calls of the use are under way (`OneWayUse`); every label written, on its
way, received or kept is of the one route (`OneRoute`), so that it does not
matter which of them a racing copy reads, torn or not; one full label exists
until it has arrived, and then the buffer of the consumer has it (`LabelKept`: without this, a
package without a label could be read by an uninitialized buffer); the packages
unread, the one in hand and the counter are consecutive (`Numbered`). The promises are read
off these, and so is the step-by-step refinement of `Mailbox`: a call posts,
a receive takes, a handler that returns consumes, all else stutters.

*Timed requests.* `TimeInv` relates what is left of the timeout, what has passed
and how far the clock was set: the poll under way was given
the timeout minus the time passed before it, up to the drift (`PollInv`). For
`OwnReply` it is not enough to look at the reply: the replier answers with the
ID its own counter has, and this may only be that of the request when no
earlier label is left. `OneLabelInv` follows the one full label of client and
replier through six places: with the client (`LabelAtHand`), in the pipe to the
replier (`LabelSent`), in its hand (`LabelReceived`), in the answer it makes
(`LabelReturning`), in the pipe back (`LabelReplied`), in the hand of the client
(`LabelBack`). While it is not at the replier, the replier ignores what it
receives (`Ignoring`), so that its counter stands still; each place bounds the
counter of the replier by the request the label belongs to. The proof has a
lemma for each place and each step that leads from it to the next.

*Requests.* That the ID of the reply equals the counter of the client is true
only because the counters of client and server have taken the same number of
steps, so the invariant has to say where each call is. `LockstepInv` puts every
pair into one of four phases: `AtClient` (nothing on its way, counters level until the client has
counted its request), `Requested` (the request is in the pipe or being copied
by the server; the client is one ahead and its buffer still holds the label),
`Replying` (the handler has run), `Replied` (the reply is in the pipe or being
copied; counters level again). It also says that only partners send each other anything, that
no port is closed, and that a client does nothing but request. `PairInv` is
`PeerInv /\ LockstepInv`. The proof has a lemma for each action of a client and
of a server, saying from which phase to which it leads (`RequestStep` to
`ServerSends`), lemmas that no other action is possible (`ClientSteps`,
`ServerSteps`), and lemmas that other pairs stay where they are (`OnlyActor`,
`PairAtRest`). `ReadsWhole` is the heart of it: the owner of a buffer to which
a frame on its way points is never "writing" or "copying", so its label is read whole.
The safety properties then follow from the phase a package or a copy implies
(`InFlight`, `Copying`, `AnswerIsReply`), and the refinement from the same lemmas by
reading a call's `progress` off its phase (`ProgressAt`, `CallAdvances`).

*Hub.* `EventPortIsRead` takes knowing, before the poll, that a port the poller
watches is the one registered under its ID. This is `PolledIsRegistered`, and it is not
true of every state: a port may be polled and not registered after a closed
port was removed (`Forgotten`) or a port was unbound, and after a port was
added under the ID of a closed one (`Superseded`), which is when `Poll` throws. That there are
no further cases needs the address of an open port to be its own
(`OpenHoldsAddress`: adding a port under a registered ID succeeds only when the first is
closed or unbound) and a port to be polled only once (`PolledOnce`: otherwise removing
it would leave it polled). `HubInv` is the conjunction of these and is inductive; the proof has a lemma for each
action, and lemmas on what `RemoveFirst` and `Append` do to the elements
of a sequence and to its having no element twice (`SequenceLemmas`).

*Connections.* What two ports send by depends on the order in which
commands were handled at either end, so `ConnectionsInv` speaks of the commands under way. `EndsOK`
says which states the two ends of a pipe may be in together, `CommandsOK` which
commands must be and which may be in the mailboxes for these, and in which order; `OneName` that a port has given a name to one pipe only. `WillAgree` is the
heart of `BothEndsAgree`: where one end sends by a pipe and the other has not noticed it
yet, the other will send by it too, because the attach commands of two pipes
are handled in the order in which the other end decided between them. It is
kept by every step but those that put "overlap" into the history `spoilt`.
`Unspoilt`, kept by those that put nothing there, says that what is listed stands for a pipe that is
alive, that an ignored one has another beside it that is routed, and that no
pipe of the pair is being let go of. `CallsOK` counts the pipes left, so that a call under way finds one.
The proof has a lemma for each action and each part, and `SequenceLemmas` says what `Append`,
`Tail` and concatenation do to what is pending and what comes before what.

*Frames.* `FramesInv` says that there is a sequence of places (`last`) at which the
packages unread end (`Framed`): the frames from the place behind one to the next are those of
one package, the first of them its address, the second empty, the others
its messages; only the last announces no more. Of the first
package some may be gone; then it had too many, no address is left of it, and what is left are
its last messages (`LeftOver`). `AddPackage`, `TakeFirst` and `TakeSome`
are lemmas on such sequences: one more place at the end, the first one less,
all of them moved. `FirstLenIs` ties them to the code: what the loop over the "more"
flag reads up to is the first of the places. `OddAreLost` and `OnePackageIsTaken` follow from
what the frames read are, a whole package or the rest of one, and not from whether `SetPortName` throws for the latter. What the copies out of them come to (`ReturnsOnePackage`) is a
fold over any number of frames, which stays with TLC.

*Only model-checked*: liveness (`PushReturns`, `OnlyCyclesBlock`,
`RequestsReturn`, `RequestEnds`, `WaitingIsRead`, `Connects`, and the fairness in
`PushesDelivered`, whose safety is `PushedInOrder`), which with fairness is
beyond the prover; and `ReturnsOnePackage`, which says what a fold over all
frames of a package computes: this would need induction over data, which the
prover cannot do here either. `TakesOnePackage` is proved up to that fold.

## 6. Not modelled, and why

- *Logger, Error*: output and texts. *TopicInterface*: commented out.
  *ContextManager*: two sequential operations on a map.
- *Establishing connections* is a module of its own (`Connections`); peers of
  module `Peer` start connected. In `Connections` ports stay open, and no one
  disconnects from a port that was not added yet. What becomes of a package sent
  over an ignored connection is left to zmq: `RoutesAgree` says when there is one.
- *zmq* itself: ordered pipes with a high-water mark, frames that point at
  memory of the sender, mandatory routing, and the life of addresses are taken
  from how the code uses it and marked external.
- *Time*: in `Peer` a timeout may come whenever nothing is left to receive;
  `TimedRequest` counts it. Time passes only while the client polls. A negative timeout, which the
  caller may pass, is left out.
- *Names of ports* are not spelled out: that of a peer's port is a number, `-` and the port ID
  (`Peer.cpp:10`, `Hub.hpp:42`), which `SetPortName` always takes; which other data it takes
  is left open.
- *The bodies of messages*: whether they are there (`Peer`) and how they are
  split, shared and shown (`Framing`); the two are not composed.
- *Torn reads* mix the last complete label with the one being written, not more
  than one further write.
- *Publish* writes its own ID into the receipt as the source peer; the model
  does so when the label is stamped, which is the only place it is read.
- *Handlers* of the application are reduced to the status they return: they
  make no calls on their peer.
- *Heartbeat*: a stub. *ipc and tcp*: `Port::TransportToString` accepts inproc only.
- *Packages that collect more in the last message than its capacity*: the code
  writes outside the buffer, and the model does not receive such packages. The
  same goes for a message whose offset leaves too little room.
- *Ports other than the default one*: labels carry no port IDs, and the calls of
  `Peer` use port 0 at both ends, as all code of the repository does.
  `Peer::Disconnect` passes the remote port ID as the local one, and a reply leaves by
  the port its request came to; with one port neither shows. `RemovePort` is in `Hub` only.
- *Event flags* in `Hub`: every caller polls for input, so the flags a poll returns are that.
- `Hub::Send` of a port ID that is not registered only warns: the peers
  modelled have added their port.

## 7. Plan

Order of work, the most important behaviour first. Each module is written to be
proved about: no recursive operators, parameters as constants with named assumptions,
invariants as conjunctions of named parts.

| Step | Work | State |
|---|---|---|
| 1 | `Label`, `Peer`, `Promises`: one label buffer, many threads; abstract promises as properties | done |
| 2 | `RemoteCall`, `RequestReply`: requests refine remote calls | done |
| 3 | `Hub`: ports, poller, names, the captured event | done |
| 4 | `Framing`: packages as frames | done |
| 5 | proofs: type correctness, receipts, lockstep, refinement | done |
| 6 | `Mailbox`, `PushPull`: pushes refine a mailbox | done |
| 7 | `TimedRequest`: timeouts, late replies, the clock | done |
| 8 | `Message`, `Framing` with both overloads, offsets and messages that are kept | done |
| 9 | `Connections`: connecting and disconnecting by two threads | done |
| 10 | `HubProofs`: `HubInv`, `RegisteredIsPolled`, `LinksListed`, `EventPortIsRead` | done |
| 11 | `PushPullProofs`: `OneWayInv`, the promises of `Push`, the refinement of `Mailbox` | done |
| 12 | `LabelTokens` for every network, by an injection between the labels of two states | done |
| 13 | `TimedRequestProofs`: the time of a request, the way of the one label, `OwnReply` | done |
| 14 | `ConnectionsProofs`: `ConnectionsInv` and the three properties that follow from it | done |
| 15 | `FramingProofs`: `FramesInv`, `OnlyOddPackagesLost`, `TakesOnePackage` | done |
| 16 | `Peer` with more than one port: the port ID of the receive reused for sending | to do |

The runs stay one for each question.
