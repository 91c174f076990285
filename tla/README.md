# A TLA+ model of sprut

sprut routes messages between clients named by their public keys.  A client
opens a TLS connection to a router process, proves that it has the key, and
then sends frames addressed to other keys; the router publishes each one to
NATS, on a subject made of the recipient's key, and the router process that
serves the recipient (the same or another) gets it from its subscription and
writes it to the recipient's connection.

This directory holds TLA+ modules that model that program from the start of a
node to the delivery of a message, TLC configurations that check them on small instances, and proofs for
TLAPS of the properties that hold for every instance.  `PROJECT.json` records
which definition models which lines, what every run checks, the mutants that
show that each property can fail, and the hazards the properties are for.

    tlc -workers 2 -config router_registry.cfg MCRouter
    tlapm RouterProofs.tla
    tlapm ClientProofs.tla

## Inventory

| part | state | operations | modelled in |
|---|---|---|---|
| accept loop (`router.go`, `Serve`) | listener, `authSem` (one buffer per allowed connection) | accept, refuse, shut down, drain the broker | `Router` |
| connection handler (`router.go`, `handleConn`) | the statement it is at, its buffer, its client | authenticate, create the peer, replace the old one, read loop, deferred calls | `Router` |
| registry (`peers`, a `sync.Map`) | client -> peer | `LoadAndDelete`, `Store`, `Delete` | `Router` |
| peer (`peer.go`) | `closeOnce`/`closeCh`, `subscriber`, `writeCh`, the connection | `newPeer`, `Close`, `writeLoop`, `handleNATSMessage` | `Peer` (and `Router` for `newPeer`) |
| rate limit and write deadline (`peer.go`) | token bucket, `lastDeadline` | `AllowMessage`, `writeMessage` | `PeerTime` |
| frames from clients (`message.go`) | pools of buffers and messages | `handleMessage` | `Wire` (`Router` has the outcome only) |
| handshake (`router/auth.go`, `client.go`, `client/auth.go`) | the authentication buffer, both sides' progress | `authenticate` on both sides | `Auth` (`Router` has the outcome only) |
| NATS (`pkg/broker`) | the shared `nats.Conn`, one subscription per peer | `Publish`, `NewSubscriber`, `Unsubscribe`, `Close` | `Broker` |
| client library (`client.go`) | `recv`, `send`, `closeCh`, the connection | `runLoop`, `readLoop`, `writeLoop`, `closeAll` | `Client` |
| data frames (`pkg/protocol/data.go`) | none | encode, decode | `Wire` |
| key file of a client (`identity`) | one file | `LoadOrGenerate` | `KeyFile` |
| start of a node (`appdir`, `config`, `tls.go`, `cmd/sprut`) | configuration, certificate and key files, the port | `Init`, `Load`, `Validate`, `Run` up to the certificate | `NodeFiles` |
| client options, test environment, examples | | | not modelled |

How they interact.  `Serve` starts one goroutine per connection with a buffer
taken from `authSem`; the buffer is the connection's slot and goes back when
the goroutine ends.  `handleConn` creates a peer, whose subscription makes
nats.go run `handleNATSMessage` on a goroutine of its own from that moment on;
it starts the write loop and then reads.  `Peer.Close` can be called by four
goroutines: the handler, the write loop after a failed write, the callback
after an overflow of `writeCh`, and the handler of a newer connection of the
same client.  `sync.Once` runs its body once and makes the others wait.  All
of them share the registry, the broker's connection and the TCP connection.

What is hard.  The order in which those goroutines reach `Close`, the registry
and `writeCh`; a `select` with several ready cases, which takes any of them;
`peer.subscriber`, written by one goroutine and read by another without
synchronisation; a callback that unsubscribes the subscription it runs for;
shutdown, which drains NATS under handlers that keep running; in the
client, two goroutines and a user who may stop reading or writing at any time;
buffers and objects that all handlers share through pools; limits on both sides
of the protocol that must agree to the byte; and files that are checked, created
and filled in separate steps, by processes that may die or overlap.

What makes each part correct:

* accept loop: never more connections than buffers, a buffer with one handler
  at a time, no slot lost on any path;
* registry: no entry outlives its connection; a reconnecting client replaces
  its old connection;
* peer: nothing lost, duplicated or reordered while it is open; once closed,
  by whomever, everything it holds is released and every goroutine ends;
* handshake: the identity taken from the buffer is the other end's, whatever was
  in the buffer before; a client that takes itself for connected is accepted;
* messages: published as one client sent them, and deliverable once accepted;
  a connection handled no faster than its rate, cut off only beyond it, and no
  write without time;
* files: a node starts whatever earlier starts died of; identities and
  certificates are not replaced;
* client: the same on its side, `recv` closed last, and the two documented ways
  of ending a connection do end it.

## The modules

`Broker` declares what all others share: connections (`Conns`, each also names
its peer and its subscription), identities (`Clients`) and the state of NATS as
one router process sees it.  `Subscribe`, `Unsubscribe`, `Publish` and `Drain`
are `pkg/broker`.  `DrainSub`, `BrokerClosed` and `NextPending` are nats.go's
part and are modelled from the way the code uses it: callbacks of one
subscription run one at a time and in order; a draining connection refuses
`Subscribe` and `Unsubscribe` and still hands over what it holds; a closed one
discards it.  With `NatsLossy` a published message may miss any subscription,
which is what NATS core permits.  A message is its number in the order of
publication with its sender and recipient.

`Peer` extends it with the state of each peer and the steps of `Close`, of the
callback and of the write loop.  `once[c]` is the progress of `closeOnce`:
`BeginClose` is a caller that finds it unused and closes `closeCh`,
`CloseUnsubscribe` and `CloseConnection` are the rest of the body, and a caller
waits for `"done"` in `CloseReturns`.  A `select` is one action per case; a
`default` has the negation of the other guards.  `sawNil` records that the body
found no subscriber.  The unsynchronised read of `peer.subscriber` needs no
action of its own: a late read is the same as a late assignment.

`Router` extends `Peer` with `Serve` and `handleConn`.  `pc[c]` is the statement
the handler of connection c is at, listed at the head of the module; the
deferred calls run in the order Go runs them (`Unregister`, `ClosePeer`,
`CloseConn`, `Release`).  What authentication, the rate limiter and the client
decide is a choice.  `BrokerStep` lets NATS fail and other router processes
publish.  The deadlock check is on: `Terminated` is the only state in which
nothing may happen.

`Client` is the client library after `Connect`, with the user and the server as
environment.  `messages` is a history variable, the messages among the frames the
server sent.

`Auth` is the handshake, step by step on both sides, on connections that use the
same buffers in turn.  Records are what one `Write` of the router puts on the
connection and what one fill of the client's `bufio.Reader` takes.  A signature
is the pair of its key and its data, a challenge is fresh, a connection is its
own channel binding.  The other end is the library or a program with a key of
its own that sends any message and any signature it can have; only with the
latter may the export of the channel binding fail (below TLS 1.3).  `AuthResult`
is the form for success, the only one the router sends.  The router's
clock may be set at any time; ages are computed modulo `Word` as in the code.
`Router` abstracts this module to `AuthOK` and `AuthFails`.

`PeerTime` has the two places where a peer looks at the clock.  The token bucket
is counted in ticks (`Period` ticks are a token), as `x/time/rate` computes it
from the time passed; `AllowMessage` takes a token before the message is read.
`RenewDeadline` is `writeMessage`'s batching of `SetWriteDeadline`.  Time passes
between any two steps, but not past the deadline of a write in progress.

`Wire` follows a message by its real lengths.  A frame of the library is the five
writes of `Encode`; any of them may fail, after which a `tls.Conn` repeats the
error.  `handleMessage` is one action per statement over two pools; a buffer
holds the bytes of some frame of some connection, and the Message object refers
to the buffer until `Marshal`.  `MessageLen` is the protobuf encoding.

`KeyFile` and `NodeFiles` are the files and the programs that start on them, one
action per file operation: `os.Stat`, opening with `O_TRUNC`, writing, reading.
A PEM file has a head and a tail, each of the pair some process generated; the
key of a client is written at once.  A certificate with halves of two pairs is
taken as unusable, the worst case.  A process may die at any step, which is also
what a failed file operation comes to (`os.Exit(1)`), except for the calls of
`os.Stat` in `appdir.Init`: there any error counts as a missing file, so each of
`StatConfig`, `StatCert` and `StatKey` may miss a file that is there
(`StatResults`), and `unseen` records that it did.  The operator may remove the
certificate or the key, or write a configuration of his own (valid, with the
default paths), while nothing is starting.

`ConnectionLimit` and `Channel` are abstract specifications: a connection is
admitted exactly when a slot is free; messages come out in order, at most once,
and none is skipped while the channel is up.  `RouterRefinement` maps `Router` to
both (handlers that hold a slot; `accepted` to `written` for each peer, up until
the peer or the broker connection is closed), and `Client` maps the way from the
server's frames to the user to a `Channel` that is always up.

`MCRouter`, `MCClient`, `MCAuth`, `MCPeerTime`, `MCWire` and `MCNodeFiles` are for
TLC; `RouterProofs`, `DeliveryProofs`, `LimitProofs`, `ClientProofs`, `AuthProofs`,
`PeerTimeProofs`, `WireProofs` and `NodeFilesProofs` for TLAPS.
Operators whose comment begins with "Mutant" are wrong variants of the
definition after them; no specification uses them, they show what a property
would catch.

## The runs

| run | instance | checks | states |
|---|---|---|---|
| `router_registry` | 3 connections, 2 clients, 2 buffers, no messages | `TypeOK`, `BufferExclusive`, `NothingLeftBehind`, `ImplementsLimit` | 75 thousand (with symmetry) |
| `router_delivery` | 1 connection, 3 messages, `writeCh` of 1, lossy NATS | `NothingLeftBehind`, `OrphanOnlyByOverflow`, `NoSilentLoss`, `WrittenInOrder`, `ImplementsChannel` | 357 thousand (with symmetry) |
| `router_live` | 1 connection, 3 messages, `writeCh` of 1 | `ClosedFreesSlot`, `WriterEnds`, `EventuallyWritten`, `NoBrokerNoService` | 24 thousand |
| `router_reconnect` | 2 connections of 1 client | `ClosedFreesSlot`, `ReconnectProceeds` | 21 thousand |
| `client` | channels of 1, 3 frames in, 2 messages out | seven properties, below | 71 thousand |
| `auth` | 2 connections in turn on 1 buffer, 2 keys, clock 0..2, TTL 1 | `RightIdentity`, `ConnectedIsAccepted`, `LibraryAccepted`, `AgeBounded`, `ReadersLoseNothing` | 617 thousand (with symmetry) |
| `auth_live` | 1 connection | `HandshakeCompletes` | 1 thousand |
| `peer_time` | burst 2, period 2, write timeout 3, 8 ticks, 5 messages | `RateBounded`, `LimitedOnlyWhenExceeded`, `WriteHasTime` | 904 thousand |
| `wire` | 1 connection of the library with 2 messages, 1 of another program with 1; 2 buffers, 2 objects | `PublishedIntact`, `FramesAligned`, `LibraryNotRefused`, `AcceptedIsDeliverable` | 451 thousand (with symmetry) |
| `node_files` | 2 daemons, 3 starts, 2 deaths, 2 removals; 2 clients, 4 calls | `StartsUnlessTorn`, `BuiltinOnlyByFault`, `IdentityKept`, `CertificateKept`, `ConfigKept` | 2.6 million (with symmetry) |
| `router_old_peer` | 3 connections of 1 client | `ReconnectClosesOld`: violated | |
| `router_ready` | 1 connection, 1 message | `ReadyMissesNothing`: violated | |

Bounds.  Three connections over two slots are the least with a refusal, a
replacement and a third party at once; two clients separate the registry's
keys.  Three messages through a buffer of one fill every place a message can be
in (nats.go, callback, buffer, write loop) and overflow it, also before
`newPeer` returns.  The runs with messages have one connection because
messages touch one peer at a time: the registry, which is what connections
share, does not look at them.  Symmetry is used for safety only.

What they show.  Slots, registry and connections are released on every path,
including those where NATS refuses `Unsubscribe` or the callback is the one
that closes.  While a peer is open and NATS is up, written, held, buffered and
pending messages are exactly those the subscription got, in order.  Around a
close single messages may be dropped while a later one is written (either case
of a `select` may be taken), but never out of order or twice.  A subscription
survives its peer only when `writeCh` has overflowed before `newPeer` returned.

For the client: `ClientNoLoss` (nothing lost or reordered while it reads),
`ClosedLast` (`recv` is closed when nobody can use it any more),
`SendAccounted` (an orderly close loses no queued message silently), `CloseEnds`
and `ServerCloseEnds` (the comments at `client.go:71` and `:74`), and
`ClientTypeOK`.  `ServerCloseEnds` needs a user who keeps receiving: with `recv`
full, `readLoop` is blocked on it and does not learn that the server is gone.

For the handshake: the PeerID is the key of the other end although buffers are
not cleared (`RightIdentity`); `Connect` returns only on accepted connections
(`ConnectedIsAccepted`); the library is refused only for time or failures, so
both sides build the same data to sign (`LibraryAccepted`); a challenge is
accepted exactly when its age is 0 to TTL (`AgeBounded`), so the 60 seconds
`auth.go:143` tolerates never matter: a timestamp ahead of the clock fails the next
comparison, whose unsigned difference wraps around; the second reader of the
client loses nothing because `AuthResult` is a record of its own
(`ReadersLoseNothing`); and the two sides never wait for each other
(`HandshakeCompletes`).  Two connections on one buffer are the least with
something left over; a clock of three seconds with TTL and tolerance one has all
outcomes of both comparisons, and a `Word` of eight is beyond all sums, as 2^64 is.

For time: in any stretch a connection gets `Burst` + 1 messages handled and one
more per `Period` (`RateBounded`); the one beyond `Burst` is reached, since the
token of the next message is taken in advance.  For the same reason a client is
sure to be served only if it keeps to `Burst` - 1 in a row
(`LimitedOnlyWhenExceeded`), and a burst of zero, which `Validate` lets through,
ends every connection at once.  A write has at least half of the timeout and
never lasts longer than all of it (`WriteHasTime`).  An odd timeout, a bucket of
two tokens and time to fill it twice give both edges of each bound.

For the wire: what is published is one frame of one connection in spite of the
shared pools (`PublishedIntact`); a frame the library could not finish is the
last of its connection (`FramesAligned`), which rests on the behaviour of
`tls.Conn`, since `writeLoop` goes on; both sides agree on every length
(`LibraryNotRefused`), but not on ids: `Encode` takes any bytes, and
`proto.Marshal` fails on an id that is no UTF-8, which disconnects the sender.
`AcceptedIsDeliverable` has the two ways in which an accepted message misses a
connected recipient: a recipient in upper case, and a frame within 79 bytes of
64 KB, which no longer fits when marshalled and cuts the recipient off.  The
messages are at every boundary of the code; two buffers and two objects are the
least that can be mixed up.

For the files: a start fails for want of a usable pair only after one of two
faults, a death while a pair of which both files exist was being replaced or
finished, or the overlap of a start with another's generation
(`StartsUnlessTorn`); after every other death the next start repairs the pair,
and after these two removing either file does.  A usable pair is replaced only
after an overlap or by a start whose `os.Stat` failed on one of the files
(`CertificateKept`), the operator's configuration only in the latter way
(`ConfigKept`), and a client's key only when two programs save a first one at once
(`IdentityKept`).  A node runs on built-in settings only when a process died, or
another one started, between the creation and the writing of the default
configuration (`BuiltinOnlyByFault`); since an empty file is a valid
configuration, it does so on every later start and without an error.  Daemons
and clients use different files, so that all their steps commute: the run
explores the one or the other (the constraint `Apart`).  Three starts with two
deaths and two removals have every file missing, missed, torn or foreign before a
start that must cope with it: one start makes a pair, one breaks or replaces it,
one finds what is left.

Refinement: `ImplementsLimit` says that the semaphore of buffers is an exact
limit, with no connection refused while a slot is free, `ImplementsChannel` and
`ClientImplementsChannel` that each hop keeps order without duplicates, and that
the user of the library receives a gapless beginning of what the server sent,
even from what is left in `recv` after a close.  `NoBrokerNoService`: who
authenticates after NATS is gone for good is turned away and frees the slot.

### Where the code does not do what is said of it

`router_old_peer`.  "Close the old connection if there is one (reconnect case)"
(`router.go:204`).  Connections 1 and 2 of a client run `LoadAndDelete` and find
nothing, both `Store`; connection 1 ends and its deferred `peers.Delete(id)`
removes the entry of connection 2; connection 3 finds no old connection while 2
is still served.  Both then have a subscription and every message is delivered
twice.  Comparing before deleting (`CompareAndDelete`) and swapping (`Swap`)
would close both windows.

`router_ready`.  "The client is connected and ready to be used"
(`pkg/testsprut/environment.go:220`), said once `Connect` has returned.  The
router sends `AuthResult` in `authenticate` and subscribes later, in `newPeer`;
a message published in between reaches nobody, with no error anywhere.

The exceptions in `CertificateKept` and `ConfigKept`.  `ensureDefaultConfig`
"creates the default configuration if there is none" (`appdir.go:76`),
`ensureCerts` "generates certificates if there are none" (`appdir.go:88`).  Both
look only at whether `os.Stat` returned an error: when it fails for another reason
(an I/O error, a stale network file system), one start by itself truncates the
operator's configuration or a usable pair and writes its own.  Without its
exception each of the two properties is violated in `node_files`, by a single
daemon; with it they say that a single start does so in no other way.
`errors.Is(err, os.ErrNotExist)`, which `identity.LoadOrGenerate` uses, would be
the check.

## Fairness

`Router!Fairness` is weak fairness of each goroutine by itself: the handler's own
steps, the body of `Close`, the callback, the write loop.  The Go scheduler is
fair to runnable goroutines, `authenticate` and `writeMessage` end because the
connection has a deadline, a read on a connection closed on this side returns.
Nothing is assumed of a read on an open connection, of clients, NATS or shutdown.
`Client!Fairness` is the same for its goroutines, with the write timeout above
zero (the default); nothing is assumed of the user or the server.
`Auth!Fairness` is that both sides go on while they can and the network delivers;
deadlines and failures may happen but need not.

## Proofs

Every safety invariant, action property and refinement that a run checks is also
a theorem, for every value of the constants: any number of connections, clients,
keys, buffers, processes and messages, any size of a channel, any time limit.

| module | theorem | property |
|---|---|---|
| `RouterProofs` | `TypeCorrect` | `TypeOK` |
| | `BuffersExclusive` | `BufferExclusive` |
| | `RegistryNotStale` | `NoStaleEntry` |
| | `HandlerCleansUp` | `NothingLeftBehind` |
| | `OrphansNeedOverflow` | `OrphanOnlyByOverflow` |
| `DeliveryProofs` | `NothingLost` | `NoSilentLoss` |
| | `DeliveredInOrder` | `WrittenInOrder` |
| | `PeersAreChannels` | `ImplementsChannel` |
| `LimitProofs` | `LimitExact` | `ImplementsLimit` |
| `ClientProofs` | `ClientTypes` | `ClientTypeOK` |
| | `ReadLoopLosesNothing` | `ClientNoLoss` |
| | `RecvClosedLast` | `ClosedLast` |
| | `EverySendAccounted` | `SendAccounted` |
| | `ClientIsChannel` | `ClientImplementsChannel` |
| `AuthProofs` | `IdentityIsRight` | `RightIdentity` |
| | `ConnectMeansAccepted` | `ConnectedIsAccepted` |
| | `LibraryIsAccepted` | `LibraryAccepted` |
| | `AgeIsBounded` | `AgeBounded` |
| | `NothingLostBetweenReaders` | `ReadersLoseNothing` |
| `PeerTimeProofs` | `WritesHaveTime` | `WriteHasTime` |
| | `RateIsBounded` | `RateBounded` |
| | `OnlyExcessIsLimited` | `LimitedOnlyWhenExceeded` |
| `WireProofs` | `MessagesIntact` | `PublishedIntact` |
| | `FramesStayAligned` | `FramesAligned` |
| | `LengthsAgree` | `LibraryNotRefused` |
| | `AcceptedDeliverable` | `AcceptedIsDeliverable` |
| `NodeFilesProofs` | `StartsFindPair` | `StartsUnlessTorn` |
| | `BuiltinByFault` | `BuiltinOnlyByFault` |
| | `CertificateIsKept` | `CertificateKept` |
| | `ConfigIsKept` | `ConfigKept` |
| | `IdentityIsKept` | `IdentityKept` |

Assumptions.  `None` is no connection, client, key or buffer, and the marks of a
missing or empty file are no content of a file.  The bounds are natural numbers,
`NatsLossy` is a Boolean.  `WriteBufferSize`, `ReadBufSize`, `SendBufSize`, `Period`
and `WriteTimeout` are positive; `Burst` may be zero.  The set of buffers is finite
(`BufsFinite`; `authSem` is a Go channel), which only `LimitExact` uses.  The clock
with `TTL` or `Tolerance` added is below `Word`.  Lengths are natural numbers
(`LengthsAssumption`) and `max_message_size` is at least four.

No property is inductive by itself, so each module proves an inductive invariant
first (`Inductive`, `DeliveryInductive`, `ClientInductive`, `AuthInductive`,
`BucketInductive`, `WireInductive`, `NodeInductive`).  There is one lemma per part, with
one step per action; frame lemmas say once what a group of actions leaves alone.

`RouterProofs`, `IInv`.
`Identified`: a handler past authentication has a client, one that closes an old
peer has that peer.  `PeerLife`: which parts of a peer exist at which statement of
its handler, so that a handler that is done has closed what it made.
`Unsubscribed`: once the body of `Close` has passed, an active subscription is one
it did not see.  `Counted`: queue, callback and nats.go together hold no more
messages than the subscription got.  `EarlyClose`: whoever can close a peer before
`peer.subscriber` is set has seen an overflow; with `Counted` this gives
`OrphanOnlyByOverflow`.  `NoStaleEntry`: an entry of the registry is of a peer that
has subscribed and whose handler has still to delete it, which `EarlyClose` needs of
the old peers other handlers find; it says nothing of the two windows that
`router_old_peer` shows.

`DeliveryProofs`, `DeliveryInv`.  A message is in one of five queues.  `Flow` says
that any step of the router, seen from one connection, adds a message at the end,
passes one from a queue to the next, drops some once the peer or NATS is down, or
does nothing; lemmas about sorted queues (joined, appended to, shortened) then show
each part for each of these kinds of step instead of for each action.
`Addressed`: a live subscription is the client's own.  `Received`: what it got is
sorted by publication.  `Ordered`: each queue is sorted and before the next, also
after drops; with `Received` this gives `WrittenInOrder`.  The refinement of `Channel` needs
`Ordered` too, since after a drop the next message written is a later one of what
was accepted.

`LimitProofs`.  `BufferExclusive` makes `buf` a bijection between the handlers that
hold a slot and the buffers lent, so that "a buffer is in `authSem`" and "fewer are
served than there are slots" are the same.

`ClientProofs`, `ClientInv`.  `Phases` (what each goroutine holds at which
statement, and who is over before whom), `Incoming` (what was decoded is a prefix of
`messages`, and while `readLoop` runs the rest is on the connection), `Outgoing`
(written, reported, held and queued are all that was sent), `Orderly` (unless the
server or a refused frame ends the connection, `closeAll` is first called by
`writeLoop` after it has emptied `send`), which is what `SendAccounted` needs.

`AuthProofs`, `AuthInv`.  `Lent` (a buffer has one handler at a time), `Signed` (any
signature in existence is by the key of the end of the connection it is bound to),
`Known` (after verification the key in the buffer is the other end's), `InStep`
(what is on the wire for each pair of statements library and router are at, which
excludes every other pair) and `FreshWhenChecked`.  Replay fails because of the
binding and not of the buffer: `Signed` says nothing about who holds the signature.
The lemma `AgeOfTimestamp` has the unsigned arithmetic.

`PeerTimeProofs`.  `Above`: since any handled message the bucket has lost a token per
message and gained no more than the time that passed, which bounds the rate.
`Below`: since it was last full it has gained all of that time, so a refusal means
that too many were asked for.  `DeadlineInv`: a deadline in use was set at most half
a timeout before the write began.

`WireProofs`, `WireInv`.  `Exclusive` (a buffer or object has one handler),
`Aligned` (the pieces on a connection follow each other; the last one ends a frame
unless a write has failed), `Lawful` (frames of the library are within `Encode`'s
limits), `Handled` (what `handleMessage` has at each statement: the buffer that its
message refers to is its own and has its bytes), `Delivered`.  The lemma
`MarshalledFits` bounds what `proto.Marshal` adds.

`NodeFilesProofs`, `NodeInv`.  `Numbers`: a start has a number of its own, and no file
has it before that start writes.  `PairInv`: unless two starts overlapped, at most
one process generates (`Alone`), the files are as its next step implies, where a
process about to generate has found one missing or missed one that is there
(`Stage`), and when nobody has begun to write the pair is usable or incomplete in a
way the next start repairs, unless torn (`Sound`).  `ConfigInv`: the configuration
is empty only while it is written, or by a fault.  `Own`: nobody is about to replace
the operator's configuration, unless it was missed; this needs no exception for
overlaps, since a process that found no file empties it before it writes.  `KeyInv` is the same for a client's key, with one writer at a
time.

Only model-checked: liveness under fairness, which with ENABLED is outside what
TLAPS proves here (`ClosedFreesSlot`, `WriterEnds`, `EventuallyWritten`,
`NoBrokerNoService`, `ReconnectProceeds`, `CloseEnds`, `ServerCloseEnds`,
`HandshakeCompletes`).  Induction over data is outside too; `messages` is a history
variable for that reason, where a filter of `frames` would be recursive.

## Not modelled

Byte layouts and cryptography.  The TLS handshake and the choice of versions and
ciphers.  Options of the client, logging, pprof and the flag `-config`: they set
records or write logs.  Values of a configuration the operator has written:
`Wire` assumes a `max_message_size` of at least four, which `Validate` does not ask
for (below, the first message makes `handleMessage` panic).  The date of a
certificate, which the code never looks at.  Failures of `Serve` before its accept
loop other than the certificate's.  `DecodeClientMessage`, which only tests call.
`onError` is assumed to return.  A client with an unbuffered `recv` or
`send` (capacity zero) or without write timeout.  The generated protobuf code
beyond the length and the UTF-8 check of a message.  The test environment and the
examples, which are users of the library and not part of it.

## Plan

1. Done: `Broker`, `Peer`, `Router`, `Client`, `Auth`, `PeerTime`, `Wire`, `KeyFile`,
   `NodeFiles` with their runs; the abstract specifications `ConnectionLimit` and
   `Channel` with the refinements; the proofs of all safety properties and of both
   refinements.
2. Next: that `Router`'s `AuthOK` and `AuthFails`, and its abstract message handling,
   are what `Auth` and `Wire` do (the compositions are argued in the comments, not
   stated as refinements); the two windows around the registry, should the code
   change to `Swap` and `CompareAndDelete`: `router_old_peer` then becomes a passing
   run.
