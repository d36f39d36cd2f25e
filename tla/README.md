# A TLA+ model of podshare

podshare keeps a typed map in step on several pods. Every pod holds a full
replica; writes are applied locally, broadcast over a transport, and reconciled
by last-write-wins on the stamp (Timestamp, Origin, Seq). Deletes leave
tombstones for a time, a background loop stores snapshots for late joiners, and
watchers get a stream of changes. `callreply` builds request/reply calls on a
routing table that is itself such a map. `transport` has a TCP mesh with DNS
discovery, a Redis transport and an in-memory one.

This directory models the concurrent core of that code, checks it with TLC on
small instances, and proves their safety properties with TLAPS for all
instances.
`PROJECT.json` lists the runs, the mutants that show that each property can
fail, the source lines behind each definition, the hazards and the findings.

## Inventory

| Part | Source | State, and who changes it | Module |
|---|---|---|---|
| Store: replication | `podshare.go`, `wire.go` | `data`, `seq`, messages, the stored snapshot; callers, `recvLoop`, `snapshotLoop`, `New`, `Refresh` | `LWW`, `Replication`, abstractly `ReplicatedMap` |
| Store: snapshotter | `podshare.go` | `dirtyCh`, the debounce, `keysLive`, `tombstones`; callers, `snapshotLoop`, `CloseWithContext` | `Snapshotter` |
| Store: watchers | `podshare.go` | `watchers`, their channels; writers, `Watch`, its goroutine, `CloseWithContext` | `Watch` |
| Call/reply | `callreply/callreply.go` | handlers, routes, `pending`, `handlerSem`; callers, the inbox loop, one goroutine per call | `CallReply` |
| P2P connections | `transport/p2p.go` | `peerCancels`, `conns`, `subs`; dial, accept, read and send goroutines, `Close` | `Mesh` |
| P2P messages | `transport/p2p.go` | send queues, `pendingSnapReqs`; `Publish`, `FetchSnapshot`, readers | `P2PFetch` |
| DNS discovery | `transport/discovery.go` | `peerCancels`; one loop per discoverer | `Discovery` |
| Memory transport | `transport/memory.go` | the `RWMutex`, the channels; publishers, subscribers, `Close` | `Memory` |
| Redis transport | `transport/redis.go` | `mu`, `subs`, one forwarding goroutine per topic, `Close`; the client library | `Redis` |
| Framing, codecs, options, metrics, examples | `transport/p2p.go`, `codec.go`, `options.go`, `prom/`, `examples/` | none of their own | not modelled, see below |

## How the models correspond to the code

A critical section of a mutex is one action. What a goroutine does between two
critical sections, or on both sides of a channel operation or a transport call,
is split into several. A variable that says "progress" holds the place where a
goroutine stands. `Env` and `Client` say which faults and which calls an
instance has; the proofs hold for every choice of them.

**LWW** has the entry of the map, `lwwAccept` (`Newer` is its three tests, which
`applyMessage` repeats), the merge of a value, and the test for an expired
tombstone.

**Replication** composes the Stores of several pods over one transport.
`inbox[n]` is what the transport still has for pod `n`; it is a set, so messages
are reordered at will, and with `"dup"` one may be delivered again (two pods
that dial each other hold two connections). `Set` and `Delete` take their stamp
(`Begin`), apply it (`ApplyLocal`), publish (`Publish`) and mark the store dirty
(`Return`); batches apply in one step and publish one message at a time; `Seed`
publishes nothing. `Deliver` is `handleRaw`, `Fetch` and `mergeSnapshot` are
`Refresh`, `Subscribe` and `loadSnapshot` are `New`; `Wake`, `Debounced`,
`finalFlush` and `Store` are `snapshotLoop`. Clocks are independent and do not
run backwards; a restarted pod has the same NodeID, an empty map and a counter
at 0. `stored[n]` is the snapshot that pod `n`'s transport keeps. `Memory` and `Redis`
have one for all pods; with `"mesh"` every pod has its own, in memory, and
`FetchSnapshot` returns that of any other pod, or nothing (`Kept`, `Answers`).
A codec is the set `Bad` of values that it refuses. `high[n][k]` (the
newest entry that a replica held), `issued` and `lost` are history variables.

**Snapshotter** is one Store. The map keeps, for every key, whether it is live, a
tombstone or an expired tombstone, and every change has a number, so that
"persisted up to number v" says which changes a snapshot has. The counters are
updated where the code does it: `trackTransition` with the change, the count of
collected tombstones after it (`gcCount`, `Count`). A `Set` or `Delete` that loses
returns at once (`Rejected`); a batch of which every write loses still marks the
store dirty (`NoneWins`).

**Watch** is the fan-out of one Store. An event is a key and the number of the
change. `got[w]` is everything sent on a watcher's channel, `read[w]` how much of
it was received, and the difference is the buffer, of capacity 1 or more;
`due[w]`, a history, has the events that its filter let through since it was
registered. `watchersMu` is a variable because `Watch` tests and registers under
it while `Close` does not take it to close `closeCh`.

**CallReply** has the endpoints, their handlers and calls. The routing Store is
the sequence `writes[t]` of the claims and releases of a target in LWW order,
and the position `rt[p][t]` that pod `p` has reached in it; this takes the stamps
of these writes to follow the order in which they are made. `deliverReply` looks
the channel of a reply up under `pendingMu` and sends after the unlock
(`PassReply`); `replying` has the replies in between, and while a pod has one its
receive loop does nothing else (`Idle`). A lost envelope is one that stays on the
wire.

**Mesh** is the life of the peers and connections of one `P2PTransport`. `RemovePeer`
is three steps, as in the code: it deletes the entry under `peersMu`
(`RemovePeer`), cancels the loop after the unlock (`RemoveCancel`), and closes the
connections whose remote address is the peer's (`RemoveClose`), which are none if the
peer was given as a host name (`"hostnames"`).
**P2PFetch** is the traffic of one topic between a pod and its peers, with the
bounded send queues, the bounded subscription channel that stops a reader when
it is full, and `FetchSnapshot`. **Discovery** is `DNSDiscoverer.Run` with
`SyncPeers`, which changes the peer set in several steps.

**Memory** is `MemoryTransport`. Every call is a step or more on an `RWMutex`,
which is modelled as Go documents it: publishers share it, and a writer that
waits keeps new readers out. `Publish` is `RLock` (with the early return of a
closed transport), one `Send` per channel, and `RUnlock`; a full channel drops
the message and tells `onError`.

**Redis** is `RedisTransport` for several topics. `Subscribe` keeps `mu` while it
waits for the server (`Subscribe`, then `Receive`); a goroutine per topic has two
selects (`Take`, `Forward`, `Leave`, `Done`); `Close` ends one subscription after
the other. The server and go-redis are external: a published message arrives
late, never, or again when the library repeats a `PUBLISH` that timed out, and an
application that passed in a client may close it (`CloseClient`).

### Abstract specifications

**ReplicatedMap** is what a user of a Store relies on: a map per pod in which
every entry was written by someone, a pod sees its own writes at once, and a key
moves forward in the order of the stamps only, until a tombstone is forgotten or
the process restarts. `Replication` implements it (`ImplementsMap`) with `data` as
what a pod shows and `issued` as the writes made. This holds without a merger: a
merged value was written by nobody.

**Subscription** is what a Store needs of `Publish` and `Subscribe`: a channel
carries published messages only and nothing after it was closed; an ordered one
carries every message at most once and those of a publisher in order. `Memory`
implements it with order (`MemoryDelivers`), `Redis` without (`RedisDelivers`).
The refinement mappings are the identity on `sent`, `feed` and `ended`.

### Composition

Replication takes of a transport what `Subscription` and the comment of
`Transport` say, and less: with `"dup"`, `"drop"` and its unordered inboxes it
covers `Memory`, which drops, `Redis`, which repeats, and the TCP mesh of `Mesh`,
`P2PFetch` and `Discovery`, which does both. Its snapshots are shared in the runs
`replication_restart` and `replication_batches` and those of a mesh in
`replication_conflicts`; the proofs cover both. `CallReply` uses a Store through the
guarantees that Replication checks. `MCPeers` and `MCBrokers` only put two
modules side by side that share no state, to check them in one run.

## What the runs show

The instances have two pods, callers or fetchers, because the properties relate
two actors, or one actor to the store; one key where keys do not interact and two
where batches or filters matter; and one or two writes per pod, because a conflict
needs two writes and a resurrection needs a delete and one late write. One key and
one caller are enough in `Snapshotter`, whose invariants are proved for all sets,
as are those of the others; one watcher is enough in `Watch`, where watchers share
only the mutex, so that a second writer is the more telling actor. `MaxSeq`,
`MaxTime`, `MaxVer`, `MaxWrites`, `MaxCopies` and `MaxRounds` bound what is
unbounded in the code, `MaxLate` the callers that passed `isClosed` before
`Close`. As all of these are used up in the end, deadlock is not checked; liveness
properties stand in for it. `Env` turns on the faults and the calls of an
instance.

| Run | Instance | Shows |
|---|---|---|
| `replication_conflicts` | 1 key, one write per pod, clocks 0..2, TTL 1, duplicated and dropped messages, `Refresh`, a snapshot per pod | `TombstonesHold`, `Convergence` |
| `replication_restart` | 1 key, crash and restart with the same NodeID, echoes, failing `Publish` and `Snapshot` | `UniqueStamps`, `Accounted`, `ImplementsMap` |
| `replication_batches` | 2 keys, `SetMany`, `DeleteMany`, `Seed`, a value that does not encode, `Close` with a late caller; fair | `TypeOK`, `EventuallyConverged` |
| `snapshotter` | 1 key, 1 caller, remote writes, 2 changes, every failure, both ways of `Close`; fair | `TypeOK`, `StatsMatchMap`, `NoLostWakeup`, `CloseFlushes`, `AckedIsPersisted`, `CloseTerminates` |
| `watch` | 1 watcher of one of 2 keys, 2 writers, buffer 1, batches, cancellation, both ways of `Close`; fair | `ChannelDiscipline`, `ClosedAfterClose`, `NoSilentGap`, `AppliedOrder`, `WatchersEnd`, `CloseTerminates` |
| `calls` | 2 calls from one pod, 1 handler slot, loss, duplication, failing `Publish`, deadlines | `OutcomeIsTrue`, `TokensBalance` |
| `call_moves` | 1 call while its target is registered and unregistered on both pods, envelopes come twice and both endpoints close; fair | `ClosedIsQuiet`, `InboxMovesOn`, `CallsReturn`, `CloseReturns` |
| `peers` | `Mesh`: 1 address, 2 dial loops, one connection at a time, dialled or accepted, all faults, addresses and host names; `Discovery`: 1 discoverer, 3 addresses, failing lookups; fair | `NoSendOnClosed`, `NoLeakedConn`, `LoopsAreOwned`, `CloseTerminates`, `ResolvedStays`, `PeersConverge` |
| `fetch` | 1 peer, 2 fetchers, 2 rounds, queues of 1; fair | `AnswerReachesCall`, `TopicIsReleased`, `FetchReturns` |
| `brokers` | `Memory`: 2 publishers, 2 channels of capacity 1, 2 messages; `Redis`: 2 topics, 1 subscriber at a time, 2 deliveries, own and shared client; fair | `MemoryDelivers`, `NoSilentDrop`, `CallsReturn`, `RedisDelivers`, `ClosedMeansEnded`, `CloseReturns` |

`Convergence` is asked of replicas that missed nothing (`CaughtUp`) and where no
entry came back after its tombstone was collected (`NotResurrected`): the code
does not resend lost messages, and after `TombstoneTTL` a late write may
resurrect a key, as the comments say. `Accounted` is the other half: a replica
misses a write only for one of the reasons that the model puts into `lost`: a
failed publish, a crash, a drop, a value that did not encode, a `Seed`, or
having joined after the message was sent. `ImplementsMap` says what a pod shows
at every moment, whatever it missed.

`NoSilentDrop` needs a channel of capacity 1 and two messages, so that one of
them finds it full; `MemoryDelivers` two publishers and a `Close` that comes while
one of them sends; `ClosedMeansEnded` a `Subscribe` that waits for the server when
`Close` is called. A publisher or a topic more adds interleavings of the same
kind, and the safety properties are proved for every number. `MaxRedis` bounds the
messages published through `Redis`, as `MaxMsgs` does those through `Memory`.

`StatsMatchMap` says that the live counter is exact, that the tombstone counter
never falls under the map, and that it is exact until a snapshot fails.
`AppliedOrder` leaves out the events of batches and `AnswerReachesCall` the
fetchers whose request another one deleted, for the reasons given below.
`InboxMovesOn` needs a reply that comes twice, or for a call that has returned
since its channel was looked up: nobody reads that channel, and a receive loop
that waited for it would serve no call and end no `Close`. `LoopsAreOwned` allows two
dial loops for an address while a `RemovePeer` stands between its unlock and its
cancel, and no longer.

The two calls of `calls` are alike and are checked up to their exchange
(`CallSymmetry`). `Room` lets a claim or a release start only if its write still fits
into `MaxWrites`.

Fairness: goroutines run (weak fairness of the steps of each one), timers and
deadlines fire, handlers and dials end, and a mutex is handed on in turn (strong
fairness of the steps that take `watchersMu` in `Watch` and `mu` in `Redis`; in
`Memory` of `RLock`, because unlocking an `RWMutex` lets waiting readers in before
the next writer). Nothing is assumed of
applications, peers, consumers of a watch channel or the network: no call need
be made or cancelled, no peer need answer or hang up. The exceptions are that
`PeersConverge` needs a lookup that is repeated for ever to succeed (strong
fairness), that the transport's `Snapshot` returns, and that go-redis' `Receive`
does: the server answers, or the connection or the caller's context ends.

### Where the code and its comments disagree

Two runs are refuted by TLC; the findings quote the comments.

* `merger_diverges`: a set-union merger does not make replicas converge. A late
  write is rejected by LWW before the merger sees it.
* `two_discoverers`: discoverers of disjoint hosts remove each other's peers.

The models also show the following, which the properties above take into
account; no run is spent on them.

* A pod that is behind replaces a newer stored snapshot (`podshare.go:1136`);
  `transport.go:12` says "persists the most recent full state".
* A snapshot that fails after it collected tombstones leaves `Stats().Tombstones`
  too high (`podshare.go:1116`, `1136`); `podshare.go:105-106` calls the map the
  "ground truth" of the counters.
* A write that passed `isClosed` before `Close` is acknowledged and may not be
  flushed (`podshare.go:307`); lines 304-305 say "flushed on Close".
* After `ErrBroadcast` the local write is not persisted either
  (`podshare.go:335`); lines 20-25 say "only the fan-out to peers failed".
* An event of a batch may follow that of a later write to its key
  (`podshare.go:1059`); lines 1011-1013 say "each individual key's history is
  still monotonic".
* The sweep of `Close` may find a watcher in the normal path, because `Watch`
  calls `wg.Add` after it registered the watcher (`podshare.go:681`); lines
  730-731 say that it finds none.
* A retry of a failed `Register` returns nil and claims nothing
  (`callreply.go:202`); lines 186-187 say it "claims target".
* The old pod's late `Unregister` deletes the new owner's route
  (`callreply.go:218`); lines 21-22 say that a move overwrites the old entry.
* A connection whose dial completes during `RemovePeer` is served
  (`p2p.go:345`); lines 203-204 say that it "closes any connection".
* A returning `FetchSnapshot` deletes the request of the next one (`p2p.go:518`), an
  empty first answer hides the snapshot of another peer (`p2p.go:554`), and a
  deadline that has passed wins over an answer that lies in the channel
  (`p2p.go:526`, `548`, and the choice of `select` at `552`); lines 500-501 give nil
  the meaning that "no peer responds".
* `RemovePeer` of a peer that was added by host name closes no connection, as it
  compares the name with an address (`p2p.go:222`).
* `SetMany` that meets a value it cannot encode leaves the part before it in the
  map, unpublished (`podshare.go:363`); lines 342-343 say "never
  partial".
* `Register` and `Unregister` of a target that run at once change the handlers and
  the route in different orders (`callreply.go:205`, `218`): a route may remain
  without a handler, or a handler without a route.
* A second `Subscribe` of a topic gets a channel of its own from
  `MemoryTransport` (`memory.go:77`); the comment of `Transport.Subscribe` says
  that "built-in transports return an error".
* `doc.go:71-72` says that tombstones are collected at snapshot time; the code
  collects them on the `gcInterval` tick as well, which is what is modelled.

## What is proved

Every invariant, every action property and every refinement of the passing runs is
a theorem. The proofs hold for any sets of pods, keys, values, callers, watchers,
publishers, topics and addresses, any bounds and any choice of faults. The
assumptions are the named `ASSUME`s of the modules, which TLC evaluates in the runs
(special values lie outside the sets they are added to, bounds are natural numbers,
the keys of `Snapshotter` are finitely many), and those that a theorem states
itself: no merger for `ReplicasConverge` and `StoreImplementsMap`, and one
discoverer for `ResolvedPeersStay`. The run `two_discoverers` shows that the last
one cannot be dropped.

`ReplicationProofs` starts with the order: of two entries neither is newer exactly
when the stamps are equal (`NewerIsTotal`), and "not newer" is transitive
(`NotNewerTransitive`). Then `TypeCorrect`, and `TombstonesAlwaysHold`
(`TombstonesHold`). The invariant is inductive once it is said per pod and key and
joined with `TypeOK` (`HoldsAll`): an entry changes only by an accepted write,
where it becomes the newest one held because `Newer` is total and transitive, or
by a collection, where the entry was the newest and its expiry is stable because
the clock does not go back. The case of an expired newest entry is needed: the
replica may then hold an older entry that came back.
`StampsStayUnique` (`UniqueStamps`) is next. A stamp in use need not be in
`issued` yet, and a restarted pod counts from 0 again, so `StampInv` speaks of
every write that is held by a call or issued: a pod's stamps from its present
life have a sequence number it has drawn, and the older ones a time before it was
`born`.

`ConvergenceProofs`: `WritesAreAccounted` (`Accounted`). `AccInv` adds that a pod
that is down or joining has nothing, that no entry a pod holds is newer than
`high`, and that an open pod has its own writes. `ReplicasConverge` (`Convergence`)
and `StoreImplementsMap` (`ImplementsMap`) both need `Provenance`: every entry in a
map, a message, a stored or a fetched snapshot, or a call that was applied is one
that was issued. Two pods that account for all writes then hold, per key, entries of
which neither is newer, which are equal because stamps are unique.

`SnapshotterProofs`: `TypeCorrect`; `WakeupsAreKept` (`NoLostWakeup`) and
`CloseAlwaysFlushes` (`CloseFlushes`) from one inductive invariant `Inv`, which
adds how far `captured`, `persisted`, `acked` and `atClose` have come at each
place of the loop; and `StatsKeepToMap` (`StatsMatchMap`), whatever fails. The
last one rests on lemmas on cardinalities: what a change of some keys adds to and
takes from the live keys and the tombstones is what `trackTransition` counts
(`Counted`, `KeepsCounts`), and a failed snapshot is remembered (`FailedStays`).

`WatchProofs`: `ChannelsAreDisciplined` (`ChannelDiscipline`), `CloseLeavesNoWatcher`
(`ClosedAfterClose`), `NoEventIsSkipped` (`NoSilentGap`) and `AppliedInOrder`
(`AppliedOrder`). `Inv` adds that `watchersMu` is held by the one `Watch` call between
its test and its insert, where the channels of a watcher are before it is registered
and after it was refused, that from the sweep on the map has only what the sweep
has still to remove (`Swept`), and that nothing dispatched is younger than the map
while what batches still owe is marked as theirs (`Ages`). What `dispatch` does to
one watcher is one of three things (`Told`, `Dropped`, `Skipped`), and the actions are
shown to do one of them to each.

`CallReplyProofs`: `OutcomesAreTrue` (`OutcomeIsTrue`), `TokensAreBalanced`
(`TokensBalance`), `CloseWaitsForHandlers` (`ClosedIsQuiet`), and
`HandlersAreCapped`: the tokens being those of the handlers, at most
`MaxConcurrentHandlers` of a pod run at once. An outcome is true because the reply
in the channel was, and that because the envelope on the wire was: `Truth` says it
of a result wherever it is, `ResultsOK` of all places. A refusal is stable only
because a call delivered once has one goroutine (`ServingOK`), which has replied
when the refusal is sent. `Tokens` carries that the holders are finitely many, as
only then a step that adds one adds 1 to their number.

`P2PFetchProofs`: `AnswersReachTheirCall` (`AnswerReachesCall`) and `EntryIsReleased`
(`TopicIsReleased`). `Entry` adds that a call that waits without its entry in the map
lost it to the return of another call, so that only such a call can miss an answer.

`BrokerProofs`, for `Memory`: `NothingDroppedSilently` (`NoSilentDrop`) and
`MemoryKeepsContract` (`MemoryDelivers`). `Inv` says what the `RWMutex` gives (no
channel is closed or registered while a publisher sends), that what a channel has
of a publisher is in order and, while it still has to be sent to, older than the
message in hand, and that the message in hand is told of wherever the loop has
passed. For `Redis`: `CloseLeavesNothing` (`ClosedMeansEnded`) and
`RedisKeepsContract` (`RedisDelivers`). `RInv` says that a running forwarder
belongs to a topic in `subs` or among those that `Close` still has to end, that a
channel is closed exactly when its forwarder has left, that a `Subscribe` with the
lock sees an open transport, and that everything on its way was published.

`PeerProofs`, for `Mesh`: `EveryLoopIsOwned` (`LoopsAreOwned`), `ConnsAreReleased`
(`NoLeakedConn`) and `NobodySendsOnClosed` (`NoSendOnClosed`). `Inv` adds that
`peerCancels` has loops that are not cancelled and not being removed, that a dial
loop serves one connection at a time and waits until it ends, that what is in
`conns` is being served, and that a `Close` which returned left no goroutine that
serves or dials. For `Discovery`: `ResolvedPeersStay` (`ResolvedStays`). `DInv`
says that while the records stay the discoverer works on the answer of its host,
and that no peer that it wants is about to be removed.

Only model-checked: all liveness (`EventuallyConverged`, `AckedIsPersisted`,
`WatchersEnd`, `InboxMovesOn`, `FetchReturns`, `PeersConverge`, and that every
call and every `Close` returns), as fairness and ENABLED are outside what the
prover does.

## What is not modelled, and why

* `Get`, `Keys`, `Snapshot`, `Version`, `Stats`, `Owner`, `Peers` read under a
  lock. `TrySet` is a read followed by `Set` without a common lock, as its
  comment says, so that it adds no behaviour to those of `Set`.
* `AddPeer` and `Watch` call `wg.Add` while `Close` may be in `wg.Wait` (`p2p.go:198` and
  `585`, `podshare.go:681` and `720`). The models let the goroutine start or `Wait`
  return in either order; that Go's `WaitGroup` may panic on such a misuse is not
  modelled.
* An unbuffered Watch channel (`WithWatchBuffer(0)`, `options.go:41`), where a send
  succeeds only if the receiver waits at that moment.
* A second close of a subscription channel in `Memory` and `Redis`: `ended` is a set.
  The channels are closed where they leave `subs`, or by the one goroutine that owns
  them.
* Stats counters that only grow. Logging, error callbacks and their contents,
  except that `Memory` records that a drop was reported.
* A repeated key in one `DeleteMany`: the later tombstone replaces the earlier.
* Bytes: framing, JSON, TLS, TCP options. A frame or message is a record; one
  that cannot be decoded is one that is dropped.
* `Snapshot` and `FetchSnapshot` of `RedisTransport` are single calls to the
  server and touch no state of the transport. `Publish` there is one call as
  well; its effect is `sent`, and what the server does with it is `Arrive`.
* A second `Close` of `RedisTransport` returns at once, while the first may still
  be ending subscriptions; `ClosedMeansEnded` is about the first.
* The options only set fields before a `Store` starts; `prom` reads counters; the
  `examples` call the library and have no state that others share.
* `CallReply` over clocks that disagree: the order of the claims of a target is
  the order in which they are made. With clocks that differ, a later claim may
  lose to an earlier one, as with any two writes; Replication covers what the
  Store does then.
