# Verification of casm

TLA+ models, TLC runs and TLAPS proofs for `github.com/wetware/casm`, kept beside
the code in `src/`. Every definition of a model is translated from the source lines
that `PROJECT.json` (`map`) names.

## The system

casm is a library for peer-to-peer clusters on libp2p.

| Part | Source | What it does |
|---|---|---|
| Routing table | `pkg/cluster/routing` | One row per peer, from its latest heartbeat, with a deadline. `Upsert` adds, `Advance` evicts, `Snapshot` reads through indexes. |
| stm | `pkg/stm` | A wrapper of go-memdb: one writer, any number of readers of committed roots. |
| Router | `pkg/cluster/cluster.go`, `clock.go` | Publishes heartbeats on a pubsub topic, advances the table at every tick. |
| pulse | `pkg/cluster/pulse` | The heartbeat and the pubsub validator, which calls `Upsert` for each heartbeat. |
| View, queries | `pkg/cluster/{client,server,query,view}.go`, `pkg/cluster/query` | Lookup and iteration over the table, here and over RPC. |
| Boot socket | `pkg/boot/socket` | Signed datagrams: requests, answers, subscriptions to answers, a cache of sealed packets. |
| Surveyor, Crawler | `pkg/boot/survey`, `pkg/boot/crawl`, `pkg/boot/util` | Discovery over multicast, and over ranges of addresses, both on the boot socket. |
| Peer exchange | `pkg/pex` | A gossip protocol that keeps a small random view of the peers of a namespace. |
| Caching sealer | `pkg/socket` | Caches signed records in pooled buffers. |
| Vat, RPC helpers | `pkg/vat.go`, `casm.go`, `rpc.go` | Exports and connects Cap'n Proto capabilities. |

They meet in these places. Pubsub runs validators in goroutines of its own, so
`Table.Upsert` is called concurrently, while the Router's `advance` goroutine calls
`Table.Advance`. Callers of `Router.Bootstrap` and `Router.Stop` race with the Router's
own two goroutines. The heartbeats of one host reach the table of another through a
network. A client iterates over a snapshot that a server streams to it. Discovery
goroutines subscribe to the boot socket, whose single `serve` goroutine dispatches to
them and calls their `cancel`. Callers of the peer exchange send thunks to its loop and
then gossip over a store that several rounds share.

## Modules

| Module | Models |
|---|---|
| `RoutingTable` | `routing.Table` and the transactions of `stm` it uses |
| `TableSpec` | what a table promises: atomic `Upsert`, `Evict`, `Tick` |
| `Router` | `cluster.Router` and its clock: goroutines, locks and channels |
| `PulseTTL` | the TTL of a heartbeat, as it is set, sent and read |
| `Pulse` | heartbeats, and the records made of them |
| `Cluster` | a Router over time, the network, and the table of another host |
| `Schema` | the indexes of the table, and lookups through them |
| `Query` | selectors and constraints, as operators, and what queries mean |
| `QueryIter` | the stack of iterators of a query |
| `ViewIter` | the two ends of an iteration over RPC |
| `View` | queries, `Lookup` and `Iter` over a table that changes; composes the four above with `Pulse` |
| `BootSocket` | `socket.Socket` with its callers in `survey` and `crawl` |
| `BootPacket` | packets, their validation, and the cache of sealed packets |
| `CrawlRange` | port ranges and CIDR blocks, and how they are walked |
| `Discovery` | a call of `FindPeers` on any service that `bootutil.Dial` makes, and the hosts that answer; composes the two above |
| `PexView` | views of `pkg/pex` and their merge, as operators |
| `PexGossip` | the gossip rounds of one peer over its store |
| `PexExchange` | the service: loop, thunks, advertisers, trackers |
| `MC...` | the instances for TLC |
| `...Proofs` | theorems and proofs about the module of that name; `RouterProofs` also about `RoutingTable`, `QueryProofs` about `Schema`, `Query` and `QueryIter`, `ViewProofs` about `ViewIter` and `View` |

Definitions whose comment starts with "Fault" are plausible mistakes in the definition
that follows them. No specification uses them; they show that the properties can fail.

### RoutingTable

State: `clock` (the table's clock), `rows` (the committed root: per peer a record and
its deadline), `writer` and `wtx` (holder and working root of the write transaction),
and for each goroutine in `Upsert`, and for the one in `Advance`, where it is and what
it was given. `Upsert` is four steps: the read transaction with `valid`, the wait for
the writer lock, `upsert` on the working root with the clock read by `withDeadline`,
and the deferred `Commit`. `Advance` is six: the comparison with the clock, the scan in
a read transaction, the lock, `dropExpired`, `Commit` and the deferred `clock.Store`.
A transaction of memdb is external; it is modelled as what the code relies on: a reader
sees one committed root, writers exclude each other, `Commit` publishes the working root.

`ReverseLowerBound` is strict on the non-unique `ttl` index, as the tests of the table
note: a row expires when its deadline is *before* the tick.

### Router

State: the two atomics, the mutex, whether there is a clock and whether it stopped,
`announce` (open or closed), one tick, and where every caller of `Bootstrap` and `Stop`
and both goroutines are. `announce` is unbuffered, so a send is a rendezvous: `send`
and `advanceTick` move the heartbeat goroutine from `recv` to `emit`. A `select` that
waits (`parked`) is woken by the first case that becomes ready; one that does not wait
takes any ready case, and a closed channel is a ready case. The definitions have names of
their own (`RouterInit`, `RouterNext`, `rvars`, ...), for `RouterProofs` extends this module
and `RoutingTable`, the two halves of a Router.

### Cluster and Pulse

One host, seen in the table of another. State: whether the host runs and as which
instance, when `advance` will announce it, what `heartbeat` is doing, the messages in
flight, and the observer's row. Both clocks have one period and tick in turn; times count
from the last tick of the clock that they are compared with, so the state space is finite
without a bound on time. Sequence numbers are ages: 0 is the latest that was published.
The network loses, repeats and reorders. After a crash the host starts as a new instance,
with sequence numbers that go on or begin lower. `healthy` is a history variable: since
the observer took the host's latest heartbeat, all were published at once and arrived
before the observer's next tick. `PulseTTL` has the conversion of a TTL to milliseconds in
32 bits, with zero for the default.

The TTL is a multiple of the tick, and survives the conversion (`ClusterOK`). It does with
the code's defaults (10 s and 1 s), and it has to be a multiple: `advance` announces at
the first tick after `next`, the row lapses at the first tick after its deadline, and a TTL
in between would leave a gap.

### Schema, Query, QueryIter, ViewIter and View

Texts are short sequences of numbers, compared in lexicographic order. `Schema` gives the
keys that each index makes for a row and for an argument, and the four lookups of `stm` as
the entries they find, in order: an entry's place is the number of keys up to its own. (The
modules do not extend `SequencesExt`. With it tlapm needs several times as long for every
obligation, so `Reverse` and the order of rows are written out.)

`QueryIter` has the iterators as the code nests them: the table's iterator under one stage
per constraint, with what the closures of `Limit` and `To` remember. A call of `Next` goes
down the stages and what is returned comes up, a step for each call and each return.
State: the rows that the table's iterator goes over and how many it returned, the stages,
which stage is called or returns and what, and all that the caller has seen. `Meaning` in
`Query` is the reference definition: constraints cut the positions of the selected rows down
in turn.

`ViewIter` is the protocol of `client.go` and `server.go`. `Next` signals on `sync` and
receives from `send`; `Recv` waits for a signal the first time, sends the record, and
returns, which frees its message, only at the following signal. The server sends with a
window of flow control, waits for the calls to return, and shuts the handler down. The
context of the call may end at any time, and that of the server's calls some time later.
Delivery in order, one `Recv` at a time, is what the RPC system promises (external).

`View` adds what the records are: the encodings of selectors, indexes and records, the
server's snapshot, and commits to the table in between. `Server.Lookup` runs the loop of
`bind` over a query that is limited to one record: it calls `Next` until it returns nil, and
answers with the last record before that.

The tables that it is about (`HeldOK`) have entries with distinct keys in every index and
rows that came in heartbeats, so that their TTL is one that the wire can carry. Distinct
keys are what a tree of go-memdb has; for the unique index on server IDs it takes that no
two peers have the same ID at a time.

### BootSocket

State: `done`, the map `subs` from a namespace to its subscriber set, `members` of each
set, `advt` and `time`, each subscription's state (`st`, its captured set `ss`, limit,
remaining count, fill of its channel), the ticker's channel, and where `serve` is
(`spc`, the packet, the subscribers left to visit, the subscriptions to release).
A set is named by the subscription that made it, which is how the captured `ss` of a
`cancel` can differ from the set now in the map. Each section that holds `mu` is one
step, except `dispatch`, which holds the read lock over one step per subscriber;
`cancel` is three (enter the `Once`, the locked section, `close(ch)`).

### BootPacket, CrawlRange and Discovery

A packet is a union with the fields of the member that is set; sealing it adds who signed
it. A `RecordCache` is a set of entries by key, which lets go of any entry when it is full.
Signatures are taken to be sound: nobody signs for another.

A range is a record that `Next` moves on, over addresses of `Bits` bits, with wrap-around
where the code's integers have it; a CIDR block is tried with every random mask. The
bitwise operations of the code are written with `\div` and `%` (`ignore`) or as the number
with the given bits (`xormask`), for the proofs cannot use the module `Bitwise`.

`Discovery` is one call of `FindPeers` on the service that its multiaddr gives: static
addresses, a Crawler, a Surveyor or a GradualSurveyor, or an error (a block with too many
ones, an interface that is down or cannot join the group). State: where the call and its
goroutine are, the current subscription, the GradualSurveyor's `out` and attempt number,
the crawler's range, who advertises, everybody's cache, and the packets in flight. A
packet that is delivered may be delivered again until it is dropped. A retry may come at
any time: how long the back-off waits is left out.

### PexView and PexGossip

A view is a sequence of records, each with its peer, sequence number and hops. Where the
code draws lots (`shuffled`, `decay`, the order `sort.Sort` gives to records of one age)
the operator is the set of possible results. What a view keeps of another is written by
positions (`at`: the records at some of them, in order; `orders`: all orders of a set of
records), which is how the proofs reason about them. `afterPush` is an effect of Go slices:
`appendLocal` appends to a prefix of `r.local`, and so writes over the record after it.

State: the sequence number of each peer, the store by key, and for each round where it is
and its `local` and `remote` views. A round is `prepare` (the locked load), `pushpull`,
and `mergeAndStore` (locked), and may `Fail` in between. The other end of the stream runs
the same code, perhaps with another `GossipConfig`: it may send any view of the form that
`PushValid` shows this end to send, the local peer's own record included. The store
starts with any view of at most `MaxView` records, for a datastore may be persistent.

The peer's own record has one sequence number. A new one (`atomicRecord.Consume`) is
stored in two atomics, one after the other, but rounds read only the peer ID of the one,
which does not change, and push the other; `merge` drops own records whatever their number.

### PexExchange

State: the advertisers with the time left to their deadlines, the host's stream handlers,
the channel of one thunk, the loop, and for every caller where it is in `Advertise`,
`Bootstrap` or `FindPeers`, its reply channel, its gossiper, and the time left to the
context of its rounds; and the trackers of `discover` with their entries. A thunk is one
step of the loop. Time passes while no answer waits to be picked up: a deadline of minutes
is not compared with the microseconds between two steps of a goroutine. `BootstrapFits`
says that the rounds of one `Bootstrap`, one per peer that does not answer, fit into the
life of an advertiser, `Tick + Timeout`; that is the grace period that `advertiser.Expired`
relies on. With the code's defaults (5 min and 30 s) eleven peers fit; a longer list of peers
that all time out would outlive it.

## Runs

| Run | Bound | Question |
|---|---|---|
| `table_isolation` | 2 upserting goroutines, 2 peers | Do write transactions isolate calls: nothing accepted is lost, only expired rows go, all visible expired rows go? |
| `table_atomic` | one goroutine per peer, 2 instances, fair | If no two goroutines upsert one peer at a time, is the table the atomic table of `TableSpec`, and does every call return? |
| `table_stale` | 2 goroutines, 1 peer | *Violation*: an older record replaces a newer one. |
| `router` | 2 callers, 1 stopper, fair | Is the Router started at most once, does it shut down, and does no caller wait for ever? |
| `router_panic` | 1 caller, 2 calls | *Violation*: `Bootstrap` sends on the closed `announce`. |
| `cluster` | 2 instances, 2 messages in flight, TTL of 2 ticks, fair | Does a host stay in the table of another while its heartbeats arrive in time, does its row never go back, is a new instance seen, does a host that is gone disappear for good? |
| `view` | tables of up to 3 rows, 16 selectors, 12 lists of constraints, window 2, fair | Do queries return what they mean, here and over RPC, completely and in order; are records valid as long as promised; does neither end of an iteration wait for ever? |
| `socket_safety` | 2 subscriptions with limit 0 or 2, channels of 1, 3 ticks | Is a live subscription always found, is a closed channel never sent on, are limits exact, does an advertisement last until the first tick after its deadline? |
| `socket_live` | 2 subscriptions, fair | Does every subscription end, and `serve` return? |
| `discovery` | 2 hosts, 15 addresses to dial (6 of them unusable), addresses of 3 bits, 3 distances, caches of 2, fair | Does a call find other hosts only, or those it was given as static addresses, does a crawl ask every address once, do surveys go out as meant and widen until a host answers, does every call end? |
| `pex_gossip` | 2 rounds, 4 other peers, `MaxView` 2 | Does a peer keep itself out of its store, push valid views, fill its view and forget nobody without need, when rounds overlap? |
| `pex_service` | 2 callers, 2 calls, up to 2 peers to try, fair | Do callers share one gossiper that does not expire under them, is a namespace tracked once, does `FindPeers` get its answer, does `Close` stop all gossip? |

The runs leave out what other properties of theirs imply, and plain types: `TableInv`,
`DeadlineInCall`, `IterInv`, `ExchangeInv`, and the `TypeOK` of `Cluster` and `Discovery` hold
too. TLC finds no violation when they are added to the cfgs, and all but the `TypeOK` of
`Discovery` are proved. `Registered`, `LimitRespected` and `AdvertFresh` follow from
`SocketInv`, and `ReturnsFalseIfStale` from `ImplementsTable`.

### Bounds

Two goroutines and two peers give every overlap of two write transactions, on one row and
on two. Two callers let one find `relaying` unset while the other holds the lock, or one
renew an advertiser under the rounds of the other. Two subscriptions are the fewest with
which a set outlives its maker. A channel of one result is full as soon as it holds one;
the code's sixteen only take longer to fill, and a limit of two is the least with which a
result is dropped before the limit is reached. Three ticks let one be delayed and one be
dropped. The safety properties of these modules are also proved, for any number of each.

In `cluster`, two messages can overtake each other and a TTL of two ticks has room for a
jitter of every length; two instances give one crash and restart, and sequence numbers that
go back by one are enough to be refused. In `view`, the rows have a host that is a prefix
of another, fields with a common prefix and with two separators, and IDs whose text sorts
in another order than the IDs; there is an index without the interface its name calls for.
Three records and a window of two let the server run ahead of the client. In `discovery`,
addresses of three bits have blocks of every size, at both ends of the space; three
distances overflow after three attempts; a cache of two forgets one of them. The second
host is too far for the first two distances. `MinOnes` leaves out the block of all
addresses, whose walk never ends.

A `MaxView` of two with four other peers gives merges of up to four records, so that
swapping, decay and random eviction all remove something; records of up to two hops let a
round see the records another one stored, and one change of address (`MaxSeq`) makes
records of one peer that differ. `MaxHop` ends every behaviour of `PexGossip`, and
`MaxCalls` those of `PexExchange` and `Router`; an iteration, a socket, a Router and a call
of `FindPeers` end for good. Deadlock is therefore not checked for these.

### Fairness

A goroutine that can run does (weak fairness of its steps). `sync.Mutex`, the writer
lock of memdb and the write side of `sync.RWMutex` are granted in turn, as is a channel
with several waiting senders (strong fairness of taking the lock, or of the send).
`select` between a tick and the end of the clock does not ignore the latter for ever.
Nobody is obliged to call an operation, to cancel a context or to close a socket; a
publication and a back-off end.

* `Cluster`: both clocks tick. A publication that is tried again and again succeeds some
  time, and so does the delivery of the latest heartbeat (strong fairness of `emit` and
  `DeliverLatest`): without them no heartbeat ever has to arrive.
* `ViewIter`: the steps of the goroutines only; the caller need not go on, nor cancel. When
  it has cancelled, the cancellation reaches the server's calls.
* `Discovery`: the steps of the goroutines, and the back-off ends. A request or an answer
  that is sent again and again is handled some time (strong fairness of `Answer` and
  `Handle`); packets do not stay in flight for ever, and the caller reads its channel.
* `PexExchange`: the loop's `select` does not prefer the tick to thunks for ever, and the
  send of a thunk competes with other callers (strong fairness of `runThunk` and
  `sendThunk`). A round ends, by its timeout. The source of `FindPeers` is closed some time
  after its context ends; that is a promise of the discovery service, not of casm.

## Findings

Two runs end in a violation. They are disagreements between the code and its own comments
and tests; `PROJECT.json` quotes the lines.

* `table_stale`: the comment of `Upsert` says it returns false if the record is stale. The
  check and the write are separate transactions, and pubsub validates concurrently.
  `table_atomic` and the theorem `StaleRejected` show that this is the only way: with one
  call per peer at a time the comment is true.
* `router_panic`: `Bootstrap` checks the clock and then selects on a channel that
  `advance` closes on its way out.

The modules state further promises that TLC finds broken. Added to the cfg of the run
named, in place of its other properties, each gives a counterexample.

| Definition | Run | Promise | What happens |
|---|---|---|---|
| `PrefersNewlyReceived` | `table_atomic` | `table.go:128-129`, "If seq is same, prefer newly-received record." | The comparison is strict: the stored record stays. |
| `ClosingAfterStop` | `router` | `cluster_test.go:78-80`, `ErrClosing` after `Stop` | `Stop` before any `Bootstrap` marks the Router as relaying and leaves its clock running (`cluster.go:59`): `Bootstrap` then waits for ever. |
| `ViewBounded` (without symmetry) | `pex_gossip` | `gossip.go:32`, "maximum View size"; `specs/pex.md:73`, "bounded cache" | The record that `push` writes over (`gossip.go:265`) is still in the store, but neither merged nor deleted. |
| `SeqKept` (without symmetry) | `pex_gossip` | `specs/pex.md:166-168`, duplicates keep the higher `Seq` | For the same reason an older record of that peer is taken for a new one. |
| `NextReturns` | `view` | `client.go:70-72`, `routing.go:143-145`: `Next` returns nil when exhausted | `Next` watches no context (`client.go:97`): a call after exhaustion, or after the context ended, can block on `sync`, where a signal is left that nobody takes. |
| `RangeInterval` | `view` | `selector.go:45`, "all records in the interval [min, max]" | `To` goes on past the index, and panics at the end of the rows. |
| `AdvertiseReturns` | `pex_service` | `errors.go`, `ErrClosed` from a closed exchange | A thunk queued when the loop ends is never run, and the second receive watches nothing else (`pex.go:289-290`). |
| `QuietOnceFound` | `discovery` | `specs/survey.md:69`, no further requests once a peer is found | `GradualSurveyor` surveys until its context ends. |

Modelling turned up more, which no run checks, for lack of a promise or because the
constants leave it out:

* A late heartbeat of an earlier instance can replace the row of the newer one, when its
  sequence number is higher. It lapses in time (`CrashedGone`, `InstanceSeen`).
* The record that `Next` returned is freed when the context ends, whatever the caller does.
* The server evaluates the selector of a query only; constraints are not sent.
  `matchPeer` compares raw IDs where the index has their text, `matchHost` inverts the flag
  of prefixes, and `Select` on a host or on metadata also finds longer keys.
* A port range from 0 to a higher port yields nothing, nor does a block of two addresses
  (a comment says so of blocks of one); the walk of a block of all addresses does not end.
  A block with more ones than its address has bits passes `TranscoderCIDR`, and `NewCIDR`
  then panics in `Reset`.
* The back-off of `GradualSurveyor` takes its minimum from `Max` (`gradual.go:77-83`). With a
  limit, its loop reads the closed channel and passes zero values on until the next retry.
* A `GossipConfig` of zeros is said to be "ready to use", but has no defaults.

## Proofs

For every value of the constants. Each proof has the same shape: an inductive invariant
(checked by TLC first, as an invariant or in its parts), one step for each action, and the
property as a consequence of it or of the invariant and one step.

**RouterProofs, the table.** `TableInv` adds to the types that the writer lock is held exactly
by a goroutine that is inside a write transaction, that the working root equals the
committed one except for that goroutine's own change (so a commit is the change, which is
why no commit is lost), and that a call's clock values are ordered. From it follow
`AcceptedIsStored`, `EvictsOnlyExpired`, `DeadlineInCall` and `ExpiredEvicted`. Under the
hypothesis `PerPeerUpserts` (no two goroutines upsert one peer at a time) the verdict of
`valid` still stands when the row is written, which gives `ReturnsFalseIfStale` and the
refinement `ImplementsTable`: a commit maps to `Upsert` or `Evict`, the store of the clock
to `Tick`, all else to stuttering.

**BootSocketProofs.** `SocketInv` adds to the types: a live subscription is a member of
the set its namespace maps to (`Registered`); a set that the map holds is not
empty, a member of any set is live and captured that set, and members of a namespace's set
subscribed to that namespace (`SetsOK`); whom `dispatch` has yet to visit is live and has
results remaining (`ServeOK`: the read lock keeps `cancel` out); the results sent and the
remaining count add up to the limit (`LimitOK`); ticks do not run ahead of the wall clock
(`TicksOK`). `Registered` is not inductive without `SetsOK`: `cancel` deletes the entry of
a namespace by name, and only an empty set may be deleted.

**RouterProofs, the Router.** `StartInv`: the holder of the mutex is the caller about to
start the Router, and as long as it is there or `relaying` is unset nothing was started.

**QueryProofs.** For any table, selector and constraints. The first part is the iterator.
`QueryInv` relates every stage to the positions of the selected rows that it has dealt with:
those that the table's iterator has passed, but for a row that is on its way up and has not
reached the stage (`by`). A `Limit` has counted the positions that the stages below let
through (`LimitInv`). It may have counted more, for its Matcher is also given the nil of an
exhausted iterator, but only when nothing is left below. What a stage returns is at a
position that its constraint keeps, and nil means that no such position is left
(`ReturnInv`). The caller has seen the rows at the first of them, in order, and after those
only nil (`SeenInv`). `QueryMeets` follows when the call has returned.

The second part is the selection. `Before` is a strict total order of texts, so the entries
of a tree have places from one to their number and `inOrder` has each row once for every
entry (`PlaceIs`, `InOrderCount`), forwards and backwards. An id that follows a key moves it
up, and past a text that it came before only if the key is a prefix of that text
(`LowerConcat`, `UpperConcat`), so a lower bound or a prefix finds every key that is asked
for (`WantedReached`). In a reversed `From` on an index that is not unique it does not find the
bound itself, which is why `wanted` leaves that out.

**ViewProofs.** First the protocol `ViewIter`, for any number of records, any of which may be
malformed, and any window. `RecordValid`, `InOrder` and `ExhaustedComplete` are not
inductive: they need to know how far the client is. `IInv` counts the records that `Recv` has
handed over (`passed`): what `Next` returned lies among them, and is all of them unless a
`Recv` failed; and a call that returned without an error has sent every record.

Then `View`. Records, indexes and selectors come back from the wire as they were
(`WireRecord`, `BindIs`, `RemoteSelection`). `ViewInv` says for each kind of call what it has
of its snapshot: a query goes over the rows of the selection, with `QueryInv` unless `To` is
among its constraints; so does a `Lookup`, which has seen no nil but the last; its answer is
the first of the rows; the records of `Iter` are copies of them. A commit changes none of it.
`QueryMeets`, `SelectComplete` and `RemoteMatchesLocal` follow. Every step of `View` is one of
`ViewIter` or leaves it alone (`ViewRefinesIter`), so that what is proved of the protocol holds
of the view (`ViewDelivers`).

**ClusterProofs.** For any tick, any TTL that is a multiple of it, any number of restarts and
messages, and any step back of the sequence numbers at a restart. `OrderKept` needs only
types. `HealthyStays` needs to know how old the row may be: `HealthyOK` says that, while the
host is healthy, what is left of the row's TTL is a whole number of ticks that lasts past
`next`, the time of the next announcement; after the host's tick it may be shorter only if a
newer heartbeat is being published or on its way (`Pending`). That this heartbeat will be
accepted takes `NetOK` and `RowOK`: messages and rows of earlier instances may have any age
above `Lowest`, those of the instance that runs are not from its future. The gap between two
heartbeats closes because the TTL divides by the tick (`WholeTick`): what is left and not
zero lasts for a whole tick.

**PexGossipProofs.** For any set of peers, any number of overlapping rounds and any
`GossipConfig` with room for two records. The first part is about the operators of `PexView`,
for views of any length: what `head`, `tail`, `shuffled`, `at`, `orders`, `merged` and
`incrHops` keep (the records, one per peer, the order, the length). Filters and orders are
described by the positions they pick (`Picks`), and lengths by the cardinality of that set, so
that no induction over views is needed. `Fill` is the arithmetic of a round: what swapping,
protection and decay leave adds up to the lesser of `MaxView` and the number of candidates,
and no count is negative. The second part is the invariant: the store has only records of
other peers under their own keys (`StoreOK`); a round that is about to push holds stored
records, one per peer, and afterwards perhaps the peer's own in place of one of them, for
`push` wrote over it (`LocalOK`); what was pulled has one record per peer (`RemoteOK`). Every
record that may be merged has a hop to spare (`Sound`), which is why `MaxHop` bounds the store
too. From it follow `GossipInv`, `PushValid`, `MergeFills` and, for the step that stores,
`EvictedWhenFull`.

**PexExchangeProofs.** For any callers, namespaces and durations with
`BootstrapFits`. That rounds share a gossiper depends on time: the advertiser must not
expire while a caller gossips with what it was given. `ShareOK` says that its deadline is no
earlier than the end of all the rounds (`Due`) of every caller that holds its gossiper, from
the moment the loop answers; a renewal by another caller only moves it on. The other parts
say where thunks and their answers are (`ThunkOK`, `CallOK`), and that no deadline is later
than `ResetTTL` makes it. The theorems are `HandlersInStep`, `RoundsShare` and `TracksOnce`.

**DiscoveryProofs.** For any hosts, calls, static addresses, distances, and sizes of caches
and buffers. `Entries` are the packets that a host may seal: one request, one response, and
a survey for each distance. All caches and all packets in flight have only those (`CacheOK`,
`NetOK`), and a key has one packet (`OneEntry`); so `Load` yields the packet it would have made,
whatever was evicted, which is `SentAsMeant`. For `OthersOnly` the subscription and the
channels of `FindPeers` hold only infos of other hosts, static addresses or zero values
(`SubOK`, `OutOK`), and as long as there is no limit, the context lives and the socket is open,
the `GradualSurveyor`'s current channel is open and no zero value was taken from it (`NoZero`).

`CrawlExact` is about the range that a Crawler walks, for addresses of any width. `CrawlInv`
says that what was asked is what the range yielded so far. For ports (`Ports`) these are the
numbers from the low end on. For a block (`Addrs`) they are the addresses from the network
address to the one reached, without those that are skipped, each combined with the random
mask. A number is known by its bits (`SameBits`), so the mask undoes itself (`XorTwice`), and
one that has no bits of the network stays in the block (`XorBlock`): the mask permutes the
block, and no address comes twice. `nextIP` passes over skipped addresses only, and stops one
past the block although it may count on from the largest address to 0 (`nextIPIs`). What
happens bit by bit is proved by induction, in the form of a set of numbers that has 0 and
with each number the next (`Induction`).

Constants are assumed to be what the code makes them: naturals for bounds, `NoCaller` outside
the sets it is added to, `Empty` (the zero value) no host's info and no static address, `nil`,
`Err` and `Panic` no rows or records (`QueryOK`, `WireOK`), tables, selectors and constraints as
callers can have them (`ReadsOK`), a default TTL that the wire can carry, blocks with a prefix
of `MinOnes` at least. `PowersOK` is a fact of arithmetic, that powers of two double, which the
provers do not have. The assumptions are named, stand in the module that declares the
constants, and hold in every instance that TLC checks.

Most leaves are left to Zenon. tlapm takes longer to prepare an obligation for SMT the more
of them it has prepared in the module, so SMT is kept for arithmetic and sequences.

### Only model-checked

* Liveness: every property of the runs that says "eventually", and with it all fairness.
* The promises that the code does not keep, under Findings. Among them is the one about
  queries with `To` (`RangeInterval`), of which `QueryMeets` says nothing.

All other properties of the passing runs are stated by a theorem. That a selector gives rows
in the order of their keys is how `inOrder` is defined; no property states it.

## Plan

1. Two tables in `Cluster`, and a Router that is itself the model of `Router`.
2. A theorem about queries with `To`, once it is settled what `To` is to do.

## Not modelled

* Vat and RPC helpers: `Export`, `Embargo` and `Connect` forward to libp2p and Cap'n Proto,
  whose behaviour a model would have to invent.
* Caching sealer: no package but its tests uses it, and nothing says how long the bytes
  stay valid that it returns from a pool.
* Parts of `stm` that no package uses: `Defer`, `Changes`, deletion by prefix, watches.
* The byte layout of messages, signatures, datagrams, the syntax of multiaddresses.
* Protocol matchers, metrics, logging, the command line, generated accessors and mocks.

`PROJECT.json` lists every part with the reason.
