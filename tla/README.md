# Verification of msgtrans

TLA+ models of the msgtrans transport library (`src/`), the TLC
configurations that check them on small instances, and TLAPS proofs of the
results that hold for every instance. Paths below are relative to `src/src/`
unless they start with `src/`.

## 1. Inventory of the system

msgtrans moves *packets* (requests, responses, one-way messages) over TCP,
WebSocket or QUIC connections behind one client and one server API. Everything
is asynchronous Rust on tokio: tasks interleave at every `await`, and any
future may be dropped at an `await`.

| Part (files) | State | Operations | Hard behaviours | What makes it correct |
|---|---|---|---|---|
| **Transport: request correlation** (`transport/transport.rs`, id counters in `client.rs`, `transport_server.rs`) | `RequestTracker`: pending map id -> oneshot sender, `next_id`; counters of client and server | `request`, `request_with_options`, `on_event` (responses), timeout, drop | late, duplicate, reordered, lost answers; colliding ids; dropped futures | an answer reaches exactly the request it belongs to; no request hangs once it is sent |
| **Transport and TransportClient: session lifecycle** (`transport/transport.rs`, `client.rs`) | `session_id`, `connection_adapter` (two tokio mutexes), `current_session_id`, state manager entry | `connect`/`set_connection`, `send`, `disconnect`, `force_disconnect`, `close_session`, `force_close_session` | locks held across awaits; concurrent closes; a connect over a live connection; cancellation | session implies adapter; an `Ok` close means closed; one closer; closes and sends end |
| **ConnectionStateManager** (`transport/connection_state.rs`) | session -> Connected / Closing / Closed | `add_connection`, `try_start_closing`, `mark_closed`, `remove_connection` | compare and set under one lock, called between awaits | at most one caller starts a close |
| **TransportServer** (`transport/transport_server.rs`) | maps `transports`, `stats`, state manager; id generator; event channel | `serve`, accept loop, `add_session`, `remove_session`, `close_session`, `force_close_session`, `close_all_sessions`, `send_to_session`, `broadcast`, event handler | three maps changed one by one by listener, handler and application | the maps agree; one close; dead sessions go away |
| **TCP adapter** (`adapters/tcp.rs`, `adapters/factories.rs`) | socket halves, send queue, shutdown channel, broadcast event channel | event loop (`select!` of read, send queue, shutdown), `send`, `close` | blocked writes, cut reads, events without subscribers | packets arrive in order and once; both ends stop together |
| **WebSocket adapter** (`adapters/websocket.rs`) | one stream for both directions, `is_connected` flag | event loop with a close frame, `send`, `close` | writing blocks reading; the flag is cleared after the event | packets arrive in order; the end is announced once; both ends end |
| **QUIC adapter** (`adapters/quic.rs`) | one connection, a unidirectional stream per packet | event loop, `send`, `close` | error classes, a read limit of 1 MiB, failed writes that end the loop silently | as WebSocket |
| **Lock-free containers** (`transport/lockfree.rs`) | `LockFreeHashMap` shards (pointer to immutable map), `LockFreeQueue` (channel and size counter), `LockFreeCounter` | get, insert, remove, snapshot, keys, len, for_each; push, pop, len | compare-and-swap races, memory reclamation, bounded retries, scans during writes | linearizable; no freed memory followed; scans report real values |
| **Lock-free connection** (`transport/lockfree_connection.rs`, `connection_factory.rs`) | command channel, worker task, per-clone connected flag | send, flush, close through a worker | a blocking wait in an async task, worker-side timeouts, stale flags of clones | commands take effect in order and at most once; every call returns if the runtime has threads left |
| **Connection pool** (`transport/pool.rs`) | available queue, connection map, size counters | get, return, expand, shrink | check and act on different structures | no connection handed out twice; limits hold |
| **Memory pool** (`transport/memory_pool.rs`) | three buffer queues, a counter each and their total, limits | get, return, clear, adjust | limit checked before use; counters reset next to calls | caches stay bounded; counters agree with the queues |
| **Actor** (`transport/actor.rs`) | command, data and event channels of four tasks | submit, forward, batch, stop | tasks end apart from each other, a batch fails half-way | packets keep their order; accepted packets are tried; shutdown ends all tasks |
| **Flume protocol adapter** (`transport/protocol_adapter.rs`, `protocol/protocol_adapter.rs`) | two packet queues shared by clones, per-clone flag, statistics | send_nowait, process_send_batch, process_receive_batch | a call dropped between taking a batch and processing it | no packet is processed twice; statistics account for all |
| **RequestManager** (`transport/request_manager.rs`) | second, unused tracker over a `LockFreeHashMap` | register, complete, clear | as the tracker | as the tracker |
| **Events, contexts, streams** (`event.rs`, `stream.rs`) | response closure with a shared `Option` | respond, conversion of events | clones in several subscribers | a request is answered at most once |
| **Packet format** (`packet.rs`) | none; `MessageIdManager` (no caller) | three codecs, compression, decompression | field widths, optional codecs, data that looks compressed | decode inverts encode; data arrives as it was sent |
| **Protocol registry, plugins** (`protocol/protocol.rs`, `plugin.rs`) | name and scheme maps | register, create | registration that fails half-way | names and schemes agree |
| **Configuration** (`protocol/*_config.rs`, `transport/config.rs`, `expert_config.rs`, `protocol/adapter.rs`) | plain values | defaults, presets, setters, validate, merge | merge guesses which fields were chosen | choices survive; valid configs merge to valid ones |
| **Commands and errors** (`command.rs`, `error.rs`, `connection.rs`), **server options** (`transport/server.rs`) | plain values | none that changes state | none | not modelled |

How the parts interact. An application calls a `TransportClient` or a
`TransportServer`. Both own `Transport`s; a Transport owns one connection
adapter. The adapter's event loop writes packets taken from its send queue and
publishes `TransportEvent`s on a broadcast channel. A *reader* task spawned by
`set_connection` passes them to `Transport::on_event`, which completes pending
requests and forwards the rest on the Transport's own broadcast channel. There a
client's forwarding task, or the handler task that `add_session` spawns in a
server, turns them into application events; the server's handler also removes a
session whose connection closed. Close calls go the other way: state manager,
adapter shutdown signal, wait for the event loop, then the maps.

## 2. Modules

| Module | Models | State and actions |
|---|---|---|
| `RequestContract` | what a request API promises (abstract) | `phase`, `served`; Open, Serve, Answer, Fail |
| `RequestTracker` | request correlation of one Transport | `pending` and `nextId` are the tracker's fields, `chan` the oneshot channels, `status` the position of each request future; one action per await-to-await segment of `request`, plus the response path, the peer, and the connection: `link`, and in `hold` the close that has `connection_adapter` (`CloseBegins`, `CloseReleases`, `CloseDropped`, `Close`) |
| `RequestTrackerProofs` | theorems about `RequestTracker` | inductive invariants, lemmas, refinement |
| `Transport` | client session lifecycle and the event loops of its connections | the four client fields, the two mutexes with their owners, `pc` per task; one action per lock acquisition of `connect`, `send`, `disconnect` |
| `TransportProofs` | theorems about `Transport` | inductive invariant, one step per lock acquisition |
| `TransportServer` | session registry and event path of a server | the three maps, one record per listener and per application task, reader and handler of each session with their channels |
| `TransportServerProofs` | theorems about `TransportServer` | inductive invariant, the action property `NoLateRegistration` |
| `AtomicMap` | what users of the map rely on (abstract) | `map`, `open`, `answer`; Call, TakeEffect, Fail |
| `LockFreeHashMap` | compare-and-swap map, down to addresses and guards | `pointer` of each shard, `heap`, `guards` that keep a retired map; Load, Copy, Exchange, ExchangeFails, Read and the scan's steps |
| `LockFreeHashMapProofs` | theorems about `LockFreeHashMap` | inductive invariant, refinement of `AtomicMap` |
| `TcpFraming` | packets over one direction of a TCP connection | send queue counters, units on the `wire`, `delivered` events; partial writes, arbitrary reads, Parse |
| `ConnectionPool` | the pool shared by tasks through clones | `connections` (map), `queue`, counters with wrap-around, per-clone `counter` and `factor`; one action per step of get, return, expand, shrink on a shared structure |
| `AdapterLink` | a WebSocket or QUIC connection with an event loop at each end | per end: the `handle` (open, closing, dropped), the shutdown `signal`, the position of the `loop`, the `wire`, what was `delivered` and announced (`closes`), the flag; one action per branch of the `select!` and per outcome of what it awaits |
| `LockFreeConnection` | clones of a handle, the command queue and the worker | `queue`, `worker`, `command`, each call's `answer`, per-handle flag, what the connection `reported` in `new()`, the woken caller `bound` to the worker's thread, packets `written`; one action per await-to-await segment of callers and worker |
| `AdapterLinkProofs` | theorems about `AdapterLink` | inductive invariant, lemmas about sequences in order |
| `Actor` | the four tasks of an OptimizedActor | the three channels, the data pipeline's `batch`, which `tasks` run, counters; one action per loop iteration, and per packet of a batch |
| `BatchAdapter` | clones that enqueue and process batches | both queues, each clone's `batch` in hand, shared statistics; the yield in `process_send_batch` splits it into `Collect` and `Process` |
| `ClientEvents` | from on_event over the forwarding tasks to the subscribers of a client, and the answers of contexts | `events` of the Transport, one `forwarder` per connect, `client` events, each subscriber's position and clone, `responses` |
| `EventStreams` | the four stream types over one broadcast channel | position of the stream, pending `call`, what it has `seen` |
| `PacketCodec` | one message from the sender's data to the receiver's | the packet, its bytes, the parsed packet, what is delivered; features of both builds, three codecs, bytes cut short |
| `MemoryPool` | buffer queues of two sizes with their counters | `buffers`, `cached`, `total`, `limit`; one action per access of get, return, clear, adjust to a shared counter or queue |
| `LockFreeQueue` | the queue with its statistics | `items`, `current_size` and the counts; push and pop in three steps each |
| `ProtocolRegistry` | names and schemes of factories, what they build for a URI, plugins | `factories`, `schemes`; `RegisterName` and `RegisterSchemes` under separate locks, `Cancel` between them |
| `Settings` | the six protocol configurations | a lower and an upper config, what presets and setters chose; `Build`, `Merge` |
| `MC...` | instances for TLC | constant values, symmetry sets where they are used, and the compositions described below |
| `LinksProofs` | theorems about `TcpFraming`, `LockFreeConnection`, `Actor` and all of `MCLinks` | an inductive invariant per component, lemmas about appending to and cutting sequences |
| `PoolsProofs` | theorems about `ConnectionPool`, `LockFreeQueue` and `MemoryPool` | an inductive invariant per component, lemmas about counting and about counters that wrap |
| `ResourcesProofs` | theorems about the other parts of `MCResources` and all of them together | an inductive invariant per component, lemmas about sequences, partitions, tables and bytes |

`MCResources` and `MCLinks` put modules that share no state side by side. Their
variable `subject` is chosen in the initial state and says whose steps a
behaviour takes; the other modules stay in their initial states. So the state
spaces add up instead of multiplying, and each run checks every one of its modules as
if it ran alone. Where several parts of one component are checked together, the
property of the run is the conjunction of the named invariants of the module
(`QueuesAccounted` is `SizeAccounted` of the queue and `CountersAgree`,
`OvershootBounded` and `TotalAgrees` of the memory pool, and so on). The two components
that the compositions extend (`TcpFraming`, `ConnectionPool`) define theirs
(`PacketsFramed`, `PoolConsistent`) themselves.

`RequestTracker`, `Transport` and `TransportServer` look at the same code from
three sides and abstract each other: the tracker sees a connection as `link`
(up, dead, closed) and a close as the time for which it has the adapter (`hold`);
`Transport` sees requests as sends; `TransportServer` takes a
Transport's close as one wait (`Disconnect`, `Joined`, `CloseTimeout`), which
`Transport` models lock by lock, and takes the operations of its maps as atomic,
which `LockFreeHashMap` justifies for those that succeed.

### Abstractions worth knowing

* A packet is its id and the request it belongs to; contents, compression,
  logging and statistics are left out. In `TcpFraming` bytes are counted in
  units; a read that starts inside a packet has a nondeterministic outcome,
  because any payload may look like a header.
* Id counters are drawn only by requests. Plain sends draw from the same
  counters; that skips ids and cannot repeat one. Ids do not wrap within the
  bound: the real counters wrap after 2^32 draws.
* `TransportServer` merges accept with the drawing of the session id, and the
  two field clears of a Transport's close into one change of `link`. The map
  operations of the server are assumed to succeed: an insert that fails after
  100 lost exchanges is ignored by the code and is not modelled there.
* Broadcast channels: an event sent without a subscriber is lost; a subscriber
  more than the capacity behind gets an error and its loop ends
  (`while let Ok(..)`). `PeerCloseHandled` speaks of events that are in the
  channel and is checked with capacities that are not exceeded.
* A task that is cancelled disappears at an `await`: its guards are released,
  what it wrote stays (`Cancel`, `CancelConnect`).
* `LockFreeHashMap` frees a retired map as soon as the last guard that was
  pinned at its removal is dropped, the earliest moment crossbeam's epochs allow,
  and lets the allocator return any free address at once: the hardest case for
  the comparison of pointers.
* `AdapterLink` joins both halves of a connection: a `wire` of messages per
  direction with room for `Capacity` of them. Who hangs up may take unread
  messages along (`HangUp` keeps any prefix), and a write to a peer that has gone may
  succeed or fail. An event loop that writes does not read: both loops can stand in
  a write to a full wire, for ever (see the hazard at `adapters/websocket.rs:262`).
* `LockFreeConnection` counts the runtime's threads: the worker keeps one while it
  waits for a command, because it uses crossbeam's blocking `recv` in an async task.
  A caller that the worker wakes may be put into the slot that tokio keeps for the next
  task of that thread, from which no other thread takes it (`bound`). It gets out when
  the worker awaits something or wakes the next caller (`Displace`, `Reply`), or ends.
  Both the connection's answer to `is_connected` in `new()` and its real state are free
  at the start: the worker is spawned for a connection that is closed, too.
* `RequestTracker` lets one close of either kind begin per connection, as
  `try_start_closing` does. While it has `connection_adapter`, no send gets through. A
  graceful close lets go at its deadline, a forced one only when the event loop ends.
* `Settings` keeps of a value only what setters, validate and merge can tell apart:
  the default, another one, another one that merge takes for the default, a
  refused one, none. `ChoicesKept` says of every field that the merged value is the
  last choice, with two exceptions. `PassedOver`: a choice of the upper config that merge
  does not see, because it equals the default (`verify_certificate` or `nodelay` set to true, a
  target address with the default port), is `None` (the `file_transfer` preset's
  `ping_interval`), or belongs to a field that merging of server configs leaves out
  (`Forgotten`). And `Imposed`: an upper config that never touched the field replaces the
  choice of the lower one by its default (the keep-alives and timeouts that are options
  with a default value, a QUIC client's `verify_certificate`, a TCP server's `nodelay`).
  Other values of an upper config arrive in these fields too, the presets' among them.
* `PacketCodec` writes a compressed payload as one element that names its algorithm
  and its source, so data that was compressed before can be told from data that was not.
  A response ends in one of two calls: `request_with_options` decompresses it, `request`
  returns its payload as it came; every other packet ends in a context, as it came
  (`Deliver`). So `DataIntact` promises compressed data to `request_with_options` alone.
  Three facts bound it further: `ext_header_len` is cast to 16 bits and `payload_len` to 32
  (`Representable`; the constants `LengthRange` and `PayloadRange`), `decompress_data` gives zstd a buffer of 1 MiB (`Inflatable`), and a build without
  a codec sends and delivers data as it is (`SameBuild`).
* `MemoryPool` and `LockFreeQueue` keep their counters modulo a word, as `fetch_sub`
  does. `TotalAgrees` excludes clears that overtake another call: `store(0)` then
  leaves a total that is off, or wrapped, for good.
* `ProtocolRegistry` records how a factory reads a URI: only one of TCP's three schemes
  and one of QUIC's two are understood by the factory that registers them, and a
  WebSocket factory connects to the URL of its config whatever the URI
  says (`ConnectsToUri` excludes it).
* `EventStreams`: methods of one stream share one receiver, and each discards what
  it was not asked for; `StreamsComplete` speaks of what all calls so far ask for.
* `ClientEvents` and `EventStreams` let a broadcast channel overtake a slow
  receiver: a forwarding task ends, a stream goes on behind the gap.
* `ConnectionPool` takes the operations of map and queue as atomic and
  successful, and gives `&mut self` operations to one task (`Expanders`). With two
  such clones ids repeat, because `Clone` copies `connection_id_counter` while the
  map is shared, and `Accounted` fails: the pool does not forbid it and does not
  promise it works. The `available` counter may wrap below zero for a moment (a
  returned connection is queued before it is counted); the model keeps the wrapped
  value, as a release build does, where a debug build panics in `smart_expand`.
* In `TcpFraming` a shutdown is a normal end of the stream (no reset), and a
  network that is silently cut is not modelled.

## 3. Runs

Between them the passing runs fire every action of every module. "Bounds" are the constants of
its `.cfg`.

| Run | Question | Bounds and why they suffice |
|---|---|---|
| `tracker_client` | With one id generator, does each answer reach its own request, and is the contract implemented? | 3 requests, 3 ids: one request can time out, one can be answered late while the third is pending, across a reconnect |
| `tracker_mixed` | When ids collide (both APIs and ids set by the application), can a request hang, also behind a close? | 2 requests and 2 application ids: every way for one entry to replace another; a close of either kind per connection, so that a send waits behind each |
| `tracker_two_apis` (violated) | Are answers kept apart when both request APIs of one client are used? | 3 requests; a shortest trace needs two |
| `transport` | Do concurrent sends, closes, responders and reconnects with cancellation keep session, adapter, state and locks consistent, and do graceful closes and sends end if the peer never reads? | two application tasks, one responder, two connections: two closers, a sender during a close, a responder during a reconnect |
| `server` | Do the three maps agree, does the server close once, is nothing registered late, does every started close end, and every close event in the channel clean up? | one session (sessions share nothing but the id generator and the todo set of a batch close), two application tasks, one message over channels of capacity one, so that readers and handlers lag |
| `server_dead_session` (violated) | Does the session of every ended connection leave the registry? | one session |
| `lockfree_map` | Is the map linearizable and memory-safe, and what do scans see? | two threads, two keys in two shards, two attempts per write, five addresses: two live maps, a copy of each thread, and one retired map that may be reused |
| `tcp_split` (violated) | Is "peer closed" reported only if the peer closed? | four packets, one longer than a read; reads of 1 to 4 units |
| `links` | TCP framing: in what order do packets arrive, when is nothing lost, do both ends stop? WebSocket and QUIC: the same, and is the end announced once? LockFreeConnection: do commands take effect in order and once, which calls return? Actor: do packets keep their order, is every accepted packet tried, does it end? | TCP as in `tcp_split`; two packets each way, one above the read limit, wires of two messages, text and ping from a foreign client; two handles, three calls, two threads; three packets, batches of two, one other command |
| `resources` | Connection pool: is a connection lost or handed out twice, do limits and counters hold? Queue and memory pool: do the counters agree, how far is a limit exceeded? Registry: what do registrations leave that overlap or stop half-way? Settings: what does merging lose? Packet format: what arrives? Batching adapter: is a packet lost or processed twice? Client events: how often is a request answered? Streams: what is left out? | pool: two tasks that use it, one of which expands and shrinks, 2 to 4 connections, 6 ids: all four expansion factors, a refused expansion, regrowth after a shrink, a counter that wraps while the expander decides (the theorem is about any number of tasks); queue: three users, four items; memory: two tasks, two sizes, two buffers each; registry: the three standard factories and two that repeat a scheme or a name, two callers; settings: all six configurations, every preset, two setters; codec: every type, algorithm and feature set, four payloads, a header and a payload too long for their length fields; batch: two clones, three packets; events: two connects, two subscribers, two events over channels of one; streams: three events over a channel of two |
| `worker_starves` (violated) | Does every call of a LockFreeConnection return on a runtime with one thread? | two handles, two calls |
| `compressed_delivery` (violated) | Is what a context calls data always what was sent? | two payloads |

Deadlock is not checked where the modelled system may come to rest: all
connections closed, all sessions gone, all packets sent, all events read, or (in
`lockfree_map`) the bounded heap exhausted by retired maps that a preempted thread keeps.

Symmetry is used for threads and addresses in `lockfree_map`, with safety properties
only (`Linearizable` is a refinement without fairness).

### What the violated runs show

* `tracker_two_apis`: `request` numbers packets from the client's counter (from
  1), `request_with_options` from the tracker's own (from 1), and both register
  in one map whose insert replaces an older entry. An answer completes the other
  request. The same happens between clones of a `TransportServer`, because
  `Clone` restarts `message_id_counter` while sessions are shared: give
  `Counters` two elements and no `OptionRequests`.
* `server_dead_session`: a connection that dies before reader and handler have
  subscribed loses its close event, and its session stays.
* `tcp_split`: see `IntactIfAligned` for the case that works. A packet that
  arrives in two reads ends the connection with `CloseReason::Normal`; so does
  every packet larger than the 8192-byte buffer.

* `worker_starves`: the worker's first `recv` keeps the only thread; a caller that has
  queued its command is never polled again. `#[tokio::test]`, which the module's
  own tests use, is such a runtime. With one more thread, `links` shows, every call returns
  but possibly one: a caller that the worker woke into its own thread's slot waits until
  the next command comes (`CallsReturnButOne`; `CallsReturn` fails there too).
* `compressed_delivery`: `on_event` decodes a message into a value that it drops and
  sends the packet as it came; a context takes its data from that packet. Responses
  are decoded by `request_with_options` (`DataIntact`), not by `request`.

Other behaviours of the code that the models contain and no run singles out are
listed as hazards with a note: a forced close that waits without a deadline
for an event loop blocked in a write (`force_close_session` says it does not
wait), two event loops that write to each other and never read, pending entries that are never removed, forwarding tasks that
add up with each `connect`, so that a request is answered once per task, a second
`connect` that leaves the first connection's event loop running, two
`ConnectionClosed` events when closes overlap, a close refused with `Ok` while
the session is being added.

## 4. Fairness

* `RequestTracker`: weak fairness of each request future, of its send and of what follows
  it, and of the release of the adapter by a close. tokio polls ready
  futures, timers fire, and mutexes are FIFO. A send can only end while no close has the
  adapter, and a forced close releases it only after the event loop has ended
  (`LoopEnds`), for which there is no fairness: the loop may stand in a write to a peer that
  does not read. The deadline of a request starts after its send, so `RequestsEnd` promises an end to a
  request that was sent, and to one that was not unless such a forced close never ends.
  Without that exception TLC finds the behaviour in which it does not.
* `Transport`: weak fairness of steps that wait for nothing or for a timer;
  strong fairness of lock acquisitions, because tokio's mutexes are FIFO, and
  of a ready event loop seeing its shutdown signal, because `select!` picks among
  ready branches at random. `LoopWritten` has no fairness: a peer may never read.
* `TransportServer`: weak fairness of listeners, readers, handlers and close
  calls; none of event loops or peers.
* `TcpFraming`: event loops read what has arrived and notice a closed socket.
* `AdapterLink`: weak fairness of each event loop as a whole: the runtime polls it when
  one of its branches is ready. Which branch it takes is left open, so nothing is
  assumed of `select!`.
* `LockFreeConnection`: weak fairness of the worker and of a woken caller that can run. With
  two threads one is always free of the worker, so a caller in a shared queue is polled; one
  in the slot of the worker's thread cannot run (`MayRun`) and nothing makes it.
* `Actor`: weak fairness of each of the four tasks. The adapter's answers are left open.
* No fairness is assumed in `resources`: its properties are invariants.

## 5. Proofs

`RequestTrackerProofs`, for all constants that satisfy
`RequestTrackerAssumption`, any number of requests, generators and ids:

* `TypeCorrect`: `TypeOK`, from `TypeInv`, which adds that generators stay
  positive.
* `NoLostWakeupTheorem`: `NoLostWakeup`, without any assumption about ids. Its
  invariant `WakeupInv` adds that idle requests have untouched channels; the
  heart is lemma `RegisterWakeup`: whoever loses an entry loses its sender too,
  and a request registers only once.
* `CorrelatedTheorem` and `NeverEvictedTheorem`: under `SingleSource` (one
  generator numbers all requests). The invariant `CorrelationInv` says that every
  id in use, in an entry, a request or a reply, is below the generator and that
  no two requests share one; `RegisterFresh` is the lemma that a new id cannot
  meet an old one.
* `ContractRefined`: under `SingleSource`, `Spec` implements `RequestContract`
  under the mapping `Phase`, `answered`; by `CorrelationInv`, an answer in the
  channel of a request means that the peer answered it.

`TransportProofs`, for all tasks, responders and numbers of connections, with and
without forced closes:

* `TypeCorrect`, `SessionHasAdapterTheorem`, `OkMeansClosedTheorem`,
  `SingleCloserTheorem`, `LocksOwnedTheorem`.
* The properties say what holds between calls; the invariant says what holds inside
  them. `ConnectInv`: while `connect` runs nobody disconnects, and each of its steps
  can count on the ones before it. `CloseInv`: whoever took `current_session_id` is
  the only one to disconnect until it is set again, and the fields are
  cleared in the order session, adapter, while the state is Closed. `RespondersInv`:
  response tasks only send.

`TransportServerProofs`, for all listeners, tasks, numbers of sessions and messages
and capacities of the channels:

* `TypeCorrect`, `MapsAgreeTheorem`, `ClosesOnceTheorem`, and the action property
  `NoLateRegistrationTheorem`.
* `MapsAgree` speaks of sessions on which nobody works; the invariant speaks of
  all: `AddingInv` and `RemovingInv` say which maps have a session at each step of an
  addition or removal, and that a map entry without the others always has somebody
  on the way to the next map (`RemoverAt`). `ListenersInv` and `UnregisteredInv`:
  until `add_session` is through, a session belongs to one listener, and a close in
  between fails, because the state is Unknown. `ClosingInv`: the state Connected is the right to
  close and is used up by the one who takes it; so there is one announcement.

`LockFreeHashMapProofs`, for all threads, keys, values, shards, addresses and numbers of
attempts:

* `TypeCorrect`, `NoUseAfterFreeTheorem`, `ScanFaithfulTheorem`.
* `LinearizableTheorem`: the map implements `AtomicMap`. A get takes effect when
  it loads the pointer, a write when it exchanges it, and a write that gives up
  has had none.
* `MemoryInv`: a map is linked or kept by the guard of every thread that may follow
  a pointer to it, and shards do not share a map. `CopiesInv`: a changed copy belongs to
  its writer alone and is the map it loaded but for one key. So when the exchange finds the pointer it
  loaded, the guard has kept that address from being used again, and the copy differs from the current map in
  that key only: this rules out the ABA problem. `ScansInv`: what a scan has found, what it is reading and
  what it has not come to yet are all values of its own time.

`AdapterLinkProofs`, for both protocols, any number of packets, any size of the buffers and any set
of packets that are too long:

* `TypeCorrect`, `InOrderTheorem`, `AnnouncedOnceTheorem`: what `LinkFaithful` checks of an
  instance in `links`.
* `OrderInv` speaks of all that an end has delivered and all that is on the wire: each packet comes
  after exactly those with smaller numbers, and as long as neither loop has ended, none of those that were
  written is missing (`Complete`). A loop that hangs up takes the tail of its wire
  away, which keeps the order but not completeness; that is no harm, because it never writes again.
  `AnnouncedInv` says what each position of the loop has announced, `ForeignInv`
  that only another program sends texts and pings.

`LinksProofs` is about the four components of `MCLinks`: `TcpFraming` by its own
specification, the others in the composition. A lemma per component says that a step of
`MCSpec` is a step of the component or leaves its variables alone, so that its invariant
carries over.

* `TypeCorrect`, `PacketsFramedTheorem`, for all lists of packets, sizes of reads and of
  the socket buffers: order and uniqueness however reads cut the stream, completeness as
  long as every read returns exactly one packet. `WireInv` and `DeliveredInv` order what
  was delivered before what is on the wire, unit by unit. `FramedInv` says where the
  units of a packet end, on the wire or in the hands of the writer, which a partial
  write needs; `AlignedInv` that aligned reads find a packet's first unit next.
* `CommandsOnceTheorem`, for all handles and threads and every `MaxCalls \in Nat`.
  `CallQueueInv` and `CallsWrittenInv`: calls that were written, the one in the worker's
  hands and those in the queue are in the order in which they were made, and only those
  not yet answered are in the queue. `CallsCloseInv`: a close that returned Ok was the
  worker's last command; this is why only the handle that asked may clear its flag. So
  "not connected" means that the connection is closed and the worker has ended, unless
  the connection had said so itself when `new()` took it (`reported`).
* `BatchesInOrderTheorem`, for any number of packets and of other commands and any size
  of a batch. `PipelineInv` lines up five stages, what was sent, the batch in hand, the
  data channel, the internal channel and the command channel: each is sorted, and ahead
  of all that come after it. Only packets that came the same way are compared, because
  an application can hand packets to the data channel past the commands. A packet that
  moves from the front of one stage to the back of the next keeps both facts
  (`PartKept`, `FollowedKept`). `CountersInv`: between two batches the counters agree;
  within one they differ by the packets of the batch that have been tried.
* `LinkFaithfulTheorem` carries the theorems of `AdapterLinkProofs` over;
  `TypesOKTheorem`.

`PoolsProofs`, for any finite set of tasks:

* `TypeCorrect`, `PoolConsistentTheorem`, for all limits and every width of the counters
  above `max_size`, under the hypothesis `OneExpander`, which the run's instance
  satisfies (see the abstraction above: with two the property fails). `OwnerInv`: each
  connection is queued once, in the hands of one call or held by one task; a lemma for
  each way in which a step moves a connection (`Popped`, `Given`, `Returned`, `Pushed`,
  `Created`, `Removed`, or not at all, by `Effects`). `FreshInv`: the next id is new.
  `TotalInv`: `total` differs from the size of the map by what the expander has not
  counted yet, and what it has decided to add or remove stays within the limits.
  `AvailableInv`: `available` is what has been counted, up to a multiple of `Word`; at
  rest the queue is no longer than the map (by the pigeonhole principle), so the
  multiple is 0. This is why a wrapped counter comes back.
* `QueuesAccountedTheorem`, for the queue (`QueueInv`): the counts of pushes and pops
  never wrap and give the length of the channel; the size does so up to the calls
  between the channel and the counter and up to a multiple of the word. For the memory
  pool (`MemoryInv`), with any list of size classes: `CacheInv` adds to each cache the
  returns that have checked its limit and not pushed yet, and the sum stays within the
  limit plus one for each other task; its counter is exact up to the calls that have not
  counted yet. `CachedTotalInv`: the total is the sum over all classes of what is `Due`,
  up to a multiple of the word, unless a clear has overtaken another call. At rest both
  multiples are 0, because full caches fit into a word. The sum is a recursive function
  over the classes; the lemmas about it (`SumChanges`, `SumGrows`, ...) are by induction
  in its elementary form: a set that has 0 and with each number its successor has all of
  `Nat` (`NatSet`).

`ResourcesProofs`, for whatever packets, events, factories, features of a build, and
sizes of queues, channels and batches:

* `StreamsFaithfulTheorem`: `ReturnedInv` says for each event behind the stream's
  position that it was returned if all methods called so far ask for it; `WaitingInv`
  that a method that waits is one of those.
* `RegistryConsistentTheorem`: `PendingInv`, a caller between the two locks finds its
  factory still registered under its name, because names are not taken twice.
  `PluginsInv` covers what `allow_override` lets in.
* `BatchesAccountedTheorem`: a queue holds the latest packets without a gap (`Latest`);
  all earlier ones are divided among what is done and the hands of the clones, no two of
  which share one (`Partition`, in `SendInv` and `ReceiveInv`). `CountInv` says by how
  much each counter lags behind in the middle of a call.
* `RequestsAnsweredOnceTheorem`: `EntriesInOrder` and `ForwardersReach`, each entry of
  the client's channel continues what the same forwarding task passed on before it,
  starting at its connect; so an event is in the channel at most once per task.
  `ResponsesFlagged`: the responses to an event are as many as the contexts of it whose
  flag is set.
* `ChoicesMergedTheorem`: for each of the six roles a lemma (`TcpClientTables` to
  `QuicServerTables`) computes what its tables have in common (`Tables`): merge tells
  every value from the default, but for those that `PassedOver` and `Imposed` name.
  The invariant `SettingsInv` and its steps then use nothing else of the tables.
* `PacketsIntactTheorem`: parsing inverts writing wherever both lengths fit their
  fields, and refuses each proper prefix of a packet (`RoundTrip` and the lemmas
  before it on cutting concatenations); `CodecInv` follows one message along its stages.
* `TypesOKTheorem`, under `OneExpander`, because the pool is one of the parts.

The assumptions on the constants are those named in the modules (`...Assumption`):
finite or positive bounds, model values that are different from each other. Some say how
wide a counter must be: `MemoryAssumption` asks for a word that holds the bytes of full
caches and, with two calls of each task, the buffers of a class, which 64 bits do;
`ResourcesAssumption` for a `QueueWord` above the number of items; `CodecAssumption`
says that `Refused`, which stands for an error, is neither data nor a packet. No proof
uses the bounds of a run.

Only model-checked:

* liveness (`RequestsEnd`, `GracefulCloseEnds`, `SendEnds`, `ClosingEnds`,
  `PeerCloseHandled`, `LinksEnd`, `CallsReturnButOne`, `ActorEnds`), because TLAPS does not
  reason about fairness and ENABLED here;
* the properties of the violated runs, which TLC refutes.

Every invariant and every action property that a passing run checks is stated by a
theorem.

## 6. Not modelled

* `command.rs`, `error.rs`, `connection.rs`: types and traits. The command executor has
  no caller.
* `transport/server.rs`: options and middleware that the server never invokes.
* `transport/request_manager.rs`: a second tracker that nothing calls. Its `clear` wakes
  the waiting requests only when the epoch collector frees the retired maps.
* `MessageIdManager` (`packet.rs:241`), also without a caller: where its counter ends it
  returns 1 twice, because the reset does not count as a draw.
* Connecting, binding, TLS and retries: I/O whose outcome the models choose freely.
* `transport/connection_factory.rs`, `expert_config.rs`, the pool's performance monitor,
  the actor manager, listing and health checks: plain values and reports.

## 7. Plan

Next models: `serve` and `broadcast` of the server, the retries of `ConnectableConfig`,
and the flag setters of `packet.rs`. Next theorems: the assumption `OneExpander` of the
pool is one that the code leaves to its users; if `Clone` came to share the id counter,
`FreshInv` should hold for all expanders at once and the hypothesis could go.
