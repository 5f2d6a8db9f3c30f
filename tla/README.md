# Verification of boost_connector

TLA+ modules, TLC configurations and TLAPS proofs kept beside `boost_connector`, a C++ library of
coroutines (Boost.Asio) that connects to the websocket interface of the FTX exchange and keeps
order books up to date. Paths below are relative to the repository, which is in `src/`: the library's
sources are in `src/src` and its headers in `src/include/boost/connector`.

## 1. The system

### 1.1 Components

| component | state it keeps | operations | interacts with |
|---|---|---|---|
| FTX websocket connector (`vendor/ftx/ftx_websocket_connector_concept`, handle `websocket_connector`) | `connection_state_`, `write_queue_`, `on_drop_`, `stop_signal_`, `channel_states_` | `start`, `stop`, `send`, `drop`, `is_up`, `wait_ready`, `wait_down`, `locate_channel`, `release_channel`; coroutines `run`, `reconnect`, `read_state`, `ftx_write_state` | the stream, ping pong, the subscriptions, through calls and the `on_event` callbacks |
| channel map (`channel_state`) | per channel: `interest`, `acquired`, `on_event`, a timer `cv` used as a condition variable | `locate_channel`, `release_channel`, waits on `cv` | shared by all subscriptions of a connector |
| upstream subscription (`upstream_subscription_impl`, base of `order_book_impl`) | `stop_latch_`; in the frame of `run()`: a `state_machine` (down, opening, open, closing, closed; `close_requested`) and `closed_latch` | `start`, `stop`; the event handlers | the channel map; `send` and `drop` of the connector |
| ping pong (`detail/ping_pong`) | next threshold, `pong_buffer` | one coroutine | pushes to `write_queue_`, pops `pong_buffer` |
| websocket stream (`util/websocket_stream_variant`) | a plain or TLS websocket | `connect` (resolve, race of the endpoints, handshakes), `write`, `async_read`, `close`, `tcp_layer` | the network |
| `async_queue`, `async_circular_buffer` | a buffer and a timer used as a condition variable | `push`, `pop`, `clear` | writer, reader, pinger |
| `async_latch` | a timer | `set`, `reset`, `wait` | subscriptions |
| lifetime pointer (`entity/lifetime_ptr`) | a proxy whose deleter calls `stop()` | `make_lifetime_ptr` | owners of connectors and order books |
| bid ladder (`types/bid_ladder`) | `levels`, `max_levels` | `set` | none yet |
| property map (`property_map`, `mutable_property_map`) of `property_value`s | a shared layer of values over a parent layer | `set`, `query`, `fix`, `mutate` | configuration |
| dependency map | a shared implementation | `set`, `query`, `fix`, `clone` | configuration |
| entity keys (`mutable_key`, `immutable_key`) on `jsonext` | a shared JSON document, the paths of its used elements, a SHA-256 digest | `use`, `merge`, `fix`, `mutate`, comparison | identity of entities |
| `entity_key` | a shared, immutable model of any type | comparison, hash, `query` | the entity cache, once it exists |
| `url` | - | `decode_url` | `reconnect()` |
| snapshots | values | comparison | - |
| entity cache, order book, FTX config | - | declared, without behaviour of their own | - |

### 1.2 How they interact

A *session* is one call of `reconnect()`: it decodes the url, makes a websocket for its transport, connects it (resolves the
host, races all its endpoints, shakes hands by TLS and by websocket), empties `write_queue_`, queues
the login, announces `up` to every acquired channel, and runs reader, writer and pinger in a parallel group
until one of them throws. `run()` then waits 5 s and begins the next session.

A subscription locates its channel, which counts its interest; waits while another subscription has
it; acquires it by storing a callback into its own coroutine frame; and then only reacts to events (`up`,
`down`, frames of its channel), subscribing and unsubscribing through `send()`. It is stopped by a latch, closes
its machine, waits for the closed latch and releases the channel, which wakes the next waiter or, with no
interest left, erases the channel state.

### 1.3 What is hard

* Everything runs on one executor, but any suspension lets other handlers run. `check_executor` accepts io_context,
  thread_pool and strands of both, so **the order in which ready handlers run is not fixed**; a handler between
  "ready" and "resumed" holds stale knowledge (a woken waiter, a closed machine whose channel is not released).
* Condition variables are timers: `cancel_one()` wakes exactly the one wait that is pending, or nobody.
* Cancellation: of a parallel group's members when one throws, of everything by the stop signal; some waits
  throw when cancelled, others (`as_tuple`) return and throw only at the next await.
* Sessions follow each other while subscriptions live on; state of one may leak into the next.
* The server may be slow, silent, or send errors.

`PROJECT.json` lists each hazard at its line with the properties that cover it.

### 1.4 What makes each component correct

* channel map: `interest` counts those that hold a reference, and nobody else; a callback never outlives its frame; no
  release loses a wake-up; one holder at a time.
* subscription: a stop always closes it, in every state; it never opens again after it was asked to close; it
  unsubscribes what it subscribed.
* connector: the login comes first; frames of an old session are never sent; every session ends when something
  failed; a stop ends it everywhere, at least once the server answers its close frame; `on_drop_` never dangles; up means connected.
* ping pong: at most one ping is unanswered; a missing pong ends the session.
* queues: no lost wake-up; capacity; a cancelled popper strands no item.
* ladder: strictly decreasing; current; bounded; keeps the best levels.
* maps: each is a value of its own, although implementations are shared and handed on; a fixed one never changes.
* keys: every path of a fixed key leads somewhere; two are equal exactly when they used the same elements, a number
  being the same only if it is hashed alike.

* race of the endpoints: a success is never lost for a failure; at most one socket survives; one silent endpoint does not hold
  up the others; a wss url is never upgraded in clear.
* lifetime: stopped once, after `start()` returned; alive while anything of it runs; destroyed in the end.
* values: each content is destroyed once. `entity_key`: equal ones hash alike. `url`: what is decoded is what is written.

## 2. Modules

| module | models | extends |
|---|---|---|
| `SubscriptionMachine` | the handlers of `state_machine`: pure operators from a machine and an event to an outcome (machine, frames sent, dropped or not) | - |
| `ChannelSubscriptions` | `run()`, `start()`, `stop()` of any number of subscriptions; the channel map; the posting of events. The connector and the server are an environment that may post any event at any time | `SubscriptionMachine` |
| `FtxConnector` | the connector, its three tasks, the websocket, the server, with the subscriptions of `ChannelSubscriptions` | `ChannelSubscriptions` |
| `AsyncQueue` | `async_queue` and `async_circular_buffer` | - |
| `AsyncLatch` | `async_latch` | - |
| `BidLadder` | `bid_ladder` | - |
| `Connection` | the abstract specification of a connector's connection; `FtxConnector` and `ConnectorLife` implement it | - |
| `Url` | `decode_url`, and a reference for it: operators | - |
| `ConnectRace` | `websocket_stream_variant`: construction, `connect()` with its nested race and handshakes, cancellation, closing | - |
| `LifetimePtr` | `make_lifetime_ptr`, handles, the deleter, the owners of the object | - |
| `ConnectorLife` | a connector from `make_lifetime_ptr` to its destruction: `run()`, `reconnect()`, `drop()`, `wait_ready()`, `wait_down()` | `ConnectRace`, `LifetimePtr`, `Url` |
| `PropertyValue` | what is in a `property_value` and on the heap: operators | - |
| `FixedMaps` | the abstract specification of both kinds of maps: maps as values | - |
| `ValueMaps` | `property_map`, `dependency_map`: handles on shared implementations; implements `FixedMaps` | `PropertyValue` |
| `EntityKeys` | `jsonext`, `mutable_key`, `immutable_key`, `entity_key` | - |
| `...Proofs`, of `ChannelSubscriptions`, `FtxConnector`, `AsyncQueue` (with `AsyncLatch`), `BidLadder`, `ConnectorLife` (with `ConnectRace`, `LifetimePtr` and `Url`), `ValueMaps` and `EntityKeys` | theorems and proofs | the module they are about, and the proofs of the modules that this extends |
| `FtxHandoverProofs` | theorems about the hand-over of a channel in a connector | `FtxConnectorProofs` |
| `MCParts` | `ChannelSubscriptions`, `AsyncQueue`, `AsyncLatch`, `BidLadder` and `EntityKeys` side by side, which share nothing: one is looked at while the others are as they were constructed | these, and `MCChannelSubscriptions` |
| the other `MC...` | values of the constants and symmetry sets for TLC | the module they check |

### 2.1 ChannelSubscriptions

One action is **one handler: a piece of a coroutine from one suspension to the next**. `run()` has the
suspensions `waiting` (line 76), `holding` (line 96) and `draining` (line 100); `pc` says where each is, and
`spawned`/`done`/`abandoned` are before and after. A *segment* (`StartSegment`, `WakeSegment`, `StopSegment`,
`DrainedSegment`) is what one such piece leaves behind, and `RunTo` stores it. What the code does without suspending
is in one segment: a `stop_latch_` that is set already does not suspend, so `Acquire` goes on to close the machine and,
if it is closed at once, to release the channel.

| code | model |
|---|---|
| `channel_states_` | `chan`; a channel that is not in the map is `Absent` |
| waits pending on `cv` | `chan[c].cv`, oldest first; a coroutine whose wait was cancelled and that has not resumed is `Woken` |
| `on_event` | the subscription whose frame it refers to (it stays after a release, as in the code) |
| `closed_latch` | set exactly when the machine is `closed` |
| `assert`s | compiled out: a failing one is recorded in `failedAsserts` and the run goes on |

Checking a condition and registering the wait is one step, since nothing else runs in between.

`Stop` is the lambda that `stop()` dispatches; it is a step of its own, so that it interleaves with everything.

### 2.2 FtxConnector

Each action of `ChannelSubscriptions` is a conjunct of one action here, which adds what the handler does to the
connection. `phase` is where `run()`/`reconnect()` is. `Connected` and `ConnectFail` are everything from the return
of `connect()` to the start of the tasks: clearing the queue, the login, the announcement with the frames and drops
of all listeners, and the fork. `connect()` swallows its exceptions, so both go on alike. `TearDown` happens when all
three tasks are over and one threw (the writer always does), and includes `run()`'s decision to wait or to end.

The parallel group is nested, `(reader && writer) && pinger`: an exception of the reader or writer cancels the other
(`Cancelled`), and the pinger only when both are over (`PingerCancelled`). A task that returns normally cancels
nobody. The cancellation of the reader does not end its read: `read_cancel_handler` (line 219) spawns `ws.close()`, a
closing handshake, which waits for the server without a timeout, and the read goes on meanwhile. So a read fails only when the
socket is closed (`ReadError`), and `PeerCloses`, the server's answer to the close frame, is a step of the environment like
`NetworkFail`: it may never come. It waits for a frame that is being written, as the close frame does. If the reader is handling a frame
when it is cancelled, its next await throws (`ReadFrame` to `"threw"`).

`Orders` is the iteration order of the unordered map, which is left open.

External parts, modelled from how the code uses them: the server (`WriterSent`, `WriterIgnored`, `ServerData`,
`ServerFault`: it answers a login silently, a ping by a pong, a subscribe by *subscribed*, or by *error* when the channel is
subscribed already, an unsubscribe by *unsubscribed* or *error*; that it sends a pong nobody asked for is left out), the network (`NetworkFail`), timers (a threshold may pass
at any moment).

A frame carries a ghost `stale`, true when it was queued outside the session that might write it.

`StopConnector` requires that every subscription is over, because each holds a handle on the connector.

### 2.3 AsyncQueue and AsyncLatch

`buffer` is the number of items (the order is that of a deque and nothing depends on it), `waiting` the pending waits, `woken`
those that are over and not resumed, `cancelled` the poppers whose own coroutine was cancelled. A cancelled popper that
resumes takes an item if there is one (the loop ends before the next await) and throws otherwise. `capacity` 0 is
`async_queue`, 1 the specialisation for one item, more the generic circular buffer.

`AsyncLatch` has the same timer with another protocol: its expiry says whether the latch is set, and a wait that was cancelled is over,
whatever it was that cancelled it. `pending` and `aborted`
are what `waiting` and `woken` are in `AsyncQueue`. The two are independent and share a run only to be checked together.

### 2.4 BidLadder

`LevelsAfter` is `set()`: lower bound, change or erasure in place, or insertion and cut. `max_levels` is a public
member that the tests assign, hence `SetMaxLevels`. Depths and prices are small integers; NaN is left out.

### 2.5 ValueMaps and FixedMaps

`layer` is the heap: what `std::shared_ptr`s refer to. A property map derived by `mutate()` is a new layer whose
`parent_` is the source's layer, so that a query walks up (`Find`); a dependency map is derived by `clone()`, which copies.
`family` says which of the two the maps of a behaviour are. `Counted` frees what no map reaches. `slot` holds the `property_value`s
an application has made and not yet put into a map: a value is moved into a layer (`AfterSet`), while `std::any`s are
copied. A content that does not fit into the buffer (`Long`) is a block of `heap`, which the jump table's `destroy` frees; a pointer
to a freed block leads to `Dangling`. `aliased` is a ghost: `mutable_property_map` can be copied, nothing in its interface allows for it, and the
properties say what holds until an application does it.

`FixedMaps` knows neither layers nor handles, only what each map contains. `ImplementsFixedMaps` maps `content` to what
queries find (`Content`), and a mutable map without an implementation, after its `fix()`, to *spent*.

### 2.6 EntityKeys

A JSON value is its kind and what it is made of. `JsonValues` are the documents' values and their parts; `ValuesAssumption` says what
any JSON value is: a finite tree (its parts are nested less deeply, by `Depth`), with one member of a name in an object. A leaf is
what `operator==` of `json::value` compares (`of`) and, beside it, the `bytes` that `update_sha256` hashes. The two are not the same for a number: `0.0` and
`-0.0` are equal with different bytes, a signed and an unsigned 1 are equal (`Class`) with the same bytes, and a `NaN` is not equal to itself.
`LeavesAssumption` asks only that leaves which are equal have as many bytes: a number has eight.

A path, as it is written, is a sequence of slashes and names; `Dissect` drops the slashes and `ToPath` puts one before each name, so that
`a/` becomes `/a`. `use()` puts normalised paths into an index; the public constructors take an index as it is (`Indexes`). `FindPath` throws as `Nowhere`.
`Digest` is the sequence of bytes that `immutable_key` hashes, SHA-256 being taken as injective, so that what
is confused is confused by the code's own encoding: no delimiters, no kinds. `PathOrder` is the order of
`std::set<json::string>`, `NameOrder` that of `update_object`: what is not in the set, or not a name of the object, contributes nothing.
`Ordinal` is what `strtoul` accepts. Copies and assignments of keys are one
action, into an object that is not in use. `Entities` are the `entity_key`s over the keys that are alive, under two types, and the one
without a model: their comparison asks for the type first, their hash is the model's. A model owns the object it was made from, so that what is made of the
same object here is a copy of one `entity_key`.

`EqualIffSameUse` compares equality with a reference: the same paths, the same values up to the order of members, number by number in value *and* in bytes
(`Canonical`), and no `NaN` (`Regular`). So `0.0` and `-0.0` make different keys, though
`operator==` takes them for equal, while integers of two kinds make the same; a key that used a `NaN` is not equal to its own copy. `Bytes`, `Same`, `Canonical` and
`Regular` are recursive functions on `JsonValues`, which the proofs of 5.3 unfold.

### 2.7 ConnectRace, LifetimePtr, ConnectorLife, Connection

`connect_range(k)` is `connect(k) || connect_range(k + 1)`: groups in groups, so that the cancellation by a success is not one flag
but a path (`AttemptCancelled`). `won[k]` is the member of range `k` that succeeded first; `RangeEnds` is the completion of the group's
parent coroutine with `selected()`, where the socket of a member that succeeded too late is destroyed. An attempt that was
cancelled may still succeed: its completion may be queued. `RaceEnds` is `replace_tcp()` and the next await, `TlsDone` and
`UpgradeDone` the answers of the peer, `HandshakeFails` everything else, and `CancelConnect` the cancellation slots, which close the
socket during a handshake. Every exception is swallowed by `connect()` (`Throw`).

`LifetimePtr` counts who owns the object: the proxy's `deleter`, the `operation` that `start()` spawned, and the handler that `stop()`
dispatched (`stopping`). `started`, `handles` and `stops` are what the properties speak of.

`ConnectorLife` is both with the connector's own state: every action is one of theirs and what the handler does besides. `phase` is
where `run()` and `reconnect()` are; a session may end at any moment, as its inside is `FtxConnector`'s, and a stopped one whose peer never answers the
close frame need not end. `waits` is what each
holder awaits: `readyWoken` and `downWoken` are coroutines whose wait is over and whose loop has not looked yet. `dropLost` is a ghost: the
drop of this session came while the stream had no socket.

`Connection` is what a user of either sees: a phase, whether it is being stopped, whether a drop would have an effect, and whether frames
can be exchanged. In `FtxConnector`, whose websocket is connected in one step, and in `ConnectorLife`, whose websocket goes through
the race and both handshakes, the same abstract actions are found: so the one step of the former is justified by the latter.

### 2.8 Url

A url is a scheme and the tokens after `://`, a token being a delimiter or a word. No part of the regular expression ever has to give
back what it took (a blank or an empty host fails the match whatever is tried), so `Crack` takes the parts from left to right.
`Reference` reads a url by its grammar: an authority up to the first of `/?#`, a host and a port in it, a target. A greedy
`Run` of tokens is a minimum over positions, so that the module can be used from one with theorems.

## 3. Runs

| run | configuration | instance | shows |
|---|---|---|---|
| `parts` | `MCParts.cfg` | one after the other: 3 subscriptions on one channel, 1 on another; 3 poppers with 3 items, capacity 1 or 2; 3 waiters at a latch; 4 prices, depths 0 to 2, limits 0, 2, 3; 3 key objects, 4 documents, 2 written paths, 2 indexes; about 99 700 states | counters, callbacks, closing; no lost wake-up; a latch that was set holds nobody; order, currency, bound; fixed keys, equality, hashes |
| `double_acquire` | `MCDoubleAcquire.cfg` | the subscriptions of `parts` | finding 1 |
| `lost_wakeup` | `MCLostWakeup.cfg` | the same | finding 2 |
| `leaked_interest` | `MCLeakedInterest.cfg` | the same | finding 5 |
| `connector` | `MCFtxConnector.cfg` | 2 subscriptions, 1 channel, login, 2 frames under way, 2 faults; about 217 000 states (symmetry) | sessions, hand-over, pings, refinement of `Connection` |
| `connector_liveness` | `MCFtxLiveness.cfg` | the same with 1 frame and 1 fault, fairness, no symmetry | teardown, stop, progress |
| `second_session` | `MCFtxAnnounce.cfg` | as `connector` | finding 3 |
| `dropped` | `MCFtxDropped.cfg` | as `connector_liveness` | finding 4 |
| `silent_peer` | `MCFtxSilentPeer.cfg` | as `connector_liveness`, without faults | finding 6 |
| `empty_level` | `MCEmptyLevels.cfg` | as `parts` | finding 7 |
| `connector_life` | `MCConnectorLife.cfg` | 2 holders, hosts with 1 to 4 endpoints, 3 urls that are dialled, every url of up to 5 tokens that is only decoded; about 198 000 states | race, handshakes, drop, waits, lifetime, urls, refinement |
| `value_maps` | `MCValueMaps.cfg` | 3 map objects, 3 implementations, 2 names, 2 values, one of them long, 1 in hand; about 281 000 states (symmetry) | maps are values; moves; the heap |

### 3.1 Why the bounds are enough

*Subscriptions.* A contention needs a holder, a woken waiter and either a newcomer or a second waiter: three
subscriptions have every one of these situations at once, and the fourth makes sure that a connection-wide event
reaches two channels. The properties of any number are proved (section 5).

*Connector.* Two subscriptions have a hand-over; two faults have a fault in one session and one in the next, or
a user's drop beside a network failure; `MaxInbound` bounds market data only, so an answer is never
lost. `writeQueue` needs no bound: pings are the only frames produced without a request and at most one is alive.
Sessions are unbounded in number, since the state of one is reset by `TearDown`.

*Parts.* They share no state, so that a behaviour of all of them is one of each; looking at one at a time adds their states up instead
of multiplying them. *Queue.* Three poppers: one asleep, one woken, one that never waited. *Latch.* Waits that began before and after a change, with
some of each not resumed yet; more waiters are all alike. *Ladder.* Four prices against two or three levels:
insertion at each end and in the middle, eviction, and a limit lowered under the ladder's size and to 0.

*Connector's life.* Four endpoints are three nested groups: an outer one, one that is a loser inside it, and a last range without a group.
Two holders have one that waits for up while the other waits for down, one that lets go while the other still holds, and a wake-up
of several. Three urls are a plain, a secure and an invalid one (`UrlsDialled`); the others stay with `DecodesAsReference`, as states
without a successor. Sessions are unbounded in number.

*Maps.* One value is in the buffer and one on the heap. Three maps have a fixed one, one derived from it and one derived or copied from that; three implementations are a chain as
deep, and one that was freed can be used again. Two names are one that is set and one that must not change. *Keys.* The
documents are chosen for the digest: two differ in the order of members and in the kind of an integer only; one has numbers for names, an
element that is equal to another's and has other bytes, and a NaN; one has a string that is hashed like two
elements of the first. Of the written paths one is not normalised and the other leads nowhere, as an exception; the index of the
constructors has one that no `use()` would put there. Two paths make the order in which they are hashed matter; three objects make a
merge of one with another and a third to compare with.

### 3.2 Deadlock and fairness

Deadlock is checked where the system never stops (`parts`, `value_maps`). A connector that is stopped
after all its subscriptions are over may stop, so the connector's configurations say `CHECK_DEADLOCK FALSE`; that it
does not stop for other reasons is the liveness properties' matter. `connector_life` says so as well: a connector that is destroyed, or
whose `start()` threw, stops, and so do the urls that are decoded only.

`Fairness` of `FtxConnector` is weak fairness of each subscription's handlers and of the connector's main task, writer,
reader and pinger: an executor runs every ready handler, and timers and socket operations complete. Nothing is
assumed of the application (it need never stop anything), of the network, of the server's data, or of its answer to a close frame. The writer's fairness
includes that the server acts on what was written or (a fault) ignores it. `SubscriptionOpens` and `StopReleases` are
therefore stated up to the first fault: the code never repeats an unanswered request. `Fairness` of `AsyncQueue` is weak
fairness of the resumption of a woken popper, nothing else, and `LatchFairness` that of a wait at a latch. That of `ConnectorLife` is weak fairness of what needs nobody's answer: the
dispatched stop handler, the resolver (a thread that returns), the end of an attempt that was cancelled or of a group whose members
are over, a handshake whose socket was closed, and the end of a session without a usable websocket and of a delay, when they were cancelled.

So both properties about a stop have two parts. `StopTerminates` and `ReleasedIsDestroyed` hold with silent peers where there is no
connection to close: before one, in the delay, in `connect()`, or after the connection failed. In a session they need the server to answer the close frame, which is their premise
`AnsweringPeer`, and not part of `Fairness`; that they need it is finding 6. `TeardownCompletes` is stated from the moment the reader has nothing left to
hear. `RaceIsDecided` holds with silent peers.

## 4. Findings

Each is a run that TLC finds violated and a statement of the repository quoted in `PROJECT.json`.

1. **Two holders.** `run()` waits once (`break`, line 86) and does not test `acquired` again. A newcomer that runs between
   `cancel_one()` and the resumption acquires the channel as well; `assert(state.acquired)` fails at the second
   release, and the first holder gets no events.
2. **Lost wake-up.** If the one waiter that a release wakes is being stopped, it leaves without passing the wake-up on.
   `WakeLostOnlyToStop` shows that this is the only way a wake-up is lost. It excuses every waiter that was stopped, so it would not notice one whose wait stayed in
   the queue; `operator||` ends only when both its waits have, which makes the two one step of the model.
3. **Never down.** The state is set to down only if the parallel group returns normally, which it never does: the writer has no
   normal end. The second session announces up over up (`assert(s != connection_state_)`), and between sessions
   `is_up()` is true and `wait_down()` does not return. A subscription that starts then sends a subscribe which the next session
   clears, and answers the next `up` with `drop()`.
4. **A dropped connection may stay dropped.** The reader returns normally after a read error and ends nobody. The session ends
   by the next failing write; after a ping timeout, whose exception `run_ping_pong` swallows, there is none.
5. **Leaked interest.** A `run()` that is stopped while it waits does not give its interest back (`upstream_subscription_impl.cpp:83`,
   `StopWhileWaiting`): the count stays above the number of consumers that `channel_state.hpp:35` documents, and the
   channel state is never erased. `InterestCovers` shows that the count errs to this side only, so that no state is erased in use.
6. **A silent server keeps a stopped connector.** `read_cancel_handler` (line 219) spawns a closing handshake and nothing else; no timeout bounds it, and
   the read that it should end waits for the server's answer. After `stop()` `run()` then never ends, and the connection stays open. `StopTerminates`
   says where a stop needs nobody's answer.
7. **Empty levels.** A depth of 0 for a price that is not in the ladder is inserted as a level (`bid_ladder.cpp:32`), and may push the lowest real one
   out, though `bid_ladder.hpp:20-21` says that such a level is removed. `LevelsCurrent` holds for such a level as for any other, and `KeepsBest` leaves out
   a depth of 0.

Seen while modelling, contained in the models, without a run of their own:

* `connect()` swallows its exceptions (`ConnectFail`, `Throw`): the session goes on without a connection and announces it as up, so that
  `wait_ready()` returns, and `wait_down()`, as the state never goes down, does not.
* A `drop()` before the stream has its socket is lost, and the ones after it do nothing (`ftx_websocket_connector_concept.hpp:121`):
  `DropLostOnlyWhileDialling` says that this is the only way one is lost.
* Neither handshake has a timeout (`websocket_stream_variant.cpp:106`): a peer that accepts and stays silent holds the connector until it is stopped.
* An invalid url is retried every 5 s for ever (`Rejected`).
* The end of the authority is looked for at the first `/`: `ws://h?q` has the host `h?q`, `ws://h:1?q` the port `1?q` (`url.cpp:90`). The
  branches of `deduce_transport` for an empty scheme cannot be reached, since the expression demands one.
* A non-const lvalue `entity_key` is copied by the converting constructor (`entity_key.hpp:73`: `is_base_of_v` is asked of a reference type),
  which wraps it in another and, to do so, copies it again without end.
* `property_value::construct` of an lvalue that is long (`property_value.hpp:305`) names the jump table of a reference type, which does not compile.
* `async_latch::wait()` also returns when the latch is not set: after `reset()`, which nothing calls, and after a cancellation
  (`async_latch.cpp:32`), so that a caller learns from it only that the wait is over.
* A ping timeout does not tear the session down (`PongTimeout`), against `ping_pong.cpp:57`.
* A reader that throws after a cancellation posts no down events: its subscriptions are still open in the next session and do not
  subscribe again ("invalid event when OPEN", `upstream_subscription_impl.cpp:278`).
* Between the event that closes a machine and its `run()` releasing the channel, another event may reach
  `assert(!"logic error - event seen when closed")`; only where the executor may run the reader first.
* A subscription whose close was requested while it was opening goes back to down with the connection, and subscribes
  once more before it unsubscribes; if the connection never returns it drains for ever.
* A copy of a `mutable_property_map` (`property_map.hpp:83`; that of a `mutable_dependency_map` is deleted) writes into the map that
  was fixed from the original.
* `query()` of a default `property_map`, or of one fixed from a map that had been fixed before, dereferences a null pointer
  (`property_map.hpp:71`).
* A moved-from `property_value` forgets its jump table (`property_value.cpp:29,44`): the destructor of the object that was moved
  from never runs, which matters for contents whose moved-from state owns something.
* `dependency_map::query` and `require` (`dependency_map.hpp:47-66`) return what `any_cast` of a pointer gives as a reference: they cannot
  be instantiated.
* `merge()` may leave a key that can never be fixed, as it has no operation that removes a path.
* `0.0` and `-0.0` are equal to `operator==` of `json::value` and hashed by their bits (`jsonext.cpp:44`), so that keys that used them are different; a key that used
  a NaN is not equal to its own copy.
* `/a/0` and `/a/00` are two paths of one element, so keys that used it under each are different.
* The digits in which a digest is printed are seventeen (`sha256_digest.cpp:19`), so that ten and above are printed as the digit before theirs.

## 5. Proofs

TLAPS checks the theorems below for **every** value of the constants, from the named assumptions only: `Subs` is finite and does
not contain `None`, and neither does `Channels`; `Topic` maps each subscription to a channel; `Poppers` is finite; capacities are
naturals; prices are integers, depths and limits naturals; a host has at least one endpoint; `UrlsDialled` are urls, whose
tokens are strings; JSON values are finite trees whose leaves, if they are equal, have as many bytes; absent, missing and empty values and freed layers are none of the values and layers.

### 5.1 Subscriptions

`ChannelSubscriptionsProofs`: `TypeCorrect`, `StatesOutliveConsumers`, `InterestNeverUnderflows`, `HandlersAreLive`,
`ClosingFollowsStop`. None of these is inductive alone. That a release finds interest needs the exact
count, which needs that a coroutine gives back only what it holds, which needs `pc`; that a callback is live needs that two
holders (finding 1) are both counted, so that the release of one does not erase the state of the other. The
inductive invariant `IInv` is the conjunction of `TypeOK`, `HandlerLive`, `InterestExact` (the interest counts the coroutines that
located the channel and did not release it, the abandoned ones of finding 5 included; `InterestCovers` follows), `SoundMachines` (a machine
outside `holding` and `draining` is fresh; close was requested exactly in `draining`; closing and closed only then) and
`ReleaseFindsInterest`. The steps are split by handler: `SegmentShapes` says in which of a few ways a segment can change its
subscription and channel, `RunToPreserves` proves the invariant for those, `NotifyPreserves` for events,
`StopWhileWaitingPreserves` for the early return; `InterestCounted` relates one more or less counted coroutine to the
cardinality.

`WakeupsLostOnlyToStops` says that finding 2 is all there is to it: the releases of a channel lose no wake-up by themselves, however newcomers and
woken waiters interleave. It needs `WaitersQueued` beside `IInv`: the wait queue of a channel holds each of its sleepers once and nobody else, so
that the one who is cut off at its head is a woken one from then on. `QueueShape` is what a segment may do to that queue.

`TwoContendersReleaseInTurn` bounds finding 1 from the other side. Its assertion, `assert(state.acquired)`, fails
in the run `double_acquire` with three contenders for a channel; with two it never fails, for any number of channels (`TwoContenders`).
The invariant `PairInv` is that a live holder is the listener of its channel (`SoleHolder`), and that whoever could overtake a woken
waiter is done (`OthersDone`). So the assertion fails only by a third contender.

### 5.2 The connector

`FtxConnectorProofs`: `ConnectorTypeCorrect`, `OldFramesDropped`, `LoginIsFirst`, `PingsDoNotPileUp`, for any number of subscriptions,
channels, frames and faults. The invariant `ConnectorInv` is `IInv` of the subscriptions and `ConnInv`: types; between two sessions the
writer, the reader and the pinger are gone, and what they left is not used (`NothingBetweenSessions`); no stale frame after the clearing; as long as the
server was not sent the login, it is what the writer holds or will pop next (`LoginNext`), which `LoginLeads` needs to be
inductive; one ping at a time is a count over the queue, the writer's hand, the way back and the buffer (`PingsCounted`).

`ConnectionImplemented` is the refinement of `Connection`, proved action by action from `ConnectorInv`. The connector is composed with `ChannelSubscriptions` by
conjunction, so that every behaviour of it is one of theirs by the way it is written: `SubscriptionsOfConnector` is a lemma that
carries the theorems of 5.1 over, and no result about the code.

`FtxHandoverProofs`: `NoChannelIsOrphaned` and `HandoversAreClean`. What has to be known at a hand-over is everything that is under way for a channel:
the state of its holder's machine, whether the server serves it, the request in the queue or in the writer's
hand, the answer on its way back. `Placed` lists the seven combinations that are possible (idle; asking; answered; ignored; serving; leaving;
left), and `HandoverInv` says that each channel is in one of them while the connection is healthy. The lemmas move a channel from one place to
the next for each event; the steps of other channels leave it where it is. Both theorems have a
premise, `[]NoOvertaking`: no woken waiter finds its channel acquired. It excludes finding 1, with which there are two holders of a
channel and neither property holds. `TwoContendersHandOver` discharges it, from `PairInv`: with at most two contenders
for a channel, and any number of channels, both properties hold without it.

`ConnectorLifeProofs` begins with the race: `NoSocketLeaks`, `NoSuccessIsLost`, `UpgradesAreSecure`, for any number of endpoints. The invariant `RaceInv` says what the nested
groups know of each other: a range that is over has at most one open socket, which is where its `won` says; the ranges that are
over are the last ones; a range that was won as "right" has an inner one that was won. `RangeEnds` is the step that needs them all.

Then comes the lifetime pointer, `StopsOnce`: a handle, and `make_lifetime_ptr` while `start()` runs, owns the deleter; only a
`start()` that returned arms the proxy; the stop handler exists only after the deleter is gone. A connector's step is a step of
`ConnectRace` or leaves it alone, and the same for `LifetimePtr`, by the
way it is written, which the lemmas `StreamOfConnector` and `LifetimeOfConnector` use to carry the theorems above over; they say nothing of their own. `ConnectorInv` adds how the connector's own
state follows: the phases and the stages; that the operation is owned from `start()` to the end of `run()`; that a drop that was not lost, and
a cancellation during a handshake, left the socket closed (`ClosedForGood`); that only the stop handler cancels. From it come `ConnectorTypeCorrect`,
`NobodyOversleeps`, `ConnectorOutlivesRun`, `DropsWork`, and `ConnectorImplements`: `LinkStep` maps each action to one of `Connection` or to a stutter.

`UrlsDecodedAsMeant`: the run compares `DecodeUrl` with `Reference` on every url of up to five tokens; the theorem does on those of
any length. A greedy group and what the reference looks for both end at a least position, where the first of
some tokens is or the end of the url (`Ends`, which is unique). `AuthoritiesAgree` and `TargetsAgree` follow the groups from one end to the next,
`PartOfPart` and the library's lemmas on subsequences put the pieces together.

### 5.3 Data structures

`AsyncQueueProofs`: `TypeCorrect`, `CapacityKept` (a circular buffer never exceeds its capacity) and `NoLostWakeup`. `WokenCoverItems` is inductive with `TypeOK`: a push over sleepers adds an
item and a woken popper; a popper sleeps only beside an empty buffer; a woken popper that resumes takes an item or found
none. The lemmas say what the tail, an appended entry and a cut-out entry do to a sequence without repetitions. `SetReleasesAtOnce` is the part of `SetReleasesAll` that is not about liveness: nobody is asleep
at a latch that is set, and `set()` lets all go.

`BidLadderProofs`: `TypeCorrect`, `AlwaysDescending`, `AlwaysCurrent`, `NoGrowthBeyondLimit`, from `TypeOK /\ Descending /\ LevelsCurrent`, which is
inductive. `LowerBound` is a CHOOSE: `PlaceOfPrice` shows that there is such a place in any sequence, by a least element
(`LeastNumber`, from the library's well-founded induction). `InsertedOrder`, `ErasedOrder`, `ChangedOrder` and `CutOrder` say what each of
`set()`'s ways leaves, in the form `Updates`: a ladder in order, each of whose entries is the level told or one of another price
that was there. Order and currency follow from that form alone. `BestBidsKept`, that a cut loses the worst level only, needs the rank of a level:
in a ladder in order, the levels better than an entry are those before it (`Better`), so that as many as its place says remain after the cut.

`ValueMapsProofs`: `MapsTypeCorrect`, which includes that an implementation lives as long as a map or another implementation refers to it, and is
free for use when not (`Recycled`); `ContentsHaveOneOwner`, that each content is in one slot or layer and each block of
the heap in one of them, so that none is destroyed twice or leaked (`MapsInv` with `Kinds`: dependency maps own no blocks). `MapsImplementFixedMaps` is
the refinement of `FixedMaps`, by two further invariants. `Ranked`: the layers can be ranked so that a parent ranks below its child; so a chain of layers
has no cycle and the recursion of a query ends, which is what lets it be unfolded once (`FoundNow`). `Exclusive`: unless a mutable
map was copied (`aliased`), the layer a mutable map writes to is not in the chain of another map. With these a `set()` changes what one map contains
and nothing else, and freeing what is no longer referred to changes nothing (`ContentAsBefore`). `Chain` is written as
the least set of layers that is closed under taking parents, which needs no recursion.

`EntityKeysProofs`: `FixedKeysLeadSomewhere` is inductive with the type of the keys: `merge()` may take over a path that leads nowhere,
and only `fix()` stands between it and a fixed key. `EqualKeysUsedTheSame` and `EntityKeysAreKeys` are about what the operators
do to documents of any depth. A recursive function is a CHOOSE, so that it first has to be shown to exist: `From` puts the four
recursions into one definition, of which `PartsDecide` says that it asks for the parts of a value only; solutions for shallow values agree
(`SolutionsAgree`) and extend each other (`SolutionFromBelow`), both by a least counterexample, which replaces induction; hence
`BytesUnfold`, `SameUnfold`, `CanonicalUnfold` and `RegularUnfold`.

That equality means the same use needs `operator==` *and* the digest: the former takes `0.0` and `-0.0` for equal, the latter takes `[1,2]` and `[[1],2]` for equal. What `operator==` takes for the same is hashed to
equally many bytes (`SameLength`), so the places at which the digests of two keys with equal contents are made of pieces are the same, and the missing delimiters do no
harm: `FlattenDecided` says that concatenations of equally long pieces are equal only if each piece is. So the digests decide each path (`ContentsMatched`) and,
going down the values together with `operator==`, each member, element and number: values that are the same and have the same bytes have one canonical form
and are regular (`ExactIsCanonical`); the converse are `CanonicalIsSame` and `SameBytes`. All four are by a least counterexample in `Depth`, with one lemma for the step to the parts.
Objects are compared by as many members, each of which is found, and hashed in the order of names (`BytesIfParts`). `PathsLeadToValues` does the same for a
path. `SameUseIsEqual` puts it together. For entity keys equality is a partial equivalence (`EqualEntitiesAreAlike`): a key that used a NaN is equal to itself only as one model.
That equal digests alone mean equal uses is false (`clashing` in `MCParts`) and not claimed.

### 5.4 What is only model-checked

* `NoOrphanSubscription` and `HandoverClean` without the premise, for two subscriptions; that they fail for three is finding 1's consequence.
* The last part of `SetReleasesAll`, and all other properties that say that something happens in the end (`SubscriptionOpens`, `StopReleases`, `RaceIsDecided`,
  `ReleasedIsDestroyed`, ...): liveness under fairness is out of this prover's reach, as is ENABLED.

Only proved, since the runs that check what depends on them would
add nothing: `InterestExact` and `ReleaseFindsInterest` (behind `InterestCovers`), `WithinCapacity`, `UpgradedOnlyWhenSecure`, and the type
invariants of `AsyncQueue`, `BidLadder`, `ConnectRace`, `LifetimePtr` and `ConnectorLife`. `ReleaseFindsAcquired` is proved for two contenders and
refuted by the run `double_acquire` for more.

## 6. Not modelled, and why

Formatting, logging and the content of the login frame; what is inside TLS and the websocket protocol (library code); validity of
iterators into the unordered map; binary frames, which are ignored;
comparison, hashing and printing of `property_value`s; the components whose status in `PROJECT.json` is `not_modelled`, with
their reasons there: they have no state that changes (order book, snapshots, helpers) or no implementation (entity cache).

## 7. Plan

Done, in this order: the subscription protocol (`SubscriptionMachine`, `ChannelSubscriptions` and its proofs), the composed
connector with the refinement of `Connection`, the queues with their proofs, the ladder, the maps with their abstract specification, the keys; then the
race of the endpoints, the lifetime pointer, the url and the life of a connector with their proofs, the abstract connection that both
models of the connector implement, the heap behind property values, `entity_key`, `async_latch`; then the proofs of the connector (invariants,
hand-over, the refinement), of the wake-ups, of the ladder's best levels, of the maps and their refinement, of the url, and of the keys.

Next, by importance:

1. `NoOrphanSubscription` from a premise weaker than `NoOvertaking`: an overtaking of a channel that no other holder has left yet.

A new module gets a run where it asks a question no run asks yet, and otherwise joins the run of the component it refines, or `parts` if it stands alone.
