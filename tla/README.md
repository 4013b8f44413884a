# Specifications of the real-time spatial tracking gateway

TLA+ models of the parts of this gateway that keep state and that run concurrently: the
connection handler and the process around it, rooms and delivery, session persistence,
multi-region replication, the event-sourced write and read sides, the rate limiters, and the
storage adapters. TLC checks them on small instances; TLAPS proves most of their safety
properties for every value of the constants. `PROJECT.json` lists runs,
theorems, the source lines behind every definition, and the hazards the properties are aimed at.

Paths below are relative to the repository (`src/room-manager.js` and so on).

## The system

Mobile clients connect by WebSocket, authenticate with a JWT, join rooms and publish
locations. The gateway forwards a location to the other members of the room, keeps a ring
buffer of recent messages for clients that reconnect, saves a session per client so that any
instance can resume it, appends events to storage, and replicates rooms, sessions and
geofences between regions. Everything runs in Node.js: one thread per instance, so a
synchronous method is atomic, and interleaving happens at `await`, at timers, and between
processes.

| component | state | operations | interacts with |
|---|---|---|---|
| Room manager (`room-manager.js`) | rooms, reverse index, member total, circuit breaker, per-room sequence number and ring buffer, dedup cache, ACK records | `join` `leave` `disconnect` `updateClientId` `broadcast` `ack` `nack` `handleReconnect` | called by the server's message, close and token-refresh handlers; writes to sockets |
| Gateway server (`server.js`) | a session context per connection, live contexts, local session cache | connection, message and close handlers, `restoreSession` `touchSession` `migrateClient` `saveAllSessions` | rooms, session manager, commands, authentication |
| Process entry point (`index.js`) | phase of the shutdown | signal handlers, `shutdown`, exits | server, timers |
| Session stores (`session-manager.js`) | map from client to sealed blob with expiry and timer | `set` `get` `del` `sweep` `clear` | used by the session manager; Redis is the other implementation |
| Session manager (`session-manager.js`) | debounce timers and state providers, key ring | `save` `debouncedSave` `flush` `flushAll` `load` `delete` `close` | shared store, several instances |
| Hybrid clock and CRDTs (`multi-region.js`) | HLC, vector clock, OR-set, LWW map, LWW element set, RGA sequence | `now` `receive`, add, remove, merge, traverse | used by the coordinator |
| Multi-region coordinator (`multi-region.js`) | replicas of rooms, messages, sessions, config, geofences; failed peers | `joinRoom` `leaveRoom` `broadcast` `saveSession` `setGlobalConfig` `syncGeofence` `removeGeofence` `handlePeerOperation` `antiEntropy` `mergeRemoteState` `markRegion*` | transport between regions |
| Event sourcing, write side (`event-sourcing.js`) | event log, snapshots, commandId cache | `dispatch` and eight command handlers | projections subscribe to committed events |
| Projections (`event-sourcing.js`) | read models, processed marks, lag gauge | `processEvents` and four projections | in-memory or SQL sink, which survives the process |
| Rate limiters (`rate-limiter.js`, `conn-rate-limiter.js`) | timestamps per client or address | `check` `remove` `cleanup` | server, timers |
| Storage write pipeline (`storage/postgres.js`) | buffer, flush flag, lazy pool, timer | `writeBatch` `_flush` `_init` `close` | PostgreSQL |
| Compaction (`storage/postgres.js`) | raw table and three rollup tables | six phases of `compact`, `queryRoom` | PostgreSQL, scheduler |
| In-memory adapter (`storage/memory.js`) | list of events, three computed tiers | `compact` `queryRoom` | takes the place of PostgreSQL |
| Migration SQL, storage factory, auth, validator, predictor, logger | see `PROJECT.json` | not modelled | |

What is hard about it, component by component:

- *Rooms.* Membership is stored twice and changed by four handlers; token refreshes merge
  identities; limits are checked by one handler only. Replay, nack and the ACK window read a
  buffer that evicts by count and by bytes, while acks come late, repeated and out of order.
  Right means: the two indexes agree, replays are exact, and a paused client can be resumed.
- *Connections.* A handler awaits authentication, the session store and its commands, and the
  socket may close, the token change, a migration or the shutdown begin meanwhile; contexts,
  rooms, the local cache and the store change at different steps. Right means: what a client
  resumes are the rooms it had, live contexts belong to open sockets, a blob that was
  handed out can be resumed, and a signal ends the process.
- *Sessions.* A save is debounced, runs later, and travels to a store that other instances
  also write; a delete races all of these. Right means: deletes stick, stores never go back to
  an older state, and every change is saved.
- *Regions.* Operations are lost, repeated and reordered, snapshots are merged after other
  steps, peers fail and recover. Right means: equal knowledge gives equal data, orders
  do not contradict each other, commits are held by a majority, and lost data is repaired.
- *Event sourcing.* Handlers decide on state read several awaits earlier; snapshots are written in
  the background; projections fail, batches overlap, and the process stops between the effect of
  an event and its mark. Right means: dense sequence numbers, loads equal to the log, alternating
  crossings, read models that show the newest state, agree, and miss nothing that is marked.
- *Storage.* Flushes started by size, by timer and by `close()` share a flag; initialisation is
  lazy and may fail; compaction phases fail and repeat over overlapping windows. Right means: no
  event is stored twice or forgotten silently inside the pipeline, rollups never overcount, and
  both adapters answer alike.

## Modules

| module | models | runs |
|---|---|---|
| `DedupCache` | the Map behind `_isDuplicate` as a sequence in insertion order | `rooms_*` |
| `RoomManager`, `MCRoomManager` | `RoomManager`, one action per method | `rooms_membership`, `rooms_delivery` |
| `RoomManagerProofs` | theorems about it | |
| `SessionStore` | abstract: a map whose entries live exactly `TtlMs` | refined by `MemoryStore` |
| `MemoryStore` | the Map with timers, lazy expiry and sweeps | `session_memory_store` |
| `SessionManager`, `MCSessionManager` | instances over one `SessionStore` | `sessions` |
| `SessionManagerProofs` | theorems about them | |
| `Gateway`, `MCGateway` | connection handler, session contexts, migration, shutdown, crash and restart | `gateway` |
| `GatewayProofs` | theorems about it | |
| `HybridClock`, `OrSet`, `LwwMap`, `LwwElementSet`, `RgaSequence` | the clock and the replicated data types as operators | `regions*` |
| `MultiRegion`, `MCMultiRegion` | one coordinator per region and the transport | `regions`, `regions_sessions_diverge` |
| `MultiRegionProofs` | theorems about them, and lemmas about the data types | |
| `EventSourcing`, `MCEventSourcing` | dispatcher, handlers, repositories, both event stores | `event_sourcing` |
| `EventSourcingProofs` | theorems about them | |
| `Projections`, `MCProjections` | `processEvents` and four projections over both sinks | `projections` |
| `ProjectionsProofs` | theorems about them | |
| `SlidingWindow` | abstract: what a sliding-window limiter promises | refined by `RateLimiter` |
| `RateLimiter` | both limiters | `limiter_window` |
| `RefinementProofs` | theorems about `MemoryStore` and `RateLimiter`: each implements its abstract specification | |
| `WritePipeline` | write path and lifecycle of the adapter | `storage_write` |
| `Tiers` | rollup tables as functions from bucket to count | `compaction` |
| `MemoryAdapter` | the in-memory adapter as operators | `compaction` |
| `Compaction`, `MCCompaction` | the phases of `compact()` and the routing of queries in PostgreSQL | `compaction` |
| `PostgresProofs` | theorems about `WritePipeline`, `Compaction` and `MemoryAdapter` | |

Compositions: `Gateway` joins the connection handler with rooms, session contexts, the local cache,
the saves to the store, and the process; it takes from rooms and sessions what the handler can
see of them (who is in which room with which socket, which save is pending), and the modules
`RoomManager` and `SessionManager` have the rest. `SessionManager` extends `SessionStore` and its
store commands are actions of it; `MultiRegion` is built from the five data-type modules;
`Compaction` extends `MemoryAdapter`, which extends `Tiers`, and states that the two adapters
agree; `RoomManager` uses `DedupCache`. Two of the proof modules extend two components each,
which is why the names of `RateLimiter` and `Compaction` (`LimiterSpec`, `CompactionSpec`, ...)
are their own.

Conventions. Variables carry the names of the code's fields. A synchronous method is one action.
An asynchronous one is an action up to its first `await` and one action per continuation, so
that everything else may run in between. History variables (marked so) exist for properties
only. Definitions called "Faulty variant" are plausible mistakes next to the operator they
distort; no specification uses them. They are what the mutants of `PROJECT.json` substitute,
to show that each property can fail.

*Deployments and workloads.* Several modules have a variable `deployment` (or `workload`, or
`healthy`) that is chosen in the initial state from a constant set and never changes. It says
who takes part, what surrounds the program and how far the model counts. One run
then explores several bounded scenarios, each deep in another direction, instead of one
scenario in which everything is shallow. Where a property holds in some deployments only (one
session instance, one projection batch at a time, a healthy database), its
statement says so.

### How the models correspond to the code

**RoomManager.** `rooms` and `clientRooms` are the two Maps, `liveRooms` and `liveClients` their
key sets. A missing ACK record reads as a fresh one, which is what `_getAckState` creates.
`broadcast()` of a duplicate changes nothing and is a stuttering step. Backpressure is disabled,
as in `createServer`. `ack()` takes any number of a set `Acks`, also one the room has not
assigned: neither it nor the validator compares it with the room's (the validator lets fractions
through as well, which are left out). The heap reading of the circuit breaker is one of low,
middle and high against its two thresholds. `handleReconnect` and `nack` change no state and are
operators that properties evaluate in every reachable state, for every mark (`nack` only sends
what such a replay holds).

**Gateway.** A step is one turn of the event loop. Per socket, `conn` has the progress of its
handler (authenticating, loading a session, ready), the state of the socket, the id of its
context, the frame that waits for the end of the resumption, a location command or a token
verification under way, and the state frozen by the teardown. A session state is its owner and its
rooms: the acknowledged marks, fences and rate windows are captured and restored by the same
calls. With a shared secret, verification settles before the next event (`Urgent`); with a key set
(`"jwks"`) it is a real wait. Saves reach the store in the order of their start, and the store may
reject them. The store is a shared one (feature `"redis"`), which outlives the process and keeps
some first part of the saves under way at an `Exit`, or one in memory, which an `Exit` empties;
then clients still come with blobs of earlier processes, which open but find no entry (`Blobs`).
`index.js` passes no `redis`, so what it starts is the second kind, unless another entry point
creates the server. That the in-memory store also answers in later turns allows more interleavings
than it has. `shutdown()` is one action per phase, `saveAllSessions()` one per awaited save.
`server.js` declares `identity` and `ctx` twice in one block; the second declarations are read as
assignments. Both of its close handlers run in one turn; the second one has an effect on the
address counter only, which is left out with the other limits (a choice at `Connection`). The
queue `preReadyQueue` of the first message handler is never read and is left out.

**SessionManager.** Every instance has one connection to the store that executes its commands in
order, and a command may be rejected. The saves that a `flushAll()` or a `close()` starts together
are sent in any order of the clients. A blob is its client, the version of the state it seals, its
key id and its seal number: each seal uses a fresh IV, so blobs never repeat. A debounce timer is
the time it has left, and every call sets it anew, without a bound; `MaxTime` bounds the clock by
which entries expire, not the timers. Timers fire on time: time does not pass an armed timer that
has run down. `debouncedSave()` also accepts a plain state instead of a provider; the server never
passes one, and it is left out (a state captured at the call is what the faulty variant
`ProviderObject` has). A key ring decides which blobs `load()` can open.

**MultiRegion.** Region ids are naturals in the order of the code's string comparison; tags and
operation ids are pairs of region and counter. An absent room is an empty room. The Merkle root is
compared by what it covers; where the code's root depends on the order in which a Map was filled,
the comparison may go either way (`OrderSensitive`). A region has one pull under way at a time. A
probe may throw in the deployment that compares roots, which excludes the peer from all that
follows, as nothing undoes it there. `message_remove` is handled by the code but sent by nobody in
it, so it is an external action. A deleted session is one more value. The lag gauges are left out.

**EventSourcing.** Each `await` of a handler is an interleaving point: read snapshot, read events,
append (one step in memory; check and insert with SQL), publish. Both kinds of aggregate live in
one store under their bare ids, and `Clients` and `Rooms` may overlap: log and snapshot of an id
that is both (`Mixed`) are shared. Any SQL statement may fail (`StatementFails`), and the answer
to a commit may get lost after the commit (`CommitUnanswered`); a commit that takes effect only
after the client has given up on it is not distinguished from that. A fence has one geometry, and
a fix is the set of fences that contain it; the crossings of one fix are of different fences, and
the model puts its entries before its exits where the code goes fence by fence. A resume carries
one room. The `ORDER BY` of the SQL reads equals the order of the log, as long as sequence numbers
are dense. `_doInit` of the SQL event store passes a bind parameter into a `DO` block, which
PostgreSQL does not accept; the model starts from a store that was initialised by other means.

**Projections.** Each statement of a projection is a step, over the Map-based sink or over tables;
any of them may throw, the look-up of the marks too, which ends the call. `Stop` ends the process
between any two steps; the tables survive it. A call works through its batch in the order of
`compareByTime` (`Sorted`), without the events whose marks it found. Events of a vehicle have
distinct timestamps. A vehicle row is its rooms, possibly absent, and the time of its location:
what the two sinks write for an absent field differs, and so does the key of the violations.

**RateLimiter.** Time is a counter; `remove()` of the message limiter and `cleanup(ip)` of the
connection limiter are the same action, and `check()` trims the list of its caller first.

**WritePipeline.** Events are numbered in the order of acceptance. `pool.end()` waits for
clients in use, and a query on a missing or ended pool is rejected. Both are the behaviour of
`pg`.

**Compaction.** One room (all statements group by room), point counts instead of rows, ticks
instead of milliseconds with two ticks to the minute, four to the hour, eight to the day and
twelve to the longest range. Events come up to `MaxLate` late and up to `MaxAhead` ahead of the
clock: the validator lets them differ by `MAX_TIMESTAMP_SKEW_MS` either way. `Trunc` is one
operator for SQL and memory, so the session time zone of the database is UTC: `date_trunc('day',
...)` cuts days in that zone, the in-memory adapter always in UTC. `compact()` is called as the
scheduler calls it or with the constructor's retention; explicit overrides (`postgres.js`, lines
731-739) and the refresh of TimescaleDB views (lines 795-806) are left out. `QueryRoom` routes a
range to a tier as the SQL adapter does, `MemoryAdapter` groups the events it still has; both are
evaluated for all ranges in every state. Creation of partitions, medians, distances and limits of
the result are left out.

## Runs

| run | instance | shows |
|---|---|---|
| `rooms_membership` | 3 clients, 3 rooms, 2 sockets, limits of 2, breaker on | the two indexes, the key sets, the limits and the counter agree under every order of calls |
| `rooms_delivery` | 2 clients, 1 room, 2 updates of sizes 1 and 4, ring of 2 entries and 3 bytes, window of 2, dedup cap 1, acks of 1 and of 3 at any time | replays are exact, the ACK window neither drifts nor strands a client, duplicates are dropped |
| `session_memory_store` | 2 clients, TTL 2, 6 ticks | the Map implements `SessionStore`, no timer outlives its entry |
| `sessions` | 1 instance with 2 changes and 2 commands under way; 2 instances with different key rings; debounce of 2 ticks, re-armed at will | deletes stick, the store never regresses, changes are picked up unless re-armed for ever |
| `gateway` | 7 deployments of 1 or 2 clients, 1 room, up to 3 connections, 1 or 2 saves under way, shared store in 5 and in-memory store in 2 | resumed rooms are the right ones, nothing stays unsaved, blobs can be resumed while their store exists, live contexts and memberships belong to open sockets, a signal ends the process |
| `regions` | 8 deployments of 2 or 3 regions, up to 4 operations each | convergence, order, clocks and quorum; anti-entropy repairs rooms although every operation is lost and probes fail, where no peer is excluded |
| `regions_sessions_diverge` | 3 regions, 3 session writes | **violated**: sessions do not converge |
| `event_sourcing` | 2 dispatches over fences, acks and rooms; 1 with an id that is client and room; 1 over the SQL store with failing statements | dense sequences, exact loads, alternating crossings, publication |
| `projections` | 6 workloads of up to 4 events and 4 calls, 1 or 2 at once, both sinks, failures and stops | the newest wins, marked events have had their effect, nothing is applied twice, read models agree |
| `limiter_window` | 2 clients, limit 2, window 2, 4 requests each | implements `SlidingWindow` |
| `storage_write` | batch 2, buffer 3, 7 events, 3 flushes at once | conservation, order, draining close, progress |
| `compaction` | 2 events, one tick late or ahead, 20 ticks, different configured and default retention | no overcount, retention, both adapters hold and answer the same |

Why the bounds are enough. Each is one more than what it takes to meet the case: the ring buffer
is smaller than the number of broadcasts, so entries are evicted by count, by bytes, and all of
them by one oversized entry; the ACK window is smaller than the number of messages; the dedup
cache holds fewer keys than there are, and a key can expire and be recorded again; three regions
are the least with a strict majority that is not everyone; four operations give a join, its leave,
a concurrent join and a further leave; snapshots are taken every two events and logs hold up to
five; a third connection of a client meets the leftovers of a second that met those of the first,
two saves under way are enough for one to overtake a change, and a crash may fall between any two
steps; four batches of a log of three let every event come again after a stop; the buffer of three
overflows by batches of up to three; twenty ticks pass two day boundaries and make every tier drop
rows, and one tick ahead is half a minute, as 30 s are by default. For the properties that a
theorem states, the bounds on clients, connections, regions, rooms, sizes, windows, logs and calls
fall away. The bounds `MaxSeq`, `MaxTime` and `MaxTotal` are guards of the specification, of
arbitrary size in the theorems.

Deadlock is checked where there is always something to do. The other specifications reach the
end of their bounded clocks, logs or operations, and `close()` ends the adapter, so their
configurations switch it off.

Symmetry is used in the two room runs, which check safety only; clients, rooms, sockets and
updates occur in no ordering and no `CHOOSE` that tells them apart.

### Fairness

- `SessionManager`: weak fairness of the passing of time and of the store's answers, and of each
  armed timer. Node runs every timer that is due, and node-redis answers or rejects every
  command. Callers get no fairness and no bound: that they pause now and then is a premise of
  `ChangesPickedUp`, which is void for changes that re-arm the timer for ever.
- `MultiRegion`: a probe that throws is neither obliged to happen nor ruled out; strong fairness
  of probe, fetch and merge, because the interval fires again after every failed round and a fetch
  that may fail infinitely often also succeeds infinitely often. Operations get no fairness: all
  may be lost.
- `Gateway`: weak fairness of what the event loop owes: handlers of settled promises, and the timers
  of the shutdown. Clients and the store are assumed to do nothing.
- `WritePipeline`: weak fairness of the flush timer, of the initialisation and of the flushes:
  intervals fire and promises settle, either way.

## What is proved

The proofs have one pattern: types first, then an inductive invariant made of named parts, shown
preserved action by action, then the property from the invariant. TLC has checked the invariants
on the runs' instances. What follows is why each invariant is what it is.

`RoomManagerProofs`, for all finite sets of clients and rooms, every limit, buffer, window and
cache size:

- `TypeCorrect`: all variables keep their shapes. The non-trivial part is that eviction returns a
  suffix of the buffer (`EvictIsSuffix`, over `LeastNat`: the loop's stopping point exists) and
  that the dedup cache stays a sequence of entries (`RecordType`).
- `MembershipAlwaysConsistent`, from two theorems. `IndexAlwaysConsistent`: `IndexConsistent` is
  inductive together with the types. `CountsAlwaysActive`: from the index, `KeysActive` says the
  key sets are exactly the rooms with members and the clients with rooms, provided a room may hold
  a member.
- `LimitsAlwaysHold`: members per room and rooms in the manager stay within the limits, and
  `totalMembers` covers the memberships. Only `join()` checks limits, so the others must not raise
  a count: `updateClientId()` maps the old members onto the new ones (two may become one, never
  the reverse), and `disconnect()` splits the memberships into those of the client and the rest.
- `ReplayAlwaysExact`: `ReplayExact` is not inductive. `BufferContiguous` is: the buffer of a
  room holds consecutive sequence numbers that end with the latest one. Appending and
  taking a suffix preserve it, and `ContiguousReplays` derives every answer of
  `handleReconnect` from it.
- `UnackedAlwaysOutstanding`, `PausedAlwaysCanResume`: from `WindowInv`, for each client and room:
  what was sent has been sequenced, the count is at most the outstanding messages, and a paused
  client has a full window. Acks carry any number, so the mark may lie beyond the room's (`ahead`
  remembers for whom it ever did): such a client counts as having acknowledged nothing
  (`CoveredUpTo`), and for the others `NewestAckResumes` shows that acknowledging the room's
  newest message ends the pause. An ack frees the distance between two marks, and `AboveMark`
  bounds by that distance how many outstanding messages it can cover.
- `DuplicatesAlwaysDropped`: from `DedupInv`. While the keys recorded fit the cache and the
  buffers are complete nothing was evicted, so the cache holds exactly the buffered keys, each
  with a time at least as late as its updates.

`RefinementProofs`, for every TTL and any number of clients, every limit and window:

- `TimersAlwaysOwned`: each armed timer belongs to the entry that is in the Map.
- `MemoryImplementsStore`: `Spec => Store!StoreSpec` under the mapping that hides expired entries.
  Late timers and sweeps are stuttering steps, `get()` of an expired entry is a `Get` that finds
  nothing. It needs `TimersAlwaysOwned`: the timer of a replaced entry would delete the new one.
- `LimiterImplementsWindow`: `LimiterSpec => Abstract!WindowSpec`. A list holds at least what the
  window counts, but possibly more: stale stamps behind a fresh first one would make `check()`
  refuse too early. `WellKept` excludes that: a list is the end of what was admitted since the
  removal, its stamps ascend, and what it lacks is stale. Hence a list with a fresh head holds
  nothing stale, and the number of its stamps is the cardinality that the abstract specification
  compares with the limit.

`SessionManagerProofs`, for any clients, instances, keys, times and bounds:

- `DeleteAlwaysSticks`: where an instance has its clients to itself, a deleted session has no
  timer, every save of it in the queue of commands has a delete behind it, and the store has no
  entry of it unless a delete is queued (`Gone`).
- `StoreAlwaysAdvances`, an action property: versions ascend from the stored entry over the queued
  saves of the client to the state its provider would capture now (`Grows`).

`GatewayProofs`, for all clients, connections, rooms and deployments:

- `TypesAndNames`: types, and that contexts, pending saves and calls to the store carry ids some
  connection presented.
- `LiveExact`, `RoomsTornDown`: from `Prompt`, which follows a connection through its awaits: what
  is still excused (a close during the load of the session), which of two connections of one id is
  newer, and that a context is live, or its socket in a room, only between authentication and
  teardown.
- `HandedResumable`: from `Handable`: without refreshes, every state that is frozen, being saved
  or handed out carries its client's own id, and a state counted as saved has an entry in the
  store. A shared store keeps its entries over an exit, where saves under way can only add some;
  an in-memory one loses them together with what was handed out of it.
- `RoomsAlwaysRemembered`, `AlwaysSaved`: from `Remembering`, for clients whose connections are
  one at a time and have not died while loading. Per client, `Memory` ties three things together:
  the frozen state of a closed connection that still awaits something, the memberships of a live
  context that has been touched, and the cached state all hold the rooms the client last had.
  `OnItsWay` adds the store: the cached state is what the pending save will capture or, with none
  pending, what the last save under way has, or the store if there is none. A live context that
  was never touched is the exception that needs care: `saveAllSessions()` caches and saves its
  current rooms, so a save left pending by its predecessor must have been flushed by then. The
  proof sorts what a step can do to a client into eight kinds (`Rests`, `Flushed`, `Stored`,
  `TouchedBy`, `Late`, `ClosedBy`, `Anew`, `Forgotten`), shows once for each kind that it keeps
  the invariant, and for each action which kinds it has.

`MultiRegionProofs`, for any number of regions and operations, lost, repeated, reordered or
replaced by snapshots:

- `QuorumSafe`: acknowledgements that were counted came from distinct regions that applied the
  edit, late or not.
- `MembershipSafe`: from what leaves have seen: a tag is removed only by a leave that knew of it,
  and neither a message nor a merge brings a removed tag back.
- `ConvergenceSafe`: each replica is a function of the set of operations it has seen. The
  lemmas about OR-set, LWW element set and message tree show that an operation and a merge both
  commute with adding to that set.
- `MessagesInTreeOrder`, `OrdersNeverDisagree`, `RepliesFollow`: from `OrderInv`. All messages
  ever appended to a room (`Links`) form one tree (`Planted`): ids are distinct, origins are the
  head or another message, and no origin lies in a cycle, because an id is new when it is given
  out. Every replica and every snapshot under way holds a part of that tree (`HeldIn`), perhaps
  with gaps and tombstones, and every message stands after what its publisher saw in the whole
  tree (`AfterKept`). Three facts about trees carry the rest: the reference order is strict
  (`BeforeStrict`), a part orders its nodes as the whole does (`PartBefore`), and `traverse()`
  yields the rooted nodes in the reference order. The last is a loop invariant (`Walk`): what was
  yielded and what is on the stack, one after the other, are in order, no node is there twice, and
  each child of a yielded node is there; a turn splices the sorted children in behind their parent
  (`WalkStep`). Induction over the turns goes by the least turn that fails (`LeastNat`,
  `Inducts`), as the library's induction theorems cannot be instantiated.

`EventSourcingProofs`, for every workload, snapshot interval and cache size:

- `AlwaysDense`: the in-memory `append` checks and inserts in one step, so the log of an aggregate
  grows at its end. On the SQL store check and insert are apart, and the statement is for one
  command at a time (`Guarded`).
- `AlwaysPublished`: `Accounted` names, for each logged event nobody was given yet, the command
  that still has to publish it or the rejected command that had stored it: in memory a join or
  leave whose second append met a conflict, with SQL any command with a failing statement or a
  lost answer after a commit.
- `AlwaysLoadsLog`: `Sound` says of each snapshot, stored or being written, and of each aggregate
  a handler has loaded that it is the state of the log at its number (`Matches`), and of what a
  handler is about to append that it was decided on that state. A log only grows at its end, so
  the state at a number never changes (`MatchesAfter`), and a load is a replay up to the snapshot
  continued by the rest: replaying is a fold over a sequence, and the lemmas about it (of a
  concatenation, of one event more) use an induction stated with sets.
- `AlwaysAlternate`: from `Sound` and `Drawn`. The fences a vehicle is in, as its replayed state
  has them, are those whose last crossing in the log is an entry; a handler decides its crossings
  by that state, and the optimistic check lets it append only to the log it decided on. Both
  theorems are about the in-memory store or one command at a time (`Guarded`), as the SQL store
  inserts some time after its check, and about ids that do not name both a client and a room
  (`Mixed`); the other ids may be used as they like meanwhile.

`ProjectionsProofs`, for every finite log, number of interleaved calls, sink, failure and stop:

- `MarkedAlwaysApplied`: `MarkedIsApplied` is not inductive, because a mark follows its effect by
  a step in which another call may mark, fail or apply. `AppliedInv` is: counter and violations
  also cover the events that some call has handled and is about to mark (`AtMark`), so a mark adds
  nothing new to cover. The counter grows by one when the set it covers grows by at most one
  element; events that are applied again only raise it. After a stop nothing is about to be
  marked, and the in-memory sink loses marks and effects together.
- `NewestAlwaysKept`: the sequence model takes a maximum, so `SequenceNewest` is nearly inductive.
  The vehicle model writes back a row it read in an earlier step; `LocationInv` adds that with one
  call at a time the row read is the row still there.
- `AlwaysAppliedOnce`: while nothing disturbs the calls (`Undisturbed`), an event is marked by all
  projections, by none, or by those that the call at it has passed (`MarksInv`, `Settled`), and
  `ExactInv` says that counter and violations are the marked events and the one in hand, each
  once. That no two rows share a key needs none of this: the upsert checks it.
- `ReadModelsAlwaysAgree`: the two read models are written in different steps and differ on the
  way. `AgreeInv` explains every difference by an event of the pair that is not marked yet, so
  when all are marked there is none.

`PostgresProofs`, for every batch size, buffer limit and number of flushes, every bucket size,
window and retention:

- `EventsAlwaysConserved`: buffer, batches under way, table and lost batches are sequences without
  repetition and have no event in common; with the drop counter they account for all that was
  accepted.
- `AlwaysInsertedInOrder`: until `close()`, the flag admits one flush, and table, batch under way
  and buffer ascend in this order.
- `CloseAlwaysDrains`: `Drained` follows pool and initialisation through `close()`: with a
  database that rejects nothing, the final flush is under way or the buffer is empty, and the pool
  outlives the inserts.
- `AlwaysNeverOvercounts`: from `CompactionInv`. A row is replaced, never added to, so it is
  enough that each row was at most the stored events of its bucket when it was written (`Under`)
  and that stored events only grow. Hours are summed from minutes and days from hours. A sum is
  the number of elements of a set of pairs (`Points`), so two sums are compared by an injection
  from one set into the other, and no induction over tables is needed; buckets nest because an
  hour is a multiple of a minute and a day of an hour.
- `RetentionAlwaysKept`, an action property: from `Retained`, that raw events younger than the
  shorter retention are all there. Partitions go by whole days that ended before the cut-off day
  began.
- `AdaptersAlwaysAgree`: `Fresh` follows an undisturbed run phase by phase: after its phase a tier
  is exact from the beginning of the look-back on (`Exact`), because it was rolled up from a
  source that is exact there. Its hypothesis `LookBackKept` is that every retention is at least
  the 24 hours of the minute phase: with a shorter one a run deletes what it has just rolled up.
  The defaults (7, 90, 365 and 2555 days) and every whole number of days from one satisfy it.
  `SkewShort` is that clocks go ahead by less than the minute that the phase adds to its window;
  the default skew of 30 s satisfies it, and with a longer one a run misses events that lie
  further ahead.

The assumptions are the named `ASSUME`s of the modules: identifiers are finite in number where
something is counted (clients, instances, rooms, fences, calls), distinct from the "absent" values
(`HeadAssumption`: the head of a sequence, `null` in the code, is no message id), commands and
events have their shapes, sizes are naturals. Every run evaluates those of its modules.

Only model-checked: liveness (`ChangesPickedUp`, `RoomsRepaired`, `BufferMoves`,
`ShutdownTerminates`), because fairness is beyond the prover. Every invariant and every action
property of the runs is stated by a theorem.

## Where code and documents disagree

`regions_sessions_diverge` shows one disagreement as a counterexample: `#winsOver` orders related
writes by vector clock and concurrent ones by writer id, and the combination is not transitive,
against `issues/issue-24-multi-region-active-active.md:72` ("same operations delivered in any order
→ same state"). Others were met while modelling. The models keep the code's behaviour, and the
properties are stated for what the code does keep:

- Rooms. An ack frees the distance between sequence numbers, so the window may reopen further than
  what was acknowledged, and a broadcast that meets a full window is skipped, not queued
  (issue-16, lines 25 and 61). An ack is not compared with the room's number. After one beyond it,
  later acks up to the mark free nothing, so a client that then fills its window stays paused
  until it acknowledges beyond its own mark or disconnects: hence `ahead` in `PausedCanResume` and
  `UnackedIsOutstanding`. `updateClientId()` onto an id that is in the room leaves `totalMembers`
  too high, and it can exceed `maxRoomsPerClient` (issue-08, line 17): hence the counter's part of
  `LimitsHold` is an inequality and it does not speak of rooms per client. A key recorded again
  keeps its old place in the dedup Map and is evicted first (issue-06, line 48).
- Gateway. A socket that closes while `sessions.load()` is awaited is torn down before the session
  is restored: the restored membership stays in its rooms with a closed socket, and the context
  shows the empty state frozen by the teardown (README.md, line 35: "Disconnection events trigger
  full teardown"; `server.js`, line 738: "Registered synchronously so it runs even when the socket
  dies during async auth or resumption"). Hence `Orderly`, and the exception in `TornDown`. With a
  key set, a verification that settles after the close makes a context live that nothing removes.
  A token refresh by one of two connections of an id moves the rooms and the live entry of both to
  the new id, and with a key set the state that a close freezes under the old id can still be
  handed out after the refresh. Hence the premises of `LiveIsConnected`, `TornDown` and
  `HandedIsResumable`. Of two connections of one id, the close of the older empties the rooms of
  the newer. A location handler that settles late puts the state of its closed connection over a
  newer one in the cache, and `migrateClient()` does so after its awaits; a token refresh during
  its flush makes it hand out a blob under an id that has no stored session. A refresh leaves the
  pending save and the cache of the old id behind. `shutdown()` sends its close frames 600 ms or
  more after the signal, whether `saveAllSessions()` has finished or not, and `process.exit(0)`
  does not wait for saves under way (issue-05: "All connected clients receive a shutdown
  notification before connections are closed"; issue-18: "Graceful shutdown saves all sessions
  before closing connections"). `index.js` sends every client its blob "so a client can resume on
  another instance immediately" (lines 85-86), but passes no `redis` to `createServer()`: the
  sessions are in a `MemoryStore` that `wss.on("close")` clears and that ends with the process,
  and no other instance has their entries. Hence `HandedIsResumable` speaks of the blobs of the
  store that exists.
- Sessions. `delete()` cancels the timers of its own instance only (issue-18, line 96). `load()`
  asks whether the client has some stored session, not whether it is this blob. Every debounced
  call re-arms the timer and there is no longest wait, so changes that keep coming postpone the
  save for ever (issue-18, line 81: "verify Redis updated within 1s"; `session-manager.js`, line
  440: "one save per `ms` per client"). Hence the first disjunct of `ChangesPickedUp`.
- Regions. `HLC.receive` resets the counter when the wall clock equals the remote reading.
  `serializeState()` ignores residency zones. A geofence edit that missed its quorum stays
  applied. A `message_remove` that overtakes its message is ignored, hence the premise of
  `RoomsConverge`. One failed probe excludes a peer until somebody calls `markRegionHealthy`, and
  nothing in `src/` does: `RoomsRepaired` is about regions that do not exclude each other. The
  Merkle root does not cover sessions, config and geofences.
- Event sourcing. A commandId is recorded after its handler has run, so a retry meanwhile runs
  again. `at()` on an aggregate loaded through a snapshot lacks the older history. A commit of
  several events can step over the multiple at which a snapshot is due. Join and leave append to
  two aggregates in two steps, and a second join is recorded on the room; with SQL the second step
  may also fail, so a join that runs alone can leave its vehicle event stored and unpublished. The
  SQL store checks the sequence number and inserts in two statements without a lock. Log and
  snapshots are keyed by the bare id: a room that is named like a client shares its log, and the
  room's snapshot replaces the vehicle's, which then loads as an empty vehicle and may record a
  second entry of a fence.
- Projections. An event that one projection failed on, or whose mark a stop prevented, is applied
  again by all of them when it returns: the room counter counts it twice, also over the SQL sink,
  although the class comment speaks of "making processing idempotent across restarts and replays".
  Order is restored within a batch only. A look-up that throws leaves the rest of its batch in
  `projection_lag_events`. Of two interleaved calls one loses its change of the vehicle row. An
  upsert of a row that was absent when it was read empties the rooms column in SQL and leaves them
  alone in memory.
- Limiters. A disconnect deletes the window of its address.
- Storage. A rejected insert loses its batch without counting it. `close()` before the pool exists
  skips the final flush, and the initialisation that finishes later arms the flush timer. The
  scheduler calls `compact()` without arguments, and default parameters then win over the
  configured retention: hence `Promised`. Look-back windows begin inside a bucket, whose row is
  replaced by a partial count. The in-memory adapter computes all tiers from the raw events left
  and reads none of them in queries; without a range its `queryRoom()` returns everything and the
  SQL one the last 24 hours; for buckets that a range cuts, the two answer differently.
  `AdaptersAgree` is about the rest. `"auto"` is documented as the finest resolution that returns
  at most `limit` points (`storage/adapter.js`, line 43; issue-17, line 34); both adapters choose
  by the length of the range. A rejected initialisation is remembered and never tried again.

## Not modelled, and the plan

- Backpressure of `RoomManager` (fan-out in batches, coalesced messages, slow-consumer timers):
  `createServer` constructs the manager without it.
- JWT verification (a library with its own cache), message validation (stateless), logging.
- The predictor: a Kalman filter over floating-point numbers.
- HTTP endpoints, metrics, lag gauges, `failoverTargets()`, temporal queries (`at()`, the fleet
  aggregate): they read and report.
- The storage factory (reads configuration), the abstract adapter, the migration script (nothing
  calls it), spatial queries and SQL texts of reads.

Order of work:

1. Done: rooms; sessions with their store; regions; event sourcing; limiters; storage and
   compaction; the gateway with its process; projections over both sinks; the in-memory adapter; the
   theorems above.
2. Prove next: the safety part of `ChangesPickedUp` (a session with a change has its timer armed).
3. Extend after that: backpressure, once the server enables it; the predictor's eviction of stale
   entries; lag gauges and `failoverTargets()`.
