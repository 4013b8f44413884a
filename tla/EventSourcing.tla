---------------------------- MODULE EventSourcing ----------------------------
(***************************************************************************)
(* The write side of the event-sourced gateway: the event store, the       *)
(* vehicle and room aggregates, the repositories with their background     *)
(* snapshots, the command handlers and the deduplicating dispatcher.       *)
(*                                                                         *)
(* Every await of a handler is a point where other dispatches run: a       *)
(* dispatch reads a snapshot, then the events after it, decides, and       *)
(* appends under an optimistic check of the sequence number.               *)
(*                                                                         *)
(* Both kinds of aggregate share one store, which knows them by their bare *)
(* id: a room may have the id of a client.                                 *)
(***************************************************************************)
EXTENDS Naturals, Sequences, FiniteSets, SequencesExt

CONSTANTS Clients, Rooms, Fences,
          Workloads,         \* what the dispatcher is asked to do, see below
          SnapshotEvery,     \* snapshotEvery
          DedupCacheSize     \* dedupCacheSize

CommandTypes == {"publish_location", "join_room", "leave_room", "acknowledge",
                 "negative_acknowledge", "update_geofence", "resume_session"}

\* A workload is a set of commands, each with its commandId, the dispatches that may be
\* under way at once, the kind of store (transactional: append reads the highest sequence
\* and inserts in two statements) and a bound on the events of one aggregate.
ASSUME WorkloadAssumption ==
    \A w \in Workloads :
        /\ w.transactional \in BOOLEAN /\ w.maxEvents \in Nat /\ IsFiniteSet(w.dispatches)
        /\ \A cmd \in w.commands : /\ cmd.type \in CommandTypes /\ cmd.client \in Clients
                                   /\ cmd.room \in Rooms /\ cmd.seq \in Nat /\ cmd.within \subseteq Fences
ASSUME SizesAssumption == SnapshotEvery \in Nat \ {0} /\ DedupCacheSize \in Nat \ {0}
ASSUME FencesAssumption == IsFiniteSet(Fences)

Aggregates == Clients \cup Rooms    \* the ids

VARIABLES workload,    \* the workload, for good
          log,         \* id -> its events in the order of the store
          snapshots,   \* id -> latest stored snapshot
          writing,     \* id -> snapshots on their way to the store, at most one of a kind
          dispatches,  \* dispatch -> what its handler knows
          dedup,       \* commandIds of the dedup cache, oldest first
          published,   \* history: events handed to the subscribers
          rejected     \* history: commandIds rejected after some of their events were stored

vars == <<workload, log, snapshots, writing, dispatches, dedup, published, rejected>>

Commands == workload.commands
Dispatches == workload.dispatches
Transactional == workload.transactional
MaxEvents == workload.maxEvents

-----------------------------------------------------------------------------
(* Aggregates: the state an event leads to. *)

\* A room carries its members; a vehicle carries rooms, acks and geofences.
FreshState(kind) ==
    IF kind = "room" THEN [kind |-> kind, members |-> {}]
    ELSE [kind |-> kind, rooms |-> {}, acked |-> [r \in Rooms |-> 0], inside |-> {},
          fences |-> [r \in Rooms |-> {}], updates |-> 0]

MutateVehicle(s, e) ==
    CASE e.type = "location_update"  -> [s EXCEPT !.updates = @ + 1]
      [] e.type = "room_joined"      -> [s EXCEPT !.rooms = @ \cup {e.room}]
      [] e.type = "room_left"        -> [s EXCEPT !.rooms = @ \ {e.room}, !.acked[e.room] = 0]
      [] e.type = "geofence_updated" -> [s EXCEPT !.fences[e.room] = e.fences]
      [] e.type = "geofence_entered" -> [s EXCEPT !.inside = @ \cup e.fences]
      [] e.type = "geofence_exited"  -> [s EXCEPT !.inside = @ \ e.fences]
      [] e.type = "session_resumed"  -> [s EXCEPT !.rooms = @ \cup {e.room}, !.acked[e.room] = e.seq]
      [] e.type = "message_ack"      -> [s EXCEPT !.acked[e.room] = e.seq]
      [] e.type = "message_nack"     -> s

MutateRoom(s, e) ==
    CASE e.type = "room_joined" -> [s EXCEPT !.members = @ \cup {e.client}]
      [] e.type = "room_left"   -> [s EXCEPT !.members = @ \ {e.client}]
      [] OTHER                  -> s

\* mutate() of the class of the aggregate, whatever kind recorded the event.
Mutate(s, e) == IF s.kind = "room" THEN MutateRoom(s, e) ELSE MutateVehicle(s, e)

\* restoreFromSnapshot: a snapshot of the other kind has none of the fields this kind reads.
Restored(kind, snap) == IF snap.kind = kind THEN snap.state ELSE FreshState(kind)

\* loadFromHistory.
Replayed(s, events) == FoldLeft(Mutate, s, events)

\* getEvents(id, { fromSequence, toSequence }): the events with these numbers, as they are
\* ordered in the log.
Events(a, from, to) ==
    LET kept == {n \in 1 .. Len(log[a]) : log[a][n].sequence >= from /\ log[a][n].sequence <= to}
        Place(n) == Cardinality({m \in kept : m <= n})
    IN  [k \in 1 .. Cardinality(kept) |-> log[a][CHOOSE n \in kept : Place(n) = k]]

\* The last event's number in memory, MAX(sequence) in SQL.
HighestSequence(a) ==
    IF log[a] = <<>> THEN 0
    ELSE IF Transactional THEN Max({e.sequence : e \in ToSet(log[a])}) ELSE Last(log[a]).sequence

-----------------------------------------------------------------------------
(* Command handlers: the events a command records on a loaded aggregate. *)

Event(a, cmd, type, fences) ==
    [aggregate |-> a, type |-> type, cause |-> cmd.id, client |-> cmd.client,
     room |-> cmd.room, seq |-> cmd.seq, fences |-> fences, sequence |-> 0]

\* Faulty variant: a fix inside a fence counts as an entry whether or not it was inside before.
CrossingsEveryFix(cmd, s) ==
    LET configured == UNION {s.fences[r] : r \in Rooms}
    IN  [n \in 1 .. Cardinality(configured \cap cmd.within) |->
            Event(cmd.client, cmd, "geofence_entered", {SetToSeq(configured \cap cmd.within)[n]})]

\* The fences of all rooms whose border the new fix has crossed since the last one.
Crossings(cmd, s) ==
    LET configured == UNION {s.fences[r] : r \in Rooms}
        entered == SetToSeq({f \in Fences : f \in (configured \cap cmd.within) \ s.inside})
        exited == SetToSeq({f \in Fences : f \in (configured \cap s.inside) \ cmd.within})
    IN  [n \in 1 .. Len(entered) |-> Event(cmd.client, cmd, "geofence_entered", {entered[n]})]
        \o [n \in 1 .. Len(exited) |-> Event(cmd.client, cmd, "geofence_exited", {exited[n]})]

One(cmd, type) == <<Event(cmd.client, cmd, type, cmd.within)>>

VehicleEvents(cmd, s) ==
    CASE cmd.type = "publish_location" -> One(cmd, "location_update") \o Crossings(cmd, s)
      [] cmd.type = "join_room"   -> IF cmd.room \in s.rooms THEN <<>> ELSE One(cmd, "room_joined")
      [] cmd.type = "leave_room"  -> IF cmd.room \in s.rooms THEN One(cmd, "room_left") ELSE <<>>
      [] cmd.type = "acknowledge" -> IF cmd.seq <= s.acked[cmd.room] THEN <<>> ELSE One(cmd, "message_ack")
      [] cmd.type = "negative_acknowledge" -> One(cmd, "message_nack")
      [] cmd.type = "update_geofence" -> One(cmd, "geofence_updated")
      [] cmd.type = "resume_session"  -> One(cmd, "session_resumed")

\* Joins and leaves also record an event on the room aggregate, without looking at its state.
TouchesRoom(cmd) == cmd.type \in {"join_room", "leave_room"}
RoomEvents(cmd) ==
    <<Event(cmd.room, cmd, IF cmd.type = "join_room" THEN "room_joined" ELSE "room_left", {})>>

Decided(kind, cmd, s) == IF kind = "room" THEN RoomEvents(cmd) ELSE VehicleEvents(cmd, s)

\* record(): consecutive sequence numbers after those of the loaded aggregate.
Numbered(events, base) == [n \in 1 .. Len(events) |-> [events[n] EXCEPT !.sequence = base + n]]

-----------------------------------------------------------------------------
(* Dispatching. *)

Idle == [pc |-> "idle"]

\* The kind of aggregate that the commands of this workload make of an id; one they use for
\* a client and for a room is a mixed one.
KindOf(a) == IF \E cmd \in Commands : cmd.client = a THEN "vehicle" ELSE "room"
Mixed == {cmd.client : cmd \in Commands} \cap {cmd.room : cmd \in {x \in Commands : TouchesRoom(x)}}

Init ==
    /\ workload \in Workloads
    /\ log = [a \in Aggregates |-> <<>>]
    /\ snapshots = [a \in Aggregates |->
                      [kind |-> KindOf(a), sequence |-> 0, state |-> FreshState(KindOf(a))]]
    /\ writing = [a \in Aggregates |-> {}]
    /\ dispatches = [d \in Dispatches |-> Idle]
    /\ dedup = <<>>
    /\ published = {} /\ rejected = {}

Goes(d, to) == dispatches' = [dispatches EXCEPT ![d] = to]

\* A commandId of the cache is answered from it and touches nothing; others start their handler.
Dispatch(d, cmd) ==
    /\ dispatches[d] = Idle
    /\ cmd.id \notin ToSet(dedup)
    /\ Goes(d, [pc |-> "snapshot", cmd |-> cmd, kind |-> "vehicle", aggregate |-> cmd.client, events |-> {}])
    /\ UNCHANGED <<workload, log, snapshots, writing, dedup, published, rejected>>

\* A missing snapshot is an empty aggregate with sequence 0.
ReadSnapshot(d) ==
    /\ dispatches[d].pc = "snapshot"
    /\ LET it == dispatches[d]
           snap == snapshots[it.aggregate]
       IN  Goes(d, [pc |-> "events", cmd |-> it.cmd, kind |-> it.kind, aggregate |-> it.aggregate,
                    events |-> it.events,
                    sequence |-> snap.sequence, state |-> Restored(it.kind, snap)])
    /\ UNCHANGED <<workload, log, snapshots, writing, dedup, published, rejected>>

\* Faulty variant: a handler with two aggregates returns the events of the last one only.
ProceedForgets(d, events) ==
    LET it == dispatches[d]
    IN  IF it.kind = "vehicle" /\ TouchesRoom(it.cmd)
        THEN Goes(d, [pc |-> "snapshot", cmd |-> it.cmd, kind |-> "room", aggregate |-> it.cmd.room,
                      events |-> {}])
        ELSE Goes(d, [pc |-> "settled", cmd |-> it.cmd, events |-> events])

\* What the handler does once this aggregate needs no (further) append.
Proceed(d, events) ==
    LET it == dispatches[d]
    IN  IF it.kind = "vehicle" /\ TouchesRoom(it.cmd)
        THEN Goes(d, [pc |-> "snapshot", cmd |-> it.cmd, kind |-> "room", aggregate |-> it.cmd.room,
                      events |-> events])
        ELSE Goes(d, [pc |-> "settled", cmd |-> it.cmd, events |-> events])

\* Faulty variant: the delta starts with the last event of the snapshot.
DeltaOverlaps(a, sequence) == Events(a, sequence, MaxEvents)

Delta(a, sequence) == Events(a, sequence + 1, MaxEvents)

\* The events after the snapshot, and in the same turn the handler's decision. An aggregate
\* with nothing to save is not appended.
ReadEvents(d) ==
    /\ dispatches[d].pc = "events"
    /\ LET it == dispatches[d]
           delta == Delta(it.aggregate, it.sequence)
           sequence == IF delta = <<>> THEN it.sequence ELSE Last(delta).sequence
           state == Replayed(it.state, delta)
           staged == Decided(it.kind, it.cmd, state)
       IN  IF staged = <<>>
           THEN Proceed(d, it.events)
           ELSE Goes(d, [it EXCEPT !.pc = "append", !.sequence = sequence, !.state = state,
                                   !.events = [staged |-> staged, earlier |-> it.events]])
    /\ UNCHANGED <<workload, log, snapshots, writing, dedup, published, rejected>>

\* Faulty variant: the sequence number is not compared.
ConflictsNever(a, expectedSequence) == FALSE

Conflicts(a, expectedSequence) == HighestSequence(a) # expectedSequence

\* The store accepts the events.
Stored(d) ==
    LET it == dispatches[d]
        batch == Numbered(it.events.staged, it.sequence)
    IN  /\ Len(log[it.aggregate]) + Len(batch) <= MaxEvents
        /\ log' = [log EXCEPT ![it.aggregate] = @ \o batch]

\* append() returned: a snapshot of the aggregate as it is now is taken in the same turn when
\* its sequence number is a multiple of snapshotEvery and its repository is not writing one.
Commit(d) ==
    LET it == dispatches[d]
        a == it.aggregate
        batch == Numbered(it.events.staged, it.sequence)
        sequence == it.sequence + Len(batch)
        taken == [kind |-> it.kind, sequence |-> sequence, state |-> Replayed(it.state, batch)]
    IN  /\ Stored(d)
        /\ writing' = IF sequence % SnapshotEvery = 0 /\ \A snap \in writing[a] : snap.kind # it.kind
                      THEN [writing EXCEPT ![a] = @ \cup {taken}] ELSE writing
        /\ Proceed(d, it.events.earlier \cup ToSet(batch))
        /\ UNCHANGED <<workload, snapshots, dedup, published, rejected>>

\* The handler throws and the command is rejected: nothing is cached and nothing published.
Rejected(d, stored) ==
    /\ Goes(d, Idle)
    /\ rejected' = IF stored = {} THEN rejected ELSE rejected \cup {dispatches[d].cmd.id}
    /\ UNCHANGED <<workload, snapshots, writing, dedup, published>>

\* The events of earlier aggregates that a handler holds while it works on the next one.
Earlier(it) == IF it.pc \in {"append", "insert"} THEN it.events.earlier ELSE it.events

Reject(d) == Rejected(d, Earlier(dispatches[d])) /\ UNCHANGED log

\* append() of the in-memory store is one turn.
Append1(d) ==
    /\ dispatches[d].pc = "append" /\ ~Transactional
    /\ IF Conflicts(dispatches[d].aggregate, dispatches[d].sequence) THEN Reject(d) ELSE Commit(d)

\* append() of the SQL store reads the highest sequence and inserts in two statements of a
\* read-committed transaction, and no constraint makes (aggregate_id, sequence) unique.
CheckSequence(d) ==
    /\ dispatches[d].pc = "append" /\ Transactional
    /\ IF Conflicts(dispatches[d].aggregate, dispatches[d].sequence)
       THEN Reject(d)
       ELSE /\ Goes(d, [dispatches[d] EXCEPT !.pc = "insert"])
            /\ UNCHANGED <<workload, log, snapshots, writing, dedup, published, rejected>>

Insert(d) == dispatches[d].pc = "insert" /\ Commit(d)

\* Any statement of the SQL store may fail, and the answer to a commit may be lost.
StatementFails(d) ==
    /\ Transactional /\ dispatches[d].pc \in {"snapshot", "events", "append", "insert"}
    /\ Reject(d)

CommitUnanswered(d) ==
    /\ dispatches[d].pc = "insert"
    /\ Stored(d)
    /\ Rejected(d, Earlier(dispatches[d]) \cup ToSet(dispatches[d].events.staged))

\* Map.set keeps the place of a commandId that is already there; the oldest one is evicted.
Remember(ids, id) ==
    LET added == IF id \in ToSet(ids) THEN ids ELSE Append(ids, id)
    IN  IF Len(added) > DedupCacheSize THEN Tail(added) ELSE added

Finish(d) ==
    /\ dispatches[d].pc = "settled"
    /\ dedup' = Remember(dedup, dispatches[d].cmd.id)
    /\ published' = published \cup dispatches[d].events
    /\ Goes(d, Idle)
    /\ UNCHANGED <<workload, log, snapshots, writing, rejected>>

\* The background write succeeds, or fails and is logged.
SnapshotWritten(a) ==
    /\ \E snap \in writing[a] :
          /\ snapshots' = [snapshots EXCEPT ![a] = snap] \/ UNCHANGED snapshots
          /\ writing' = [writing EXCEPT ![a] = @ \ {snap}]
    /\ UNCHANGED <<workload, log, dispatches, dedup, published, rejected>>

Next ==
    \/ \E d \in Dispatches :
          \/ ReadSnapshot(d) \/ ReadEvents(d) \/ Append1(d) \/ CheckSequence(d) \/ Insert(d) \/ Finish(d)
          \/ StatementFails(d) \/ CommitUnanswered(d)
          \/ \E cmd \in Commands : Dispatch(d, cmd)
    \/ \E a \in Aggregates : SnapshotWritten(a)

Spec == Init /\ [][Next]_vars

-----------------------------------------------------------------------------
\* The SQL store checks and inserts in two statements, so there what follows is claimed for
\* one command at a time only.
Guarded == ~Transactional \/ Cardinality(Dispatches) = 1

\* The optimistic check of append() numbers the events of an aggregate 1, 2, 3, ... without
\* gap or repetition, however many handlers decided on the same state.
SequencesDense ==
    Guarded =>
        \A a \in Aggregates : \A n \in 1 .. Len(log[a]) : log[a][n].sequence = n

UpTo(a, n) == Replayed(FreshState(KindOf(a)), Events(a, 1, n))

\* Snapshots, stored or under way, and what handlers have loaded from snapshot and delta,
\* are the state that the whole event log up to their sequence number leads to, for every
\* id that does not name both a client and a room.  (The snapshot of an equally named room
\* replaces the vehicle's, which then loads as empty.)
LoadsMatchLog ==
    Guarded =>
        /\ \A a \in Aggregates \ Mixed : \A snap \in writing[a] \cup {snapshots[a]} :
              snap.state = UpTo(a, snap.sequence)
        /\ \A d \in Dispatches :
              dispatches[d].pc \in {"append", "insert"} /\ dispatches[d].aggregate \notin Mixed =>
              dispatches[d].state = UpTo(dispatches[d].aggregate, dispatches[d].sequence)

Crosses(e, f) == e.type \in {"geofence_entered", "geofence_exited"} /\ f \in e.fences

\* For each vehicle that has no namesake among the rooms and each fence, entries and exits
\* alternate in the log, beginning with an entry, although every fix is judged against a
\* state read some awaits earlier.
CrossingsAlternate ==
    Guarded =>
        \A c \in Clients \ Mixed, f \in Fences :
            LET at == {n \in 1 .. Len(log[c]) : Crosses(log[c][n], f)}
                Before(n) == {m \in at : m < n}
            IN  \A n \in at : log[c][n].type = "geofence_entered" <=>
                    Before(n) = {} \/ log[c][Max(Before(n))].type = "geofence_exited"

\* When no command is under way the subscribers have been given every event of the log,
\* except events of a command that was rejected after they had been stored. The in-memory
\* store rejects only conflicts: there it is the vehicle event of a join or leave that lost
\* its room to another command, and commands that run alone leave none behind.
LoggedIsPublished ==
    LET missing == (UNION {ToSet(log[a]) : a \in Aggregates}) \ published
    IN  (\A d \in Dispatches : dispatches[d] = Idle) =>
            /\ \A e \in missing : e.cause \in rejected
            /\ ~Transactional =>
                  /\ \A e \in missing : e.aggregate = e.client /\ e.type \in {"room_joined", "room_left"}
                  /\ Cardinality(Dispatches) = 1 => missing = {}
=============================================================================
