----------------------------- MODULE Projections -----------------------------
(***************************************************************************)
(* The read side: processEvents() brings batches of committed events to    *)
(* the four default projections, over the in-memory or the SQL sink.       *)
(* Batches start whenever a command commits, may overlap and arrive in any *)
(* order, and their steps interleave at every await. The process may stop  *)
(* between any two steps; the tables of the SQL sink survive it.           *)
(***************************************************************************)
EXTENDS Naturals, Sequences, FiniteSets, SequencesExt, FiniteSetsExt

CONSTANTS Clients, Rooms,
          Workloads,    \* what processEvents() is called with, see below
          NoRooms       \* a vehicle state without a rooms field

\* A workload is a log of committed vehicle events (time is the timestamp and, with it, the
\* sequence number; no two are alike), the processEvents() calls that may be under way at once,
\* the sink, whether projections and statements may throw, whether the process may stop, and
\* a bound on the calls.
ASSUME WorkloadAssumption ==
    \A w \in Workloads :
        /\ \A e, f \in w.log : e.time = f.time => e = f
        /\ IsFiniteSet(w.log) /\ IsFiniteSet(w.slots)
        /\ \A e \in w.log : e.time \in Nat \ {0} /\ e.client \in Clients /\ e.room \in Rooms
        /\ w.sink \in {"memory", "sql"} /\ {w.fails, w.stops} \subseteq BOOLEAN
        /\ w.maxBatches \in Nat

ASSUME NoRoomsAssumption == \A S \in SUBSET Rooms : S # NoRooms

VARIABLES workload,     \* the workload, for good
          vehicle,      \* client -> row of the vehicle_state read model
          members,      \* room -> clients of the room_membership read model
          violations,   \* geofence_violations, as event times in the order of insertion
          roomSeq,      \* room -> counter of the sequence read model
          vehicleSeq,   \* client -> sequence number of the same read model
          processed,    \* pairs of projection and event that markEventProcessed() recorded
          lag,          \* projection_lag_events
          runs,         \* slot -> what a processEvents() call still has to do
          batches       \* number of calls so far

sink == <<vehicle, members, violations, roomSeq, vehicleSeq>>
vars == <<workload, sink, processed, lag, runs, batches>>

Log == workload.log
Slots == workload.slots
SinkFails == workload.fails
Durable == workload.sink = "sql"
MaxBatches == workload.maxBatches

Names == <<"vehicle_state", "room_membership", "geofence_violations", "sequence">>

Done == [todo |-> <<>>, phase |-> "check", k |-> 1, read |-> [rooms |-> NoRooms, at |-> 0]]

NoRow == [rooms |-> NoRooms, at |-> 0]

EmptySink ==
    [vehicle |-> [c \in Clients |-> NoRow], members |-> [r \in Rooms |-> {}], violations |-> <<>>,
     roomSeq |-> [r \in Rooms |-> 0], vehicleSeq |-> [c \in Clients |-> 0]]

Init ==
    /\ workload \in Workloads
    /\ vehicle = EmptySink.vehicle /\ members = EmptySink.members
    /\ violations = EmptySink.violations
    /\ roomSeq = EmptySink.roomSeq /\ vehicleSeq = EmptySink.vehicleSeq
    /\ processed = {} /\ lag = 0 /\ batches = 0
    /\ runs = [s \in Slots |-> Done]

\* The batch in the order of compareByTime; it is the only sequence of the set.
Sorted(batch) ==
    {q \in [1 .. Cardinality(batch) -> batch] :
        \A i, j \in 1 .. Cardinality(batch) : i < j => q[i].time < q[j].time}

\* A batch is sorted by time before anything else.
ProcessEvents(s, batch) ==
    /\ runs[s] = Done /\ batch # {} /\ batches < MaxBatches
    /\ \E todo \in Sorted(batch) : runs' = [runs EXCEPT ![s].todo = todo]
    /\ lag' = lag + Cardinality(batch)
    /\ batches' = batches + 1
    /\ UNCHANGED <<workload, sink, processed>>

\* The run leaves its first event behind.
Leaves(s) ==
    /\ runs' = [runs EXCEPT ![s] = [Done EXCEPT !.todo = Tail(runs[s].todo)]]
    /\ lag' = IF lag > 0 THEN lag - 1 ELSE 0

\* Faulty variant: no event is ever recognised as processed.
IsProcessedByNone(e) == FALSE

IsProcessedByAll(e) == \A k \in 1 .. Len(Names) : <<Names[k], e>> \in processed

Skip(s) == Leaves(s) /\ UNCHANGED <<workload, sink, processed, batches>>

\* An event that every projection has marked is skipped, any other goes to all of them.
Check(s) ==
    /\ runs[s].todo # <<>> /\ runs[s].phase = "check"
    /\ IF IsProcessedByAll(Head(runs[s].todo))
       THEN Skip(s)
       ELSE /\ runs' = [runs EXCEPT ![s].phase = "read"]
            /\ UNCHANGED <<workload, sink, processed, lag, batches>>

\* The look-up throws: the call is given up with the rest of its batch, which stays in the lag.
CheckFails(s) ==
    /\ Durable /\ SinkFails
    /\ runs[s].todo # <<>> /\ runs[s].phase = "check"
    /\ runs' = [runs EXCEPT ![s] = Done]
    /\ UNCHANGED <<workload, sink, processed, lag, batches>>

\* VehicleStateProjection reads the row it is going to write in a step of its own.
ReadVehicle(s) ==
    /\ runs[s].phase = "read"
    /\ runs' = [runs EXCEPT ![s].phase = "handle", ![s].read = vehicle[Head(runs[s].todo).client]]
    /\ UNCHANGED <<workload, sink, processed, lag, batches>>

RoomsOf(row) == IF row.rooms = NoRooms THEN {} ELSE row.rooms

\* Rooms that an upsert writes; an absent field leaves the Map's row alone and empties the
\* column.
UpsertedRooms(read, row) ==
    IF read.rooms # NoRooms THEN read.rooms ELSE IF Durable THEN {} ELSE row.rooms

\* Faulty variant: a location is written without a look at the time of the one before.
VehicleRowAnyTime(e, read, row) ==
    CASE e.type = "location_update" -> [rooms |-> UpsertedRooms(read, row), at |-> e.time]
      [] e.type = "room_joined" -> [row EXCEPT !.rooms = RoomsOf(read) \cup {e.room}]
      [] e.type = "room_left" -> [row EXCEPT !.rooms = RoomsOf(read) \ {e.room}]
      [] OTHER -> row

\* Faulty variant: a location writes the row without what was read of it.
VehicleRowFresh(e, read, row) ==
    CASE e.type = "location_update" /\ read.at > e.time -> row
      [] e.type = "location_update" /\ read.at <= e.time -> [rooms |-> {}, at |-> e.time]
      [] e.type = "room_joined" -> [row EXCEPT !.rooms = RoomsOf(read) \cup {e.room}]
      [] e.type = "room_left" -> [row EXCEPT !.rooms = RoomsOf(read) \ {e.room}]
      [] OTHER -> row

\* The row after an upsert: the fields that were read are written back over those that have
\* changed since. Older locations are ignored.
VehicleRow(e, read, row) ==
    CASE e.type = "location_update" /\ read.at > e.time -> row
      [] e.type = "location_update" /\ read.at <= e.time ->
            [rooms |-> UpsertedRooms(read, row), at |-> e.time]
      [] e.type \in {"room_joined", "room_left"} ->
            [rooms |-> IF e.type = "room_joined" THEN RoomsOf(read) \cup {e.room} ELSE RoomsOf(read) \ {e.room},
             at |-> IF read.at = 0 THEN row.at ELSE read.at]
      [] OTHER -> row

MembersAfter(e) ==
    CASE e.type = "room_joined" -> [members EXCEPT ![e.room] = @ \cup {e.client}]
      [] e.type = "room_left" -> [members EXCEPT ![e.room] = @ \ {e.client}]
      [] OTHER -> members

Crossing(e) == e.type \in {"geofence_entered", "geofence_exited"}

\* The violations table has the event's id as its key, the in-memory list has no key.
ViolationsAfter(e) ==
    IF ~Crossing(e) \/ (Durable /\ Contains(violations, e.time)) THEN violations
    ELSE Append(violations, e.time)

\* setSequence() keeps the greater number.
SequenceAfter(e) == [vehicleSeq EXCEPT ![e.client] = Max({@, e.time})]

\* Events of a vehicle that advance the counter of their room.
Counted(e) == e.type \in {"location_update", "room_joined", "room_left"}

\* The statements of one projection for the event; the room counter follows in a step of its own.
Handle(s) ==
    /\ runs[s].phase = "handle"
    /\ LET e == Head(runs[s].todo)
           on(name) == Names[runs[s].k] = name
       IN  /\ vehicle' = IF on("vehicle_state")
                         THEN [vehicle EXCEPT ![e.client] = VehicleRow(e, runs[s].read, @)] ELSE vehicle
           /\ members' = IF on("room_membership") THEN MembersAfter(e) ELSE members
           /\ violations' = IF on("geofence_violations") THEN ViolationsAfter(e) ELSE violations
           /\ vehicleSeq' = IF on("sequence") THEN SequenceAfter(e) ELSE vehicleSeq
           /\ runs' = [runs EXCEPT ![s].phase = IF on("sequence") /\ Counted(e) THEN "bump" ELSE "mark"]
    /\ UNCHANGED <<workload, roomSeq, processed, lag, batches>>

BumpRoomSequence(s) ==
    /\ runs[s].phase = "bump"
    /\ roomSeq' = [roomSeq EXCEPT ![Head(runs[s].todo).room] = @ + 1]
    /\ runs' = [runs EXCEPT ![s].phase = "mark"]
    /\ UNCHANGED <<workload, vehicle, members, violations, vehicleSeq, processed, lag, batches>>

\* On to the next projection, or past the event after the last one.
Advances(s) ==
    IF runs[s].k < Len(Names)
    THEN /\ runs' = [runs EXCEPT ![s].phase = "handle", ![s].k = @ + 1]
         /\ UNCHANGED lag
    ELSE Leaves(s)

\* Faulty variant: the event is marked before its second statement.
MarkEarly(s) ==
    /\ runs[s].phase \in {"bump", "mark"}
    /\ <<Names[runs[s].k], Head(runs[s].todo)>> \notin processed \/ runs[s].phase = "mark"
    /\ processed' = processed \cup {<<Names[runs[s].k], Head(runs[s].todo)>>}
    /\ IF runs[s].phase = "mark" THEN Advances(s) ELSE UNCHANGED <<runs, lag>>
    /\ UNCHANGED <<workload, sink, batches>>

\* markEventProcessed() and setCheckpoint() of one projection.
Mark(s) ==
    /\ runs[s].phase = "mark"
    /\ processed' = processed \cup {<<Names[runs[s].k], Head(runs[s].todo)>>}
    /\ Advances(s)
    /\ UNCHANGED <<workload, sink, batches>>

\* A projection or a statement of it throws, which is logged; the event goes on to the
\* others unmarked.
HandleFails(s) ==
    /\ SinkFails
    /\ runs[s].phase = "handle" \/ (Durable /\ runs[s].phase \in {"read", "bump", "mark"})
    /\ Advances(s)
    /\ UNCHANGED <<workload, sink, processed, batches>>

\* The process stops and starts again; what was under way is gone, and so is the in-memory sink.
Stop ==
    /\ workload.stops
    /\ runs' = [s \in Slots |-> Done] /\ lag' = 0
    /\ IF Durable THEN UNCHANGED <<sink, processed>>
       ELSE /\ vehicle' = EmptySink.vehicle /\ members' = EmptySink.members
            /\ violations' = EmptySink.violations
            /\ roomSeq' = EmptySink.roomSeq /\ vehicleSeq' = EmptySink.vehicleSeq
            /\ processed' = {}
    /\ UNCHANGED <<workload, batches>>

Next ==
    \/ \E s \in Slots :
         \/ Check(s) \/ CheckFails(s) \/ ReadVehicle(s) \/ Handle(s) \/ BumpRoomSequence(s)
         \/ Mark(s) \/ HandleFails(s)
         \/ \E batch \in SUBSET Log : ProcessEvents(s, batch)
    \/ Stop

Spec == Init /\ [][Next]_vars

-----------------------------------------------------------------------------
Quiet == \A s \in Slots : runs[s] = Done
ProcessedBy(name) == {e \in Log : <<name, e>> \in processed}

\* The newest wins: with one batch at a time the vehicle read model shows the newest location
\* among the processed ones, and the sequence read model always has the newest sequence number,
\* in whatever order batches arrive, whatever fails and wherever the process stops.
NewestKept ==
    /\ Quiet /\ Cardinality(Slots) = 1 =>
         \A e \in ProcessedBy("vehicle_state") :
            e.type = "location_update" => vehicle[e.client].at >= e.time
    /\ \A e \in ProcessedBy("sequence") : vehicleSeq[e.client] >= e.time

\* An event that is marked as processed has had its effect: the room counter and the violations
\* hold every marked event, although calls interleave, statements fail and the process stops
\* between them.
MarkedIsApplied ==
    /\ \A r \in Rooms :
         roomSeq[r] >= Cardinality({e \in ProcessedBy("sequence") : Counted(e) /\ e.room = r})
    /\ \A e \in ProcessedBy("geofence_violations") : Crossing(e) => Contains(violations, e.time)

\* Nothing is applied twice: in the violations of the SQL sink never, whatever happens; in the
\* room counter and in the in-memory list as long as no projection fails, the process goes on
\* and batches, which may overlap, come one after the other.
AppliedOnce ==
    /\ Durable => IsInjective(violations)
    /\ Quiet /\ Cardinality(Slots) = 1 /\ ~SinkFails /\ ~workload.stops =>
         /\ \A r \in Rooms : roomSeq[r] = Cardinality({e \in ProcessedBy("sequence") : Counted(e) /\ e.room = r})
         /\ Len(violations) = Cardinality({e \in ProcessedBy("geofence_violations") : Crossing(e)})

\* The two read models of membership agree once the projections have caught up with the log, in whatever
\* order batches came, and although the process stopped between the two and events were replayed.
ReadModelsAgree ==
    /\ Quiet /\ Cardinality(Slots) = 1 /\ ~SinkFails
    /\ \A e \in Log : IsProcessedByAll(e)
    => \A c \in Clients, r \in Rooms : r \in RoomsOf(vehicle[c]) <=> c \in members[r]
=============================================================================
