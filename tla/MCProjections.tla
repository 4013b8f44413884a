---------------------------- MODULE MCProjections ----------------------------
(* Instances of the read side for model checking. *)
EXTENDS Projections

CONSTANTS c1, r1

VehicleEvent(time, type) == [time |-> time, type |-> type, client |-> c1, room |-> r1]

\* A vehicle that joins a room, reports, crosses a fence and reports again.
MixedLog ==
    {VehicleEvent(1, "room_joined"), VehicleEvent(2, "location_update"),
     VehicleEvent(3, "geofence_entered"), VehicleEvent(4, "location_update")}

FixLog ==
    {VehicleEvent(1, "room_joined"), VehicleEvent(2, "location_update"), VehicleEvent(3, "location_update")}

TwoFixesLog == {VehicleEvent(1, "location_update"), VehicleEvent(2, "location_update")}

CrossingLog == {VehicleEvent(1, "location_update"), VehicleEvent(2, "geofence_entered")}

JoinLeaveLog == {VehicleEvent(1, "room_joined"), VehicleEvent(2, "room_left")}

RejoinLog == JoinLeaveLog \cup {VehicleEvent(3, "location_update")}

Workload(events, calls, kind, fails, stops, maxBatches) ==
    [log |-> events, slots |-> calls, sink |-> kind, fails |-> fails, stops |-> stops, maxBatches |-> maxBatches]

\* Both sinks; interleaved calls with failures, single calls with failures, with stops, and
\* without either.
AllWorkloads ==
    {Workload(JoinLeaveLog, {"s1", "s2"}, "memory", TRUE, FALSE, 2),
     Workload(CrossingLog, {"s1", "s2"}, "sql", TRUE, TRUE, 2),
     Workload(TwoFixesLog, {"s1"}, "sql", TRUE, TRUE, 2),
     Workload(MixedLog, {"s1"}, "memory", FALSE, FALSE, 3),
     Workload(FixLog, {"s1"}, "memory", FALSE, TRUE, 3),
     Workload(RejoinLog, {"s1"}, "sql", FALSE, TRUE, 4)}
=============================================================================
