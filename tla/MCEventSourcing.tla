--------------------------- MODULE MCEventSourcing ---------------------------
(* Instances of the event-sourced write side for model checking. *)
EXTENDS EventSourcing

CONSTANTS c1, c2, r1, f1

InRoom(room, id, type, client, seq, within) ==
    [id |-> id, type |-> type, client |-> client, room |-> room, seq |-> seq, within |-> within]
Command(id, type, client, seq, within) == InRoom(r1, id, type, client, seq, within)

\* A fence, and fixes inside and outside of it.
FenceCommands ==
    {Command(1, "update_geofence", c1, 0, {f1}), Command(2, "publish_location", c1, 0, {f1}),
     Command(3, "publish_location", c1, 0, {})}

\* Everything else that changes a vehicle.
VehicleCommands ==
    {Command(1, "publish_location", c1, 0, {}), Command(2, "acknowledge", c1, 2, {}),
     Command(3, "acknowledge", c1, 1, {}), Command(4, "resume_session", c1, 1, {})}

\* Two vehicles and one room.
RoomCommands ==
    {Command(1, "join_room", c1, 0, {}), Command(2, "join_room", c2, 0, {}),
     Command(3, "leave_room", c1, 0, {})}

\* All types of command.
AllCommands ==
    FenceCommands \cup
    {Command(4, "join_room", c1, 0, {}), Command(5, "leave_room", c1, 0, {}),
     Command(6, "acknowledge", c1, 1, {}), Command(7, "negative_acknowledge", c1, 1, {}),
     Command(8, "resume_session", c1, 1, {})}

\* A client and a room of the same name.
NamesakeCommands ==
    {Command(1, "update_geofence", c1, 0, {f1}), Command(2, "publish_location", c1, 0, {f1}),
     InRoom(c1, 3, "join_room", c2, 0, {}), InRoom(c1, 4, "leave_room", c2, 0, {})}

Workload(commands, slots, transactional, maxEvents) ==
    [commands |-> commands, dispatches |-> slots, transactional |-> transactional, maxEvents |-> maxEvents]

\* Concurrent commands on the in-memory store, every type of command alone on the SQL store,
\* and single commands that use one id for both kinds of aggregate.
AllWorkloads ==
    {Workload(FenceCommands, {"d1", "d2"}, FALSE, 5), Workload(VehicleCommands, {"d1", "d2"}, FALSE, 3),
     Workload(RoomCommands, {"d1", "d2"}, FALSE, 2), Workload(AllCommands, {"d1"}, TRUE, 2),
     Workload(NamesakeCommands, {"d1"}, FALSE, 4)}
=============================================================================
