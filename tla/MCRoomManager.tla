---------------------------- MODULE MCRoomManager ----------------------------
(***************************************************************************)
(* Instances of RoomManager for TLC.  The constants are in the .cfg files; *)
(* clients, rooms, sockets and updates are interchangeable model values.   *)
(***************************************************************************)
EXTENDS RoomManager
LOCAL INSTANCE TLC

Symmetry ==
  Permutations(Clients) \cup Permutations(Rooms)
    \cup Permutations(Sockets) \cup Permutations(Updates)
===============================================================================
