SPECIFICATION Spec
CONSTANTS
  Clients = {c1, c2}
  Rooms = {r1}
  Sockets = {s1}
  NoSocket = NoSocket
  NoClient = NoClient
  Updates = {u1, u2}
  Plain = Plain
  Sizes = {1, 4}
  Acks = {1, 3}
  Infinity = Infinity
  MaxRoomsPerClient = Infinity
  MaxMembersPerRoom = Infinity
  MaxRooms = Infinity
  MaxRoomSize = 2
  RingBufferSize = 2
  MaxBufferBytes = 3
  DedupWindow = 0
  MaxDedupEntries = 1
  AckWindowSize = 2
  BreakerEnabled = FALSE
  MaxSeq = 3
  MaxTime = 1
  MaxTotal = 2
SYMMETRY Symmetry
INVARIANTS ReplayExact UnackedIsOutstanding PausedCanResume
  NoDuplicateInWindow
