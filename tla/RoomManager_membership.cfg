SPECIFICATION Spec
CONSTANTS
  Clients = {c1, c2, c3}
  Rooms = {r1, r2, r3}
  Sockets = {s1, s2}
  NoSocket = NoSocket
  NoClient = NoClient
  Updates = {}
  Plain = Plain
  Sizes = {1}
  Acks = {0}
  Infinity = Infinity
  MaxRoomsPerClient = 2
  MaxMembersPerRoom = 2
  MaxRooms = 2
  MaxRoomSize = Infinity
  RingBufferSize = 1
  MaxBufferBytes = 9
  DedupWindow = 0
  MaxDedupEntries = 1
  AckWindowSize = Infinity
  BreakerEnabled = TRUE
  MaxSeq = 0
  MaxTime = 0
  MaxTotal = 7
SYMMETRY Symmetry
INVARIANTS MembershipConsistent LimitsHold
