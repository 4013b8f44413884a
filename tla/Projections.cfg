SPECIFICATION Spec
CONSTANTS
  c1 = c1
  r1 = r1
  Clients = {c1}
  Rooms = {r1}
  Workloads <- AllWorkloads
  NoRooms = NoRooms
CHECK_DEADLOCK FALSE
INVARIANTS NewestKept MarkedIsApplied AppliedOnce ReadModelsAgree
