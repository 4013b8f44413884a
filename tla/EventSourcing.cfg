SPECIFICATION Spec
CONSTANTS
  c1 = c1
  c2 = c2
  r1 = r1
  f1 = f1
  Clients = {c1, c2}
  Rooms = {r1, c1}
  Fences = {f1}
  Workloads <- AllWorkloads
  SnapshotEvery = 2
  DedupCacheSize = 1
CHECK_DEADLOCK FALSE
INVARIANTS SequencesDense LoadsMatchLog CrossingsAlternate LoggedIsPublished
