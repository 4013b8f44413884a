SPECIFICATION Spec
CONSTANTS
  Clients = {c}
  Rooms = {q}
  Residency <- EverywhereAllowed
  SessionKeys = {k}
  ConfigKeys = {g}
  Fences = {f}
  QuorumOverride = 0
  Deployments <- ThreeWriters
  Nobody = Nobody
  NoSnapshot = NoSnapshot
  NoEntry = NoEntry
  NoStamp = NoStamp
  HeadId = HeadId
CHECK_DEADLOCK FALSE
INVARIANT SessionsConverge
