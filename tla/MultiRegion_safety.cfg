SPECIFICATION FairSpec
CONSTANTS
  Clients = {c}
  Rooms = {q}
  Residency <- EverywhereAllowed
  SessionKeys = {k}
  ConfigKeys = {g}
  Fences = {f}
  QuorumOverride = 0
  Deployments <- SafetyDeployments
  Nobody = Nobody
  NoSnapshot = NoSnapshot
  NoEntry = NoEntry
  NoStamp = NoStamp
  HeadId = HeadId
CHECK_DEADLOCK FALSE
INVARIANTS ReplicasConverge FreshJoinWins
  TraversalMatchesReference OrdersAgree AppendedAfterSeen CommittedOnMajority
PROPERTY RoomsRepaired
