SPECIFICATION FairSpec
CONSTANTS
  a = a
  b = b
  Clients = {a, b}
  Rooms = {r}
  Conns = {1, 2, 3}
  NoClient = NoClient
  NoConn = NoConn
  NoState = NoState
  Deployments <- GatewayDeployments
CHECK_DEADLOCK FALSE
INVARIANTS RoomsRemembered NothingUnsaved HandedIsResumable LiveIsConnected TornDown
PROPERTY ShutdownTerminates
