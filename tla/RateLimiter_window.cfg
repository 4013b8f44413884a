SPECIFICATION LimiterSpec
CONSTANTS
  Keys = {c1, c2}
  Limit = 2
  Window = 2
  MaxNow = 4
  MaxRequests = 4
CHECK_DEADLOCK FALSE
PROPERTY ImplementsWindow
