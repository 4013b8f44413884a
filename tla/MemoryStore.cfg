SPECIFICATION Spec
CONSTANTS
  Clients = {c1, c2}
  Blobs = {b1, b2}
  NoBlob = NoBlob
  TtlMs = 2
  MaxTime = 6
INVARIANT OneTimerPerEntry
PROPERTY ImplementsStore
