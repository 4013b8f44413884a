SPECIFICATION FairSpec
CONSTANTS
  a = a
  b = b
  Instances = {a, b}
  Deployments <- OneOrTwo
  Clients = {c1}
  Blobs <- AllBlobs
  NoBlob = NoBlob
  SealKey <- RotatingSealKey
  Ring <- RotatingRing
  TtlMs = 2
  DebounceMs = 2
  MaxTime = 2
  MaxVersion = 2
INVARIANT DeleteSticks
PROPERTIES StoreNeverRegresses ChangesPickedUp
