SPECIFICATION FairSpec
CONSTANTS
  BatchSize = 2
  MaxBufferSize = 3
  Flushes = {f1, f2, f3}
  FinalFlush = f3
  MaxEvents = 7
  MaxWrite = 3
CHECK_DEADLOCK FALSE
INVARIANTS EventsConserved InsertedInOrder CloseDrains
PROPERTY BufferMoves
