SPECIFICATION CompactionSpec
CONSTANTS
  Minute = 2
  Hour = 4
  Day = 8
  Week = 12
  M1Window = 8
  H1Window = 10
  D1Window = 16
  Configured <- UserRetention
  Defaults <- DefaultRetention
  PhaseFails = TRUE
  MaxLate = 1
  MaxAhead = 1
  MaxNow = 20
  MaxStored = 2
CHECK_DEADLOCK FALSE
INVARIANTS NeverOvercounts AdaptersAgree
PROPERTY RetentionKept
