\* Exactly-once ingestion: two live runs and a backfill overlap.
CONSTANTS
  MaxBlock = 6
  Start = 3
  RangeStart = 1
  RangeEnd = 3
  FreshDb = FALSE
  LastDay = 1
  DayOf <- SplitDays
  RawDays = {}
  Addr = {}
  Senders <- NoSenders
  Contract = {}
  Calls <- NoCalls
  KeepDays = 1
  KeepFullDays = 1
  MinTx = 2
  ChunkRows = 1
  Live = {l1, l2}
  Back = {b1}
  Batch = 2
  MaxBlocks = 2
  FollowTip = TRUE
  Window = 1
  MaxChunks = 1
  Lag = 1
  MaxFaults = 2
  a1 = a1
  a2 = a2
  c1 = c1
SYMMETRY LiveSymmetry
SPECIFICATION Spec
INVARIANT TypeOK
INVARIANT ExactlyOnce
INVARIANT RunBehindCheckpoint
INVARIANT FillDoneComplete
INVARIANT ReportedDayComplete
