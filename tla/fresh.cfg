\* A database with no sync_state row: the documented cold start.
CONSTANTS
  MaxBlock = 4
  Start = 1
  RangeStart = 1
  RangeEnd = 1
  FreshDb = TRUE
  LastDay = 0
  DayOf <- OneDay
  RawDays = {}
  Addr = {}
  Senders <- NoSenders
  Contract = {}
  Calls <- NoCalls
  KeepDays = 1
  KeepFullDays = 1
  MinTx = 2
  ChunkRows = 1
  Live = {l1}
  Back = {}
  Batch = 2
  MaxBlocks = 2
  FollowTip = TRUE
  Window = 1
  MaxChunks = 1
  Lag = 1
  MaxFaults = 1
  a1 = a1
  a2 = a2
  c1 = c1
SPECIFICATION FairSpec
PROPERTY CatchesUp
