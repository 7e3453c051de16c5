\* A live run that is days behind: active_addresses after pruning.
CONSTANTS
  MaxBlock = 5
  Start = 2
  RangeStart = 1
  RangeEnd = 2
  FreshDb = FALSE
  LastDay = 3
  DayOf <- OneDay
  RawDays = {}
  Addr = {a1, a2}
  Senders <- AlternateSenders
  Contract = {c1}
  Calls <- OneContract
  KeepDays = 2
  KeepFullDays = 1
  MinTx = 2
  ChunkRows = 1
  Live = {l1}
  Back = {}
  Batch = 2
  MaxBlocks = 3
  FollowTip = TRUE
  Window = 1
  MaxChunks = 1
  Lag = 0
  MaxFaults = 1
  a1 = a1
  a2 = a2
  c1 = c1
SPECIFICATION Spec
PROPERTY ActiveSurvivesPruning
