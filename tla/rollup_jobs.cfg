\* A live run and the backfill write the same days while the calendar prunes them.
CONSTANTS
  MaxBlock = 5
  Start = 2
  RangeStart = 1
  RangeEnd = 2
  FreshDb = FALSE
  LastDay = 3
  DayOf <- FourDays
  RawDays = {}
  Addr = {a1, a2}
  Senders <- TwoSenders
  Contract = {c1}
  Calls <- OneContract
  KeepDays = 2
  KeepFullDays = 1
  MinTx = 2
  ChunkRows = 1
  Live = {l1}
  Back = {b1}
  Batch = 2
  MaxBlocks = 3
  FollowTip = TRUE
  Window = 1
  MaxChunks = 1
  Lag = 1
  MaxFaults = 1
  a1 = a1
  a2 = a2
  c1 = c1
SPECIFICATION FairSpec
INVARIANT WindowExact
INVARIANT ContractRowsBounded
PROPERTY ImplementsLedger
PROPERTY FillFinishes
PROPERTY CatchesUp
