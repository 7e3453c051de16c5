\* The ingestion job's parts, the scoring job and the daily series, one at a time.
CONSTANTS
  Endpoint = {1, 2, 3}
  Fetcher = {f1, f2}
  Main = main
  Attempts = 2
  Job = {1, 2}
  Txs <- SomeTxs
  Tracked = {"c1"}
  DayOfBlock <- TwoDays
  MinDay = 1
  Target = {1, 2, 3}
  Cap = 2
  Slow = 2
  BatchSize = 2
  MaxFaults = 2
  Venue = {1, 2}
  Pool = {1, 2, 3, 4}
  VenueOf <- TwoVenues
  Sound = {1, 4}
  Uncounted = {2}
  PageSize = 1
  MaxPages = 2
  TopVolume = 1
  MaxTrades = 2
  Tries <- ThreeAndFour
  FillRuns = 2
  Project = {1, 2, 3, 4}
  Defi = {1, 2, 4}
  Windows <- SomeWindows
  Scorer = {s1, s2}
  Rows = 2
  TopUse = 2
  AgeCap = 2
  Unit = 2
  MaxScorings = 2
  MaxChanges = 1
  LastUtcDay = 3
  DayBlocks = 3
  GapDays = 1
  FreshBatch = 2
SPECIFICATION UpkeepSpec
INVARIANT EveryEndpointTried
INVARIANT BatchExact
PROPERTY TurnsCome
INVARIANT VenueRowWhole
PROPERTY ChainBreaksForReason
PROPERTY JobsGoOn
PROPERTY ScoresMoveForward
PROPERTY ScoredAmongPeers
INVARIANT ServedWhole
INVARIANT CompleteWhenServed
