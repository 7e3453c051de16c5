\* A batch of a new day lands between the read of the rows and the read of the status.
CONSTANTS
  LastUtcDay = 3
  DayBlocks = 3
  GapDays = 0
  FreshBatch = 2
SPECIFICATION FreshnessSpec
INVARIANT PartialFlagged
