\* Two addresses and room for one, two requests at once; three keys, room for one of an email;
\* two live writers and a backfill, batches of two, a gap of three blocks and two live ones.
CONSTANTS
  Client = {c1, c2}
  Request = {t1, t2}
  PerClient = 2
  Global = 3
  Window = 2
  MaxKeys = 1
  All = All
  Delay = 1
  LastTime = 4
  Key = {k1, k2, k3}
  Thread = {t1, t2}
  Ttl = 1
  MaxEntries = 1
  LookupLimit = 1
  LookupWindow = 2
  MaxPerEmail = 1
  NoKey = NoKey
  AnswerDelay = 1
  EndTime = 2
  MaxBlock = 5
  Start = 3
  RangeStart = 1
  RangeEnd = 3
  FreshDb = FALSE
  LastDay = 1
  DayOf <- TxDays
  RawDays = {0}
  Addr = {1, 2}
  Senders <- TxRows
  Contract = {1, 2}
  Calls <- TxRows
  KeepDays = 1
  KeepFullDays = 1
  MinTx = 1
  ChunkRows = 1
  Writer = {1, 2, 3}
  LiveWriter = {1, 2}
  TxBlocks = 2
SPECIFICATION ServicesSpec
INVARIANT WindowRespected
INVARIANT TableBounded
PROPERTY WaitingFreesTheSlot
INVARIANT RevokedKeyRefused
INVARIANT LookupsBounded
INVARIANT CapNearlyKept
INVARIANT DirectoryBounded
PROPERTY AppliedAtOnce
SYMMETRY Symmetry
