\* Two candidates for one name and an admin who changes rows under a run. Or two keys, room for one: refreshes, rebuilds, failures, evictions. Or one launch platform seeded by a script that stops anywhere.
CONSTANTS
  c1 = c1
  c2 = c2
  s1 = s1
  u1 = u1
  stable = stable
  token = token
  None = None
  Contract = {c1, c2}
  Wallets = {c2}
  Slug = {s1}
  Category = {token}
  Says <- TokenAndWallet
  Curated <- NothingCurated
  Sub = {}
  SubContract <- OfC2
  Followed = {}
  Admin = {x1}
  MaxFaults = 1
  k1 = k1
  k2 = k2
  Key = {k1, k2}
  Caller = {t1, t2}
  Refresher = {r1}
  Spare = 3
  TTL = 1
  MaxStale = 2
  MaxEntries = 1
  Nothing = Nothing
  LastTime = 2
  Address = {2, 4, 5, 6}
  IdOf <- SameId
  Platforms <- OnePlatform
  Listed = {6}
  Legacy = {5}
  NoAddress = 0
  SeedPage = 2
  MaxMoves = 1
SPECIFICATION StandAloneSpec
INVARIANT TypeOK
INVARIANT NoSignalNeedsPerson
PROPERTY ProjectsKeepContracts
INVARIANT OneRebuild
PROPERTY ServedInTime
INVARIANT EntriesBounded
PROPERTY SnapshotsMoveForward
INVARIANT HeldByOne
INVARIANT NothingLost
SYMMETRY Symmetry
