\* A dismissed contract is restored and nobody looks at it again.
CONSTANTS
  c1 = c1
  c2 = c2
  s1 = s1
  u1 = u1
  stable = stable
  token = token
  None = None
  Contract = {c2}
  Wallets = {}
  Slug = {s1}
  Category = {token}
  Says <- NewToken
  Curated <- NothingCurated
  Sub = {}
  SubContract <- OfC2
  Followed = {c2}
  Admin = {x1}
  MaxFaults = 1
SPECIFICATION Spec
INVARIANT RestoredWaitsForPerson
