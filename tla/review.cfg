\* Two concurrent admin requests and a submission next to a run, over a curated project.
CONSTANTS
  c1 = c1
  c2 = c2
  s1 = s1
  u1 = u1
  stable = stable
  token = token
  None = None
  Contract = {c2}
  Wallets = {}
  Slug = {s1}
  Category = {stable, token}
  Says <- LookAlike
  Curated <- SeededS1
  Sub = {u1}
  SubContract <- OfC2
  Followed = {}
  Admin = {x1, x2}
  MaxFaults = 1
SPECIFICATION FairSpec
INVARIANT ApprovedWasQueued
PROPERTY QueuesDrain
