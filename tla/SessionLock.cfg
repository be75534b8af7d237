SPECIFICATION MCFairSpec
CONSTANTS
  t1 = t1
  t2 = t2
  t3 = t3
  s1 = s1
  s2 = s2
  h1 = h1
  Threads = {t1, t2, t3}
  Sessions = {s1, s2}
  Shards = {h1}
  ShardOf <- TwoOnOneShard
  Cap = 1
  MaxStamp = 3
INVARIANTS
  MutualExclusion
  PinnedLockStays
  PinsCountHolders
  CapRespected
PROPERTY EveryCallEnds
