SPECIFICATION FairSpec
CONSTANTS
  t1 = t1
  t2 = t2
  c1 = c1
  c2 = c2
  c3 = c3
  c4 = c4
  Threads = {t1, t2}
  Conns = {c1, c2, c3, c4}
  PoolSize = 2
  MaxDepth = 2
  MaxCalls = 4
  Nobody = Nobody
  NoConn = NoConn
INVARIANTS
  Serialized
  ConnectionsAccounted
  PoolIsClean
  OnlyKillsAbandon
PROPERTIES
  CallsEnd
  StopReturns
CHECK_DEADLOCK FALSE
