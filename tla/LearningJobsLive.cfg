SPECIFICATION FairSpec
CONSTANTS
  r1 = r1
  r2 = r2
  p1 = p1
  p2 = p2
  a1 = a1
  a2 = a2
  t1 = t1
  t2 = t2
  Requests = {r1, r2}
  TopicOf <- OneTopic
  Procs = {p1}
  Appliers = {a1, a2}
  Loops = {a2}
  HomeOf <- SharedHome
  Parts <- TwoParts
  Limit = 3
  MaxAttempts = 2
  MaxMishaps = 3
  NoRequest = NoRequest
INVARIANT TopicIsFreed
PROPERTIES EveryRequestIsAnswered EveryJobEnds
CHECK_DEADLOCK FALSE
