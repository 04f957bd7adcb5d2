CONSTANTS
  Word = 16
  Ids = {a}
  Threads = {t1, t2}
  NoThread = NoThread
  NoNode = NoNode
  NumMaxs = {1, 2}
  Mins = {0, 1}
  Intervals = {1}
  Units = {3}
  Costs = {1}
  Garbage = {1, 5}
  MaxCalls = 3
  MCMax = 2
SPECIFICATION FairSpec
CHECK_DEADLOCK FALSE
INVARIANTS
  TypeOK
  SeatsMatch
  PolicyRunsAlone
  InuseWithinQuota
  SplitGivesShares
PROPERTY EveryCallReturns
