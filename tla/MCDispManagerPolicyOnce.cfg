CONSTANTS
  Word = 16
  Ids = {a}
  Threads = {t1}
  NoThread = NoThread
  NoNode = NoNode
  NumMaxs = {1}
  Mins = {1}
  Intervals = {1}
  Units = {3}
  Costs = {1}
  Garbage = {1, 5}
  MaxCalls = 3
  MCMax = 2
SPECIFICATION Spec
CHECK_DEADLOCK FALSE
PROPERTY TurnedAwayBesideARun
