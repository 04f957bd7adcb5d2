CONSTANTS
  a = a
  b = b
  g1 = g1
  g2 = g2
  Nodes = {a, b}
  Groups = {g1, g2}
  NoGroup = NoGroup
  NoNode = NoNode
  Want <- MCWant
  Cost <- MCCost
  Threads = {t1, t2}
  Word = 4
  MinRs = 1
  RespondStep = 1
  Quotas = {1}
  Versions = {0}
  MaxFence = 0
SPECIFICATION Spec
SYMMETRY MCSymmetry
INVARIANT LoopsOnLiveGroups
