CONSTANTS
  r1 = r1
  r2 = r2
  r3 = r3
  Rips = {r1, r2, r3}
  Cost <- MCCost
  Threads = {t1}
  NoThread = NoThread
  Word = 8
  MinRs = 2
  RespondStep = 1
  Quotas = {1}
  Versions = {0, 1, 2}
SPECIFICATION Spec
INVARIANT NoStrandedRequest
