CONSTANTS
  r1 = r1
  r2 = r2
  r3 = r3
  Rips = {r1, r2, r3}
  Cost <- MCCost
  Threads = {t1, t2}
  NoThread = NoThread
  Word = 8
  MinRs = 2
  RespondStep = 2
  Quotas = {2, 5}
  Versions = {0, 1, 2}
SPECIFICATION Spec
INVARIANT NoStrandedRequest
