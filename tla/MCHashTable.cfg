CONSTANTS
  x = x
  y = y
  z = z
  Ids = {x, y, z}
  Pris = {p, q}
  Nothing = Nothing
  Threads = {t1, t2}
  TabLen = 2
  Hash <- MCHash
  Unit = 2
  Word = 4
SPECIFICATION Spec
SYMMETRY MCSymmetry
CHECK_DEADLOCK FALSE
INVARIANTS
  TypeOK
  OneEntryPerId
  CacheExact
  CacheBound
  AbortOnlyFull
  TraversalSound
PROPERTIES
  ImplementsMap
