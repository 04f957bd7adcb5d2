CONSTANTS
  Rips = {r1, r2, r3}
  Threads = {t1, t2}
SPECIFICATION FairSpec
INVARIANTS
  TypeOK
  PendingCounts
  OneVerdict
  VerdictSound
  NoUseAfterExit
PROPERTIES
  VerdictDelivered
  ImplementsPromise
\* A group's life ends: after token_reqgrp_exit nothing happens.
CHECK_DEADLOCK FALSE
