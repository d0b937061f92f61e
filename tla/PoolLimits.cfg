CONSTANTS
  None = None
  Readers = {r1, r2}
  Sets = {s1, s2}
  Keys = {k1, k2}
  PoolSize = 1
  Overflow = 1
  Timers = {"pool", "connect", "statement"}
  Hangs = TRUE
SPECIFICATION FairSpec
CHECK_DEADLOCK FALSE
INVARIANTS TypeOK NothingLeaks
PROPERTIES WaitersGiveUp EndsWithoutTimers
