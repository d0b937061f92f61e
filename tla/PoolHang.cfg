CONSTANTS
  None = None
  Readers = {r1}
  Sets = {s1}
  Keys = {k1, k2}
  PoolSize = 1
  Overflow = 1
  Timers = {"pool", "connect", "statement"}
  Hangs = TRUE
SPECIFICATION FairSpec
CHECK_DEADLOCK FALSE
PROPERTY EndsOnHungServer
