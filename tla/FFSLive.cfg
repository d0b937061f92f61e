CONSTANTS
  None = None
  p1 = p1
  p2 = p2
  Tenants = {t1}
  Names = {n1}
  Users = {u1}
  Gets = {g1}
  Sets = {s1, s2}
  Procs = {p1, p2}
  Home <- TwoProcesses
  CacheTtl = 2
  MaxClock = 0
  Faults = {"redis", "postgres", "crash"}
SPECIFICATION FairSpec
CHECK_DEADLOCK FALSE
PROPERTIES EveryCallReturns CacheConverges
