CONSTANTS
  None = None
  p1 = p1
  p2 = p2
  Tenants = {t1, t2}
  Names = {n1}
  Users = {u1}
  Gets = {g1}
  Sets = {s1, s2}
  Procs = {p1, p2}
  Home <- TwoProcesses
  CacheTtl = 1
  MaxClock = 0
  Faults = {"redis", "postgres", "crash", "evict"}
SPECIFICATION Spec
SYMMETRY Symmetry
CHECK_DEADLOCK FALSE
INVARIANTS TypeOK CachedWasCommitted NotFoundWasAbsent UndisturbedCoherence AcknowledgedIsPersisted WritesNeverOvercount
PROPERTIES UndisturbedReadIsCurrent ImplementsFlagStore
