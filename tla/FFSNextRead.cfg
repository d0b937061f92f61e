CONSTANTS
  None = None
  p1 = p1
  p2 = p2
  Tenants = {t1}
  Names = {n1}
  Users = {u1}
  Gets = {g1}
  Sets = {s1}
  Procs = {p1, p2}
  Home <- OneProcess
  CacheTtl = 1
  MaxClock = 1
  Faults = {}
SPECIFICATION Spec
CHECK_DEADLOCK FALSE
INVARIANT NextReadSeesTheWrite
