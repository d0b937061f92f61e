CONSTANTS
  None = None
  Requests = {r1}
  Inbound = {i1, i2}
  Callers = {u1}
  MinLevel = "info"
  Identity <- Process
SPECIFICATION Spec
CHECK_DEADLOCK FALSE
INVARIANT EveryResponseIsSecured
