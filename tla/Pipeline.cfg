CONSTANTS
  None = None
  Requests = {r1, r2}
  Inbound = {i1, i2}
  Callers = {u1, u2}
  MinLevel = "info"
  Identity <- Process
SPECIFICATION Spec
SYMMETRY Symmetry
CHECK_DEADLOCK FALSE
INVARIANTS EveryResponseCarriesItsId OneErrorLinePerFailure LinesAreAttributed ContextIsReset CountedAsAnswered
