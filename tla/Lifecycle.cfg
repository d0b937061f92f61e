CONSTANTS
  None = None
  Calls = {c1, p1, p2}
  Probes = {p1, p2}
  Connections = 1
  Mishaps = {"configure", "create", "bind", "wedge", "kill"}
SPECIFICATION PodFairSpec
CHECK_DEADLOCK FALSE
INVARIANTS PodTypeOK CallsFindOpenClients TeardownIsComplete HandlerCoversClients
PROPERTIES OutageRestartsNobody WedgedIsReplaced TrafficIsWithdrawn TrafficReturns StopsWhenTold
