SPECIFICATION FairSpec
CONSTANTS
  Tunnels = {1, 2}
  Conns = {c1, c2}
  Ports = {8001}
  Nobody = Nobody
  Requests <- MCRequests
  MaxFlows = 1
  Pending = 1
  SessionFlows = 1
  Faults = {"disconnect", "refuse", "duplicate", "accept", "abandon", "bind"}
INVARIANTS ListenersAreOwned
PROPERTIES KeepsPromise
CHECK_DEADLOCK FALSE
