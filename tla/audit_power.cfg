CONSTANTS
  w1 = w1
  w2 = w2
  r1 = r1
  r2 = r2
  b1 = b1
  b2 = b2
  RequestIds = {r1}
  Bindings = {b1, b2}
  GenesisId = genesis
  Decisions = {"Succeeded", "Unknown"}
  Workers = {w1, w2}
  Admin = admin
  Free = free
  Genesis <- MCGenesis
  MaxLog = 4
  Faults = {"kill", "io", "power"}
  AdminOps = {"resolve"}
SPECIFICATION FairSpec
INVARIANTS AckedNeverLost
PROPERTIES CheckpointKept OperationsReturn
CHECK_DEADLOCK FALSE
