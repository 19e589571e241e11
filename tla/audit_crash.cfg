CONSTANTS
  w1 = w1
  w2 = w2
  r1 = r1
  r2 = r2
  b1 = b1
  b2 = b2
  RequestIds = {r1, r2}
  Bindings = {b1}
  GenesisId = genesis
  Decisions = {"Unknown"}
  Workers = {w1, w2}
  Admin = admin
  Free = free
  Genesis <- MCGenesis
  MaxLog = 4
  Faults = {"kill", "io"}
  AdminOps = {"initialize", "resolve", "reconcile"}
SPECIFICATION Spec
SYMMETRY Symmetry
INVARIANTS ChainWellFormed
PROPERTIES KeepsChainPromise
CHECK_DEADLOCK FALSE
