CONSTANTS
  c1 = c1
  c2 = c2
  g1 = g1
  r1 = r1
  r2 = r2
  RequestIds = {r1, r2}
  Bindings = {"ssh.exec"}
  GenesisId = genesis
  Decisions = {"Succeeded", "Denied", "Unknown"}
  Conns = {c1, c2}
  Admin = admin
  Grants = {g1}
  NoGrant = nogrant
  Budget = 1
  GrantLimit = 2
  MaxUnlocks = 2
  Genesis <- MCGenesis
  Faults = {"io", "deadline", "shutdown", "crash"}
SPECIFICATION MCSpec
INVARIANTS BudgetRespected EffectsAudited EndsAudited InDoubtStaysLocked
PROPERTIES IntentsClose
CHECK_DEADLOCK FALSE
