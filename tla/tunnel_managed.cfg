SPECIFICATION FairSpec
CONSTANTS
  Tunnels = {1, 2}
  Owners = {"a"}
  Owner <- MCOwner
  Contexts = {1}
  Callers = {k1}
  Main = Main
  None = None
  ActivePerOwner = 1
  ActiveGlobal = 1
  FinishedPerOwner = 1
  FinishedGlobal = 1
  Slots = 2
  Faults = {"age", "refuse"}
INVARIANTS TunnelsAreKept AnswersAreTrue
PROPERTIES RecordsAdvance
CHECK_DEADLOCK FALSE
