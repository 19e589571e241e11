SPECIFICATION MCSpec
CONSTANTS
  h1 = h1
  h2 = h2
  t1 = t1
  t2 = t2
  i1 = i1
  i2 = i2
  Helpers = {h1, h2}
  Transfers = {t1, t2}
  Intents = {i1, i2}
  Nothing = Nothing
  Torn = Torn
  Foreign = Foreign
  Size = 2
  Windows = {1, 2}
  Modes = {"resume", "fresh"}
  Faults = {"kill", "power", "io", "user", "wrong"}
SYMMETRY Symmetry
INVARIANTS SidecarIsTrue TargetWhole CompletedStays
PROPERTIES PublishesHonestly
CHECK_DEADLOCK FALSE
