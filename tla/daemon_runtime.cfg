CONSTANTS
  d1 = d1
  d2 = d2
  c1 = c1
  c2 = c2
  Daemons = {d1, d2}
  Clients = {c1, c2}
  Nobody = nobody
  ConnLimit = 1
  Faults = {"crash", "kill", "io", "deadline", "pid"}
SPECIFICATION FairSpec
INVARIANTS OneDaemon AccessIsGenuine DownIsTrue
PROPERTIES FilesOfTheLivingStay StartIsAnswered
CHECK_DEADLOCK FALSE
