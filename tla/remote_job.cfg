SPECIFICATION FairSpec
CONSTANTS
  Sessions = 2
  Streams = {"stdout"}
  MaxOutputBytes = 1
  Chunks = 2
  QueueCapacity = 1
  Remote = 1
  Relay = 1
  Retention = 2
  MaxTime = 2
  MaxBeats = 1
  MaxFaults = 1
  Uid = "7"
  Denied = Denied
  Inherit = Inherit
  Ceilings <- MCCeilings
  Requests <- MCRequests
  Plain <- MCPlain
INVARIANTS JobIsKnown
PROPERTIES AdmittedWithinPolicy JobEnds
CHECK_DEADLOCK FALSE
