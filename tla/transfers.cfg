SPECIFICATION MCSpec
CONSTANTS
  s1 = s1
  s2 = s2
  i1 = i1
  i2 = i2
  o1 = o1
  Nothing = Nothing
  Servers = {s1, s2}
  Ids = {i1, i2}
  Owners = {o1}
  Size = 1
  Kinds = {"native_push", "sftp_pull", "sftp_push", "native_pull"}
  Callers = {"grant"}
  Faults = {"io", "timeout", "age", "write", "setup", "expiry"}
  ActivePerOwner = 1
  ActiveGlobal = 2
  DonePerOwner = 1
  DoneGlobal = 1
INVARIANTS ClaimsAreTrue RegistryIsSound
PROPERTIES RecordsGoForward CancelEnds
CHECK_DEADLOCK FALSE
