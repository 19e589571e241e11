CONSTANTS
  Procs = {p1, p2}
  Nobody = Nobody
  Names = {1, 2}
  Passphrases = {"p"}
  Generated = "g"
  AdminPasswords = {"a", "b"}
  Endpoints = {"e1", "e2"}
  Pins = {"k1", "k2"}
  NoPin = "none"
  Wanted <- MCWanted
  Commands <- MCCommands
  Starts <- MCStarts
  MaxProfiles = 2
  MaxCommands = 3
  MaxRecords = 3
  Faults = {"kill", "io"}
SPECIFICATION MCSpec
SYMMETRY ProcSymmetry
INVARIANTS VaultIsSound
PROPERTIES PinsKept
CHECK_DEADLOCK FALSE
