SPECIFICATION DownloadSpec
CONSTANTS
    Procs = {p1, p2}
    Modes = {"auto"}
    Blocks = 3
    Window = 2
    Versions = {1}
    MaxPower = 0
    MaxDisk = 0
    NoFile = NoFile
INVARIANTS KeepsDurablePrefix
CHECK_DEADLOCK FALSE
