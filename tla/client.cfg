SPECIFICATION Spec
CONSTANTS
    Frames = 3
    Size <- FrameSizes
    Room = 4
    MaxMeddling = 1
    Instance = "now"
    Known = {"now", "old"}
    Clients = {c1, c2}
    Commands = {"exec", "create_dir", "list_dir"}
    Slots = 1
    MaxSessions = 2
    Nobody = Nobody
    Procs = {p1, p2}
    Modes = {"auto", "never"}
    Blocks = 3
    Window = 2
    Versions = {1, 2}
    MaxPower = 1
    MaxDisk = 1
    NoFile = NoFile
    Uploaders = {u1, u2}
    UploadModes = {"auto", "never"}
    Chunks = 2
    MaxLost = 1
    NoUpload = NoUpload
    Connectors = {s1, s2}
    Limits = {5, 9}
    Keys = {k1, k2}
    NoKey = NoKey
    FirstKex = 2
    RetryKex = 2
    Backoff = 1
    Cleanup = 1
    Margin = 1
    PinWindow = 1
    AuthWindow = 1
    EofBackoff = 0
    EofWindow = 1
    Scopes <- GrantScopes
    Ttl = 2
    MaxClock = 2
    MaxLines = 2
    MaxIssues = 2
    NoGrant = NoGrant
    Profiles = {1, 2}
    None = None
    MaxVersion = 2
    GrantTtl = 1
    AdminTtl = 1
    Ids = {1, 2}
    Tokens = {1}
    MaxInstance = 1
    Sessions = {{"tunnel"}, {"files", "transfer"}, {"command", "delete"}, {"shell"}, {"daemon"}, {"editor"}, {"admin"}, {"security", "admin"}}
    Windows = TRUE
INVARIANTS DeliveredAsSent ExchangeIsSound DownloadIsSound UploadIsSound ConnectIsSound GatewayIsSound WorkbenchIsSound
CHECK_DEADLOCK FALSE
