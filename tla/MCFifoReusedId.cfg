SPECIFICATION Spec
CONSTANTS
    Users = {u1, u2}
    Services = {s1}
    s1 = s1
    s2 = s2
    Null = Null
    Daemon <- Manual
    KeepAccepted = {}
    Roles <- SenderReceiver
    Peer <- DatPeer
    Capabilities <- Receiving
    UserOps <- ReusedIdOps
    MaxLinks = 3
    MaxManual = 1
    MaxDaemon = 0
    MaxCalls = 4
    MaxObjs = 4
    ClosesAll = TRUE
SYMMETRY UserSymmetry
CHECK_DEADLOCK FALSE
INVARIANTS OfflineClosesOwn
