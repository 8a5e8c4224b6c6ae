SPECIFICATION FairSpec
CONSTANTS
    Users = {u1, u2}
    Services = {s1}
    s1 = s1
    s2 = s2
    Null = Null
    Daemon <- AutoAccept
    KeepAccepted = {}
    Roles <- SenderReceiver
    Peer <- DatPeer
    Capabilities <- Receiving
    UserOps <- AutoOps
    MaxLinks = 6
    MaxManual = 0
    MaxDaemon = 3
    MaxCalls = 2
    MaxObjs = 4
    ClosesAll = FALSE
CHECK_DEADLOCK FALSE
INVARIANTS Rendezvous ConnectedWasAccepted OfflineClosesAccepted
PROPERTIES CallsReturn
