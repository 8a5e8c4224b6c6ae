SPECIFICATION Spec
CONSTANTS
    Users = {u1, u2}
    Services = {s1, s2}
    s1 = s1
    s2 = s2
    Null = Null
    Daemon <- ManualAndBroadcast
    KeepAccepted = {s1}
    Roles <- SenderReceiver
    Peer <- DatPeer
    Capabilities <- Receiving
    UserOps <- ManualOps
    MaxLinks = 3
    MaxManual = 2
    MaxDaemon = 1
    MaxCalls = 3
    MaxObjs = 3
    ClosesAll = FALSE
SYMMETRY UserSymmetry
CHECK_DEADLOCK FALSE
INVARIANTS TypeOK PeersAgree OwnedStaysOpen CountTruthful
