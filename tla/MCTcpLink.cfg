SPECIFICATION FairSpec
CONSTANTS
    Threads = {"c1", "c2", "s1"}
    EndOf <- MCEndOf
    May <- MCMay
    Limits <- MCLimits
    Setups <- MCSetups
    CmdQueueLen = 1
    BufferSize = 2
    MaxChunk = 2
    MaxCalls = 3
    MaxClosed = 1
INVARIANTS TypeOK InStep DataStream
PROPERTIES ResponseBelongs ExecReturns
CHECK_DEADLOCK FALSE
