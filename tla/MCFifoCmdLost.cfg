SPECIFICATION FairSpec
CONSTANTS
    Initiators = {i1, i2}
    Executors = {x1}
    Modes = {"polling"}
    QueueLen = 2
    MaxCalls = 2
    NoDesc = NoDesc
PROPERTIES EveryExecReturns
CHECK_DEADLOCK FALSE
