SPECIFICATION FairSpec
CONSTANTS
    Initiators = {i1, i2}
    Executors = {x1, x2}
    Modes = {"callback", "polling", "none"}
    QueueLen = 1
    MaxCalls = 3
    NoDesc = NoDesc
INVARIANTS TypeOK EveryCommandHasCaller SubStateTruthful NoCallbackAfterReturn
PROPERTIES ImplementsExchange LoneExecReturns
CHECK_DEADLOCK FALSE
