SPECIFICATION FairSpec
CONSTANTS
    Users = {u1, u2}
    EvtProc = EvtProc
    EvtIDs = {"e"}
    Consumers = {c1, c2}
    Wants <- WantsAll
    UserOps <- ReentrantUserOps
    CallbackOps <- ReentrantCallbackOps
    Capacity = 2
    MaxSuber = 2
    MaxCalls = 2
    UnSubed = UnSubed
INVARIANTS LinkStateTruthful SuberListOK
