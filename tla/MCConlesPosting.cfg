SPECIFICATION FairSpec
CONSTANTS
    Users = {u1, u2}
    EvtProc = EvtProc
    EvtIDs = {"e"}
    Consumers = {c1}
    Wants <- WantsAll
    UserOps <- PostingOps
    CallbackOps <- NoOps
    Capacity = 1
    MaxSuber = 1
    MaxCalls = 2
    UnSubed = UnSubed
INVARIANTS TypeOK CallbackExclusion ErrorMeansNotAccepted
PROPERTIES ForceProcDrains ImplementsChannel AcceptedIsProcessed CallsReturn
