SPECIFICATION FairSpec
CONSTANTS
    s1 = s1
    s2 = s2
    Senders <- MCSenders
    Receivers = {r1}
    Setups = {"callback", "polling"}
    Calls <- MCCalls
    Limits <- MCLimits
    BatchBufferSize = 2
    BufferSize = 3
    SizeT = 16
    MaxChunk = 2
    MaxSends = 3
    Free = Free
INVARIANTS TypeOK OncePerChunk FlushEmpties StreamIntact
PROPERTIES CallsReturn
CHECK_DEADLOCK FALSE
