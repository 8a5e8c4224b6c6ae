SPECIFICATION Spec
CONSTANTS
    Threads = {t1, t2}
    EvtDescs = {e1, e2}
    Capacity = 2
    MaxCalls = 6
    Blank = Blank
INVARIANTS SanityChecks
PROPERTIES ImplementsFifo
CHECK_DEADLOCK FALSE
