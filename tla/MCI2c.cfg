\* FIFOs shorter than a call's commands, counters that wrap
CONSTANTS
    TxTries = 1
    RxTries = 2
    CounterRange = 4
    TxDepth = 2
    RxDepth = 2
    Wlen = 1
    Rlen = 2
    RETRY_MAX = 2
    Dumps = 2
SPECIFICATION Spec
CHECK_DEADLOCK FALSE
INVARIANTS
    
    BlockedCallFails
PROPERTIES
    WaitsEnd
