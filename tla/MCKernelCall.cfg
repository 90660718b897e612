CONSTANTS
    Threads  = {t1, t2}
    Blocks   = {b1, b2}
    MaxCalls = 2
SPECIFICATION FairSpec
INVARIANTS
    TypeOK
    KernelsAgree
    ResolvesOnce
    HandoverComplete
PROPERTIES
    CallReturns
CHECK_DEADLOCK FALSE
