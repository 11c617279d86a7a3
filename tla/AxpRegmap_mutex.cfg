SPECIFICATION FairSpec
CONSTANTS
    NRegs = 3
    Bits = {0, 1}
    Ops <- MCOpsMutex
    NoOp = NoOp
    Threads = {t1, t2}
    NoThread = NoThread
    MaxChunk = 2
    TwiUsed = TRUE
INVARIANTS TypeOK CopyIsCurrent SuccessMeansDone
PROPERTIES NoLostUpdate AtomicSpec CallsReturn
