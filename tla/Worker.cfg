SPECIFICATION Spec

CONSTANTS
    Settings <- BudgetedOrPatient
    first_backoff_ms = 2
    U32Max = 3
    U64Max = 3
    MaxSeq = 2
    MaxLives = 2

INVARIANTS
    TypeOK
    FifoPerWorker
    FlushComesLast
    ReplayCatchesUp
PROPERTIES
    ShutdownCompletes
    EventuallyAccepted

CHECK_DEADLOCK FALSE
