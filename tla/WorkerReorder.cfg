SPECIFICATION Spec

CONSTANTS
    Settings <- Reliable
    first_backoff_ms = 2
    U32Max = 3
    U64Max = 3
    MaxSeq = 2
    MaxLives = 2

INVARIANTS
    OnceInSeqOrder

CHECK_DEADLOCK FALSE
