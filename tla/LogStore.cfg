SPECIFICATION Spec

CONSTANTS
    Payload <- FourPayloads
    HEADER <- TwoByteHeader
    Base = 5
    Settings <- CarefulAndFaulty

INVARIANTS
    
    PromisedReadBack
    ServedEndToEnd
PROPERTIES
    ImplementsRecordLog
    NothingForgotten
