SPECIFICATION Spec

CONSTANTS
    Payload <- FourPayloads
    HEADER <- TwoByteHeader
    Base = 5
    Settings <- CarefulUnpowered

INVARIANTS
    TornTailIsCut
