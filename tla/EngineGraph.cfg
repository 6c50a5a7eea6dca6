SPECIFICATION Spec

CONSTANTS
    Id = {a, b}
    Label = {Person, Robot}
    Property = {}
    ValueType = {Null}
    PropertyMap <- NoProperties
    Schemas = {}
    ReadFaults = FALSE
    MaxLog = 5
    MaxSeq = 5
    MaxRecorded = 0
    Null = Null
    NoSchema = NoSchema
    NoId = NoId
    NoFrame = NoFrame
    p = p
    I64 = I64
    Str = Str
    Person = Person
    Robot = Robot

SYMMETRY Symmetry

INVARIANTS
    ReadsExact
    LogLegal
    NoDanglingEdges
    SeqIncreasing
