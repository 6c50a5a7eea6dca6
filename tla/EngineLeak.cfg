SPECIFICATION Spec

CONSTANTS
    Id = {a, b}
    Label = {Person, Robot}
    Property = {}
    ValueType = {Null}
    PropertyMap <- NoProperties
    Schemas = {}
    ReadFaults = TRUE
    MaxLog = 4
    MaxSeq = 4
    MaxRecorded = 0
    Null = Null
    NoSchema = NoSchema
    NoId = NoId
    NoFrame = NoFrame
    p = p
    I64 = I64
    Str = Str
    Person = Person
    Robot = Robot

SYMMETRY Symmetry

INVARIANTS
    ReadsExact
