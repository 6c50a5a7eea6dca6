SPECIFICATION Spec

CONSTANTS
    Id = {a}
    Label = {Person, Robot}
    Property = {p}
    ValueType = {Null, I64, Str}
    PropertyMap <- OneProperty
    Schemas <- TwoSchemas
    ReadFaults = TRUE
    MaxLog = 3
    MaxSeq = 4
    MaxRecorded = 4
    Null = Null
    NoSchema = NoSchema
    NoId = NoId
    NoFrame = NoFrame
    p = p
    I64 = I64
    Str = Str
    Person = Person
    Robot = Robot

INVARIANTS
    IInv
    NothingHidden
    DeclaredAndTyped
    TeedIsDurable
    ReplayComplete
PROPERTIES
    TeedUpward
    UsesRecordLog
