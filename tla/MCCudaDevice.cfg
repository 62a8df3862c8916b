\* Two shards for batches of up to five jobs over eight values, two opens, and every
\* call failing.
SPECIFICATION Spec
CONSTANTS
    FieldSize = 17
    LogSize = 3
    Generator = 2
    Alpha = 3
    EmptyCell = "none"
    Hash <- Digests
    Width = 2
    Windows = 3
    ChunkSize = 3
    Group = 5
    Streams = 2
    Batch = 5
    Batches <- Given
    MaxOpens = 2
INVARIANTS AnswersOpen CloseFreesAll OpeningsBind
