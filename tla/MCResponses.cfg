SPECIFICATION Spec
CONSTANTS
    f1 = f1
    f2 = f2
    Entries <- TwoFiles
    ChunkSize = 2
    MaxLength = 5
    MaxChanges = 2
CHECK_DEADLOCK FALSE
INVARIANTS
    UnchangedIsExact
PROPERTIES
    ImplementsTransfer
    ResponseEnds
