SPECIFICATION Spec
CONSTANTS
    a = a
    b = b
    c = c
    d = d
    Files = {a, b, c, d}
    Name <- Names
    Size <- Sizes
    MaxShareSize = 3
    CanFail = {a}
CHECK_DEADLOCK FALSE
INVARIANTS
    TotalsAgree
    EmittedFilesPass
    CompleteWhenEmitted
    ProgressBounded
PROPERTIES
    ValidatedCompletes
