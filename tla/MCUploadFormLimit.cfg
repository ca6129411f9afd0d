SPECIFICATION Spec
CONSTANTS
    a = a
    b = b
    c = c
    d = d
    Files = {a, b, c, d}
    Name <- Names
    Size <- Sizes
    MaxShareSize = 3
    CanFail = {}
CHECK_DEADLOCK FALSE
INVARIANTS
    StoreAccepts
