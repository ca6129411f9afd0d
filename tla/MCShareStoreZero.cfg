SPECIFICATION Spec
CONSTANTS
    Shares = {s1, s2}
    Uploads = {u1, u2, u3}
    Locals = {l1}
    Workers = {w1, w2}
    Commands = {c1}
    Main = main
    Cleaner = cleaner
    Server = server
    Size <- UnitSize
    MaxShareSize = 3
    MaxValidity = 1
    Grace = 2
    Period = 1
    InWorkingDir = {server, c1}
    MaxTime = 7
    MaxFaults = 2
SYMMETRY Symmetry
CHECK_DEADLOCK FALSE
PROPERTIES
    ZeroIsInfinite
