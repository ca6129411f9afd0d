SPECIFICATION FairSpec
CONSTANTS
    Shares = {s1, s2}
    Uploads = {u1}
    Locals = {l1}
    Workers = {w1}
    Commands = {c1}
    Main = main
    Cleaner = cleaner
    Server = server
    Size <- UnitSize
    MaxShareSize = 2
    MaxValidity = 1
    Grace = 2
    Period = 1
    InWorkingDir = {server, c1}
    MaxTime = 6
    MaxFaults = 1
CHECK_DEADLOCK FALSE
PROPERTIES
    ExpiredSharesRemoved
