SPECIFICATION Spec
CONSTANTS
    s1 = s1
    s2 = s2
    Shares = {s1, s2}
    Workers = {w1, w2}
    Main = main
    Commands = {c1}
    Server = server
    CommandScripts <- Scripts
    MaxRequests = 2
    MaxCrashes = 1
CHECK_DEADLOCK FALSE
INVARIANTS
    PreparedOnce
    ExitTellsTruth
PROPERTIES
    ImplementsSerialStore
    RefusedOnlyByOthers
    CallsEnd
    ServerGetsReady
