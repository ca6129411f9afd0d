SPECIFICATION Spec
CONSTANTS
    Workers = {w1, w2, w3}
CHECK_DEADLOCK FALSE
INVARIANTS
    NoUserLeft
    AlwaysScheduled
PROPERTIES
    ShutdownEnds
