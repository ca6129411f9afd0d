SPECIFICATION Spec
CONSTANTS
    Settings <- DaysSettings
    NotAnInteger = NotAnInteger
    IntLimit = 262144
    Inputs <- Typed
CHECK_DEADLOCK FALSE
INVARIANTS
    PresetIsDefault
    NeverRefused
    PeriodInBounds
