SPECIFICATION Spec
CONSTANTS
    Instruments = {counter, gauge}
    Capacity = 2
    Temporality = "cumulative"
    TimerFires = TRUE
    MaxMeasured = 2
INVARIANTS
    ReportsGrow
PROPERTIES
    ReturnsAreComplete
    ShutdownIsFinal
    CallsReturn
