SPECIFICATION Spec
CONSTANTS
    Unset = unset
    Standard = standard
    MaxCalls = 2
    MaxRecords = 3
INVARIANTS
    InnermostRecords
    ReadersStop
PROPERTIES
    ReturnsSpansAndLogs
