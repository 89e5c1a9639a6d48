CONSTANTS
    Loggers = {l1, l2}
    Severities = {9, 13}
    Capacity = 2
    MaxRecords = 5
SPECIFICATION Spec
SYMMETRY LogSymmetry
INVARIANTS
    NewestKept
    ReturnedInOrder
