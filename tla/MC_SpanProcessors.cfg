CONSTANTS
    Spans = {s1, s2, s3}
    EnvIds <- TwoEntries
    GeneratedIds <- TwoGenerated
    UserIds = {"mine"}
    MaxCallbacks = 3
    Escapes = {"jump"}
SPECIFICATION Spec
SYMMETRY SpanSymmetry
INVARIANTS
    OneRunCalls
    ServedInOrder
    LoadedOnce
    EnvBeforeCalls
