CONSTANTS
    Spans = {s1, s2}
    Scopes = {c1, c2}
    NoSpan = NoSpan
    MaxDepth = 2
    Parents = {"active"}
    SetCodes = {}
    EndCodes = {"keep"}
SPECIFICATION Spec
SYMMETRY SpanSymmetry
INVARIANTS
    TypeOK
    ExportedOnce
    ScopesNest
    RecordingCanEnd
PROPERTIES
    ScopeEndRestores
    CollectorSparesActivated
