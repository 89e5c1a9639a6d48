CONSTANTS
    Spans = {s1, s2}
    Scopes = {c1}
    NoSpan = NoSpan
    MaxDepth = 1
    Parents = {"active", "root", s1, s2}
    SetCodes = {"unset", "ok", "error"}
    EndCodes = {"keep", "unset", "ok", "error", "auto"}
SPECIFICATION FairSpec
INVARIANTS
    ExceptionMeansError
PROPERTIES
    ExportedIsFinal
    LeavingEndsSpans
