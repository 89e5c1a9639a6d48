CONSTANTS
    Spans = {s1, s2, s3}
    Scopes = {c1, c2, c3}
    NoSpan = NoSpan
    MaxDepth = 2
    Parents = {"active", "root"}
    SetCodes = {}
    EndCodes = {"keep"}
SPECIFICATION LocalSpec
SYMMETRY SpanSymmetry
PROPERTIES
    ChildrenEndFirst
    ImplementsDynamicScope
