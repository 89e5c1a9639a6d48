SPECIFICATION ViewsSpec
CONSTANTS
    Names = {m1}
    Versions = {none, v1, v2}
    NoVersion = none
    Histograms = {h1, h2}
    Boundaries = {b1, b2}
    Default = default
    Absent = absent
SYMMETRY ViewSymmetry
CONSTRAINT FewViews
INVARIANTS
    OneViewEach
    FirstCallWins
