SPECIFICATION Spec
CONSTANTS
    Ids = {k1, k2}
    NoId = none
    MaxHistory = 2
    MaxInbound = 5
    MaxResponses = 1
SYMMETRY Symmetry
INVARIANTS
    TypeOK
    FoundExactly
    PreviewJoins
\* The host stops calling at the bounds.
CHECK_DEADLOCK FALSE
