SPECIFICATION Spec
CONSTANTS
    Unset = Unset
    NoTrace = NoTrace
    NoModel = NoModel
    Captures <- LogCaptures
    Filters <- MCFilters
    Limit = 1
    MaxCaptures = 4
    MaxWrites = 2
INVARIANTS
    TypeOK
    LinesAgree
    WalkCovers
