SPECIFICATION Spec
CONSTANTS
    Unset = Unset
    NoTrace = NoTrace
    NoModel = NoModel
    Captures <- LogCaptures
    Filters <- MCFilters
    Limit = 1
    MaxCaptures = 4
    MaxWrites = 1
INVARIANT PageAndTotalAgree
