SPECIFICATION FairSpec
CONSTANTS
    NoRequest = NoRequest
    Requests = {r1, r2, r3}
    Threads = {t1, t2}
    Janitor = janitor
    MaxTracked = 1
    MaxChunks = 2
    MaxCalls = 3
INVARIANTS
    TypeOK
    ExactlyOnce
    TrackedBound
    CloseDrains
PROPERTIES
    LedgerSpec
    EventuallyWritten
\* The host stops calling add at the bound MaxCalls.
CHECK_DEADLOCK FALSE
