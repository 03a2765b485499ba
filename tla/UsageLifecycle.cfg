SPECIFICATION Spec
CONSTANTS
    p1 = p1
    p2 = p2
    Paths = {p1, p2}
    NoPath = nopath
    Handlers = {t1}
    Configurers = {c1}
    Nobody = nobody
    Retentions = {0, 1}
    MaxStores = 2
    MaxConfigs = 3
    MaxRecords = 2
    MaxTime = 2
SYMMETRY Symmetry
INVARIANTS
    TypeOK
    StoredKept
    PublishedStore
PROPERTIES
    LedgerSpec
\* The host stops calling at the bounds.
CHECK_DEADLOCK FALSE
