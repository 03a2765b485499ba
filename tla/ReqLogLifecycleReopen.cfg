SPECIFICATION Spec
CONSTANTS
    Threads = {t1}
    Configurers = {c1}
    Nobody = nobody
    Paths = {p1, p2}
    NoPath = nopath
    MaxGens = 2
    MaxConfigs = 3
    MaxSamples = 2
INVARIANTS
    ReopenKeepsAll
\* The host stops capturing and reconfiguring at the bounds.
CHECK_DEADLOCK FALSE
