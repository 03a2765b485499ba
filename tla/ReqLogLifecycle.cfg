SPECIFICATION FairSpec
CONSTANTS
    Threads = {t1}
    Configurers = {c1}
    Nobody = nobody
    Paths = {p1, p2}
    NoPath = nopath
    MaxGens = 2
    MaxConfigs = 3
    MaxSamples = 2
INVARIANTS
    TypeOK
    SampleOnce
    OneGeneration
    DisableKeepsAll
PROPERTIES
    ConfigReturns
    CaptureReturns
\* The host stops capturing and reconfiguring at the bounds.
CHECK_DEADLOCK FALSE
