SPECIFICATION Spec
CONSTANTS
    Keys = {k1, k2}
    Threads = {t1, t2}
    Worker = worker
    BatchSize = 2
    MaxSamples = 3
INVARIANTS
    LaterCaptureWins
\* The host stops calling enqueue at the bound MaxSamples.
CHECK_DEADLOCK FALSE
