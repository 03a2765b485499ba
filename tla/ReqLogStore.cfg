SPECIFICATION FairSpec
CONSTANTS
    Keys = {k1}
    Threads = {t1, t2}
    Worker = worker
    BatchSize = 2
    MaxSamples = 3
INVARIANTS
    TypeOK
    SampleOnce
    Accounting
    QueueBound
    RowsKept
    CloseFlushes
    OlderOnlyByRace
PROPERTIES
    EventuallySettled
    CloseReturns
\* The host stops calling enqueue at the bound MaxSamples.
CHECK_DEADLOCK FALSE
