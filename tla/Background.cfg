SPECIFICATION Spec
CONSTANTS
    Worker = {w1, w2}
    NoWorker = NoWorker
    RunThreshold = 2
    RetryLimit = 1
    MaxRuns = 3
    MaxMishaps = 1
    Mem = {m1, m2}
    Text = {x, u}
    Unsafe = {u}
    NoText = NoText
    NoMem = NoMem
    Publisher = {p1}
    NoPublisher = NoPublisher
    BatchSize = 2
    MaxVersion = 2
    MaxAttempts = 1
    MaxFaults = 1
    Item = {i1, i2}
    PriceBatch = 2
    LastDay = 3
    MaxCrashes = 1
INVARIANTS
    TypeOK NothingForgotten CursorBehindWork EveryVersionRecorded
    ProjectionCatchesUp 
PROPERTY WorkSettles
CHECK_DEADLOCK FALSE
