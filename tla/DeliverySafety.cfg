SPECIFICATION Spec
CONSTANTS
    Run = {r1}
    Sub = {c1, c2}
    Sync = {y1}
    Cursor = {0, 1, 2, 3}
    NoRun = NoRun
    NoConn = NoConn
    BufferSize = 1
    QueueSize = 1
    MaxEvents = 2
    MaxDrops = 1
    MaxClicks = 1
    MaxCancels = 1
    MaxFails = 1
    MaxAges = 1
    MaxRestarts = 1
SYMMETRY Symmetric
INVARIANTS
    TypeOK
    BufferIsTail
    QueueIsTail
    ReducedOnceInOrder
    NoSilentLoss
    NoLeakedSubscriber
PROPERTY UsesBroker
