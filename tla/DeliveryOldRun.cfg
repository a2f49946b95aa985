SPECIFICATION Spec
CONSTANTS
    Run = {r1, r2}
    Sub = {c1, c2}
    Sync = {y1}
    Cursor = {0, 1, 2}
    NoRun = NoRun
    NoConn = NoConn
    BufferSize = 1
    QueueSize = 1
    MaxEvents = 1
    MaxDrops = 1
    MaxClicks = 0
    MaxCancels = 1
    MaxFails = 0
    MaxAges = 0
    MaxRestarts = 0
SYMMETRY Symmetric
INVARIANT OldRunIgnored
