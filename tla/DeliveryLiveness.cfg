SPECIFICATION FairSpec
CONSTANTS
    Run = {r1}
    Sub = {c1, c2}
    Sync = {y1}
    Cursor = {0, 1, 2, 3, 4}
    NoRun = NoRun
    NoConn = NoConn
    BufferSize = 2
    QueueSize = 1
    MaxEvents = 3
    MaxDrops = 1
    MaxClicks = 0
    MaxCancels = 0
    MaxFails = 0
    MaxAges = 0
    MaxRestarts = 0
PROPERTY OutcomeShown
