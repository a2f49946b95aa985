SPECIFICATION Spec
CONSTANTS
    Thread = {t1, t2}
    Run = {r1, r2}
    Key = {k1, k2}
    Req = {q1, q2}
    NoThread = NoThread
    NoRun = NoRun
    NoReq = NoReq
    MaxFaults = 0
    MaxStops = 0
SYMMETRY Symmetric
INVARIANT EndedRunAnnounced
