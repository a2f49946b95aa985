SPECIFICATION Spec
CONSTANTS
    Caller = {c1, c2}
    NoCaller = NoCaller
    RunKey = {r1, r2}
    j1 = j1
    j2 = j2
    p1 = p1
    p2 = p2
    Job = {j1, j2}
    Platform = {p1, p2}
    Platforms <- PlatformsOfJobs
    Offer = {o1, o2}
    PageSize = 2
    LastPage <- PagesOfPlatforms
    Enough = 1
    Minimum = 1
    Target = 1
    HardCap = 1
    MaxAttempts = 4
    MaxSuccesses = 2
    LowYield = 1
    HydMishaps = 1
    Budget = 3
    GuardLimit = 7
    LoopWindow = 4
    LoopThreshold = 3
    KeepRecent = 1
    ProviderOn = TRUE
    MaxTurns = 2
    MaxHistory = 2
    Disturbances = 1
    Threads = 2
    LegacyRun = {c1, c2}
    LegacyKey = {r1, r2}
    PageLimit = 1
    Times = {1, 2}
    NoRow = NoRow
    MaxArtifacts = 1
    AuthCall = {o1, o2, a3, a4}
    NoCall = NoCall
    Password = {c1, c2}
    DisplayName = {n}
    RegistrationKey = {r1, r2}
    LoginLimit = 1
    MaxPasswords = 2
    AuthMishaps = 1
    Order <- Shop
    Keywords = 2
    MaxPages = 2
    StallLimit = 2
    CandidateTarget = 2
    CapAttempts = 5
    CapSuccesses = 4
    Page <- ShopPages
    Retries = 1
    Crashes = 1
    ListEntry <- Entries
    Constraint <- Constraints
    Identity <- Identities
    MaxEntries = 3
    GroupLimit = 2
    PickLimit = 2
SYMMETRY Symmetric
INVARIANTS
    TypeOK  OvershootBounded CallersServed ToolGroupsClosed 
    HistoryReadable SessionsOfThisPassword NothingPaidIsLost  PlatformsKept
CHECK_DEADLOCK FALSE
