CONSTANTS
    Conns = {c1, c2}
    NoConn = NoConn
    SetupTokens = {s1}
    Txns = {t1}
    Threshold = 2
    MaxId = 3
    MaxWaiters = 2
    DimUsers = {1, 2}
    DimWindow = 1
    Tables = {"t1", "t2"}
    MaxKey = 2
    FactorRequests = 5
    LoginRequests = 4
    IdRequests = 4
    AdminRequests = 4
    SeamRequests = 4
    DimRequests = 3
    BootRequests = 3
    CacheRequests = 4
    OpsRequests = 3
    MediaRequests = 5
    WaysRequests = 4
    ReadyRequests = 2
SPECIFICATION Spec
SYMMETRY Symmetry
INVARIANTS
    FactorSound
    SignInSound
    AdminSound
    SeamSound
    DimSound
    StartupSound
    CachesSound
    BotSound
    ReadinessSound
CHECK_DEADLOCK FALSE
