SPECIFICATION MCSpec
CONSTANTS
    GRunner = {r1, r2}
    GPrincipal = {"runner"}
    GMission <- MCMissions
    GVerification <- MCVerifications
    MaxGoldenCalls = 3
    NoRunner = NoRunner
    NoMission = NoMission
    CWorker = {c1, c2}
    CNode <- MCNodes
    MaxExecs = 3
    NoEntry = NoEntry
    Idle_ = Idle_
    Ceilings = {0, 9}
    Charge = {0, 3, 5}
    Ulp = 1
    Tol = 1
    MaxCharges = 5
    Commit = {h1, h2}
    MaxAttempt = 2
    MaxHeads = 2
    EndedWork = {w1, w2}
    NoStatus = NoStatus
    AMoment <- MCMoments
    AWindow <- MCWindows
    ADur = {1, 2}
    PageMax = 3
    PageDefault = 2
    MaxRows = 4
    PSpec <- MCProvisions
    POrg = {"o", "o2"}
    MaxProvider = 5
    NoSig = NoSig
    Legs = {"asset", "cash"}
    EvidenceHash = {"e1", "e2"}
    MaxReceipts = 3
    LegCount = 3
    NowUnix = 5
    MaxAge = 2
    MaxSkew = 2
    MaxFutureSkew = 1
    ObservedAt = {2, 3, 5, 6, 7}
    ERequest = {1, 2, 3}
    Capture_ = {e1, e2}
    CursorKind = {"block", "etag"}
    TrustKey = {t1, t2}
    MaxGeneration = 3
    MaxFloor = 2
    MaxGrants = 1
    NoState = NoState
    NoAuth = NoAuth
    Attempt = {a1, a2}
    Content = {b1, b2}
    MaxDamage = 1
    Nothing = Nothing
    Torn = Torn
SYMMETRY PlatformSymmetry
INVARIANTS
    ResumeAppliesNothing
    ReplayIsTheKeysRun
    MeteredWithinRounding
    HeadIsReported
    ReportIsExact
    TornDownStaysDown
    VerdictsAreEarned
    RotationsAreLawful
    AttachedIsStored
CHECK_DEADLOCK FALSE
