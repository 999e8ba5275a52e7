SPECIFICATION MCSpec
CONSTANTS
    Path = {p1}
    Content = {c1, c2}
    Human = {h1, h2}
    BRequest = {1, 2, 3}
    NoHuman = NoHuman
    NoContent = NoContent
    NoRow = NoRow
    EphemeralTTL = 1
    BMaxTime = 2
    MaxRevisions = 3
    MountIds = {1, 2, 3, 4}
    Container = {1, 2}
    Root = 1
    PlainKey = {"note"}
    PersonalMarker = {"live_context"}
    AuthorityMarker = {"grant"}
    Absent = Absent
    Scalar = Scalar
    VSubject = {1, 2, 3}
    Fingerprint = {f1}
    OtherPrint = f2
    NoPrint = NoPrint
    NoSnapshot = NoSnapshot
    EdgeSets <- MCEdges
    Get = {1, 2}
    VRequest = {1, 2, 3}
    Verifier = {v1, v2}
    PDR = {pdr1, pdr2}
    MaxContexts = 2
    NoVerdict = NoVerdict
    NoPDR = NoPDR
    NoInteg = NoInteg
    NoBundle = NoBundle
    SNode = {n1, n2}
    SAttempt = {a1, a2}
    Level = {0, 1}
    NoSeal = NoSeal
    BetaSoakHours = 2
    RMaxTime = 5
    MaxReverts = 2
    NoStamp = NoStamp
    PContent = {pa, pb}
    PRequest = {1, 2, 3}
    Decision = {pa, pb}
SYMMETRY PromotionSymmetry
INVARIANTS
    AnsweredWriteStands
    AdmissionIsClean
    ImpactIsExact
    EvidenceIsBacked
    RetryOpensNothing
PROPERTIES
    StableIsSoaked
CHECK_DEADLOCK FALSE
