SPECIFICATION MCSpec
CONSTANTS
    JWork = {w1, w2}
    JTarget = {"WAITING_HUMAN", "RUNNING"}
    Caller = {1, 2, 3}
    Reader = {r1}
    NoState = NoState
    PollLimit = 2
    TimelineLimit = 2
    UiLimit = 1
    MaxBreaks = 1
    Device = {d1}
    LWork = {m1, m2}
    LMission = {m1}
    Code = {1}
    LScopes <- AskedScopes
    Request = {1, 2}
    NoDevice = NoDevice
    NoOffer = NoOffer
    OfferTTL = 0
    TokenTTL = 0
    LMaxTime = 1
    MaxMounts = 2
    Conn = {x1, x2}
INVARIANTS
    NoRowIsSkipped
    RevokingAnswerStopsMissions
    ClosedAfterLastHandler
PROPERTIES
    EveryEventArrives
    SignalEndsProcess
CHECK_DEADLOCK FALSE
