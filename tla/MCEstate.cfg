SPECIFICATION MCSpec
CONSTANTS
    WName <- MCNames
    WRequest = {1, 2}
    MaxFaults = 1
    NoHandle = NoHandle
    EWorker = {"w1", "w2"}
    Credential <- MCCredential
    TokenTTL = 3
    StaleAge = 2
    MaxRestarts = 1
    MaxLost = 1
    NoToken = NoToken
    Job = {"j1"}
    Commit = {"k1", "k2"}
    MaxBlips = 2
    MaxPushes = 2
    NoCommit = NoCommit
INVARIANTS
    FailedCreateCleansUp
    HostIsClean
PROPERTIES
    BeatingIsHeard
    CancelledEnds
CHECK_DEADLOCK FALSE
