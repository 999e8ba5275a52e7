SPECIFICATION MCSpec
CONSTANTS
    WorkId = {w1, w2}
    Key = {k1}
    NoKey = NoKey
    LegacyId = {w1}
    LegacyKey = k1
    Client = {c1, c2}
    Deployment <- Deployments
    Delivery = {d1, d2}
    Receiver = {h1, h2}
    NoWork = NoWork
    MaxTimeout = 2
    SRunner <- MCSRunner
    SWork <- MCSWork
    MaxPool = 3
    PRunner = {1}
    PWork = {"pooled", "open"}
    WorkView <- MCWorkView
    PIdentity <- MCIdentities
    PRequest = {1, 2}
    PStale = 1
    NoIdentity = NoIdentity
    NoRab = NoRab
    NoGrant = NoGrant
    Unsent = Unsent
SYMMETRY RequestSymmetry
INVARIANTS
    OneWorkPerKey
    RetryIsRecognized
    AnsweredIsQueued
    SelectIgnoresOrder
    LeaseWasEarned
CHECK_DEADLOCK FALSE
