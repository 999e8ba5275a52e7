SPECIFICATION LiveSpec
CONSTANTS
    n1 = n1
    n2 = n2
    Work = {w1}
    Node = {n1, n2}
    Mission = {}
    MaxAttempts = 3
    MaxLeases = 4
    BatchLimit = 1
    Worker = {k1, k2}
    Needs <- Chain
    NoLease = NoLease
    Faults = {"lost_claim", "lost_beat", "crash_running", "sigterm"}
    MaxFaults = 1
PROPERTIES
    QueuedWorkEnds
CHECK_DEADLOCK FALSE
