SPECIFICATION FleetSpec
CONSTANTS
    n1 = n1
    n2 = n2
    Work = {w1}
    Node = {n1}
    Mission = {}
    MaxAttempts = 2
    MaxLeases = 2
    BatchLimit = 1
    Worker = {k1}
    Needs <- NoNeeds
    NoLease = NoLease
    Faults = {}
    MaxFaults = 0
INVARIANT KillNeverPanics
CHECK_DEADLOCK FALSE
