SPECIFICATION HeartbeatSpec
CONSTANTS
    n1 = n1
    n2 = n2
    Work = {w1}
    Node = {n1, n2}
    Mission = {w1}
    MaxAttempts = 2
    MaxLeases = 2
    BatchLimit = 1
    Worker = {k1, k2}
    Needs <- Chain
    NoLease = NoLease
    Faults = {"lost_claim", "lost_beat", "lost_report", "crash_running", "crash_reporting", "sigterm", "docker", "handler"}
    MaxFaults = 1
INVARIANTS
    SuccessIsReal
    NeedsFirst
PROPERTIES
    LostLeaseKillsShell
CHECK_DEADLOCK FALSE
