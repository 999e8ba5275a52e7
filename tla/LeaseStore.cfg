SPECIFICATION Spec
CONSTANTS
    Work = {w1}
    Node = {n1, n2}
    Mission = {w1}
    MaxAttempts = 2
    MaxLeases = 3
    BatchLimit = 1
SYMMETRY NodeSymmetry
INVARIANTS
    OneActiveLease
PROPERTIES
    SettledStaysSettled
    PauseEndsByResume
    ImplementsLifecycle
CHECK_DEADLOCK FALSE
