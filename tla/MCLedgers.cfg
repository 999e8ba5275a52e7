SPECIFICATION MCSpec
CONSTANTS
    Payload = {device, plain, aware}
    CascadePayload = device
    Aware = {aware}
    Request = {r1, r2}
    Key = {k1, k2}
    NoKey = NoKey
    MaxPauses = 2
    DispatchKey = {x1}
    Cause = {a1, a2}
    Caller = {p1, p2}
    Ctx = {i1, i2}
    WorkRef = {w1, w2}
    WorkerLease = {l1}
    Worker = {n1, n2}
    Subject = {s1, s2}
    Verifier = {a1, a2}
    Epochs = {0, 1}
    Ceiling = 1
    None = None
SYMMETRY Symmetric
INVARIANTS
    OneResumePerPause
    ReplayIsReadBack
    VerifiedIndependently
CHECK_DEADLOCK FALSE
