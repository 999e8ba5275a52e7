SPECIFICATION Spec
CONSTANTS
    Payload = {device, plain}
    CascadePayload = device
    Aware = {}
    Request = {r1, r2}
    Key = {k1, k2}
    NoKey = NoKey
    MaxPauses = 2
INVARIANT ResumesWhatWasApproved
CHECK_DEADLOCK FALSE
