SPECIFICATION Spec
CONSTANTS
    Approvals = {a1, a2}
    Handlers = {h1, h2}
    KeyIds = {k1, k2}
    NoKey = NoKey
    Nobody = Nobody
    Ttl = 2
    Interval = 1
    LastStart = 1
    MaxTime = 4
INVARIANT KeyNotLost
PROPERTY QuietDenialIsFinal
CHECK_DEADLOCK FALSE
