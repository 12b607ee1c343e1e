SPECIFICATION FairSpec
CONSTANTS
    d1 = d1
    r1 = r1
    Callers = {a1, a2}
    Targets = {d1, r1}
    SnapIds = {s1, s2}
    NoSnapshot = NoSnapshot
    Provider <- MCMixed
    ActionLists <- MCProtocolLists
    StaleStep = 1
    Retention = 1
    MaxTime = 2
    LastCrash = 0
    MayOverrun = FALSE
    MayAbortInFlight = FALSE
PROPERTIES
    ImplementsProtocol
    SequenceSettles
CHECK_DEADLOCK FALSE
