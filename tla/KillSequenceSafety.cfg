SPECIFICATION Spec
CONSTANTS
    d1 = d1
    r1 = r1
    Callers = {a1, a2}
    Targets = {d1}
    SnapIds = {s1, s2}
    NoSnapshot = NoSnapshot
    Provider <- MCOnCloudSQL
    ActionLists <- MCSafeLists
    StaleStep = 1
    Retention = 2
    MaxTime = 3
    LastCrash = 3
    MayOverrun = TRUE
    MayAbortInFlight = TRUE
SYMMETRY MCSymmetry
INVARIANTS
    NukedWithVerifiedSnapshot
    IsolatedOnlyWithBackup
    StepsMatchProgress
PROPERTY QuietAbortIsFinal
CHECK_DEADLOCK FALSE
