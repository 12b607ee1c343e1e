SPECIFICATION Spec
CONSTANTS
    h1 = h1
    h2 = h2
    q1 = q1
    q2 = q2
    f1 = f1
    f2 = f2
    Hooks = {h1, h2}
    Requests = {q1, q2}
    Refreshes = {f1, f2}
    Casts <- MCCasts
    Budgets <- MCBudgets
    FirstBudget <- MCFirstBudget
    Readings <- MCReadings
    Day = 2
    FiveHours = 2
    StaleAfter = 1
    Window = 4
    Throttle = 1
    Extras = 2
    BackoffMax = 2
    RetryAfters = {0, 2, 3}
    MaxEvents = 1
INVARIANTS
    LedgerIsTrueInTurn
    OvershootIsBounded
    PaceIsJudged
PROPERTIES
    WallStands
    RetryAfterIsHonoured
CHECK_DEADLOCK FALSE
