SPECIFICATION Spec
CONSTANTS
    Checks = {r1, r2}
    Restores = {q1}
    Domains = {d1}
    Routes = {z1}
    AutoDisconnect = TRUE
    Protected = FALSE
    Levels = {"ok", "alert", "kill"}
INVARIANTS
    NothingLostInTurn
    QuietIsWhole
    KilledIsOffline
CHECK_DEADLOCK FALSE
