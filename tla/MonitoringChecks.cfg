SPECIFICATION Spec
CONSTANTS
    a1 = a1
    s1 = s1
    s2 = s2
    v1 = v1
    v2 = v2
    q1 = q1
    r1 = r1
    g1 = g1
    c1 = c1
    m1 = m1
    Accounts = {a1}
    Managed = {a1}
    Services = {s1, s2}
    Signals = {v1, v2, q1}
    Violations = {v1, v2}
    UsageLevels <- MCBreached
    ServiceOf <- MCServiceOf
    Category <- MCCategory
    Critical = {v1}
    Configs <- MCDefaults
    Rules = {r1}
    RuleOf <- MCPause
    Texts <- MCEmptied
    ChannelStates = {"none", "heard"}
    AgentRules = {}
    AgentTarget <- MCAgentTarget
    Crons = {c1}
    Manuals = {m1}
    Interval = 1
    RuleCooldown = 1
    AlertCooldown = 1
    MayDegrade = FALSE
    MaxCrashes = 1
    MaxEdits = 0
PROPERTIES
    RuleCooldownInTurn
    AlertsNotRepeated
    NoSilentBreach
