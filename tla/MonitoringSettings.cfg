SPECIFICATION FairSpec
CONSTANTS
    a1 = a1
    s1 = s1
    s2 = s2
    v1 = v1
    v2 = v2
    q1 = q1
    r1 = r1
    g1 = g1
    c1 = c1
    m1 = m1
    Accounts = {a1}
    Managed = {a1}
    Services = {s1, s2}
    Signals = {v1, v2, q1}
    Violations = {v1, v2}
    UsageLevels <- MCUsageLevels
    ServiceOf <- MCServiceOf
    Category <- MCCategory
    Critical = {v1}
    Configs <- MCConfigs
    Rules = {r1}
    RuleOf <- MCPause
    Texts <- MCTexts
    ChannelStates = {"none", "mute", "heard"}
    AgentRules = {g1}
    AgentTarget <- MCAgentTarget
    Crons = {c1}
    Manuals = {}
    Interval = 1
    RuleCooldown = 2
    AlertCooldown = 2
    MayDegrade = TRUE
    MaxCrashes = 1
    MaxEdits = 1
INVARIANT ProductionStands
PROPERTIES
    BreachIsActedOn
    PreflightForetells
    RuleKeepsFiring
    BreachIsReported
