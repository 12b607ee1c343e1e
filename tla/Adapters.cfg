SPECIFICATION FairSpec
CONSTANTS
    Targets <- Kinds
    Actions = {"disconnect", "delete", "scale-down", "isolate", "pause-zone", "stop-instances", "terminate-instances", "set-quota", "disable-service", "disable-billing", "throttle-lambda", "deny-bucket-policy", "terminate-pod", "flush-redis", "pause-cluster"}
    Configs <- SomeConfigs
    Usages = {"critical"}
    MaxFaults = 1
    MaxRestarts = 1
    MaxCalls = 1
    MaxMail = 1
INVARIANTS
    SuccessIsReal
    NoDataLostInVain
    BlindIsLoud
PROPERTIES
    BreachIsStopped
CHECK_DEADLOCK FALSE
