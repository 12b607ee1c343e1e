SPECIFICATION FairSpec
CONSTANTS
    Confs <- MCConfs
    Used = {"api", "llama3", "llama4"}
    DataSet <- MCDataSet
    Plain <- MCPlain
    Cooldown = 1
    Manual = 1
    Faults = 2
PROPERTIES
    BreachIsTold
    BreachIsCut
