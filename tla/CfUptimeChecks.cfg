SPECIFICATION FairSpec
CONSTANTS
    Period = 5
    HeavyTicks = {0}
    Threshold = 3
    Cooldown = 2
PROPERTIES
    PageIsEarned
    OutageIsPaged
