\* Each cast allows a few requests, after which nothing need happen.
CHECK_DEADLOCK FALSE
SPECIFICATION Spec
CONSTANTS
    ann = ann
    bob = bob
    Users = {ann, bob}
    Spaces = {1, 2, 3}
    Clouds = {1, 2, 3, 4}
    Creds = {1, 2, 3, 4, 5}
    Invites = {1, 2}
    Subs = {1, 2}
    Workers = {w1, w2}
    CloudLimit <- MCCloudLimit
    SeatLimit <- MCSeatLimit
    ChannelLimit <- MCChannelLimit
    Thresholds = {1, 2}
    Casts <- MCCasts
INVARIANTS
    TierFollowsSubscription
    DowngradeKeepsOldest
    CredentialsMatch
    NothingLeftBehind
    SeatsAreInvited
    ActiveOrgIsMine
    BudgetAlertsOnce
    ClicksStayHome
