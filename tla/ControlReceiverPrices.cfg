\* A rejected API key ends the thread for good.
CHECK_DEADLOCK FALSE
SPECIFICATION FairSpec
CONSTANTS
    None = None
    Yamls = {"a", "b"}
    Bootstraps = {"yes"}
    MaxPolicies = 0
    MaxPrices = 1
    MaxKills = 0
    MaxTime = 0
    MaxAge = 0
    MaxIncidents = 1
    MaxPersistFailures = 0
    MaxLags = 0
PROPERTY
    PricesAgree
