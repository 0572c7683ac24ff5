\* A rejected API key ends the thread for good.
CHECK_DEADLOCK FALSE
SPECIFICATION Spec
CONSTANTS
    None = None
    Yamls = {"a", "b"}
    Bootstraps = {"yes"}
    MaxPolicies = 2
    MaxPrices = 0
    MaxKills = 0
    MaxTime = 0
    MaxAge = 0
    MaxIncidents = 1
    MaxPersistFailures = 0
    MaxLags = 1
PROPERTY
    SpansRestarts
