\* Two policies with two contents, so that one can come back under a new version; a
\* price table; a clock on which a bundle ages past its maximum; a fault of each kind.
\* A rejected API key ends the thread for good.
CHECK_DEADLOCK FALSE
SPECIFICATION FairSpec
CONSTANTS
    None = None
    Yamls = {"a", "b"}
    Bootstraps = {"yes", "no"}
    MaxPolicies = 2
    MaxPrices = 1
    MaxKills = 1
    MaxTime = 1
    MaxAge = 0
    MaxIncidents = 1
    MaxPersistFailures = 1
    MaxLags = 1
INVARIANT
    TypeOK
PROPERTIES
    SpansRestartsOnceRestored
    ObeysControlPlane
