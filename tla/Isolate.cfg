\* Only the isolate moves, with two requests; the constants of the parts at rest are small.
SPECIFICATION ServingSpec
CONSTANTS
    a = a
    b = b
    c = c
    Keys <- MCKeys
    Limit <- MCLimit
    Window = 2
    MaxKeys = 2
    Skew = 1
    MaxTime = 5
    Names = {"a", "b", ""}
    Blank = ""
    One = "*"
    Many = "**"
    MaxPattern = 1
    MaxText = 1
    Patterns <- MCPatterns
    Texts <- MCTexts
    Requests = {r1}
    Capacities = {0}
    MaxLines = 1
    TapLimit = 2
    FrameLimit = 1
    EventLimit = 3
    SecondThread = FALSE
    AppThreads = {t1}
    MaxInits = 2
    MaxShutdowns = 1
    Nobody = Nobody
    MaxJsInits = 2
    MaxJsShutdowns = 2
    WorkerRequests = {q1, q2}
    Envs = {"e1"}
    MaxPatchCalls = 4
    None = None
    Vendors = {"p", "q"}
    Models = {"m1", "m2"}
    ModelPatterns = {"m*", "*1", "m1"}
    Covers <- MCCovers
    Literals <- MCLiterals
    Catalogues <- MCCatalogues
    Usages <- MCUsages
    TokensPerUnit = 4
    MaxInt = 6
INVARIANT RequestsServed
\* The last request is answered and the last shutdown done.
CHECK_DEADLOCK FALSE
