\* The tap: streams of three lines, a limit of two; the tee: one line of which
\* more comes than its limit of three.
SPECIFICATION AllSpec
CONSTANTS
    a = a
    b = b
    c = c
    Keys <- MCKeys
    Limit <- MCLimit
    Window = 2
    MaxKeys = 2
    Skew = 1
    MaxTime = 5
    Names = {"a", "b", ""}
    Blank = ""
    One = "*"
    Many = "**"
    MaxPattern = 4
    MaxText = 4
    Patterns <- MCPatterns
    Texts <- MCTexts
    Requests = {r1, r2}
    Capacities = {0, 1, 2}
    MaxLines = 3
    TapLimit = 2
    FrameLimit = 1
    EventLimit = 3
    SecondThread = TRUE
    AppThreads = {t1, t2}
    MaxInits = 2
    MaxShutdowns = 1
    Nobody = Nobody
    MaxJsInits = 2
    MaxJsShutdowns = 2
    WorkerRequests = {q1, q2}
    Envs = {"e1", "e2"}
    MaxPatchCalls = 4
    None = None
    Vendors = {"p", "q"}
    Models = {"m1", "m2"}
    ModelPatterns = {"m*", "*1", "m1"}
    Covers <- MCCovers
    Literals <- MCLiterals
    Catalogues <- MCCatalogues
    Usages <- MCUsages
    TokensPerUnit = 4
    MaxInt = 6
INVARIANTS
    AllTypeOK
    SlidingWindow
    DenialJustified
    FindsMatch
    ParsingKeepsMeaning
    RequestsReported
    TapsHonest
    NothingLeftBehind
PROPERTIES
    OnlyOldestForgotten
    Advances
    RequestsGated
    PricedRight
\* The matcher returns, the requests and the streams end, and all calls of init() and
\* instrument() are made.
CHECK_DEADLOCK FALSE
