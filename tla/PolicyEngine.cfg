SPECIFICATION AllSpec
CONSTANTS
    Methods = {"get", "post"}
    Urls = {"chat", "files"}
    Fields = {"model", "user"}
    HeaderNames = {"team"}
    Values = {"big", "small", "tree"}
    Scalars = {"big", "small"}
    Patterns = {"all", "chats"}
    NoPattern = "none"
    Covers <- MCCovers
    Specificity <- MCSpecificity
    Absent = "absent"
    NoBody = NoBody
    Garbled = Garbled
    NoField = "none"
    FieldOrder <- MCFieldOrder
    Always = Always
    Day = 4
    Window = 1
    MaxTime = 3
    NoPolicy = NoPolicy
    NoCall = NoCall
    Requests <- MCRequests
    Merged <- MCMerged
    Locals <- MCLocals
    Reloads <- MCReloads
    LimitOrder <- OneLimit
    WatcherKinds = {"policy", "switch"}
    Slots = {1, 2}
    MaxWrites = 1
    MaxStarts = 2
    NoFile = NoFile
    None = None
    Writers = {"this process", "another"}
    MaxVersion = 2
    MaxFaults = 1
    MaxPowerFailures = 1
    MaxKeys = 3
    MaxIoFaults = 1
    MaxOutages = 1
    Star = "all"
    Drafts <- MCDrafts
INVARIANT AllTypeOK
INVARIANT GuardrailsHold
INVARIANT GarblingNeverHelps
INVARIANT DryRunPredicts
INVARIANT PoliciesMeanWhatTheySay
PROPERTY StragglersCatchUp
PROPERTY FilesKept
\* Two writers that have saved everything, their faults used up, are at rest.
CHECK_DEADLOCK FALSE
