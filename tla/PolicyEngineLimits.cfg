\* Only the engine moves far: no drafts, a watcher without writes, one writer.
SPECIFICATION AllSpec
CONSTANTS
    Methods = {"get", "post"}
    Urls = {"chat", "files"}
    Fields = {"model", "user"}
    HeaderNames = {"team"}
    Values = {"big", "small", "tree"}
    Scalars = {"big", "small"}
    Patterns = {"all", "chats"}
    NoPattern = "none"
    Covers <- MCCovers
    Specificity <- MCSpecificity
    Absent = "absent"
    NoBody = NoBody
    Garbled = Garbled
    NoField = "none"
    FieldOrder <- MCFieldOrder
    Always = Always
    Day = 4
    Window = 1
    MaxTime = 3
    NoPolicy = NoPolicy
    NoCall = NoCall
    Requests <- MCRequests
    Merged <- Limited
    Locals <- MCLocals
    Reloads <- MCReloads
    LimitOrder <- LooserFirst
    WatcherKinds = {"switch"}
    Slots = {1}
    MaxWrites = 0
    MaxStarts = 0
    NoFile = NoFile
    None = None
    Writers = {"this process"}
    MaxVersion = 1
    MaxFaults = 0
    MaxPowerFailures = 0
    MaxKeys = 0
    MaxIoFaults = 0
    MaxOutages = 0
    Star = "all"
    Drafts = {}
INVARIANT RestrictiveLimitFirst
\* A writer that has saved everything is at rest.
CHECK_DEADLOCK FALSE
