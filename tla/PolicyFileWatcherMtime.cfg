\* Three writes, well-formed or not: enough for one in every gap of a poll.
SPECIFICATION Spec
CONSTANTS
    NoFile = NoFile
    Backends = {"poll"}
    MaxWrites = 3
    MaxBackdated = 1
INVARIANT
    MtimeMatchesInstalled
