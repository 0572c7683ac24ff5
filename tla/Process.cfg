\* With watchdog and no file event, both threads of a watcher wait; a stopped
\* receiver is at rest.
CHECK_DEADLOCK FALSE
SPECIFICATION AllSpec
CONSTANTS
    worker = worker
    flusher = flusher
    receiver = receiver
    Clients <- MCClients
    Receivers <- MCReceivers
    FailureThreshold = 3
    ResetAfter = 3
    NoFile = NoFile
    Backends <- Both
    MaxWrites = 2
    MaxBackdated = 1
    MaxChanges = 4
    MaxFailures = 1
    MaxRemote = 1
    MaxStarts = 2
    MaxStops = 2
    MaxForks = 1
INVARIANTS
    AllTypeOK
    FieldsAgree
    RefusalBounded
PROPERTIES
    BreakerRecovers
    ThreadsFollow
