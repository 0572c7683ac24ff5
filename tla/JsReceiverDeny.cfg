\* One receiver that never starts twice, with the default loader, and three changes
\* at the control plane: a policy, its deactivation, its republication.
SPECIFICATION FairSpec
CONSTANTS
    None = None
    Contents = {1}
    Loaders = {"sync"}
    MaxStarts = 1
    MaxPolls = 0
    MaxMoves = 4
PROPERTIES
    DenySuperseded
\* A stopped receiver is at rest.
CHECK_DEADLOCK FALSE
