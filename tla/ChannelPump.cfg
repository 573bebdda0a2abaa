SPECIFICATION FairSpec
CONSTANTS
    Sizes = {1, 3}
    MaxQueued = 3
    PipeCapacity = 2
    MaxMessages = 4
    Platforms = {FALSE, TRUE}
INVARIANTS
    QueueIsFaithful
PROPERTIES
    NobodyIsStuck
CHECK_DEADLOCK FALSE
