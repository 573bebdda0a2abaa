SPECIFICATION MCSpec
CONSTANTS
    Takes = 2
    ResponseDeadline = 1
    WaitDeadline = 3
    NoProgress = 2
    MaxFrames = 1
    MaxTime = 3
INVARIANTS
    RunsAreSupervised
    ConsumedIsValidated
    ShownIsTheLastRequest
    EvidenceIsExact
    MessagesAreTrue
PROPERTIES
    LateAnswersDoNotRescue
CHECK_DEADLOCK FALSE
