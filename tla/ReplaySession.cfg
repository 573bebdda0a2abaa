SPECIFICATION Spec
CONSTANTS
    Frames = 3
    Interval = 2
    Capacity = 1
    BatchCapacity = 2
    MaxInputs = 3
    MaxFaults = 1
INVARIANTS
    LinearMeansHeardInOrder
    SessionIsCoherent
PROPERTIES
    CancelEnds
CHECK_DEADLOCK FALSE
