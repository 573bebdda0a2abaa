SPECIFICATION StreamFairSpec
CONSTANTS
    Slots = 2
    FactCapacity = 1
    BurstProducer = 1
    BurstFactCapacity = 2
    PcmLane = 2
    BatchCapacity = 3
    MessageFacts = 2
    PcmBatch = 2
    DrainRun = 2
    MaxFacts = 3
    MaxBlocks = 2
    MaxPauses = 1
    MaxFaults = 1
INVARIANTS
    StreamIsFaithful
PROPERTIES
    PublishedIsConsumed
CHECK_DEADLOCK FALSE
