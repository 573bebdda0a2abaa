SPECIFICATION Spec
CONSTANTS
    Torn = Torn
    Publishers = {p1, p2, p3}
    Size = 2
    Platforms = {FALSE, TRUE}
INVARIANTS
    ReportedIsDurable
    TargetIsFlushedWhole
    WriteThroughKeepsPrevious
PROPERTIES
    ImplementsPublishedDocument
CHECK_DEADLOCK FALSE
