SPECIFICATION MCSpec
CONSTANTS
    MaxTakes = 2
    MaxControls = 2
    MaxEvents = 4
INVARIANTS
    PlaybackFollowsEvents
    FirstStopIsKept
    ControlsAccounted
    TerminalsAreTrue
    TraceIsExact
PROPERTIES
    ConfirmedNeverChanges
CHECK_DEADLOCK FALSE
