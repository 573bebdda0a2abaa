SPECIFICATION Spec
CONSTANTS
    Buttons = {a}
    MaxLaunches = 2
    MaxFrames = 1
    MaxSeconds = 0
    MaxEvents = 4
INVARIANTS
    PackIsTheOneAskedFor
    KeptIsRecoverable
PROPERTIES
    HeldButtonsDoNotLeak
CHECK_DEADLOCK FALSE
