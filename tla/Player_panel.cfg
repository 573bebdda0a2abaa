SPECIFICATION Spec
CONSTANTS
    Buttons = {a}
    MaxLaunches = 2
    MaxFrames = 1
    MaxSeconds = 0
    MaxEvents = 3
PROPERTIES
    PanelEditsAreSaved
CHECK_DEADLOCK FALSE
