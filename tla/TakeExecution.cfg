SPECIFICATION FairSpec
CONSTANTS
    Take = take
    PostRuns = {inspection1, inspection2}
    Playbacks = {"natural_end", "cancelled", "failed"}
    None = none
    Visible = TRUE
    Interruptible = FALSE
    MaxMessages = 4
    MaxInFlight = 1
INVARIANTS
    TakeIsTruthful
PROPERTIES
    PublishedResultsStay
    TakeMovesOn
CHECK_DEADLOCK FALSE
