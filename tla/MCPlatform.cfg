SPECIFICATION Spec
CONSTANTS
    r1 = r1
    r2 = r2
INVARIANTS
    PlayedIsPrepared
    FilesAreKept
    HandlesAreLive
PROPERTIES
    AnswersComeBack
CHECK_DEADLOCK FALSE
