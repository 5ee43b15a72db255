SPECIFICATION FairAppSpec
CONSTANTS
    Seeds = 2
    MaxTasks = 4
    WritesMayFail = TRUE
    MaxLevels = 2
    MaxDepth = 2
    SwipeDismiss = TRUE
    None = None
INVARIANTS AppTypeOK EditedTaskLives NotifiedIsExact UidsFollowAge CurrentOnScreen
PROPERTY CreatingEnds
CHECK_DEADLOCK FALSE
