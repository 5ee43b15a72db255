SPECIFICATION AppSpec
CONSTANTS
    Seeds = 1
    MaxTasks = 2
    WritesMayFail = FALSE
    MaxLevels = 2
    MaxDepth = 2
    SwipeDismiss = TRUE
    None = None
INVARIANT NoPushCrash
