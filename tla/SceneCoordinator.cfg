SPECIFICATION SceneSpec
CONSTANTS
    MaxLevels = 4
    MaxDepth = 4
    SwipeDismiss = TRUE
INVARIANTS SceneTypeOK CurrentOnTopLevel
CHECK_DEADLOCK FALSE
PROPERTY PushShowsOnTop
