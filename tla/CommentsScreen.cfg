SPECIFICATION CommentsSpec
CONSTANTS
    Keys = {c1, c2}
    c1 = c1
    Top = Top
    Leaf = Leaf
    None = None
    Empty = Empty
    Slashes = Slashes
    Numerals = {c2}
    InitialLists <- MCInitialLists
    MaxCalls = 3
    MaxFaults = 1
    MaxRemote = 1
INVARIANTS RTypeOK EmptyNeverSubmitted WritesAccounted
PROPERTIES AckIsInvisible SettledInOrder Compensates ScreenSettles
CHECK_DEADLOCK FALSE
