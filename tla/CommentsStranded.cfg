SPECIFICATION CommentsSpec
CONSTANTS
    Keys = {c1}
    c1 = c1
    Top = Top
    Leaf = Leaf
    None = None
    Empty = Empty
    Slashes = Slashes
    Numerals = {}
    InitialLists <- MCInitialLists
    MaxCalls = 4
    MaxFaults = 1
    MaxRemote = 0
INVARIANT VisibleIsLayered
CHECK_DEADLOCK FALSE
