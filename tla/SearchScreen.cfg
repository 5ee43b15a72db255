SPECIFICATION FairSearchSpec
CONSTANTS
    Texts = {Empty, t1, t2}
    Empty = Empty
    NoText = NoText
    NoUser = NoUser
    MaxQueries = 4
    MaxFound = 2
INVARIANT SearchTypeOK
PROPERTIES ResultsInOrder ProfileIsTapped LastQueryShown
CHECK_DEADLOCK FALSE
