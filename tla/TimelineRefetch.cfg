SPECIFICATION FairSpec
CONSTANTS
    Ids = {1, 2, 4}
    Garbled = {}
    PageSize = 3
    MaxInt64 = 9
    CursorSent = TRUE
    NoRequest = NoRequest
    NoReply = NoReply
PROPERTY NewTweetsArrive
