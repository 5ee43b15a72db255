SPECIFICATION FairListSpec
CONSTANTS
    Ids = {1, 2}
    Garbled = {}
    PageSize = 2
    MaxInt64 = 9
    NoRequest = NoRequest
    NoReply = NoReply
    CursorSent = TRUE
    IsLocal = FALSE
PROPERTY FetchedIsStored
