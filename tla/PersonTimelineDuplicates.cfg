SPECIFICATION PersonSpec
CONSTANTS
    Ids = {1, 2}
    Garbled = {}
    PageSize = 2
    MaxInt64 = 9
    NoRequest = NoRequest
    NoReply = NoReply
    CursorSent = FALSE
    MaxRows = 3
INVARIANT RowsUnique
