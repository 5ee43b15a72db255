SPECIFICATION FairPersonSpec
CONSTANTS
    Ids = {1, 2, 4, 5}
    Garbled = {4}
    PageSize = 4
    MaxInt64 = 9
    NoRequest = NoRequest
    NoReply = NoReply
    CursorSent = FALSE
    MaxRows = 7
INVARIANTS PTypeOK CursorBrackets RowsAreDelivered OlderShownAsOften
PROPERTY TitleSettles
