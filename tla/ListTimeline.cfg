SPECIFICATION FairListSpec
CONSTANTS
    Ids = {1, 2, 4, 5, 7, 8}
    Garbled = {4}
    PageSize = 3
    MaxInt64 = 12
    NoRequest = NoRequest
    NoReply = NoReply
    CursorSent = TRUE
    IsLocal = FALSE
INVARIANTS LTypeOK CursorBrackets ReplyBrackets RequestIsCurrent OnlyPublished FetchNeedsAccount RealmHolds
PROPERTIES OnePagePerFetcher RealmFrozen StoredIsShown ListFills
