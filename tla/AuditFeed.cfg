CONSTANTS
    Request = {r1, r2}
    Fails = TRUE
    Nothing = Nothing
    Event <- Events
    Filter <- Filters
    Limit = 1
    MaxLog = 3

SPECIFICATION FairSpec
CHECK_DEADLOCK FALSE

INVARIANTS
    TypeOK
    SettledFeedMatches

PROPERTIES
    FeedConverges
