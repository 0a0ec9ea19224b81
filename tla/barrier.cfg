SPECIFICATION FairSpec
CONSTANTS
    Pages = {p1, p2}
    Requests = {r1, r2}
    Origins = {o1}
    NoPage = NoPage
    Patch = TRUE
CHECK_DEADLOCK FALSE
INVARIANTS
    OverridesFirst
    NothingAfterFailure
PROPERTIES
    PageRequestsEnd
    FailureCloses
