\* Each part in behaviours of its own; they end when all calls are made.
SPECIFICATION MCSpec
CONSTANTS
    Devices = {d1, d2}
    Archives = {a1, a2}
    None = None
    MaxRestarts = 2
    Ids = {p1}
    FreshIds = {n1, n2}
    Versions = {1, 2}
    MaxCopies = 1
    AccountIds = {"a", "b"}
    Stores <- MCStores
    Others <- MCOthers
    Race <- MCRace
    Keys <- MCKeys
    Calls = {1, 2}
    Views = {v1}
    MaxClock = 2
    MaxKills = 1
    Peers = {"x"}
    Requests = {1, 2, 3, 4}
    Workers = 2
    Quota <- MCQuota
    Window = 2
    MaxTicks = 2
    EngineVersions = {1481, 1482, 1491}
INVARIANTS
    OutStaysOut
    ListMatchesDownload
    FilesAreNotTrusted
    RestoredIsWhole
    NoAccountLost
    LimitIsBounded
    IdentityIsCoherent
PROPERTIES
    CooldownsSurvive
CHECK_DEADLOCK FALSE
