\* Launches and closes, no proxy, no delete, kills succeed.
SPECIFICATION FairSpec
CONSTANTS
    Clients = {c1, c2, c3}
    Browsers = {b1, b2}
    NoBrowser = NoBrowser
    Ops = {"launch", "close"}
    Proxied = FALSE
    Ephemeral = TRUE
    KillMayFail = FALSE
    PromptEvents = TRUE
INVARIANTS NoOrphan
PROPERTY CallsReturn
