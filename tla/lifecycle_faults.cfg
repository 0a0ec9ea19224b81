\* Deletes, health tasks, cancelled callers, kills that fail and late close events.
SPECIFICATION Spec
CONSTANTS
    Clients = {c1, c2, c3}
    Browsers = {b1, b2}
    NoBrowser = NoBrowser
    Ops = {"launch", "close", "delete", "cancel"}
    Proxied = TRUE
    Ephemeral = TRUE
    KillMayFail = TRUE
    PromptEvents = FALSE
SYMMETRY Symmetry
INVARIANTS MutualExclusion LaunchingIsHeld DirectoryInUse
PROPERTY ImplementsSlot
