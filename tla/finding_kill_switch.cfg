\* The health task closes its own browser; the driver answers every call.
SPECIFICATION AnsweredSpec
CONSTANTS
    Clients = {c1}
    Browsers = {b1}
    NoBrowser = NoBrowser
    Ops = {"launch"}
    Proxied = TRUE
    Ephemeral = FALSE
    KillMayFail = FALSE
    PromptEvents = TRUE
PROPERTY ClosingStopsBrowser
