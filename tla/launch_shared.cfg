SPECIFICATION Spec
CONSTANTS
    t1 = t1
    t2 = t2
    p1 = p1
    p2 = p2
    Tasks = {t1, t2}
    Proxies = {p1, p2}
    NoProxy = NoProxy
    None = None
    Versions = {148, 149}
    Assumed = 149
    Cooldown = 1
    DeadAfter = 1
    FailCap = 1
    Changing = {"driver"}
    Configured <- MCConfigured
    Installed <- MCInstalled
INVARIANTS
    NeverDirect
    OneProbe
    WaitersAreServed
