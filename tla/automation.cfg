SPECIFICATION Spec
CONSTANTS
    Warmings = {w1, w2}
    Runs = {r1}
    User = User
    Nobody = Nobody
    Profiles = {p1, p2}
    MaxConcurrent = 1
    Loops = {l1, l2}
    WarmupBound = 1
    Rotator = Rotator
    Other = Other
    None = None
    Jobs = {j1, j2}
    Editors = {e1, e2}
    Seconds = 2
INVARIANTS
    NothingLeftBehind
    SessionsAreBounded
    OncePerMinute
PROPERTIES
    WarmingsEnd
    StopEnds
