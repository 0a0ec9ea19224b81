\* Saves and directory operations that fail, a worker thread, one crash.
SPECIFICATION Spec
CONSTANTS
    Profiles = {p1, p2}
    None = None
    MaxCrashes = 1
SYMMETRY Symmetry
INVARIANTS ListedSurvivesRestart RolledBackLeavesNothing KnownHasData
PROPERTY FailedDeleteKeepsData
CHECK_DEADLOCK FALSE
