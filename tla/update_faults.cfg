\* Operations that raise, files that cannot be removed, one crash.
SPECIFICATION Spec
CONSTANTS
    Versions = {v1, v2}
    First = v1
    None = None
    AutoUpdate = FALSE
    MaxCalls = 3
    MaxCrashes = 1
INVARIANTS OnlySignedOnDisk SourceSurvives AppliedMeansInstalled UndoneMeansRestored
CHECK_DEADLOCK FALSE
