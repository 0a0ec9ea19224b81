SPECIFICATION MCSpec
CONSTANTS
    InstalledMajor = 139
    HostOS = "Windows"
    OpinionScores <- MCOpinionScores
    Callers = {c1, c2}
    Slots = 1
    MaxAttempts = 2
    KeyCount = 3
    RaceSize = 2
    ModelCount = 2
    Approved = {2}
    ZenAnswers <- MCZenAnswers
INVARIANTS
    RequestsAreOwned
    NoSevereLeakAccepted
    ModeIsAsAsked
    AcceptedIsLaunchable
    CommandLineKeepsPromises
PROPERTIES
    CreationsEnd
CHECK_DEADLOCK FALSE
