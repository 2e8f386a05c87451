SPECIFICATION FairSpec
CONSTANTS
    Callers = {c1, c2}
    Processes = {p1, p2}
    NoProcess = none
    MaxAttempts = 2
    Window = 4
    BaseBackoff = 1
    MaxBackoff = 2
INVARIANTS
    TypeOK
    NoProcessIsLost
    AttemptsAreCounted
PROPERTY WantedNodeRuns
