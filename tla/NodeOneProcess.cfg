SPECIFICATION Spec
CONSTANTS
    Callers = {c1, c2}
    Processes = {p1, p2}
    NoProcess = none
    MaxAttempts = 2
    Window = 4
    BaseBackoff = 1
    MaxBackoff = 2
INVARIANT OneProcess
