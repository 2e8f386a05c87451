SPECIFICATION Spec
CONSTANTS
    Swaps = {a, b}
    NoSwap = none
    MaxEvents = 2
    MaxInstances = 2
    MaxRequests = 3
INVARIANTS TypeOK StreamSkipsNothing
PROPERTY EventsArrive
