SPECIFICATION Spec
CONSTANTS
    MaxSwitches = 1
    MaxRequests = 4
    MaxHandlers = 2
INVARIANT ListIsOfActiveChain
