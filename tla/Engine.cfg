SPECIFICATION Spec
CONSTANTS
    SwapIds = {s1}
    Callers = {c1, c2, c3}
    NoHandle = NoHandle
    NotLogged = NotLogged
SYMMETRY CallerSymmetry
INVARIANTS
    TypeOK
    LogReplaysToRow
    HandlesAreHistory
    IntentOnceLocked
    OneWinnerPerVersion
PROPERTIES
    NoBlindTransition
    ImplementsLifecycle
