SPECIFICATION Spec
CONSTANTS
    SwapIds = {s1}
    Callers = {c1, c2}
    NoHandle = NoHandle
    NotLogged = NotLogged
INVARIANTS
    AuditStartsWithCreate
