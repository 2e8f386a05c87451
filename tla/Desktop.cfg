SPECIFICATION DesktopSpec
CONSTANTS
    MaxFailedAttempts = 1
    PermanentLockout = 2
    MaxSessions = 2
    MaxInFlight = 2
INVARIANTS DesktopTypeOK UnlockedNeedsPin WrongPinsBounded
PROPERTIES EndedSessionsDoNothing LockOkMeansDead DeadSessionIsNoticed
