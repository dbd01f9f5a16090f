SPECIFICATION MCSpec
CONSTANTS
    MaxFaults = 1
    MaxKills = 2
    Blocked = {"safe-mode"}
INVARIANTS TypeOK SessionsLeaveNothing CrashesAreCleanedUp
PROPERTIES BlockedEndsGaming RecordIsCleared
