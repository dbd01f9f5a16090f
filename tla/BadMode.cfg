SPECIFICATION Spec
CONSTANTS
    MaxFaults = 0
    MaxKills = 0
    Blocked = {"safe-mode"}
PROPERTIES BlockedModeIsLeftAlone
