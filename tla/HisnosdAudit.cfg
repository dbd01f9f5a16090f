SPECIFICATION Spec
CONSTANTS
    Clients = {c1}
    Commands = {"set_mode", "start_lab", "stop_lab", "reload_firewall", "prepare_update", "start_gaming", "stop_gaming"}
    SetModes = {"normal"}
    Escalators = {"watchdog", "healer"}
    Mortal = {"logd"}
    Scores = {0}
    BufSize = 1
    MaxCrashes = 1
    PersistMayFail = FALSE
    MaxEnv = 1
    MaxRequests = 2
    MaxRestarts = 1
INVARIANTS TypeOK AuditLossNoticed ObservedSafeModeIsDurable
CHECK_DEADLOCK FALSE
