SPECIFICATION Spec
CONSTANTS
    Clients = {c1}
    Commands = {"set_mode", "reload_firewall", "lock_vault"}
    SetModes = {"normal"}
    Escalators = {}
    Mortal = {"logd"}
    Scores = {0, 8}
    BufSize = 2
    MaxCrashes = 1
    PersistMayFail = FALSE
    MaxEnv = 1
    MaxRequests = 1
    MaxRestarts = 1
PROPERTIES AuditLossLeadsToSafeMode ViewConverges PolicyQuiesces
CHECK_DEADLOCK FALSE
