SPECIFICATION Spec
CONSTANTS
    Clients = {c1}
    Commands = {"reload_firewall"}
    SetModes = {"normal"}
    Escalators = {}
    Mortal = {"nft"}
    Scores = {0}
    BufSize = 4
    MaxCrashes = 1
    PersistMayFail = FALSE
    MaxEnv = 1
    MaxRequests = 1
    MaxRestarts = 0
PROPERTIES FirewallLossLeadsToSafeMode
CHECK_DEADLOCK FALSE
