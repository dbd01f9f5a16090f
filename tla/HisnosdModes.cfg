SPECIFICATION Spec
CONSTANTS
    Clients = {c1, c2}
    Commands = {"set_mode", "lock_vault", "start_lab"}
    SetModes = {"normal", "safe-mode"}
    Escalators = {}
    Mortal = {"nft"}
    Scores = {0, 8}
    BufSize = 2
    MaxCrashes = 0
    PersistMayFail = FALSE
    MaxEnv = 1
    MaxRequests = 2
    MaxRestarts = 0
SYMMETRY ClientSymmetry
INVARIANTS ModeSettled FirewallLossNoticed
CHECK_DEADLOCK FALSE
