SPECIFICATION MCSpec
CONSTANTS
    SLA = 6
    BeatPeriod = 4
    Window = 12
    Thresh = 3
    Cooldown = 60
    FirstBackoff = 1
    MaxBackoff = 12
    ChanCap = 4
    Services = {"nftables", "auditd"}
    MaxAttempts = 2
    Threshold = 3
    MaxInFlight = 1
    Actions = {"vault_lock", "safe_mode_candidate", "firewall_strict"}
    MayHang = {"firewall_strict"}
    MayCancel = TRUE
INVARIANTS PartsTypeOK RestartRate SteadyIsHealthy SilenceIsNoticed GivenUpIsSafe
PROPERTIES SilenceOpensCircuit RecoveryClosesCircuit DeadIsGivenUp RunsByUrgency WaitingIsRun
CHECK_DEADLOCK FALSE
