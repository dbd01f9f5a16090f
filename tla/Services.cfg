SPECIFICATION MCSpec
CONSTANTS
    Procs = {p1, p2, p3}
    NoProc = NoProc
    MaxInodes = 6
    MaxJournal = 3
    MaxClock = 9
    MaxLosses = 3
    NoState = NoState
    Stump = Stump
    Garbage = Garbage
    Callers = {"c1", "thermal", "frame"}
    Clients = {"c1"}
    NoCaller = NoCaller
    NoEntry = NoEntry
    MaxFaults = 1
    MaxCrashes = 1
    MaxFailures = 1
    MaxDeaths = 1
    MaxBadWrites = 1
    MaxKills = 1
    MaxSnapshots = 1
    MaxIDs = 2
    RingSize = 3
    MinSamples = 3
    Celsius = {60, 96}
    Critical = 100
    FrameLogs <- Logs
    NoHolder = NoHolder
    SignalSets = {{"firewall_anomaly"}, {"vault_exposure", "firewall_anomaly"}, {"privilege_escalation", "kernel_integrity"}}
    Strengths = {80, 130}
    Projections = {0, 150}
    MaxIncidents = 1
    PIDs = {1, 2}
    PluginVersions = {v1, v2}
    Operators = {o1, o2}
    NoVersion = NoVersion
    Syncs = {s1, s2}
    NoBundle = NoBundle
    Bundles <- FleetBundles
    MaxFleetCrashes = 1
    Requests = {r1, r2}
    NoFile = NoFile
    MaxRequests = 3
CONSTRAINT OneFailure
INVARIANTS PartsTypeOK OneLeaderAtATime SocketIsLeaders CommittedTookEffect DemotionIsForgotten FileIsIndex InstalledIsThere PolicyWasApplied CompletionLasts UnswappedVaultIsTrue
PROPERTIES RefusedByTheLiving SwitchesAtomically
CHECK_DEADLOCK FALSE
