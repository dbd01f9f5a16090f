SPECIFICATION Spec
CONSTANTS
    Operators = {o1}
    NoHolder = NoHolder
    SignalSets = {{"firewall_anomaly"}, {"vault_exposure", "firewall_anomaly"}}
    Strengths = {80, 160}
    Projections = {0, 150}
    MaxIncidents = 1
    MaxCrashes = 0
PROPERTY EvaluatesForEver
CHECK_DEADLOCK FALSE
