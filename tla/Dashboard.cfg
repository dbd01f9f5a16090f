SPECIFICATION MCSpec
CONSTANTS
    NoFile = NoFile
    NotLoaded = NotLoaded
    NoSession = NoSession
    MaxFaults = 1
    Requests = {r1, r2}
    Sessions = {s1, s2}
    MaxCrashes = 1
SYMMETRY Symmetry
CONSTRAINT OneFailure
INVARIANTS TypeOK FileIsCurrent SerialLabIsTracked
PROPERTIES StaleGuardIsCaught ValidationDecides
