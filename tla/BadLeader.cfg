SPECIFICATION GuardSpec
CONSTANTS
    Procs = {p1, p2}
    NoProc = NoProc
    MaxInodes = 4
INVARIANT OneLeader
CHECK_DEADLOCK FALSE
