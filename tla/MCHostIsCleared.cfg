SPECIFICATION Spec
CONSTANTS
    Server = {s1, s2}
    MaxRuns = 1
CHECK_DEADLOCK FALSE
INVARIANTS
    HostIsCleared
