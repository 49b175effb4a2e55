SPECIFICATION Spec
CONSTANTS
    Server = {s1, s2}
    MaxRuns = 2
CHECK_DEADLOCK FALSE
INVARIANTS
    BlockedWhileEvacuating
    ServiceMatchesOutcome
PROPERTIES
    EvacuationEnds
