CONSTANTS
    Request = {q1, q2, q3}
    MaxFaults = 1
SPECIFICATION Spec
INVARIANTS
    NoServerLost
    CopiesCounted
    WokenByAnother
PROPERTIES
    WokenByRepetition
CHECK_DEADLOCK FALSE
