CONSTANTS
    Resetter = {r1, r2}
    Connector = {c1}
    Config <- MCConfig
    World <- MCWorld
    MaxResets = 2
    MaxErrors = 1
SPECIFICATION ClientsSpec
INVARIANTS
    OneIdentity
    NoLeftovers
    ResetFailuresExplained
PROPERTIES
    ResetsEnd
CHECK_DEADLOCK FALSE
