SPECIFICATION Spec
CONSTANTS
    Flow <- MCFlow
    Tenant <- MCTenant
    User <- MCUser
    Role <- MCRole
    Group <- MCGroup
    Thing <- MCThing
    World <- MCWorld
    Rules = 2
    MaxFaults = 2
INVARIANTS
    DoneMeansCopied
    FailuresExplained
PROPERTY
    Repeatable
CHECK_DEADLOCK FALSE
