SPECIFICATION Spec
CONSTANTS
    s1 = s1
    s2 = s2
    flavor = flavor
    user = user
    ip = ip
    Server = {s1, s2}
    Meta = {flavor, user}
    Fip = {ip}
    Owner <- MCOwner
    Snapshotted = {s2}
    SyncNeeds <- MCSyncNeeds
    UploadNeeds <- MCUploadNeeds
    BootNeeds <- MCBootNeeds
    FipNeeds <- MCFipNeeds
    MaxRuns = 1
CHECK_DEADLOCK FALSE
INVARIANTS
    DependenciesHold
    NeverBothActive
    SuspendedWhileCopied
    RevertedMeansRestored
    UnavailableIsShown
PROPERTIES
    HandoverHolds
