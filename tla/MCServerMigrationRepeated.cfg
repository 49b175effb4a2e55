SPECIFICATION Spec
CONSTANTS
    s1 = s1
    s2 = s2
    flavor = flavor
    user = user
    ip = ip
    Server = {s1}
    Meta = {flavor, user}
    Fip = {ip}
    Owner <- MCOwner
    Snapshotted = {s1}
    SyncNeeds <- MCSyncNeeds
    UploadNeeds <- MCUploadNeeds
    BootNeeds <- MCBootNeeds
    FipNeeds <- MCFipNeeds
    MaxRuns = 3
CHECK_DEADLOCK FALSE
INVARIANTS
    NoServerLost
PROPERTIES
    NotParkedForever
