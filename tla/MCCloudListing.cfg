SPECIFICATION Spec
CONSTANTS
    Servers = {s1}
    MaxListings = 2
    MaxFaults = 2
INVARIANTS
    NoServerUnlisted
    ViewCatchesUp
PROPERTIES
    ViewSettles
\* The migration ends, and the view is asked for a few times only.
CHECK_DEADLOCK FALSE
