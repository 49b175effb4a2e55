SPECIFICATION Spec
CONSTANT MaxRuns = 2
INVARIANTS
    SettingsBeforeDeployment
    ServingWhenDone
    HiddenOnlyIfGone
PROPERTIES
    AssignedOnlyWhenFree
    ReassignmentEnds
\* The operator may leave it at MaxRuns runs.
CHECK_DEADLOCK FALSE
