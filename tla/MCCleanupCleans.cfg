CONSTANTS
    Config <- MCConfig
    World <- MCWorld
    MaxResets = 2
    MaxErrors = 0
SPECIFICATION ManagementSpec
INVARIANT CleanupCleans
CHECK_DEADLOCK FALSE
