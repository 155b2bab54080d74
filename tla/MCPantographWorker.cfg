SPECIFICATION Spec
CONSTANTS
    None = None
    Files <- MCFiles
    MaxItems = 2
    MaxParts = 2
INVARIANTS ScratchAccounted
PROPERTIES TaskEnds
CHECK_DEADLOCK FALSE
