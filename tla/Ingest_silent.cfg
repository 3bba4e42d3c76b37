SPECIFICATION Spec
CONSTANTS
    Uploads <- MCUploads
    Cells <- MCCells
    Null = Null
INVARIANTS
    EveryLossIsAnnounced
CHECK_DEADLOCK FALSE
