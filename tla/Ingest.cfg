\* An upload is refused, blocked or loaded, and that is its end.
SPECIFICATION Spec
CONSTANTS
    Uploads <- MCUploads
    Cells <- MCCells
    Null = Null
INVARIANTS
    EveryFileIsAccountedFor
    StartableRunsAreUsable
    EngineReadsTheUpload
CHECK_DEADLOCK FALSE
