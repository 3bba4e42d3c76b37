\* Two requests at a time on two runs, with a retry, an abort and a crash, and
\* two requests for their case files, with a cache that holds one index.
SPECIFICATION FileSpec
CONSTANTS
    Runs = {r1, r2}
    Users = {u1}
    Handlers = {h1, h2}
    NoRun = NoRun
    NoUser = NoUser
    AttemptLimit = 2
    AbortLimit = 1
    LostAckLimit = 0
    CrashLimit = 1
    Readers = {q1, q2}
    CacheSize = 1
SYMMETRY Symmetry
INVARIANTS
    TypeOK
    CacheIsCurrent
    OneExecutorPerRun
    ExecutorHoldsItsRun
    AnalysisIffCompleted
    LogTellsTheStatus
    RowsHaveTheirDataset
    StrandingTakesTwoFaults
    LeakingTakesAFault
PROPERTIES
    CompletedRunsAreFinal
    KeepsThePromise
\* The clients may stop asking, and the ids of the model run out.
CHECK_DEADLOCK FALSE
