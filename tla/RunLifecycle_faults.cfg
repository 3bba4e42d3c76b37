\* Every fault: lost acknowledgements too.
SPECIFICATION Spec
CONSTANTS
    Runs = {r1, r2}
    Users = {u1}
    Handlers = {h1, h2}
    NoRun = NoRun
    NoUser = NoUser
    AttemptLimit = 2
    AbortLimit = 1
    LostAckLimit = 2
    CrashLimit = 1
SYMMETRY Symmetry
INVARIANTS
    ClosedRunsSaySo
PROPERTIES
    RunningRunsOnlyClose
\* The clients may stop asking, and the ids of the model run out.
CHECK_DEADLOCK FALSE
