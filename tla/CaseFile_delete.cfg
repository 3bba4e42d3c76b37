\* A run is deleted while its case file is opened.
SPECIFICATION FileSpec
CONSTANTS
    Runs = {r1}
    Users = {u1}
    Handlers = {h1}
    NoRun = NoRun
    NoUser = NoUser
    AttemptLimit = 1
    AbortLimit = 0
    LostAckLimit = 0
    CrashLimit = 0
    Readers = {q1}
    CacheSize = 1
INVARIANTS
    AnswersAreWhole
\* The clients may stop asking, and the ids of the model run out.
CHECK_DEADLOCK FALSE
