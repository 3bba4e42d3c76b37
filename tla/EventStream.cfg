\* One client, a retry, one failure at most, a crash, a broken connection.
SPECIFICATION FairStreamSpec
CONSTANTS
    Runs = {r1}
    Users = {u1}
    Handlers = {h1, h2}
    NoRun = NoRun
    NoUser = NoUser
    AttemptLimit = 2
    AbortLimit = 1
    LostAckLimit = 0
    CrashLimit = 1
    Clients = {c1}
    DropLimit = 1
INVARIANTS
    FramesInOrder
    ToldTheTruth
PROPERTIES
    RunsCloseUnlessCrashed
    StreamsEnd
    ClientsAreTold
\* The clients may stop asking, and the ids of the model run out.
CHECK_DEADLOCK FALSE
