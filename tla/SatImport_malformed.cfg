\* A row whose RFC is only punctuation.
SPECIFICATION Spec
CONSTANTS
    p1 = p1
    p2 = p2
    a = a
    b = b
    bad = bad
    blank = blank
    dash = dash
    NoNumber = NoNumber
    NoImporter = NoImporter
    Importers = {p1, p2}
    Contents <- MCContents
    Kind <- MCKind
    Files <- FilesDashed
    BatchSize = 2
    VersionLimit = 1
    ImportLimit = 1
INVARIANTS
    MalformedRowsAbortNothing
CHECK_DEADLOCK FALSE
