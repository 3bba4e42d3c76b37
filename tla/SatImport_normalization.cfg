\* The normalization changes between two imports.
SPECIFICATION Spec
CONSTANTS
    p1 = p1
    p2 = p2
    a = a
    b = b
    bad = bad
    blank = blank
    dash = dash
    NoNumber = NoNumber
    NoImporter = NoImporter
    Importers = {p1, p2}
    Contents <- MCContents
    Kind <- MCKind
    Files <- MCFiles
    BatchSize = 2
    VersionLimit = 2
    ImportLimit = 2
PROPERTIES
    ReimportNormalizes
CHECK_DEADLOCK FALSE
