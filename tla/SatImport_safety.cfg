\* Two importers, four listings, a new version, four imports.
SPECIFICATION FairSpec
CONSTANTS
    p1 = p1
    p2 = p2
    a = a
    b = b
    bad = bad
    blank = blank
    dash = dash
    NoNumber = NoNumber
    NoImporter = NoImporter
    Importers = {p1, p2}
    Contents <- MCContents
    Kind <- MCKind
    Files <- MCFiles
    BatchSize = 2
    VersionLimit = 2
    ImportLimit = 4
INVARIANTS
    TableAgreesWithLastImport
PROPERTIES
    ReportAddsUp
    ImportsEnd
\* The imports of the model run out.
CHECK_DEADLOCK FALSE
