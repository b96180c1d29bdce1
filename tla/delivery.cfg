SPECIFICATION ReportSpec
CONSTANTS
    Attempts = 3
    Size = 3
    Buffer = 2
    NoFile = NoFile
    Nil = Nil
    NoRow = NoRow
    Contents <- MCContents
    Documents <- MCDocuments
    NitroRoot <- MCNitroRoot
INVARIANTS
    ReportTypeOK
    TruncatedOnlyByReset
    GivesUpOnlyUndelivered
    NoHelperLeft
    StoredIffSealed
    ReadAsSealed
PROPERTIES
    UndisturbedRunDelivers
