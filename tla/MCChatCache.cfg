SPECIFICATION Spec
CONSTANTS
    Names <- MCNames
    MarkedNames <- MCMarkedNames
    Hosts = {"localhost", "1.1.1.1"}
    Ids = {"1", "2", "9"}
    ShippedFile <- MCShippedFile
    BufLen = 10
    MaxEntries = 2
INVARIANTS
    TypeOK
    ConnectsToCached
    AloneIsFound
    LinesStay
CHECK_DEADLOCK TRUE
