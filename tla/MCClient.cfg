SPECIFICATION FairSpec
INVARIANTS
    TypeOK
    StreamAndBufferOnce
    CleanExit
PROPERTIES
    Ends
CHECK_DEADLOCK FALSE
