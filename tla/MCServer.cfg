SPECIFICATION FairSpec
CONSTANTS
    Conns = {c1, c2}
    PeerStreams = {1, 2}
    MaxMessages = 1
INVARIANTS
    TypeOK
    NoMisuse
    CleanExit
    NoHalfOpenStream
PROPERTIES
    Exits
CHECK_DEADLOCK FALSE
