SPECIFICATION FairSpec
CONSTANTS
    Base = 16
    Messages <- MCMessages
    Beyond <- MCBeyond
INVARIANTS
    TypeOK
    BufferFilled
    ReadsInside
    RoundTrip
PROPERTIES
    UnpackingEnds
CHECK_DEADLOCK FALSE
