SPECIFICATION DeliveryFairSpec
CONSTANTS
    Base = 256
    Messages <- MCMessages
    Beyond <- MCBeyond
    Streams <- MCStreams
    Leftover <- MCLeftover
    ChunkLen = 4
INVARIANTS
    PostedInOrder
PROPERTIES
    ApartAllPosted
CHECK_DEADLOCK FALSE
