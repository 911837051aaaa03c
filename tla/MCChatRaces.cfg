SPECIFICATION FairSpec
CONSTANTS
    Chats = {123456789}
    Users = {1, 2, 3, 4}
    LongUids = {4}
    InitialMembers <- RaceMembers
    Threads = {1, 2}
    Serve <- RaceServe
    Inodes = {1, 2, 3, 4, 5, 6, 123456789}
    MaxMessages = 3
    MaxCrashes = 1
INVARIANTS
    TypeOK
    NothingInvented
PROPERTIES
    CallsEnd
\* A run ends when the last message has been handled.
CHECK_DEADLOCK FALSE
