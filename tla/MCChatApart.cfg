SPECIFICATION FairSpec
CONSTANTS
    Chats = {2, 1234567890}
    Users = {1, 2, 3, 4}
    LongUids = {}
    InitialMembers <- ApartMembers
    Threads = {1, 2, 3}
    Serve <- ApartServe
    Inodes = {1, 2, 3, 4, 5, 6, 7, 8, 9, 1234567890}
    MaxMessages = 3
    MaxCrashes = 0
INVARIANTS
    AppliedPostsStored
    ChatsFindable
PROPERTIES
    ImplementsChatLog
    MessagesApplied
\* A run ends when the last message has been handled.
CHECK_DEADLOCK FALSE
