SPECIFICATION Spec
CONSTANTS
    Chats = {1}
    Users = {1, 2}
    LongUids = {}
    InitialMembers <- JoinMembers
    Threads = {1, 2}
    Serve <- JoinServe
    Inodes = {1, 2, 3, 4, 5, 6, 7}
    MaxMessages = 2
    MaxCrashes = 0
INVARIANTS
    AddedPostsStay
\* A run ends when the last message has been handled.
CHECK_DEADLOCK FALSE
