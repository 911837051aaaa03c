SPECIFICATION HostFairSpec
CONSTANTS
    SourceIds = {0, 1, 2}
    Versions = {0, 1, 2}
    protocolVersion = 1
    supportedAltVersions = {0}
    PSendAtOnceLimit = 2
    CharIsSigned = FALSE
    StoredRights <- MCStoredRights
    Nobody = Nobody
    MaxPosts = 3
INVARIANTS
    LoadBounded
PROPERTIES
    ImplementsAccess
    LoadsEnd
    LoginDecided
CHECK_DEADLOCK FALSE
