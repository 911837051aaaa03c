SPECIFICATION FairSpec
CONSTANTS
    SourceIds = {0, 1}
    Versions = {0, 1, 2}
    protocolVersion = 1
    supportedAltVersions = {0}
    PSendAtOnceLimit = 2
    CharIsSigned = TRUE
PROPERTIES
    HandshakeProgress
CHECK_DEADLOCK TRUE
