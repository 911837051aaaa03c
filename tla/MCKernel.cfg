SPECIFICATION FairSpec
CONSTANTS
    SourceIds = {0, 1}
    Versions = {0, 1, 2}
    protocolVersion = 1
    supportedAltVersions = {0}
    PSendAtOnceLimit = 2
    CharIsSigned = FALSE
INVARIANTS
    TypeOK
    FetchBeforeAdmission
    RightsGuardData
PROPERTIES
    FrozenWhileAdmitted
    EstablishedEndsByLogout
    AnswerOnce
    HandshakeProgress
CHECK_DEADLOCK TRUE
