------------------------------- MODULE Kernel -------------------------------
(***************************************************************************)
(* The QMSP protocol kernel (OriginalLinuxCode/QMSPkernel.c): the state    *)
(* machine a server keeps for one connection.  Its host calls it for every *)
(* message received or sent and for the answers of the permission store;   *)
(* the kernel only moves between protocol states and never blocks.  One    *)
(* action per entry point; a call that changes nothing is a stuttering     *)
(* step.                                                                   *)
(*                                                                         *)
(* A message header is represented by its top three bits (header >> 5), a  *)
(* frame list by the set of frame kinds in it (the loops over FrameTypes   *)
(* only look for membership), the permissions byte by the set of its flag  *)
(* names.                                                                  *)
(*                                                                         *)
(* Definitions named <definition>_<Fault> are faulty variants of the       *)
(* definition that follows them; no specification uses them.  They serve   *)
(* to see that the properties notice such faults.                          *)
(***************************************************************************)
EXTENDS Naturals, Integers

CONSTANTS
    SourceIds,            \* user ids a login may carry
    Versions,             \* version numbers a message may carry
    protocolVersion,      \* the version this program speaks
    supportedAltVersions, \* the other versions it accepts in a negotiation
    PSendAtOnceLimit,     \* posts sent for one load request
    CharIsSigned          \* whether the build's plain char is signed

ASSUME SourceIdsAssumption == 0 \in SourceIds
ASSUME VersionsAssumption == /\ protocolVersion \in Versions
                             /\ supportedAltVersions \subseteq Versions
ASSUME LimitAssumption == PSendAtOnceLimit \in Nat \ {0}
ASSUME CharAssumption == CharIsSigned \in BOOLEAN

VARIABLES
    currentState,           \* the protocol state
    pleaseFetchPermissions, \* the kernel asks its host for permissions
    SourceID,               \* the user who logged in
    usingVersion,           \* the version of this connection
    PermissionsByte,        \* the flags in force
    AmassTotal,             \* pieces of a post seen so far
    PSentInLastLoad,        \* posts sent for the current load request
    KickReason              \* status code of the last kick

handshake == <<pleaseFetchPermissions, SourceID, usingVersion, PermissionsByte>>
counters  == <<AmassTotal, PSentInLastLoad>>
vars      == <<currentState, handshake, counters, KickReason>>

-----------------------------------------------------------------------------
States ==
    {"CLOSED", "CHECK_JOIN_PERM", "VERSION_NEGOTIATE_ALERT",
     "VERSION_NEGOTIATE_AWAIT", "NEGOTIATE_OPTIONS", "CHECK_READ_PERM",
     "RETRIEVE_POSTS", "IDLE", "CHECK_CHANGE_PERM", "DENY_CHANGES",
     "APPROVE_CHANGES", "CHECK_POST_PERM", "AMASS_POST",
     "REQUEST_RETRANSMIT", "ASSEMBLE_POST"}

Flags == {"Join", "Read", "Post", "ChangeOwn", "ChangeUser", "ChangePerm"}

\* The byte 255 a kernel starts with and the 231 of a user without stored
\* permissions (bits 8 and 16 have no meaning to the kernel).
InitialPermissions == Flags
DefaultPermissions == Flags

\* The top three bits of a header.
Classes             == 0 .. 7
ConnectionEstablish == 4
UserManagement      == 5
VersionNegotiation  == 7

FrameKinds == {"Login", "Logout", "Load", "UserDatagram", "Data"}

\* Pieces a post is announced to have: the kernel never assigns it.
AmassExpect == 0

KickReasons == {0, 2, 3, 4, 255}

\* Fault: every build's char is signed.
Shifted_Signed(cls) == IF cls >= 4 THEN cls - 8 ELSE cls

\* What sentMessage compares: `header >> 5' of a plain char.  A signed char is
\* sign-extended first, so every control class comes out negative.
Shifted(cls) == IF CharIsSigned /\ cls >= 4 THEN cls - 8 ELSE cls

Init ==
    /\ currentState = "CLOSED"
    /\ pleaseFetchPermissions = FALSE
    /\ SourceID = 0
    /\ usingVersion = protocolVersion
    /\ PermissionsByte = InitialPermissions
    /\ AmassTotal = 0
    /\ PSentInLastLoad = PSendAtOnceLimit
    /\ KickReason = 0

-----------------------------------------------------------------------------
\* Fault: the version is taken over before the table of versions is searched.
receivedVersionNegotiationResponse_TakenFirst(cls, version) ==
    /\ currentState = "VERSION_NEGOTIATE_AWAIT"
    /\ cls = VersionNegotiation
    /\ usingVersion' = version
    /\ currentState' = IF version \in supportedAltVersions
                       THEN "CHECK_JOIN_PERM" ELSE "CLOSED"
    /\ KickReason' = IF version \in supportedAltVersions THEN KickReason ELSE 2
    /\ UNCHANGED <<pleaseFetchPermissions, SourceID, PermissionsByte, counters>>

\* receivedVersionNegotiationResponse: the peer's choice among the versions.
receivedVersionNegotiationResponse(cls, version) ==
    /\ currentState = "VERSION_NEGOTIATE_AWAIT"
    /\ cls = VersionNegotiation
    /\ \/ /\ version \in supportedAltVersions
          /\ currentState' = "CHECK_JOIN_PERM"
          /\ usingVersion' = version
          /\ UNCHANGED KickReason
       \/ /\ version \notin supportedAltVersions
          /\ currentState' = "CLOSED"
          /\ KickReason' = 2
          /\ UNCHANGED usingVersion
    /\ UNCHANGED <<pleaseFetchPermissions, SourceID, PermissionsByte, counters>>

-----------------------------------------------------------------------------
(* receivedMessage is a cascade of tests of currentState, so a call runs    *)
(* through every stage its first assignment opens.  Its effects are grouped *)
(* by the state in which the call finds the kernel.                         *)

\* The version test every message meets in CHECK_JOIN_PERM, the login included.
VersionVerdict(version) ==
    IF version # protocolVersion THEN "VERSION_NEGOTIATE_ALERT"
                                 ELSE "CHECK_JOIN_PERM"

\* Fault: a login does not ask for permissions.
receiveLogin_NoFetch(cls, version, sid, frames) ==
    /\ currentState = "CLOSED"
    /\ cls = ConnectionEstablish
    /\ "Login" \in frames
    /\ currentState' = VersionVerdict(version)
    /\ SourceID' = sid
    /\ usingVersion' = protocolVersion
    /\ UNCHANGED <<pleaseFetchPermissions, PermissionsByte, counters, KickReason>>

receiveLogin(cls, version, sid, frames) ==
    /\ currentState = "CLOSED"
    /\ cls = ConnectionEstablish
    /\ "Login" \in frames
    /\ currentState' = VersionVerdict(version)
    /\ SourceID' = sid
    /\ pleaseFetchPermissions' = TRUE
    /\ usingVersion' = protocolVersion
    /\ UNCHANGED <<PermissionsByte, counters, KickReason>>

receiveWhileJoining(version) ==
    /\ currentState = "CHECK_JOIN_PERM"
    /\ currentState' = VersionVerdict(version)
    /\ UNCHANGED <<handshake, counters, KickReason>>

receiveUserManagement(cls, frames) ==
    /\ currentState = "IDLE"
    /\ cls = UserManagement
    /\ "UserDatagram" \in frames
    /\ currentState' = "CHECK_CHANGE_PERM"
    /\ UNCHANGED <<handshake, counters, KickReason>>

receiveLogout(cls, frames) ==
    /\ currentState = "IDLE"
    /\ cls = ConnectionEstablish
    /\ "Logout" \in frames
    /\ currentState' = "CLOSED"
    /\ UNCHANGED <<handshake, counters, KickReason>>

\* Fault: a new load goes on with the count of the one before.
receiveLoad_CountStays(cls, frames) ==
    /\ currentState = "IDLE"
    /\ cls \notin {UserManagement, ConnectionEstablish}
    /\ "Load" \in frames
    /\ "Read" \in PermissionsByte
    /\ currentState' = "RETRIEVE_POSTS"
    /\ UNCHANGED <<handshake, counters, KickReason>>

\* Every class but the two above is taken for data.  One Load frame makes the
\* message a load request: IDLE, CHECK_READ_PERM and on in the same call.
receiveLoad(cls, frames) ==
    /\ currentState = "IDLE"
    /\ cls \notin {UserManagement, ConnectionEstablish}
    /\ "Load" \in frames
    /\ "Read" \in PermissionsByte
    /\ currentState' = "RETRIEVE_POSTS"
    /\ PSentInLastLoad' = 0
    /\ UNCHANGED <<handshake, AmassTotal, KickReason>>

\* Fault: CHECK_POST_PERM is skipped.
receivePost_Unchecked(cls, frames) ==
    /\ currentState = "IDLE"
    /\ cls \notin {UserManagement, ConnectionEstablish}
    /\ frames # {}
    /\ "Load" \notin frames
    /\ currentState' = "REQUEST_RETRANSMIT"
    /\ AmassTotal' = 0
    /\ UNCHANGED <<handshake, PSentInLastLoad, KickReason>>

\* IDLE, CHECK_POST_PERM, AMASS_POST and on in the same call.
receivePost(cls, frames) ==
    /\ currentState = "IDLE"
    /\ cls \notin {UserManagement, ConnectionEstablish}
    /\ frames # {}
    /\ "Load" \notin frames
    /\ "Post" \in PermissionsByte
    /\ currentState' = "REQUEST_RETRANSMIT"
    /\ AmassTotal' = 0
    /\ UNCHANGED <<handshake, PSentInLastLoad, KickReason>>

\* In AMASS_POST the assignment of ASSEMBLE_POST, made when the counts agree,
\* is always overwritten by the next line, whose `else' is commented out.
receivePiece ==
    /\ currentState = "AMASS_POST"
    /\ currentState' = "REQUEST_RETRANSMIT"
    /\ UNCHANGED <<handshake, counters, KickReason>>

receivedMessage(cls, version, sid, frames) ==
    \/ receiveLogin(cls, version, sid, frames)
    \/ receiveWhileJoining(version)
    \/ receiveUserManagement(cls, frames)
    \/ receiveLogout(cls, frames)
    \/ receiveLoad(cls, frames)
    \/ receivePost(cls, frames)
    \/ receivePiece

-----------------------------------------------------------------------------
(* sentMessage, grouped in the same way.                                    *)

sendVersionAlert(cls) ==
    /\ currentState = "VERSION_NEGOTIATE_ALERT"
    /\ Shifted(cls) = VersionNegotiation
    /\ currentState' = "VERSION_NEGOTIATE_AWAIT"
    /\ UNCHANGED <<handshake, counters, KickReason>>

\* Fault: only the limit ends a load.
CountSent_LimitOnly(outOfMessages) ==
    /\ PSentInLastLoad' = IF PSentInLastLoad > PSendAtOnceLimit
                          THEN PSentInLastLoad ELSE PSentInLastLoad + 1
    /\ currentState' = IF PSentInLastLoad + 1 = PSendAtOnceLimit
                       THEN "IDLE" ELSE "RETRIEVE_POSTS"

\* One more post sent in RETRIEVE_POSTS.  The count is only ever compared for
\* equality with the limit, so all values above the limit are one value here.
CountSent(outOfMessages) ==
    /\ PSentInLastLoad' = IF PSentInLastLoad > PSendAtOnceLimit
                          THEN PSentInLastLoad ELSE PSentInLastLoad + 1
    /\ currentState' =
          IF PSentInLastLoad + 1 = PSendAtOnceLimit \/ outOfMessages
          THEN "IDLE" ELSE "RETRIEVE_POSTS"

\* NEGOTIATE_OPTIONS, CHECK_READ_PERM, RETRIEVE_POSTS in one call, and unlike a
\* load request without resetting PSentInLastLoad.
sendOptions(cls, outOfMessages) ==
    /\ currentState = "NEGOTIATE_OPTIONS"
    /\ Shifted(cls) = ConnectionEstablish
    /\ \/ /\ "Read" \in PermissionsByte
          /\ CountSent(outOfMessages)
       \/ /\ "Read" \notin PermissionsByte
          /\ currentState' = "IDLE"
          /\ UNCHANGED PSentInLastLoad
    /\ UNCHANGED <<handshake, AmassTotal, KickReason>>

sendPost(outOfMessages) ==
    /\ currentState = "RETRIEVE_POSTS"
    /\ CountSent(outOfMessages)
    /\ UNCHANGED <<handshake, AmassTotal, KickReason>>

sendRetransmit(hadRetransmitFrame) ==
    /\ currentState = "REQUEST_RETRANSMIT"
    /\ hadRetransmitFrame
    /\ currentState' = "AMASS_POST"
    /\ UNCHANGED <<handshake, counters, KickReason>>

sentMessage(cls, hadRetransmitFrame, outOfMessages) ==
    \/ sendVersionAlert(cls)
    \/ sendOptions(cls, outOfMessages)
    \/ sendPost(outOfMessages)
    \/ sendRetransmit(hadRetransmitFrame)

-----------------------------------------------------------------------------
(* The answers of the permission store and the decisions of the host.       *)

\* Fault: the request stays open after its answer.
givePermissions_RequestStays(permissions) ==
    /\ currentState = "CHECK_JOIN_PERM"
    /\ PermissionsByte' = permissions
    /\ currentState' = IF "Join" \in permissions THEN "NEGOTIATE_OPTIONS"
                                                 ELSE "CLOSED"
    /\ KickReason' = IF "Join" \in permissions THEN KickReason ELSE 3
    /\ UNCHANGED <<pleaseFetchPermissions, SourceID, usingVersion, counters>>

\* Fault: a refusal records the kick and leaves the connection as it is.
givePermissions_KickOnly(permissions) ==
    /\ currentState = "CHECK_JOIN_PERM"
    /\ pleaseFetchPermissions' = FALSE
    /\ PermissionsByte' = IF pleaseFetchPermissions THEN permissions
                                                    ELSE PermissionsByte
    /\ currentState' = IF "Join" \in PermissionsByte' THEN "NEGOTIATE_OPTIONS"
                                                      ELSE currentState
    /\ KickReason' = IF "Join" \in PermissionsByte' THEN KickReason ELSE 3
    /\ UNCHANGED <<SourceID, usingVersion, counters>>

\* Fault: the right to join is tested before the answer is stored.
givePermissions_TestsFirst(permissions) ==
    /\ currentState = "CHECK_JOIN_PERM"
    /\ pleaseFetchPermissions' = FALSE
    /\ PermissionsByte' = permissions
    /\ currentState' = IF "Join" \in PermissionsByte THEN "NEGOTIATE_OPTIONS"
                                                     ELSE "CLOSED"
    /\ KickReason' = IF "Join" \in PermissionsByte THEN KickReason ELSE 3
    /\ UNCHANGED <<SourceID, usingVersion, counters>>

givePermissions(permissions) ==
    /\ currentState = "CHECK_JOIN_PERM"
    /\ pleaseFetchPermissions' = FALSE
    /\ PermissionsByte' = IF pleaseFetchPermissions THEN permissions
                                                    ELSE PermissionsByte
    /\ \/ /\ "Join" \in PermissionsByte'
          /\ currentState' = "NEGOTIATE_OPTIONS"
          /\ UNCHANGED KickReason
       \/ /\ "Join" \notin PermissionsByte'
          /\ currentState' = "CLOSED"
          /\ KickReason' = 3
    /\ UNCHANGED <<SourceID, usingVersion, counters>>

\* Fault: an answer is taken in any state and whether or not it was asked for.
noStoredPermissions_Unasked ==
    /\ pleaseFetchPermissions' = FALSE
    /\ PermissionsByte' = DefaultPermissions
    /\ currentState' = "NEGOTIATE_OPTIONS"
    /\ UNCHANGED <<SourceID, usingVersion, counters, KickReason>>

noStoredPermissions ==
    /\ currentState = "CHECK_JOIN_PERM"
    /\ pleaseFetchPermissions
    /\ pleaseFetchPermissions' = FALSE
    /\ PermissionsByte' = DefaultPermissions
    /\ currentState' = "NEGOTIATE_OPTIONS"
    /\ UNCHANGED <<SourceID, usingVersion, counters, KickReason>>

\* The call that abandons an attempt to connect, and the kick it records:
\* optionsError, giveUpConnection, imaginaryChatAccess.
Abandonments ==
    {[from |-> "NEGOTIATE_OPTIONS", kick |-> 2],
     [from |-> "CHECK_JOIN_PERM",   kick |-> 4],
     [from |-> "CHECK_JOIN_PERM",   kick |-> 255]}

\* Fault: the connection is closed whatever its state.
abandon_AnyState(call) ==
    /\ currentState' = "CLOSED"
    /\ KickReason' = call.kick
    /\ UNCHANGED <<handshake, counters>>

abandon(call) ==
    /\ currentState = call.from
    /\ currentState' = "CLOSED"
    /\ KickReason' = call.kick
    /\ UNCHANGED <<handshake, counters>>

\* assembledPost would leave ASSEMBLE_POST, in which no call ever returns.

\* Not guarded by the state: the answer depends on the flags only, and the
\* permission test is overwritten by the denial that follows it.
wantsToChangePermissions ==
    /\ currentState' = "DENY_CHANGES"
    /\ UNCHANGED <<handshake, counters, KickReason>>

MayChangeUser(uid) ==
    \/ uid = SourceID /\ "ChangeOwn" \in PermissionsByte
    \/ uid # SourceID /\ "ChangeUser" \in PermissionsByte

wantsToChangeUser(uid) ==
    /\ currentState' = IF MayChangeUser(uid) THEN "APPROVE_CHANGES"
                                             ELSE "DENY_CHANGES"
    /\ UNCHANGED <<handshake, counters, KickReason>>

-----------------------------------------------------------------------------
Receive == \E cls \in Classes, version \in Versions, sid \in SourceIds,
              frames \in SUBSET FrameKinds :
                receivedMessage(cls, version, sid, frames)

ReceiveVersion == \E cls \in Classes, version \in Versions :
                    receivedVersionNegotiationResponse(cls, version)

Send == \E cls \in Classes, hadRetransmitFrame, outOfMessages \in BOOLEAN :
          sentMessage(cls, hadRetransmitFrame, outOfMessages)

Answer == \/ \E permissions \in SUBSET Flags : givePermissions(permissions)
          \/ noStoredPermissions

Change == \/ wantsToChangePermissions
          \/ \E uid \in SourceIds : wantsToChangeUser(uid)

Next == \/ Receive \/ ReceiveVersion \/ Send \/ Answer \/ Change
        \/ \E call \in Abandonments : abandon(call)

Spec == Init /\ [][Next]_vars

\* A host that sends what the state asks for: the version alert, then the
\* options message.  This is all the kernel needs from it in these two states.
HostSends == \E outOfMessages \in BOOLEAN :
                \/ sentMessage(VersionNegotiation, FALSE, outOfMessages)
                \/ sentMessage(ConnectionEstablish, FALSE, outOfMessages)

FairSpec == Spec /\ WF_vars(HostSends)

-----------------------------------------------------------------------------
(* Properties.                                                              *)

\* The states a connection has while its peer is admitted to the chat.
Admitted == {"NEGOTIATE_OPTIONS", "RETRIEVE_POSTS", "IDLE", "CHECK_CHANGE_PERM",
             "AMASS_POST", "REQUEST_RETRANSMIT"}
Established == Admitted \ {"NEGOTIATE_OPTIONS"}

\* The states before the answer of the permission store.
Joining == {"CHECK_JOIN_PERM", "VERSION_NEGOTIATE_ALERT",
            "VERSION_NEGOTIATE_AWAIT"}

\* The states in which a call may return: the cascades run through
\* CHECK_READ_PERM, CHECK_POST_PERM and ASSEMBLE_POST without resting there.
RestingStates ==
    Admitted \union Joining \union {"CLOSED", "APPROVE_CHANGES", "DENY_CHANGES"}

\* Type invariant; also: no call returns in one of the passing states, and the
\* version in use is one the program accepts (receivedVersionNegotiationResponse).
TypeOK ==
    /\ currentState \in RestingStates
    /\ pleaseFetchPermissions \in BOOLEAN
    /\ SourceID \in SourceIds
    /\ usingVersion \in {protocolVersion} \union supportedAltVersions
    /\ PermissionsByte \subseteq Flags
    /\ AmassTotal \in Nat
    /\ PSentInLastLoad \in 0 .. PSendAtOnceLimit + 1
    /\ KickReason \in KickReasons

\* Nobody is admitted on the initial all-ones byte or on the answer given for
\* an earlier login: while a peer is joining, through every round of version
\* negotiation, the request for permissions is outstanding, and an admitted
\* peer has had it answered with the right to join (givePermissions,
\* noStoredPermissions).
FetchBeforeAdmission ==
    /\ currentState \in Joining => pleaseFetchPermissions
    /\ currentState \in Admitted =>
          /\ ~pleaseFetchPermissions
          /\ "Join" \in PermissionsByte

\* The kernel works for the peer, and reports an approval, only on rights that
\* are in force at that moment: the byte tested on entering a state is still
\* the byte in force for as long as the state lasts.
RightsGuardData ==
    /\ currentState = "RETRIEVE_POSTS" => "Read" \in PermissionsByte
    /\ currentState \in {"AMASS_POST", "REQUEST_RETRANSMIT"} =>
          "Post" \in PermissionsByte
    /\ currentState = "APPROVE_CHANGES" =>
          PermissionsByte \intersect {"ChangeOwn", "ChangeUser"} # {}

\* Who the peer is, what it may do and the version it speaks do not change
\* under an admitted connection, whatever late answers, logins or version
\* responses reach the kernel.
FrozenStep == currentState \in Admitted /\ currentState' \in Admitted =>
                UNCHANGED <<SourceID, PermissionsByte, usingVersion>>
FrozenWhileAdmitted == [][FrozenStep]_vars

\* A connection past its options closes only by a logout received in IDLE, and
\* no kick is recorded for it: an options error, a give-up timeout or an
\* unknown-chat report that arrives late does nothing.
LogoutStep == currentState \in Established /\ currentState' = "CLOSED" =>
                currentState = "IDLE" /\ KickReason' = KickReason
EstablishedEndsByLogout == [][LogoutStep]_vars

\* One login is answered at most once: the flags in force change only in a
\* step that consumes the outstanding request.
AnswerStep == PermissionsByte' # PermissionsByte =>
                pleaseFetchPermissions /\ ~pleaseFetchPermissions'
AnswerOnce == [][AnswerStep]_vars

\* A host that sends its version alert and its options message gets the
\* connection out of the two states that wait for them (sentMessage).
HandshakeProgress ==
    /\ currentState = "VERSION_NEGOTIATE_ALERT" ~>
          currentState # "VERSION_NEGOTIATE_ALERT"
    /\ currentState = "NEGOTIATE_OPTIONS" ~> currentState # "NEGOTIATE_OPTIONS"
=============================================================================
