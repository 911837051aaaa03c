---------------------------- MODULE KernelProofs ----------------------------
(***************************************************************************)
(* The safety properties of the kernel, for every set of users and         *)
(* versions, every load limit and both signednesses of char; and of the    *)
(* kernel with its host, which implements the abstract rules of access and *)
(* answers no Load frame with more than PSendAtOnceLimit posts, for every  *)
(* content of the permission store.                                        *)
(***************************************************************************)
EXTENDS KernelHost, TLAPS

\* Type correctness, with the states a call may return in and the versions a
\* connection may use (all entry points of QMSPkernel.c).
THEOREM TypeCorrect == Spec => []TypeOK
<1>1. Init => TypeOK
  <2> SUFFICES ASSUME Init PROVE TypeOK
    OBVIOUS
  <2> USE DEF Init
  <2>1. PSentInLastLoad \in 0 .. PSendAtOnceLimit + 1
    BY LimitAssumption
  <2>2. PermissionsByte \subseteq Flags /\ KickReason \in KickReasons
    BY DEF InitialPermissions, KickReasons
  <2> QED
    BY <2>1, <2>2, SourceIdsAssumption
    DEF TypeOK, RestingStates
<1>2. TypeOK /\ [Next]_vars => TypeOK'
  <2> SUFFICES ASSUME TypeOK, [Next]_vars PROVE TypeOK'
    OBVIOUS
  <2> USE DEF TypeOK
  <2>1. CASE Receive
    <3>1. PICK cls \in Classes, version \in Versions, sid \in SourceIds,
               frames \in SUBSET FrameKinds :
                 receivedMessage(cls, version, sid, frames)
      BY <2>1 DEF Receive
    <3>2. 0 \in 0 .. PSendAtOnceLimit + 1
      BY LimitAssumption
    <3> USE DEF RestingStates, Admitted, Joining, handshake, counters
    <3>3. CASE receiveLogin(cls, version, sid, frames)
      BY <3>3 DEF receiveLogin, VersionVerdict
    <3>4. CASE receiveWhileJoining(version)
      BY <3>4 DEF receiveWhileJoining, VersionVerdict
    <3>5. CASE receiveUserManagement(cls, frames) \/ receiveLogout(cls, frames)
      BY <3>5 DEF receiveUserManagement, receiveLogout
    <3>6. CASE receiveLoad(cls, frames)
      BY <3>2, <3>6 DEF receiveLoad
    <3>7. CASE receivePost(cls, frames) \/ receivePiece
      BY <3>7 DEF receivePost, receivePiece
    <3> QED
      BY <3>1, <3>3, <3>4, <3>5, <3>6, <3>7 DEF receivedMessage
  <2>2. CASE ReceiveVersion
    BY <2>2, VersionsAssumption
    DEF ReceiveVersion, receivedVersionNegotiationResponse, RestingStates,
        Joining, counters, KickReasons
  <2>3. CASE Send
    <3>1. PICK cls \in Classes, hadRetransmitFrame \in BOOLEAN,
               outOfMessages \in BOOLEAN :
                 sentMessage(cls, hadRetransmitFrame, outOfMessages)
      BY <2>3 DEF Send
    <3>2. CountSent(outOfMessages) =>
             /\ PSentInLastLoad' \in 0 .. PSendAtOnceLimit + 1
             /\ currentState' \in {"IDLE", "RETRIEVE_POSTS"}
      BY LimitAssumption DEF CountSent
    <3> QED
      BY <3>1, <3>2
      DEF sentMessage, sendVersionAlert, sendOptions, sendPost, sendRetransmit,
          RestingStates, Admitted, Joining, handshake, counters
  <2>4. CASE Answer
    <3> USE DEF RestingStates, Admitted, KickReasons, counters
    <3>1. CASE noStoredPermissions
      BY <3>1 DEF noStoredPermissions, DefaultPermissions
    <3>2. CASE \E permissions \in SUBSET Flags : givePermissions(permissions)
      <4>1. PICK permissions \in SUBSET Flags : givePermissions(permissions)
        BY <3>2
      <4>2. PermissionsByte' \subseteq Flags
        BY <4>1 DEF givePermissions
      <4>3. /\ currentState' \in {"NEGOTIATE_OPTIONS", "CLOSED"}
            /\ KickReason' \in KickReasons
        BY <4>1 DEF givePermissions
      <4>4. /\ pleaseFetchPermissions' \in BOOLEAN
            /\ UNCHANGED <<SourceID, usingVersion, AmassTotal, PSentInLastLoad>>
        BY <4>1 DEF givePermissions
      <4> QED
        BY <4>2, <4>3, <4>4
    <3> QED
      BY <2>4, <3>1, <3>2 DEF Answer
  <2>5. CASE Change
    <3> USE DEF RestingStates, handshake, counters
    <3>1. CASE wantsToChangePermissions
      BY <3>1 DEF wantsToChangePermissions
    <3>2. CASE \E uid \in SourceIds : wantsToChangeUser(uid)
      <4>1. PICK uid \in SourceIds : wantsToChangeUser(uid)
        BY <3>2
      <4>2. currentState' \in {"APPROVE_CHANGES", "DENY_CHANGES"}
        BY <4>1 DEF wantsToChangeUser
      <4> QED
        BY <4>1, <4>2 DEF wantsToChangeUser
    <3> QED
      BY <2>5, <3>1, <3>2 DEF Change
  <2>6. CASE \E call \in Abandonments : abandon(call)
    <3>1. PICK call \in Abandonments : abandon(call)
      BY <2>6
    <3>2. call.kick \in KickReasons
      BY <3>1 DEF Abandonments, KickReasons
    <3> QED
      BY <3>1, <3>2 DEF abandon, RestingStates, handshake, counters
  <2>7. CASE UNCHANGED vars
    BY <2>7 DEF vars, handshake, counters
  <2> QED
    BY <2>1, <2>2, <2>3, <2>4, <2>5, <2>6, <2>7 DEF Next
<1> QED
  BY <1>1, <1>2, PTL DEF Spec

-----------------------------------------------------------------------------
\* The two safety invariants together are inductive relative to TypeOK.
Safety == FetchBeforeAdmission /\ RightsGuardData

\* A message received keeps the invariants (receivedMessage).
LEMMA ReceiveSafe ==
    ASSUME TypeOK, Safety, Receive PROVE Safety'
<1>1. PICK cls \in Classes, version \in Versions, sid \in SourceIds,
           frames \in SUBSET FrameKinds :
             receivedMessage(cls, version, sid, frames)
  BY DEF Receive
<1> USE DEF Safety, FetchBeforeAdmission, RightsGuardData, Joining, Admitted,
            handshake, counters
<1>2. CASE receiveLogin(cls, version, sid, frames)
  BY <1>2 DEF receiveLogin, VersionVerdict
<1>3. CASE receiveWhileJoining(version)
  BY <1>3 DEF receiveWhileJoining, VersionVerdict
<1>4. CASE receiveUserManagement(cls, frames)
  BY <1>4 DEF receiveUserManagement
<1>5. CASE receiveLogout(cls, frames)
  BY <1>5 DEF receiveLogout
<1>6. CASE receiveLoad(cls, frames)
  BY <1>6 DEF receiveLoad
<1>7. CASE receivePost(cls, frames)
  BY <1>7 DEF receivePost
<1>8. CASE receivePiece
  BY <1>8 DEF receivePiece
<1> QED
  BY <1>1, <1>2, <1>3, <1>4, <1>5, <1>6, <1>7, <1>8 DEF receivedMessage

\* A message sent keeps the invariants (sentMessage).
LEMMA SendSafe ==
    ASSUME TypeOK, Safety, Send PROVE Safety'
<1>1. PICK cls \in Classes, hadRetransmitFrame \in BOOLEAN,
           outOfMessages \in BOOLEAN :
             sentMessage(cls, hadRetransmitFrame, outOfMessages)
  BY DEF Send
<1> USE DEF Safety, FetchBeforeAdmission, RightsGuardData, Joining, Admitted,
            handshake, counters
<1>2. CASE sendVersionAlert(cls)
  BY <1>2 DEF sendVersionAlert
<1>3. CASE sendOptions(cls, outOfMessages)
  BY <1>3 DEF sendOptions, CountSent
<1>4. CASE sendPost(outOfMessages)
  BY <1>4 DEF sendPost, CountSent
<1>5. CASE sendRetransmit(hadRetransmitFrame)
  BY <1>5 DEF sendRetransmit
<1> QED
  BY <1>1, <1>2, <1>3, <1>4, <1>5 DEF sentMessage

\* Every other entry point keeps them.
LEMMA CallSafe ==
    ASSUME TypeOK, Safety,
           ReceiveVersion \/ Answer \/ Change
              \/ \E call \in Abandonments : abandon(call)
    PROVE  Safety'
<1> USE DEF Safety, FetchBeforeAdmission, RightsGuardData, Joining, Admitted,
            handshake, counters
<1>1. CASE ReceiveVersion
  BY <1>1 DEF ReceiveVersion, receivedVersionNegotiationResponse
<1>2. CASE Answer
  <2>1. ASSUME NEW permissions \in SUBSET Flags, givePermissions(permissions)
        PROVE  Safety'
    BY <2>1 DEF givePermissions
  <2>2. CASE noStoredPermissions
    BY <2>2 DEF noStoredPermissions, DefaultPermissions, Flags
  <2> QED
    BY <1>2, <2>1, <2>2 DEF Answer
<1>3. CASE Change
  <2>1. CASE wantsToChangePermissions
    BY <2>1 DEF wantsToChangePermissions
  <2>2. ASSUME NEW uid \in SourceIds, wantsToChangeUser(uid)
        PROVE  Safety'
    BY <2>2 DEF wantsToChangeUser, MayChangeUser
  <2> QED
    BY <1>3, <2>1, <2>2 DEF Change
<1>4. CASE \E call \in Abandonments : abandon(call)
  BY <1>4 DEF Abandonments, abandon
<1> QED
  BY <1>1, <1>2, <1>3, <1>4

LEMMA SafetyInductive == TypeOK /\ Safety /\ [Next]_vars => Safety'
<1> SUFFICES ASSUME TypeOK, Safety, [Next]_vars PROVE Safety'
  OBVIOUS
<1>1. CASE UNCHANGED vars
  BY <1>1 DEF Safety, FetchBeforeAdmission, RightsGuardData, vars, handshake
<1>2. CASE Next
  BY <1>2, ReceiveSafe, SendSafe, CallSafe DEF Next
<1> QED
  BY <1>1, <1>2

LEMMA SafetyHolds == Spec => []Safety
<1>1. Init => Safety
  BY DEF Init, Safety, FetchBeforeAdmission, RightsGuardData, Joining, Admitted
<1> QED
  BY <1>1, SafetyInductive, TypeCorrect, PTL DEF Spec

\* No peer is admitted before the permission store has answered its own login
\* with the right to join (givePermissions, noStoredPermissions).
THEOREM AdmissionNeedsAnswer == Spec => []FetchBeforeAdmission
<1>1. Safety => FetchBeforeAdmission
  BY DEF Safety
<1> QED
  BY <1>1, SafetyHolds, PTL

\* Loads, posts and approvals happen on rights in force (receivedMessage,
\* sentMessage, wantsToChangeUser).
THEOREM RightsGuardDataHolds == Spec => []RightsGuardData
<1>1. Safety => RightsGuardData
  BY DEF Safety
<1> QED
  BY <1>1, SafetyHolds, PTL

-----------------------------------------------------------------------------
\* Each of the three action properties holds of every step that starts in a
\* state satisfying the invariants.
LEMMA StepLemma ==
    TypeOK /\ Safety /\ [Next]_vars => FrozenStep /\ LogoutStep /\ AnswerStep
<1> SUFFICES ASSUME TypeOK, Safety, [Next]_vars
             PROVE  FrozenStep /\ LogoutStep /\ AnswerStep
  OBVIOUS
<1> USE DEF FrozenStep, LogoutStep, AnswerStep, Admitted, Established,
            handshake, counters
<1>1. CASE Receive
  BY <1>1
  DEF Receive, receivedMessage, receiveLogin, receiveWhileJoining,
      receiveUserManagement, receiveLogout, receiveLoad, receivePost,
      receivePiece, VersionVerdict
<1>2. CASE Send
  BY <1>2
  DEF Send, sentMessage, sendVersionAlert, sendOptions, sendPost,
      sendRetransmit, CountSent
<1>3. CASE ReceiveVersion
  BY <1>3 DEF ReceiveVersion, receivedVersionNegotiationResponse
<1>4. CASE Answer
  <2>1. ASSUME NEW permissions \in SUBSET Flags, givePermissions(permissions)
        PROVE  FrozenStep /\ LogoutStep /\ AnswerStep
    BY <2>1 DEF givePermissions, TypeOK
  <2>2. CASE noStoredPermissions
    BY <2>2 DEF noStoredPermissions
  <2> QED
    BY <1>4, <2>1, <2>2 DEF Answer
<1>5. CASE Change
  BY <1>5 DEF Change, wantsToChangePermissions, wantsToChangeUser
<1>6. CASE \E call \in Abandonments : abandon(call)
  BY <1>6 DEF Abandonments, abandon
<1>7. CASE UNCHANGED vars
  BY <1>7 DEF vars
<1> QED
  BY <1>1, <1>2, <1>3, <1>4, <1>5, <1>6, <1>7 DEF Next

\* Identity, rights and version do not change under an admitted connection.
THEOREM FrozenHolds == Spec => FrozenWhileAdmitted
<1>1. TypeOK /\ Safety /\ [Next]_vars => [FrozenStep]_vars
  BY StepLemma
<1> QED
  BY <1>1, TypeCorrect, SafetyHolds, PTL DEF Spec, FrozenWhileAdmitted

\* An established connection closes by a logout only.
THEOREM LogoutHolds == Spec => EstablishedEndsByLogout
<1>1. TypeOK /\ Safety /\ [Next]_vars => [LogoutStep]_vars
  BY StepLemma
<1> QED
  BY <1>1, TypeCorrect, SafetyHolds, PTL DEF Spec, EstablishedEndsByLogout

\* One login is answered at most once.
THEOREM AnswerOnceHolds == Spec => AnswerOnce
<1>1. TypeOK /\ Safety /\ [Next]_vars => [AnswerStep]_vars
  BY StepLemma
<1> QED
  BY <1>1, TypeCorrect, SafetyHolds, PTL DEF Spec, AnswerOnce

-----------------------------------------------------------------------------
(* The kernel with its host.                                                *)

\* The host only ever calls the kernel: what holds of the kernel under every
\* sequence of calls holds of it with this host.
LEMMA HostCallsKernel == HostSpec => Spec
<1>1. HostInit => Init
  BY DEF HostInit
<1>2. [HostNext]_hvars => [Next]_vars
  <2> SUFFICES ASSUME [HostNext]_hvars PROVE [Next]_vars
    OBVIOUS
  <2>1. CASE PeerSends
    <3>1. PICK msg \in PeerMessages, version \in Versions, sid \in SourceIds :
                 receivedMessage(msg.cls, version, sid, msg.frames)
      BY <2>1 DEF PeerSends
    <3>2. msg.cls \in Classes /\ msg.frames \in SUBSET FrameKinds
      BY DEF PeerMessages, Classes, FrameKinds, ConnectionEstablish,
             UserManagement, Data
    <3> QED
      BY <3>1, <3>2 DEF Next, Receive
  <2>2. CASE PeerNegotiates
    <3>1. VersionNegotiation \in Classes
      BY DEF VersionNegotiation, Classes
    <3> QED
      BY <2>2, <3>1 DEF PeerNegotiates, Next, ReceiveVersion
  <2>3. CASE Ask
    BY <2>3 DEF Ask
  <2>4. ASSUME NEW u \in SourceIds, StoreAnswers(u) PROVE [Next]_vars
    <3>1. u \in DOMAIN StoredRights => StoredRights[u] \in SUBSET Flags
      BY StoreAssumption
    <3>2. CASE PassOn(u)
      BY <3>1, <3>2 DEF PassOn, Next, Answer
    <3> QED
      BY <2>4, <3>2 DEF StoreAnswers
  <2>5. CASE HostAlerts \/ HostSendsOptions \/ HostSendsPost \/ HostRetransmits
    <3>1. PICK cls \in Classes, hadRetransmitFrame \in BOOLEAN,
               outOfMessages \in BOOLEAN :
                 sentMessage(cls, hadRetransmitFrame, outOfMessages)
      <4>1. VersionNegotiation \in Classes /\ ConnectionEstablish \in Classes
        BY DEF VersionNegotiation, ConnectionEstablish, Classes
      <4>2. (stock' = 0) \in BOOLEAN /\ (stock <= 1) \in BOOLEAN
        OBVIOUS
      <4> QED
        BY <2>5, <4>1, <4>2
        DEF HostAlerts, HostSendsOptions, HostSendsPost, HostRetransmits,
            sentMessage
    <3> QED
      BY <3>1 DEF Next, Send
  <2>6. CASE HostDecidesChange \/ HostAbandons
    BY <2>6 DEF HostDecidesChange, HostAbandons, Next
  <2>7. CASE UNCHANGED hvars
    BY <2>7 DEF hvars
  <2> QED
    BY <2>1, <2>2, <2>3, <2>4, <2>5, <2>6, <2>7 DEF HostNext
<1> QED
  BY <1>1, <1>2, PTL DEF HostSpec, Spec

-----------------------------------------------------------------------------
\* What the host's care for its answers buys: a peer inside has the rights
\* stored for the user it logged in as.
InsideOnStoredRights ==
    currentState \in Inside => PermissionsByte = Rights(SourceID)

LEMMA StoredRightsInductive ==
    ASSUME FetchBeforeAdmission, InsideOnStoredRights, [HostNext]_hvars
    PROVE  InsideOnStoredRights'
<1> USE DEF InsideOnStoredRights, Inside, Admitted, Rights
<1>1. CASE PeerSends
  <2>1. PICK msg \in PeerMessages, version \in Versions, sid \in SourceIds :
               receivedMessage(msg.cls, version, sid, msg.frames)
    BY <1>1 DEF PeerSends
  <2>2. CASE \/ receiveLogin(msg.cls, version, sid, msg.frames)
             \/ receiveWhileJoining(version)
    BY <2>2 DEF receiveLogin, receiveWhileJoining, VersionVerdict
  <2>3. CASE \/ receiveUserManagement(msg.cls, msg.frames)
             \/ receiveLogout(msg.cls, msg.frames)
    BY <2>3 DEF receiveUserManagement, receiveLogout, handshake
  <2>4. CASE \/ receiveLoad(msg.cls, msg.frames)
             \/ receivePost(msg.cls, msg.frames)
             \/ receivePiece
    BY <2>4 DEF receiveLoad, receivePost, receivePiece, handshake
  <2> QED
    BY <2>1, <2>2, <2>3, <2>4 DEF receivedMessage
<1>2. CASE PeerNegotiates
  BY <1>2 DEF PeerNegotiates, receivedVersionNegotiationResponse
<1>3. CASE Ask
  BY <1>3 DEF Ask, vars, handshake
<1>4. ASSUME NEW u \in SourceIds, StoreAnswers(u) PROVE InsideOnStoredRights'
  <2>1. CASE UNCHANGED vars
    BY <2>1 DEF vars, handshake
  <2>2. CASE u = SourceID /\ givePermissions(StoredRights[u])
              /\ u \in DOMAIN StoredRights
    <3>1. pleaseFetchPermissions
      BY <2>2 DEF givePermissions, FetchBeforeAdmission, Joining
    <3> QED
      BY <2>2, <3>1 DEF givePermissions
  <2>3. CASE u = SourceID /\ noStoredPermissions /\ u \notin DOMAIN StoredRights
    BY <2>3 DEF noStoredPermissions
  <2> QED
    BY <1>4, <2>1, <2>2, <2>3 DEF StoreAnswers, PassOn
<1>5. CASE HostAlerts \/ HostSendsOptions \/ HostSendsPost \/ HostRetransmits
  <2>1. UNCHANGED handshake /\ (currentState' \in Inside => currentState \in Inside)
    BY <1>5
    DEF HostAlerts, HostSendsOptions, HostSendsPost, HostRetransmits,
        sendVersionAlert, sendOptions, sendPost, sendRetransmit
  <2> QED
    BY <2>1 DEF handshake
<1>6. CASE HostDecidesChange \/ HostAbandons
  <2>1. UNCHANGED handshake /\ (currentState' \in Inside => currentState \in Inside)
    BY <1>6
    DEF HostDecidesChange, Change, wantsToChangePermissions, wantsToChangeUser,
        HostAbandons, abandon
  <2> QED
    BY <2>1 DEF handshake
<1>7. CASE UNCHANGED hvars
  BY <1>7 DEF hvars, vars, handshake
<1> QED
  BY <1>1, <1>2, <1>3, <1>4, <1>5, <1>6, <1>7 DEF HostNext

LEMMA StoredRightsHold == HostSpec => []InsideOnStoredRights
<1>1. HostInit => InsideOnStoredRights
  BY DEF HostInit, Init, InsideOnStoredRights, Inside, Admitted
<1>2. HostSpec => []FetchBeforeAdmission
  BY HostCallsKernel, AdmissionNeedsAnswer, PTL
<1> QED
  BY <1>1, <1>2, StoredRightsInductive, PTL DEF HostSpec

-----------------------------------------------------------------------------
\* A step that leaves the connection open, the user the same and the peer on
\* the same side of the door changes nothing that Access sees.
LEMMA AccessStutters ==
    ASSUME currentState # "CLOSED", currentState' # "CLOSED",
           SourceID' = SourceID,
           currentState \in Inside <=> currentState' \in Inside,
           currentState \in Inside => PermissionsByte' = PermissionsByte
    PROVE  UNCHANGED Abstract!access
<1>1. UNCHANGED (IF currentState = "CLOSED" THEN Nobody ELSE SourceID)
  OBVIOUS
<1>2. UNCHANGED (currentState \in Inside)
  <2>1. (currentState \in Inside) \in BOOLEAN /\ (currentState' \in Inside) \in BOOLEAN
    OBVIOUS
  <2> QED
    BY <2>1
<1>3. UNCHANGED (IF currentState \in Inside THEN PermissionsByte ELSE {})
  OBVIOUS
<1> QED
  BY <1>1, <1>2, <1>3 DEF Abstract!access

\* A step that closes an open connection is a Leave.
LEMMA AccessLeaves ==
    ASSUME TypeOK, currentState # "CLOSED", currentState' = "CLOSED"
    PROVE  Abstract!Leave
<1>1. currentState' \notin Inside
  BY DEF Inside, Admitted
<1>2. SourceID # Nobody
  BY NobodyAssumption DEF TypeOK
<1> QED
  BY <1>1, <1>2 DEF Abstract!Leave, Abstract!Outside

LEMMA AccessStep ==
    ASSUME TypeOK, FetchBeforeAdmission, InsideOnStoredRights,
           InsideOnStoredRights', [HostNext]_hvars
    PROVE  [Abstract!Next]_(Abstract!access)
<1> USE DEF Inside, Admitted
<1>1. CASE PeerSends
  <2>1. PICK msg \in PeerMessages, version \in Versions, sid \in SourceIds :
               receivedMessage(msg.cls, version, sid, msg.frames)
    BY <1>1 DEF PeerSends
  <2>2. CASE receiveLogin(msg.cls, version, sid, msg.frames)
    <3>1. currentState' \notin Inside /\ currentState' # "CLOSED"
      BY <2>2 DEF receiveLogin, VersionVerdict
    <3>2. Abstract!Login(sid)
      BY <2>2, <3>1 DEF receiveLogin, Abstract!Login
    <3> QED
      BY <3>2 DEF Abstract!Next
  <2>3. CASE receiveWhileJoining(version)
    BY <2>3, AccessStutters DEF receiveWhileJoining, VersionVerdict, handshake
  <2>4. CASE receiveUserManagement(msg.cls, msg.frames)
    BY <2>4, AccessStutters DEF receiveUserManagement, handshake
  <2>5. CASE receiveLogout(msg.cls, msg.frames)
    BY <2>5, AccessLeaves DEF receiveLogout, Abstract!Next
  <2>6. CASE \/ receiveLoad(msg.cls, msg.frames)
             \/ receivePost(msg.cls, msg.frames)
             \/ receivePiece
    BY <2>6, AccessStutters DEF receiveLoad, receivePost, receivePiece, handshake
  <2> QED
    BY <2>1, <2>2, <2>3, <2>4, <2>5, <2>6 DEF receivedMessage
<1>2. CASE PeerNegotiates
  <2>1. CASE currentState' = "CLOSED"
    BY <1>2, <2>1, AccessLeaves
    DEF PeerNegotiates, receivedVersionNegotiationResponse, Abstract!Next
  <2>2. CASE currentState' # "CLOSED"
    BY <1>2, <2>2, AccessStutters
    DEF PeerNegotiates, receivedVersionNegotiationResponse
  <2> QED
    BY <2>1, <2>2
<1>3. ASSUME UNCHANGED vars PROVE UNCHANGED Abstract!access
  BY <1>3 DEF vars, handshake, Abstract!access
<1>4. ASSUME NEW u \in SourceIds, StoreAnswers(u)
      PROVE  [Abstract!Next]_(Abstract!access)
  <2>1. CASE UNCHANGED vars
    BY <1>3, <2>1
  <2>2. CASE PassOn(u)
    <3>1. currentState = "CHECK_JOIN_PERM" /\ SourceID' = SourceID
      BY <2>2 DEF PassOn, givePermissions, noStoredPermissions
    <3>2. CASE currentState' = "CLOSED"
      BY <3>1, <3>2, AccessLeaves DEF Abstract!Next
    <3>3. CASE currentState' = "NEGOTIATE_OPTIONS"
      <4>1. "Join" \in PermissionsByte'
        BY <2>2, <3>3
        DEF PassOn, givePermissions, noStoredPermissions, DefaultPermissions, Flags
      <4>2. PermissionsByte' = Rights(SourceID)
        BY <3>1, <3>3 DEF InsideOnStoredRights, Rights
      <4>3. SourceID # Nobody
        BY NobodyAssumption DEF TypeOK
      <4>4. Abstract!Admit
        BY <3>1, <3>3, <4>1, <4>2, <4>3 DEF Abstract!Admit
      <4> QED
        BY <4>4 DEF Abstract!Next
    <3> QED
      BY <2>2, <3>2, <3>3 DEF PassOn, givePermissions, noStoredPermissions
  <2> QED
    BY <1>4, <2>1, <2>2 DEF StoreAnswers
<1>5. CASE HostAlerts \/ HostSendsOptions \/ HostSendsPost \/ HostRetransmits
  BY <1>5, AccessStutters
  DEF HostAlerts, HostSendsOptions, HostSendsPost, HostRetransmits, handshake,
      sendVersionAlert, sendOptions, sendPost, sendRetransmit, CountSent
<1>6. CASE HostDecidesChange
  BY <1>6, AccessStutters
  DEF HostDecidesChange, Change, wantsToChangePermissions, wantsToChangeUser,
      handshake
<1>7. CASE HostAbandons
  BY <1>7, AccessLeaves DEF HostAbandons, abandon, Abandonments, Abstract!Next
<1>8. CASE Ask \/ UNCHANGED hvars
  BY <1>3, <1>8 DEF Ask, hvars
<1> QED
  BY <1>1, <1>2, <1>4, <1>5, <1>6, <1>7, <1>8 DEF HostNext

\* The kernel and its host implement Access: whatever logins, kicks and late
\* answers of the store cross, a peer is inside on the rights stored for the
\* user it logged in as (givePermissions, noStoredPermissions).
THEOREM ImplementsAccessHolds == HostSpec => ImplementsAccess
<1>1. HostInit => Abstract!Init
  BY DEF HostInit, Init, Abstract!Init, Inside, Admitted
<1>2. HostSpec => [](TypeOK /\ FetchBeforeAdmission /\ InsideOnStoredRights)
  BY HostCallsKernel, TypeCorrect, AdmissionNeedsAnswer, StoredRightsHold, PTL
<1> QED
  BY <1>1, <1>2, AccessStep, PTL DEF HostSpec, ImplementsAccess, Abstract!Spec

-----------------------------------------------------------------------------
\* The posts of a load under way are counted by PSentInLastLoad.
LoadCounted ==
    /\ requested => loaded \in 0 .. PSendAtOnceLimit
    /\ requested /\ currentState = "RETRIEVE_POSTS" =>
          loaded <= PSentInLastLoad /\ PSentInLastLoad < PSendAtOnceLimit

LEMMA LoadCountedInductive ==
    ASSUME TypeOK, LoadCounted, [HostNext]_hvars
    PROVE  LoadCounted'
<1> USE LimitAssumption DEF LoadCounted
<1>1. CASE PeerSends
  <2>1. PICK msg \in PeerMessages, version \in Versions, sid \in SourceIds :
               receivedMessage(msg.cls, version, sid, msg.frames)
    BY <1>1 DEF PeerSends
  <2>2. CASE currentState' = "RETRIEVE_POSTS"
    <3>1. PSentInLastLoad' = 0
      BY <2>1, <2>2
      DEF receivedMessage, receiveLogin, receiveWhileJoining, VersionVerdict,
          receiveUserManagement, receiveLogout, receiveLoad, receivePost,
          receivePiece
    <3>2. loaded' = 0
      BY <1>1, <2>2 DEF PeerSends, BeginLoad
    <3> QED
      BY <3>1, <3>2
  <2>3. CASE currentState' # "RETRIEVE_POSTS"
    <3>1. loaded' = loaded /\ requested' = requested
      BY <1>1, <2>3 DEF PeerSends, load, BeginLoad
    <3> QED
      BY <2>3, <3>1
  <2> QED
    BY <2>2, <2>3
<1>2. ASSUME UNCHANGED load, UNCHANGED PSentInLastLoad,
             currentState' = "RETRIEVE_POSTS" => currentState = "RETRIEVE_POSTS"
      PROVE  LoadCounted'
  BY <1>2 DEF load
<1>3. CASE PeerNegotiates
  BY <1>2, <1>3 DEF PeerNegotiates, receivedVersionNegotiationResponse, counters
<1>4. CASE Ask \/ UNCHANGED hvars
  BY <1>2, <1>4 DEF Ask, hvars, vars, counters
<1>5. ASSUME NEW u \in SourceIds, StoreAnswers(u) PROVE LoadCounted'
  <2>1. UNCHANGED PSentInLastLoad /\ UNCHANGED load
    BY <1>5
    DEF StoreAnswers, PassOn, givePermissions, noStoredPermissions, vars, counters
  <2>2. currentState' = "RETRIEVE_POSTS" => currentState = "RETRIEVE_POSTS"
    BY <1>5 DEF StoreAnswers, PassOn, givePermissions, noStoredPermissions, vars
  <2> QED
    BY <1>2, <2>1, <2>2
<1>6. CASE HostAlerts \/ HostRetransmits
  BY <1>2, <1>6
  DEF HostAlerts, HostRetransmits, sendVersionAlert, sendRetransmit, counters
<1>7. CASE HostSendsOptions
  BY <1>7 DEF HostSendsOptions, BeginLoad
<1>8. CASE HostSendsPost
  <2>1. PSentInLastLoad \in Nat /\ currentState = "RETRIEVE_POSTS"
    BY <1>8 DEF TypeOK, HostSendsPost, sendPost
  <2>2. requested' = requested /\ (loaded' = loaded \/ loaded' = loaded + 1)
    BY <1>8 DEF HostSendsPost
  <2>3. requested =>
          /\ PSentInLastLoad' = PSentInLastLoad + 1
          /\ currentState' = "RETRIEVE_POSTS" =>
                PSentInLastLoad + 1 # PSendAtOnceLimit
    BY <1>8, <2>1 DEF HostSendsPost, sendPost, CountSent
  <2>4. requested => loaded + 1 \in 0 .. PSendAtOnceLimit
    BY <2>1
  <2>5. CASE requested
    BY <2>1, <2>2, <2>3, <2>4, <2>5
  <2>6. CASE ~requested
    BY <2>2, <2>6
  <2> QED
    BY <2>5, <2>6
<1>9. CASE HostDecidesChange \/ HostAbandons
  BY <1>2, <1>9
  DEF HostDecidesChange, Change, wantsToChangePermissions, wantsToChangeUser,
      HostAbandons, abandon, Abandonments, counters
<1> QED
  BY <1>1, <1>3, <1>4, <1>5, <1>6, <1>7, <1>8, <1>9 DEF HostNext

\* A Load frame is answered with no more than PSendAtOnceLimit posts, whatever
\* the counter held when it came (receivedMessage, sentMessage).
THEOREM LoadBoundedHolds == HostSpec => []LoadBounded
<1>1. HostInit => LoadCounted
  BY DEF HostInit, LoadCounted
<1>2. HostSpec => []TypeOK
  BY HostCallsKernel, TypeCorrect, PTL
<1>3. TypeOK /\ LoadCounted => LoadBounded
  BY LimitAssumption DEF TypeOK, LoadCounted, LoadBounded
<1> QED
  BY <1>1, <1>2, <1>3, LoadCountedInductive, PTL DEF HostSpec
=============================================================================
