----------------------------- MODULE KernelHost -----------------------------
(***************************************************************************)
(* The kernel with the host it is written for (QMSPkernel.c): the host     *)
(* hands it the messages of the peer, sends what its state asks for, and   *)
(* asks a permission store for the rights of the user who logs in.  The    *)
(* store answers when it can: by then the user may have been given up and  *)
(* another one have logged in.  givePermissions carries no user id, so it  *)
(* is the host that has to see for whom an answer is.                      *)
(*                                                                         *)
(* The repository has no host: the host here is external, the least one    *)
(* that the interface of the kernel requires.                              *)
(*                                                                         *)
(* Definitions named <definition>_<Fault> are faulty variants of the       *)
(* definition that follows them; no specification uses them.               *)
(***************************************************************************)
EXTENDS Kernel

CONSTANTS
    StoredRights, \* user -> flags, for the users the store knows
    Nobody,       \* no user
    MaxPosts      \* bound of the model: posts the host may find for one load

ASSUME StoreAssumption == /\ DOMAIN StoredRights \subseteq SourceIds
                          /\ \A u \in DOMAIN StoredRights : StoredRights[u] \subseteq Flags
ASSUME NobodyAssumption == Nobody \notin SourceIds
ASSUME PostsAssumption == MaxPosts \in Nat

VARIABLES
    asked,     \* users for whom an answer of the store is under way
    stock,     \* posts still to be sent for the load under way
    loaded,    \* posts sent for the load under way
    requested, \* the load under way answers a Load frame of the peer
    impatient  \* the last message of the peer, sent while its login was
               \* undecided, was a version mismatch

load  == <<stock, loaded, requested>>
hvars == <<vars, asked, load, impatient>>

HostInit ==
    /\ Init
    /\ asked = {}
    /\ stock = 0 /\ loaded = 0 /\ requested = FALSE
    /\ impatient = FALSE

-----------------------------------------------------------------------------
(* The peer.                                                                *)

\* Posts are looked up when a load begins: byRequest for a Load frame,
\* otherwise with the options message.
BeginLoad(byRequest) ==
    /\ stock' \in 0 .. MaxPosts
    /\ loaded' = 0
    /\ requested' = byRequest

\* The messages of the protocol (Kernel is checked with all others, too).
Data == 0 \* one of the data classes
PeerMessages ==
    [cls : {ConnectionEstablish}, frames : {{"Login"}, {"Logout"}}]
        \union [cls : {UserManagement}, frames : {{"UserDatagram"}}]
        \union [cls : {Data}, frames : {{"Load"}, {"Data"}}]

PeerSends ==
    \E msg \in PeerMessages, version \in Versions, sid \in SourceIds :
        /\ receivedMessage(msg.cls, version, sid, msg.frames)
        /\ \/ currentState' = "RETRIEVE_POSTS" /\ BeginLoad(TRUE)
           \/ currentState' # "RETRIEVE_POSTS" /\ UNCHANGED load
        /\ impatient' = (/\ currentState = "CHECK_JOIN_PERM"
                         /\ currentState' = "VERSION_NEGOTIATE_ALERT")
        /\ UNCHANGED asked

PeerNegotiates ==
    \E version \in Versions :
        /\ receivedVersionNegotiationResponse(VersionNegotiation, version)
        /\ UNCHANGED <<asked, load, impatient>>

-----------------------------------------------------------------------------
(* The permission store.                                                    *)

\* The host sees pleaseFetchPermissions and asks, once until it is answered.
Ask ==
    /\ pleaseFetchPermissions
    /\ SourceID \notin asked
    /\ asked' = asked \union {SourceID}
    /\ UNCHANGED <<vars, load, impatient>>

\* Fault: an answer is passed on whoever it is for.
PassOn_Unchecked(u) ==
    \/ u \in DOMAIN StoredRights /\ givePermissions(StoredRights[u])
    \/ u \notin DOMAIN StoredRights /\ noStoredPermissions

\* The call the host makes for an answer about user u: none when another user
\* has logged in since.
PassOn(u) ==
    /\ u = SourceID
    /\ \/ u \in DOMAIN StoredRights /\ givePermissions(StoredRights[u])
       \/ u \notin DOMAIN StoredRights /\ noStoredPermissions

\* The kernel takes an answer only in CHECK_JOIN_PERM; elsewhere it is lost.
StoreAnswers(u) ==
    /\ u \in asked
    /\ asked' = asked \ {u}
    /\ \/ PassOn(u)
       \/ (currentState # "CHECK_JOIN_PERM" \/ u # SourceID) /\ UNCHANGED vars
    /\ UNCHANGED <<load, impatient>>

-----------------------------------------------------------------------------
(* What the host sends.                                                     *)

HostAlerts ==
    /\ sendVersionAlert(VersionNegotiation)
    /\ UNCHANGED <<asked, load, impatient>>

HostSendsOptions ==
    /\ BeginLoad(FALSE)
    /\ sendOptions(ConnectionEstablish, stock' = 0)
    /\ UNCHANGED <<asked, impatient>>

\* A post of the stock, or word that there is none.
HostSendsPost ==
    /\ sendPost(stock <= 1)
    /\ stock' = IF stock = 0 THEN 0 ELSE stock - 1
    /\ loaded' = IF stock = 0 THEN loaded ELSE loaded + 1
    /\ UNCHANGED <<asked, requested, impatient>>

HostRetransmits ==
    /\ sendRetransmit(TRUE)
    /\ UNCHANGED <<asked, load, impatient>>

-----------------------------------------------------------------------------
(* What the host decides: changes when they are due, kicks at any time.     *)

HostDecidesChange ==
    /\ currentState = "CHECK_CHANGE_PERM"
    /\ Change
    /\ UNCHANGED <<asked, load, impatient>>

HostAbandons ==
    /\ \E call \in Abandonments : abandon(call)
    /\ UNCHANGED <<asked, load, impatient>>

-----------------------------------------------------------------------------
HostNext ==
    \/ PeerSends \/ PeerNegotiates
    \/ Ask \/ \E u \in SourceIds : StoreAnswers(u)
    \/ HostAlerts \/ HostSendsOptions \/ HostSendsPost \/ HostRetransmits
    \/ HostDecidesChange \/ HostAbandons

HostSpec == HostInit /\ [][HostNext]_hvars

\* The host does what the kernel asks, the store answers, and a peer that was
\* sent a version alert answers it with some version.
HostFairSpec ==
    /\ HostSpec
    /\ WF_hvars(Ask) /\ \A u \in SourceIds : WF_hvars(StoreAnswers(u))
    /\ WF_hvars(HostAlerts) /\ WF_hvars(HostSendsOptions) /\ WF_hvars(HostSendsPost)
    /\ WF_hvars(PeerNegotiates)

-----------------------------------------------------------------------------
(* Properties.                                                              *)

Rights(u) == IF u \in DOMAIN StoredRights THEN StoredRights[u] ELSE DefaultPermissions

Inside == Admitted \union {"APPROVE_CHANGES", "DENY_CHANGES"}

\* The kernel and this host implement the abstract rules of access: whatever
\* logins, kicks and late answers cross, a peer is inside on the rights stored
\* for the user it logged in as (givePermissions, noStoredPermissions).
Abstract == INSTANCE Access WITH
    Users  <- SourceIds,
    Join   <- "Join",
    user   <- IF currentState = "CLOSED" THEN Nobody ELSE SourceID,
    inside <- currentState \in Inside,
    rights <- IF currentState \in Inside THEN PermissionsByte ELSE {}
ImplementsAccess == Abstract!Spec

\* A Load frame is answered with no more than PSendAtOnceLimit posts, whatever
\* the counter held when it came (receivedMessage, sentMessage).
LoadBounded ==
    /\ requested => loaded <= PSendAtOnceLimit
    /\ requested /\ currentState = "RETRIEVE_POSTS" => loaded < PSendAtOnceLimit

\* Every load ends.  One that follows the options message starts with its
\* counter at the limit and misses the test for equality: only the lack of
\* posts ends it.
LoadsEnd == currentState = "RETRIEVE_POSTS" ~> currentState # "RETRIEVE_POSTS"

\* A login is decided: admitted, refused or given up, through every round of
\* version negotiation.  Only a peer that goes on sending before the decision
\* may talk itself out of it: after an agreed alternative version each of its
\* messages is a version mismatch again, and the answer is lost meanwhile
\* (receivedMessage tests protocolVersion, not usingVersion).
LoginDecided == currentState \in Joining ~> currentState \notin Joining \/ impatient
=============================================================================
