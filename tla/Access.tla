------------------------------- MODULE Access -------------------------------
(***************************************************************************)
(* What the protocol kernel promises about access to a chat: a connection  *)
(* carries one user at a time, who is let in on the rights stored for that *)
(* user and on no others, and keeps them until the connection is left.     *)
(***************************************************************************)
CONSTANTS
    Users,     \* user ids
    Nobody,    \* no user
    Rights(_), \* the rights stored for a user
    Join       \* the right without which nobody is let in

VARIABLES
    user,   \* the user of the connection, or Nobody
    inside, \* whether the user has been let in
    rights  \* the rights in force, none outside

access == <<user, inside, rights>>

Outside == user' = Nobody /\ inside' = FALSE /\ rights' = {}

Init == user = Nobody /\ inside = FALSE /\ rights = {}

Login(u) ==
    /\ user = Nobody
    /\ user' = u
    /\ UNCHANGED <<inside, rights>>

Admit ==
    /\ user # Nobody /\ ~inside
    /\ Join \in Rights(user)
    /\ inside' = TRUE
    /\ rights' = Rights(user)
    /\ UNCHANGED user

\* Refused, given up, or logged out.
Leave == user # Nobody /\ Outside

Next == (\E u \in Users : Login(u)) \/ Admit \/ Leave

Spec == Init /\ [][Next]_access
=============================================================================
