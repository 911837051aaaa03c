---------------------------- MODULE MCChatStore -----------------------------
(***************************************************************************)
(* The chat store on small instances.  What the connections carry and the  *)
(* rows the files start with are functions, which a cfg cannot write.      *)
(***************************************************************************)
EXTENDS ChatStore, TLC

\* Two connections in one chat, of users who are not members yet; one of them
\* also writes to a chat that does not exist.  The chat's id has nine digits: the
\* line addNewUser writes for it has no newline.
RaceMembers == (123456789 :> <<1>>)
RaceServe == (1 :> {<<123456789, 1>>, <<123456789, 2>>})
             @@ (2 :> {<<123456789, 3>>, <<2, 3>>, <<123456789, 4>>})

\* One member posts while another user joins.
JoinMembers == (1 :> <<1>>)
JoinServe == (1 :> {<<1, 1>>}) @@ (2 :> {<<1, 2>>})
=============================================================================
