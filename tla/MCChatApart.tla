---------------------------- MODULE MCChatApart -----------------------------
(***************************************************************************)
(* Three connections and two chats: new users join the first, one after    *)
(* another on one connection, while two members post in the second, whose  *)
(* id has ten digits, at the same time.                                    *)
(***************************************************************************)
EXTENDS ChatApart, TLC

ApartMembers == (2 :> <<>>) @@ (1234567890 :> <<3, 4>>)
ApartServe == (1 :> {<<2, 1>>, <<2, 2>>}) @@ (2 :> {<<1234567890, 3>>})
              @@ (3 :> {<<1234567890, 4>>})
=============================================================================
