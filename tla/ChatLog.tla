------------------------------ MODULE ChatLog -------------------------------
(***************************************************************************)
(* What the chat store promises: every chat has a set of members that only *)
(* grows and a log of posts to which only members add, each post once and  *)
(* in the chat it was sent to.  ChatStore, the files and the calls of      *)
(* chatReader.c and chatWriter.c, is meant to implement it.                *)
(***************************************************************************)
EXTENDS Sequences

CONSTANTS Chats,          \* chat ids
          Users,          \* user ids
          Numbers,        \* numbers of messages
          InitialMembers  \* the members each chat starts with

VARIABLES members, \* the members of each chat
          log      \* the posts of each chat, oldest first

vars == <<members, log>>

Init == /\ members = InitialMembers
        /\ log = [c \in Chats |-> <<>>]

\* applyMessage finds no row for the user: addNewUser.
Join(c, u) ==
    /\ u \notin members[c]
    /\ members' = [members EXCEPT ![c] = @ \union {u}]
    /\ UNCHANGED log

Logged(c) == {log[c][i].number : i \in DOMAIN log[c]}

\* addNewPost for message number n of user u.
Say(c, u, n) ==
    /\ u \in members[c]
    /\ \A d \in Chats : n \notin Logged(d)
    /\ log' = [log EXCEPT ![c] = Append(@, [number |-> n, uid |-> u])]
    /\ UNCHANGED members

Next == \E c \in Chats, u \in Users :
           Join(c, u) \/ \E n \in Numbers : Say(c, u, n)

Spec == Init /\ [][Next]_vars
=============================================================================
