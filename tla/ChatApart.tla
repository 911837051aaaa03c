----------------------------- MODULE ChatApart ------------------------------
(***************************************************************************)
(* The chat store while its chats are kept apart: new users join through   *)
(* one connection at a time, in chats that no other connection writes to   *)
(* and whose id has eight digits at most, and the process is not killed    *)
(* while users may join.  Everything else runs in parallel.  Then the      *)
(* files implement ChatLog: what goes wrong in ChatStore goes wrong only   *)
(* where these conditions are not met.                                     *)
(***************************************************************************)
EXTENDS ChatStore

\* The chats whose files a thread may copy: a user it serves has no row at the
\* start.
Joins(t) == {m[1] : m \in {x \in Serve[t] : x[2] \notin MembersAtStart(x[1])}}

ASSUME ApartAssumption ==
    /\ \A t \in Threads : \A m \in Serve[t] : m[1] \in Chats
    /\ \A c, d \in Chats : IsDecimalPrefix(c, d) => c = d
    /\ \A t \in Threads : \A m \in Serve[t] :
          m[2] \in LongUids => m[2] \in MembersAtStart(m[1])
    /\ \A t \in Threads : \A c \in Joins(t) : c < NineDigits
    /\ \A t, u \in Threads : t # u =>
          /\ Joins(t) = {} \/ Joins(u) = {}
          /\ \A m \in Serve[u] : m[1] \notin Joins(t)
    /\ MaxCrashes = 0 \/ \A t \in Threads : Joins(t) = {}

-----------------------------------------------------------------------------
(* Refinement.                                                              *)

RowKeys(s)   == {s[i].key : i \in Rows(s)}
MembersOf(c) == RowKeys(Stored(c))

\* The position of the k-th post of s.
PostAt(s, k) == CHOOSE i \in Posts(s) : Cardinality({j \in Posts(s) : j <= i}) = k

PostsOf(s) == [k \in 1 .. Cardinality(Posts(s)) |->
                  [number |-> s[PostAt(s, k)].key, uid |-> s[PostAt(s, k)].uid]]
LogOf(c)   == PostsOf(Stored(c))

\* The files implement the abstract chats: members are only ever added, posts
\* are only ever appended, by members, each once (applyMessage as a whole).
Abstract == INSTANCE ChatLog WITH Numbers <- 1 .. MaxMessages,
                                  InitialMembers <- [c \in Chats |-> MembersAtStart(c)],
                                  members <- [c \in Chats |-> MembersOf(c)],
                                  log     <- [c \in Chats |-> LogOf(c)]
ImplementsChatLog == Abstract!Spec

-----------------------------------------------------------------------------
(* Properties.                                                              *)

\* A message whose applyMessage has returned is in its chat exactly once and
\* in no other chat, from then on and across crashes; one that was cut off by
\* a crash is nowhere (addNewPost writes a post in one piece).
AppliedPostsStored ==
    \A n \in 1 .. Len(received), c \in Chats :
        Cardinality(Copies(n, c)) =
            IF n \in applied /\ received[n].cid = c THEN 1 ELSE 0

\* Every chat can be found and read at every moment, in the middle of the
\* copying too: some file begins with its id and has the marker that ends
\* the scans of getPermOfUser and getNumberOfMessages.
ChatsFindable ==
    \A c \in Chats : \E n \in Existing :
        /\ content[dir[n]] # <<>>
        /\ content[dir[n]][1] = IdLine(c)
        /\ Markers(content[dir[n]]) # {}

\* Every message received is applied in the end.
MessagesApplied ==
    \A n \in 1 .. MaxMessages : Len(received) >= n ~> n \in applied
=============================================================================
