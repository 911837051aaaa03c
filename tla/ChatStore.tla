----------------------------- MODULE ChatStore ------------------------------
(***************************************************************************)
(* The chat files of the server and the calls that read and write them     *)
(* (OriginalLinuxCode: MessageReader.c applyMessage, chatReader.c,         *)
(* chatWriter.c).                                                          *)
(*                                                                         *)
(* Every QUIC connection has its callbacks run by a worker thread of the   *)
(* library, and callbacks of different connections run in parallel, so     *)
(* applyMessage runs in several threads at once.  It uses no lock: a step  *)
(* is one system call with the work on the thread's own buffers around it. *)
(*                                                                         *)
(* The file system (external) is a directory of names, inodes, and their   *)
(* contents.  A content is a sequence of tokens: the head with the chat's  *)
(* id, a user row, the Messages: marker, a post.  Files fit a stdio        *)
(* buffer, texts have no newline.                                          *)
(*                                                                         *)
(* Definitions named <definition>_<Fault> are faulty variants of the       *)
(* definition that follows them; no specification uses them.  They serve   *)
(* to see that the properties notice such faults.                          *)
(***************************************************************************)
EXTENDS Naturals, Sequences, FiniteSets

CONSTANTS
    Chats,          \* chat ids, numbers as in "ChatID: %lu"
    Users,          \* user ids, positive numbers
    LongUids,       \* the users whose id has eleven digits or more
    InitialMembers, \* the users in the rows each chat file starts with, in order
    Threads,        \* worker threads, one connection each
    Serve,          \* what the connection of each thread carries
    Inodes,         \* inode numbers, with those of the chat files at the start
    MaxMessages,    \* bound of the model: messages received in a run
    MaxCrashes      \* bound of the model: times the process is killed

ASSUME IdsAssumption == /\ Chats \subseteq Nat \ {0} /\ IsFiniteSet(Chats)
                        /\ Users \subseteq Nat \ {0} /\ LongUids \subseteq Users
ASSUME RowsAssumption == InitialMembers \in [Chats -> Seq(Users)]
ASSUME ServeAssumption == Serve \in [Threads -> SUBSET ((Nat \ {0}) \X Users)]
ASSUME BoundsAssumption == MaxMessages \in Nat /\ MaxCrashes \in Nat

\* The least chat ids with nine and with ten digits.
NineDigits == 100000000
TenDigits  == 1000000000

\* strncmp(idLine, findLine, strlen(findLine)) == 0 on "ChatID: <c>" and the
\* first line of a file: the digits of c are a prefix of those in the file.
IsDecimalPrefix(c, d) == c = d \/ \E k \in 1 .. 9 : d \div 10^k = c

MembersAtStart(c) == {InitialMembers[c][k] : k \in DOMAIN InitialMembers[c]}

\* Ids have 32 bits, ten digits at most.  Each joining to a chat of nine digits
\* takes a character out of its file (NewIdLine).  The model stops before the
\* ninth, which would be the first to take one out of a row.
ASSUME LongIdsAssumption ==
    /\ \A c \in Chats \union {m[1] : m \in UNION {Serve[t] : t \in Threads}} :
          c \div TenDigits < 10
    /\ \/ MaxMessages <= 8
       \/ \A c \in Chats, t \in Threads : \A m \in Serve[t] :
             c >= NineDigits /\ IsDecimalPrefix(m[1], c)
                => m[2] \in MembersAtStart(c)
\* Inodes do not run out: a thread has two files open at most.
ASSUME InodesAssumption ==
    /\ Inodes \subseteq Nat \ {0} /\ IsFiniteSet(Inodes) /\ Chats \subseteq Inodes
    /\ IsFiniteSet(Threads)
    /\ Cardinality(Inodes) > Cardinality(Chats) + 1 + 2 * Cardinality(Threads)

VARIABLES
    dir,      \* name -> inode, NoInode when the name does not exist
    content,  \* inode -> tokens
    worker,   \* thread -> its place in applyMessage and its buffers
    received, \* messages received so far, in order
    applied,  \* numbers of the messages whose applyMessage has returned
    crashes   \* times the process was killed

files == <<dir, content>>
vars  == <<dir, content, worker, received, applied, crashes>>

-----------------------------------------------------------------------------
(* Tokens and contents.                                                     *)

\* nl tells whether the token ends its line.  The head of a file is "ChatID: ",
\* the digits of key and then num characters: "\nUsers:\n", or what is left of it.
IdLine(c)      == [kind |-> "id",   key |-> c, num |-> 8,    nl |-> TRUE]
UserLine(u, p) == [kind |-> "user", key |-> u, num |-> p,    nl |-> TRUE]
Marker         == [kind |-> "mark", key |-> 0, num |-> 0,    nl |-> TRUE]
Torn(nl)       == [kind |-> "torn", key |-> 0, num |-> 0,    nl |-> nl]

\* The row addNewUser formats into newUsr[30]: "\t%llu, 11100111, Guest\n" of
\* an id of eleven digits or more is cut before its newline.
GuestPermissions == 231
NewUserRow_ShortBuffer(u) == [kind |-> "user", key |-> u,
                              num |-> GuestPermissions, nl |-> FALSE]
NewUserRow(u) == [kind |-> "user", key |-> u, num |-> GuestPermissions,
                  nl |-> u \notin LongUids]

\* What addNewUser makes of the head old.  The search for the chat has read the
\* first line of the file, or 18 characters where it is longer: the end of the
\* line with a short id, one character past nine digits, the digits where they
\* are ten.  Only what follows is copied.
LeftUnread(old) == IF old.key >= TenDigits \/ old.num = 0
                   THEN old.num ELSE old.num - 1

\* The line written before it is formatted into cidLin[18], which has no room for
\* the newline behind nine digits, and not for the tenth digit either.
NewIdLine(c, old) ==
    LET num == IF c < NineDigits THEN LeftUnread(old) + 1 ELSE LeftUnread(old)
    IN  [kind |-> "id", key |-> IF c < TenDigits THEN c ELSE c \div 10,
         num |-> num, nl |-> num # 0]

\* A post ends in the byte 3, not in a newline.
PostToken(n, u, mid) == [kind |-> "post", key |-> n, num |-> mid, nl |-> FALSE,
                         uid |-> u]

\* Bytes of a token, for one-digit user ids and four-letter texts.
Size(token) == CASE token.kind = "id"   ->
                       8 + Cardinality({k \in 0 .. 9 : token.key >= 10^k}) + token.num
                 [] token.kind = "user" -> 20
                 [] token.kind = "mark" -> 10
                 [] token.kind = "post" -> 21
                 [] token.kind = "torn" -> 5

Bytes(s) ==
    LET sum[i \in 0 .. Len(s)] == IF i = 0 THEN 0 ELSE sum[i - 1] + Size(s[i])
    IN  sum[Len(s)]

\* write(2) of new at offset 0 over old: what new does not reach stays, and a
\* token cut in two leaves its tail.
Overlay(new, old) ==
    LET kept == {i \in DOMAIN old : Bytes(SubSeq(old, 1, i - 1)) >= Bytes(new)}
        cut  == {i \in DOMAIN old \ kept :
                    Bytes(SubSeq(old, 1, i)) > Bytes(new)}
        tail == SubSeq(old, Len(old) - Cardinality(kept) + 1, Len(old))
    IN  IF cut = {} THEN new \o tail
        ELSE new \o <<Torn(old[CHOOSE i \in cut : TRUE].nl)>> \o tail

\* A reader's buffer s, filled when the file was opened, and what its next
\* read, at the end of s, still finds in the file.
Refill(s, inFile) == s \o SubSeq(inFile, Len(s) + 1, Len(inFile))

AtLineStart(s, i) == i = 1 \/ s[i - 1].nl

\* Positions of the lines equal to "Messages:\n".
Markers(s) == {i \in DOMAIN s : s[i].kind = "mark" /\ AtLineStart(s, i)}

\* The least of a set of positions.
First(S) == CHOOSE i \in S : \A j \in S : i <= j

\* getPermOfUser reads, after the first line, up to a row of uid or the marker.
\* At the end of a file with neither it goes on for ever, fgets leaving the
\* last line in its buffer.
PermStops(s, uid) ==
    {i \in 2 .. Len(s) :
        \/ i \in Markers(s)
        \/ s[i].kind = "user" /\ s[i].key = uid /\ AtLineStart(s, i)}

NotMember == 255
Perm(s, uid) == LET stop == s[First(PermStops(s, uid))]
                IN  IF stop.kind = "mark" THEN NotMember ELSE stop.num

\* getNumberOfMessages counts the lines after the marker, an unfinished one
\* included, and reads for ever where there is no marker.
LinesAfterMarker(s) ==
    Cardinality({i \in DOMAIN s : AtLineStart(s, i) /\ \E m \in Markers(s) : m < i})

\* Fault: the copy has no ChatID line, which the search has already read.
CopyWithUser_NoIdLine(c, u, s) ==
    SubSeq(s, 2, First(Markers(s)) - 1)
       \o <<NewUserRow(u)>> \o SubSeq(s, First(Markers(s)), Len(s))

\* addNewUser's copy: its own ChatID line, then every line the search has not
\* read, the new row before each marker.
CopyWithUser(c, u, s) ==
    LET marks == Markers(s) \ {1}
        to(i) == i + Cardinality({m \in marks : m <= i}) \* where line i goes
    IN  [k \in 1 .. to(Len(s)) |->
            IF k = 1 THEN NewIdLine(c, s[1])
            ELSE IF \E i \in 2 .. Len(s) : to(i) = k
            THEN s[CHOOSE i \in 2 .. Len(s) : to(i) = k]
            ELSE NewUserRow(u)]

\* Fault: only the words before the number are compared.
Matches_AnyId(c, s) == s # <<>> /\ s[1].kind = "id"

Matches(c, s) == /\ s # <<>>
                 /\ s[1].kind = "id"
                 /\ IsDecimalPrefix(c, s[1].key)

-----------------------------------------------------------------------------
(* The directory ./localChats.                                              *)

ChatFile(c) == <<"chat", c>>
Tmp         == <<"copyChat.tmp", 0>>   \* one name, shared by all chats
Names       == {ChatFile(c) : c \in Chats} \union {Tmp}
NoInode     == 0
NoName      == <<"none", 0>>

Linked(n)  == dir[n] # NoInode
Existing   == {n \in Names : Linked(n)}

\* fopen(name, mode) creates the file: any inode not in use.
InUse == {dir[n] : n \in Names} \union {worker[t].file : t \in Threads}
                                \union {worker[t].tempy : t \in Threads}
FreeInode == CHOOSE i \in Inodes : i \notin InUse

\* fopen("./localChats/copyChat.tmp", "w") creates the file or empties it.
TmpInode == IF Linked(Tmp) THEN dir[Tmp] ELSE FreeInode
TruncateTmp == /\ dir' = [dir EXCEPT ![Tmp] = TmpInode]
               /\ content' = [content EXCEPT ![TmpInode] = <<>>]

-----------------------------------------------------------------------------
(* A thread: idle, or at a call of applyMessage.                            *)

Idle == [pc |-> "idle", msg |-> 0, scan |-> {}, file |-> NoInode,
         tempy |-> NoInode, buf |-> <<>>, name |-> NoName, mid |-> 0]

\* Fault: the user of the message received last, by whichever thread.
Uid_OfLast(t) == received[Len(received)].uid

Cid(t) == received[worker[t].msg].cid
Uid(t) == received[worker[t].msg].uid

\* The calls that begin with findChat, findChat_storeName or findChatName.
Calls == {"getPermOfUser", "addNewUser", "findChatName", "getNumberOfMessages"}

Init ==
    /\ dir = [n \in Names |-> IF n = Tmp THEN NoInode ELSE n[2]]
    /\ content = [i \in Inodes |->
                    IF i \notin Chats THEN <<>>
                    ELSE <<IdLine(i)>>
                         \o [k \in DOMAIN InitialMembers[i] |->
                                UserLine(InitialMembers[i][k], GuestPermissions)]
                         \o <<Marker>>]
    /\ worker = [t \in Threads |-> Idle]
    /\ received = <<>>
    /\ applied = {}
    /\ crashes = 0

\* ServerStreamCallback hands the thread a message: applyMessage begins.
Receive(t) ==
    /\ worker[t].pc = "idle"
    /\ Len(received) < MaxMessages
    /\ \E m \in Serve[t] :
          received' = Append(received, [cid |-> m[1], uid |-> m[2]])
    /\ worker' = [worker EXCEPT ![t].pc = "getPermOfUser",
                                ![t].msg = Len(received) + 1,
                                ![t].scan = Existing]
    /\ UNCHANGED <<files, applied, crashes>>

\* The loops over the directory entries, in directory order: each file is opened
\* and its first line compared.  The list of entries was read by the first
\* readdir; an entry removed since then cannot be opened.
Fits(t, n) == Linked(n) /\ Matches(Cid(t), content[dir[n]])

skipFile(t) ==
    /\ worker[t].pc \in Calls
    /\ \E n \in worker[t].scan :
          /\ ~Fits(t, n)
          /\ worker' = [worker EXCEPT ![t].scan = @ \ {n}]
    /\ UNCHANGED <<files, received, applied, crashes>>

\* The entry that ends the search of a call, and what the file holds.
FindsIn(t, call, n) == /\ worker[t].pc = call
                       /\ n \in worker[t].scan
                       /\ Fits(t, n)

\* if(getPermOfUser(cid,uid)==255) addNewUser, then addNewPost.
getPermOfUser(t) ==
    /\ \E n \in worker[t].scan :
          LET s == content[dir[n]]
          IN  /\ FindsIn(t, "getPermOfUser", n)
              /\ PermStops(s, Uid(t)) # {}
              /\ worker' = [worker EXCEPT
                    ![t].pc = IF Perm(s, Uid(t)) = NotMember
                              THEN "addNewUser" ELSE "findChatName",
                    ![t].scan = Existing]
    /\ UNCHANGED <<files, received, applied, crashes>>

\* addNewUser: findChat_storeName.
findChat_storeName(t) ==
    /\ \E n \in worker[t].scan :
          /\ FindsIn(t, "addNewUser", n)
          /\ worker' = [worker EXCEPT ![t].pc = "openTempy",
                                      ![t].scan = {},
                                      ![t].file = dir[n],
                                      ![t].buf = content[dir[n]],
                                      ![t].name = n]
    /\ UNCHANGED <<files, received, applied, crashes>>

\* addNewPost: findChatName, then getNumberOfMessages.
findChatName(t) ==
    /\ \E n \in worker[t].scan :
          /\ FindsIn(t, "findChatName", n)
          /\ worker' = [worker EXCEPT ![t].pc = "getNumberOfMessages",
                                      ![t].scan = Existing,
                                      ![t].name = n]
    /\ UNCHANGED <<files, received, applied, crashes>>

getNumberOfMessages(t) ==
    /\ \E n \in worker[t].scan :
          LET s == content[dir[n]]
          IN  /\ FindsIn(t, "getNumberOfMessages", n)
              /\ Markers(s) # {}
              /\ worker' = [worker EXCEPT ![t].pc = "openChat",
                                          ![t].scan = {},
                                          ![t].mid = LinesAfterMarker(s)]
    /\ UNCHANGED <<files, received, applied, crashes>>

\* The two scans that look for a line the file does not have.
spin(t) ==
    /\ \E n \in worker[t].scan :
          LET s == content[dir[n]]
          IN  \/ /\ FindsIn(t, "getPermOfUser", n)
                 /\ PermStops(s, Uid(t)) = {}
              \/ /\ FindsIn(t, "getNumberOfMessages", n)
                 /\ Markers(s) = {}
    /\ worker' = [worker EXCEPT ![t].pc = "spin", ![t].scan = {}]
    /\ UNCHANGED <<files, received, applied, crashes>>

\* A null FILE is read or written: the process dies with everything its threads
\* were doing, and is started again.
Die == worker' = [t \in Threads |-> Idle]

\* No entry matches.  The name of a chat is only needed later; the other three
\* calls read from the null FILE, addNewUser after it has emptied or created
\* the temporary file.
NotFound(t) ==
    /\ worker[t].pc \in Calls
    /\ worker[t].scan = {}
    /\ \/ /\ worker[t].pc = "findChatName"
          /\ worker' = [worker EXCEPT ![t].pc = "getNumberOfMessages",
                                      ![t].name = NoName,
                                      ![t].scan = Existing]
          /\ UNCHANGED files
       \/ /\ worker[t].pc = "addNewUser"
          /\ TruncateTmp
          /\ Die
       \/ /\ worker[t].pc \in {"getPermOfUser", "getNumberOfMessages"}
          /\ Die
          /\ UNCHANGED files
    /\ UNCHANGED <<received, applied, crashes>>

-----------------------------------------------------------------------------
(* The rest of addNewUser.                                                  *)

openTempy(t) ==
    /\ worker[t].pc = "openTempy"
    /\ TruncateTmp
    /\ worker' = [worker EXCEPT ![t].pc = "copy", ![t].tempy = TmpInode]
    /\ UNCHANGED <<received, applied, crashes>>

\* The loop of fgets and fputs, to the end of the file, and fclose(file).
copy(t) ==
    /\ worker[t].pc = "copy"
    /\ worker' = [worker EXCEPT
          ![t].pc = "closeTempy",
          ![t].file = NoInode,
          ![t].buf = CopyWithUser(Cid(t), Uid(t),
                                  Refill(@, content[worker[t].file]))]
    /\ UNCHANGED <<files, received, applied, crashes>>

\* Fault: the temporary file is not closed.
closeTempy_LeftOpen(t) ==
    /\ worker[t].pc = "closeTempy"
    /\ content' = [content EXCEPT ![worker[t].tempy] = Overlay(worker[t].buf, @)]
    /\ worker' = [worker EXCEPT ![t].pc = "remove", ![t].buf = <<>>]
    /\ UNCHANGED <<dir, received, applied, crashes>>

\* fclose(tempy) writes what the loop has put in its buffer.
closeTempy(t) ==
    /\ worker[t].pc = "closeTempy"
    /\ content' = [content EXCEPT ![worker[t].tempy] = Overlay(worker[t].buf, @)]
    /\ worker' = [worker EXCEPT ![t].pc = "remove", ![t].tempy = NoInode,
                                ![t].buf = <<>>]
    /\ UNCHANGED <<dir, received, applied, crashes>>

\* remove(origName); its failure is not looked at.
remove(t) ==
    /\ worker[t].pc = "remove"
    /\ dir' = [dir EXCEPT ![worker[t].name] = NoInode]
    /\ worker' = [worker EXCEPT ![t].pc = "rename"]
    /\ UNCHANGED <<content, received, applied, crashes>>

\* rename(copyChat.tmp, origName), and on to addNewPost.
rename(t) ==
    /\ worker[t].pc = "rename"
    /\ dir' = IF Linked(Tmp)
              THEN [dir EXCEPT ![Tmp] = NoInode, ![worker[t].name] = dir[Tmp]]
              ELSE dir
    /\ worker' = [worker EXCEPT ![t].pc = "findChatName", ![t].name = NoName,
                                ![t].scan = {n \in Names : dir'[n] # NoInode}]
    /\ UNCHANGED <<content, received, applied, crashes>>

-----------------------------------------------------------------------------
(* The rest of addNewPost.                                                  *)

\* Fault: the file is opened for writing, not for appending.
openChat_Truncating(t) ==
    /\ worker[t].pc = "openChat"
    /\ worker[t].name # NoName
    /\ Linked(worker[t].name)
    /\ content' = [content EXCEPT ![dir[worker[t].name]] = <<>>]
    /\ worker' = [worker EXCEPT ![t].pc = "append",
                                ![t].file = dir[worker[t].name]]
    /\ UNCHANGED <<dir, received, applied, crashes>>

\* fopen(name, "a") creates the file when it is gone, and fails on a null name.
openChat(t) ==
    /\ worker[t].pc = "openChat"
    /\ worker[t].name # NoName
    /\ LET name  == worker[t].name
           inode == IF Linked(name) THEN dir[name] ELSE FreeInode
       IN  /\ dir' = [dir EXCEPT ![name] = inode]
           /\ content' = IF Linked(name) THEN content
                         ELSE [content EXCEPT ![inode] = <<>>]
           /\ worker' = [worker EXCEPT ![t].pc = "append", ![t].file = inode]
    /\ UNCHANGED <<received, applied, crashes>>

openNoChat(t) ==
    /\ worker[t].pc = "openChat"
    /\ worker[t].name = NoName
    /\ Die
    /\ UNCHANGED <<files, received, applied, crashes>>

\* fclose(file) appends the whole post; applyMessage returns.
append(t) ==
    /\ worker[t].pc = "append"
    /\ content' = [content EXCEPT ![worker[t].file] =
          Append(@, PostToken(worker[t].msg, Uid(t), worker[t].mid))]
    /\ worker' = [worker EXCEPT ![t] = Idle]
    /\ applied' = applied \union {worker[t].msg}
    /\ UNCHANGED <<dir, received, crashes>>

\* The process is killed and started again.  The files stay as they are.
Crash ==
    /\ crashes < MaxCrashes
    /\ crashes' = crashes + 1
    /\ Die
    /\ UNCHANGED <<files, received, applied>>

-----------------------------------------------------------------------------
Call(t) == \/ skipFile(t) \/ getPermOfUser(t) \/ findChat_storeName(t)
           \/ findChatName(t) \/ getNumberOfMessages(t) \/ spin(t)
           \/ NotFound(t)
           \/ openTempy(t) \/ copy(t) \/ closeTempy(t) \/ remove(t) \/ rename(t)
           \/ openChat(t) \/ openNoChat(t) \/ append(t)

Next == \/ \E t \in Threads : Receive(t) \/ Call(t)
        \/ Crash

Spec == Init /\ [][Next]_vars

\* A worker thread with work to do is scheduled.
FairSpec == Spec /\ \A t \in Threads : WF_vars(Call(t))

-----------------------------------------------------------------------------
(* What is stored.                                                          *)

\* The content that stands for chat c: its file, or the temporary file in the
\* moment between the removal of the file and the renaming.
Stored(c) == IF Linked(ChatFile(c)) THEN content[dir[ChatFile(c)]]
             ELSE IF Linked(Tmp)    THEN content[dir[Tmp]]
             ELSE <<>>

Rows(s)  == {i \in DOMAIN s : s[i].kind = "user"}
Posts(s) == {i \in DOMAIN s : s[i].kind = "post"}

-----------------------------------------------------------------------------
(* Properties.                                                              *)

Token == [kind : {"id", "user", "mark", "torn"}, key : Nat, num : Nat,
          nl : BOOLEAN]
         \union
         [kind : {"post"}, key : Nat, num : Nat, nl : BOOLEAN, uid : Users]

Places == Calls \union {"idle", "spin", "openTempy", "copy", "closeTempy",
                        "remove", "rename", "openChat", "append"}

Worker == [pc : Places, msg : Nat, scan : SUBSET Names,
           file : Inodes \union {NoInode}, tempy : Inodes \union {NoInode},
           buf : Seq(Token), name : Names \union {NoName}, mid : Nat]

\* Type invariant; also: a thread holds open exactly the files its place needs.
TypeOK ==
    /\ dir \in [Names -> Inodes \union {NoInode}]
    /\ content \in [Inodes -> Seq(Token)]
    /\ worker \in [Threads -> Worker]
    /\ \A t \in Threads :
          /\ worker[t].msg \in 0 .. Len(received)
          /\ worker[t].msg = 0 <=> worker[t].pc = "idle"
          /\ worker[t].file # NoInode <=>
                worker[t].pc \in {"openTempy", "copy", "append"}
          /\ worker[t].tempy # NoInode <=>
                worker[t].pc \in {"copy", "closeTempy"}
    /\ received \in Seq([cid : Nat, uid : Users])
    /\ Len(received) <= MaxMessages
    /\ applied \subseteq 1 .. Len(received)
    /\ crashes \in 0 .. MaxCrashes

\* Places in the file of chat c that hold message n.
Copies(n, c) == LET s == Stored(c)
                IN  {i \in Posts(s) : s[i].key = n}

\* A row of a member or of a user who has sent something, or a post that was
\* received from the user it names.
Genuine(token) ==
    /\ token.kind = "user" =>
          \/ \E c \in Chats : token.key \in MembersAtStart(c)
          \/ \E k \in DOMAIN received : received[k].uid = token.key
    /\ token.kind = "post" =>
          /\ token.key \in DOMAIN received
          /\ received[token.key].uid = token.uid

\* Whatever the threads do to each other, nothing is made up: every row and
\* every post in any file comes from a message received or from the initial
\* file, and a post carries the user who sent it.
NothingInvented ==
    \A n \in Existing : \A i \in DOMAIN content[dir[n]] : Genuine(content[dir[n]][i])

Busy(t) == worker[t].pc # "idle"

\* No call hangs: a thread that has started applyMessage becomes free again,
\* by returning or by the end of the process, as long as no user has come whose
\* id is too long for the row addNewUser writes.
CallsEnd ==
    \A t \in Threads :
        Busy(t) ~> \/ ~Busy(t)
                   \/ \E n \in DOMAIN received : received[n].uid \in LongUids

Quiet == \A t \in Threads : worker[t].pc = "idle"

\* chatWriter.c:136, "add a new post to this chat": when no call is under way,
\* the post of every applied message is in the file of the chat.
AddedPostsStay ==
    Quiet => \A n \in applied : Copies(n, received[n].cid) # {}
=============================================================================
