-------------------------- MODULE ChatStoreProofs ---------------------------
(***************************************************************************)
(* What the chat store guarantees whatever its threads do to each other's  *)
(* files: type correctness, and that nothing is made up.  For any number   *)
(* of threads, chats, users, messages and crashes.                         *)
(***************************************************************************)
EXTENDS ChatStore, FiniteSetTheorems, SequenceTheorems, TLAPS

-----------------------------------------------------------------------------
(* Finite sets and sequences.                                               *)

\* A set indexed by a finite set is finite and no larger.
LEMMA ImageBound ==
    ASSUME NEW S, IsFiniteSet(S), NEW f
    PROVE  /\ IsFiniteSet({f[x] : x \in S})
           /\ Cardinality({f[x] : x \in S}) <= Cardinality(S)
<1> DEFINE T == {f[x] : x \in S}
           g == [x \in S |-> f[x]]
<1>1. g \in Surjection(S, T)
  BY DEF Surjection
<1> QED
  BY <1>1, FS_Surjection

LEMMA UnionBound ==
    ASSUME NEW S, IsFiniteSet(S), NEW T, IsFiniteSet(T)
    PROVE  /\ IsFiniteSet(S \union T)
           /\ Cardinality(S \union T) <= Cardinality(S) + Cardinality(T)
<1>1. /\ IsFiniteSet(S \union T)
      /\ Cardinality(S \union T) = Cardinality(S) + Cardinality(T) - Cardinality(S \cap T)
  BY FS_Union
<1>2. IsFiniteSet(S \cap T)
  BY FS_Intersection
<1>3. /\ Cardinality(S) \in Nat /\ Cardinality(T) \in Nat
      /\ Cardinality(S \cap T) \in Nat
  BY <1>2, FS_CardinalityType
<1> QED
  BY <1>1, <1>3

LEMMA PositionsBound ==
    ASSUME NEW n \in Nat, NEW P \in SUBSET (1 .. n)
    PROVE  IsFiniteSet(P) /\ Cardinality(P) \in 0 .. n
<1>1. IsFiniteSet(1 .. n) /\ Cardinality(1 .. n) = n
  <2>1. 1 \in Int /\ n \in Int
    OBVIOUS
  <2>2. /\ IsFiniteSet(1 .. n)
        /\ Cardinality(1 .. n) = IF 1 > n THEN 0 ELSE n - 1 + 1
    BY <2>1, FS_Interval
  <2> QED
    BY <2>2
<1>2. IsFiniteSet(P) /\ Cardinality(P) <= n
  BY <1>1, FS_Subset
<1> QED
  BY <1>2, FS_CardinalityType

\* There is always an inode for a file that fopen creates.
LEMMA FreeInodeExists ==
    FreeInode \in Inodes /\ FreeInode \notin InUse
<1> DEFINE chatFiles == [c \in Chats |-> ChatFile(c)]
           files1 == [t \in Threads |-> worker[t].file]
           files2 == [t \in Threads |-> worker[t].tempy]
           A == {dir[n] : n \in Names}
           B == {files1[t] : t \in Threads}
           C == {files2[t] : t \in Threads}
<1>1. /\ IsFiniteSet(Names) /\ Cardinality(Names) \in Nat
      /\ Cardinality(Names) <= Cardinality(Chats) + 1
  <2> DEFINE F == {chatFiles[c] : c \in Chats}
  <2>1. IsFiniteSet(F) /\ Cardinality(F) <= Cardinality(Chats)
    BY IdsAssumption, ImageBound
  <2>2. Names = F \union {Tmp}
    BY DEF Names
  <2>3. IsFiniteSet({Tmp}) /\ Cardinality({Tmp}) = 1
    BY FS_Singleton
  <2>4. IsFiniteSet(Names) /\ Cardinality(Names) <= Cardinality(F) + 1
    BY <2>1, <2>2, <2>3, UnionBound
  <2>5. Cardinality(F) \in Nat /\ Cardinality(Names) \in Nat /\ Cardinality(Chats) \in Nat
    BY <2>1, <2>4, IdsAssumption, FS_CardinalityType
  <2> QED
    BY <2>1, <2>4, <2>5
<1>2. IsFiniteSet(A) /\ Cardinality(A) <= Cardinality(Names)
  BY <1>1, ImageBound
<1>3. /\ IsFiniteSet(B) /\ Cardinality(B) <= Cardinality(Threads)
      /\ IsFiniteSet(C) /\ Cardinality(C) <= Cardinality(Threads)
  BY InodesAssumption, ImageBound
<1>4. InUse = A \union B \union C
  BY DEF InUse
<1>5. /\ IsFiniteSet(A \union B)
      /\ Cardinality(A \union B) <= Cardinality(A) + Cardinality(B)
      /\ IsFiniteSet(InUse)
      /\ Cardinality(InUse) <= Cardinality(A \union B) + Cardinality(C)
  BY <1>2, <1>3, <1>4, UnionBound
<1>6. /\ Cardinality(A) \in Nat /\ Cardinality(B) \in Nat /\ Cardinality(C) \in Nat
      /\ Cardinality(A \union B) \in Nat /\ Cardinality(InUse) \in Nat
      /\ Cardinality(Threads) \in Nat /\ Cardinality(Chats) \in Nat
      /\ Cardinality(Inodes) \in Nat
  BY <1>2, <1>3, <1>5, IdsAssumption, InodesAssumption, FS_CardinalityType
<1>7. Cardinality(InUse) <= Cardinality(Chats) + 1 + 2 * Cardinality(Threads)
  BY <1>1, <1>2, <1>3, <1>5, <1>6
<1>8. ~(Inodes \subseteq InUse)
  <2>1. Inodes \subseteq InUse => Cardinality(Inodes) <= Cardinality(InUse)
    BY <1>5, FS_Subset
  <2> QED
    BY <1>6, <1>7, <2>1, InodesAssumption
<1> QED
  BY <1>8 DEF FreeInode

LEMMA TmpInodeExists ==
    ASSUME TypeOK
    PROVE  TmpInode \in Inodes
BY FreeInodeExists DEF TypeOK, TmpInode, Linked, Names

-----------------------------------------------------------------------------
(* What is written to a file is made of what was read and of new lines.     *)

LEMMA OverlayTokens ==
    ASSUME NEW T, NEW new \in Seq(T), NEW old \in Seq(T),
           \A i \in DOMAIN old : Torn(old[i].nl) \in T
    PROVE  Overlay(new, old) \in Seq(T)
<1> DEFINE kept == {i \in DOMAIN old : Bytes(SubSeq(old, 1, i - 1)) >= Bytes(new)}
           cut  == {i \in DOMAIN old \ kept :
                       Bytes(SubSeq(old, 1, i)) > Bytes(new)}
           tail == SubSeq(old, Len(old) - Cardinality(kept) + 1, Len(old))
           torn == Torn(old[CHOOSE i \in cut : TRUE].nl)
<1>1. Cardinality(kept) \in 0 .. Len(old)
  <2>1. Len(old) \in Nat /\ DOMAIN old = 1 .. Len(old)
    BY LenProperties
  <2>2. kept \in SUBSET (1 .. Len(old))
    BY <2>1
  <2> QED
    BY <2>1, <2>2, PositionsBound
<1>2. tail \in Seq(T)
  <2>1. Len(old) \in Nat
    BY LenProperties
  <2>2. \A i \in Len(old) - Cardinality(kept) + 1 .. Len(old) : old[i] \in T
    BY <1>1, <2>1, ElementOfSeq
  <2> QED
    BY <1>1, <2>1, <2>2, SubSeqProperties
<1>3. CASE cut = {}
  BY <1>2, <1>3, ConcatProperties DEF Overlay
<1>4. CASE cut # {}
  <2>1. torn \in T
    BY <1>4
  <2>2. new \o <<torn>> \in Seq(T)
    BY <2>1, ConcatProperties
  <2>3. (new \o <<torn>>) \o tail \in Seq(T)
    BY <1>2, <2>2, ConcatProperties
  <2> QED
    BY <1>4, <2>3 DEF Overlay
<1> QED
  BY <1>3, <1>4

LEMMA RefillTokens ==
    ASSUME NEW T, NEW s \in Seq(T), NEW inFile \in Seq(T)
    PROVE  Refill(s, inFile) \in Seq(T)
<1>1. Len(s) \in Nat /\ Len(inFile) \in Nat
  BY LenProperties
<1>2. \A i \in Len(s) + 1 .. Len(inFile) : inFile[i] \in T
  BY <1>1, ElementOfSeq
<1>3. SubSeq(inFile, Len(s) + 1, Len(inFile)) \in Seq(T)
  BY <1>1, <1>2, SubSeqProperties
<1> QED
  BY <1>3, ConcatProperties DEF Refill

LEMMA CopyTokens ==
    ASSUME NEW T, NEW s \in Seq(T), NEW c, NEW u,
           \A old \in T : NewIdLine(c, old) \in T, NewUserRow(u) \in T
    PROVE  CopyWithUser(c, u, s) \in Seq(T)
<1> DEFINE marks == Markers(s) \ {1}
           to(i) == i + Cardinality({m \in marks : m <= i})
           n == to(Len(s))
           line(k) == IF k = 1 THEN NewIdLine(c, s[1])
                      ELSE IF \E i \in 2 .. Len(s) : to(i) = k
                      THEN s[CHOOSE i \in 2 .. Len(s) : to(i) = k]
                      ELSE NewUserRow(u)
<1>1. Len(s) \in Nat /\ DOMAIN s = 1 .. Len(s)
  BY LenProperties
<1>2. n \in Nat
  <2>1. {m \in marks : m <= Len(s)} \in SUBSET (1 .. Len(s))
    BY <1>1 DEF Markers
  <2>2. Cardinality({m \in marks : m <= Len(s)}) \in Nat
    BY <1>1, <2>1, PositionsBound
  <2> QED
    BY <1>1, <2>2
<1>3. \A k \in 1 .. n : line(k) \in T
  <2> SUFFICES ASSUME NEW k \in 1 .. n PROVE line(k) \in T
    OBVIOUS
  <2>1. Len(s) # 0
    <3>1. CASE Len(s) = 0
      <4>1. {m \in marks : m <= Len(s)} = {}
        BY <1>1, <3>1 DEF Markers
      <4>2. Cardinality({m \in marks : m <= Len(s)}) = 0
        <5> HIDE DEF marks
        <5> QED
          BY <4>1, FS_EmptySet
      <4>3. n = 0
        BY <3>1, <4>2
      <4> QED
        BY <4>3
    <3> QED
      BY <3>1
  <2>2. s[1] \in T
    BY <1>1, <2>1, ElementOfSeq
  <2> HIDE DEF to
  <2>3. CASE k # 1 /\ \E i \in 2 .. Len(s) : to(i) = k
    <3> DEFINE j == CHOOSE i \in 2 .. Len(s) : to(i) = k
    <3>1. j \in 1 .. Len(s)
      BY <1>1, <2>3
    <3>2. s[j] \in T
      BY <3>1, ElementOfSeq
    <3> QED
      BY <2>3, <3>2
  <2>4. CASE k = 1
    BY <2>2, <2>4
  <2> QED
    BY <2>3, <2>4
<1>4. [k \in 1 .. n |-> line(k)] \in [1 .. n -> T]
  <2> HIDE DEF n, line
  <2> QED
    BY <1>3
<1>5. [k \in 1 .. n |-> line(k)] \in Seq(T)
  <2> HIDE DEF n, line
  <2> QED
    BY <1>2, <1>4, SeqDef
<1> QED
  BY <1>5 DEF CopyWithUser

-----------------------------------------------------------------------------
(* Every step: the contents of the files and the buffers of the threads.    *)

\* Everything the threads hold or have written is made of tokens of T.
MadeOf(T) == /\ content \in [Inodes -> Seq(T)]
             /\ \A t \in Threads : worker[t].buf \in Seq(T)

LEMMA InitMadeOf ==
    ASSUME NEW T, Init, Marker \in T,
           \A c \in Chats :
              /\ IdLine(c) \in T
              /\ \A k \in DOMAIN InitialMembers[c] :
                    UserLine(InitialMembers[c][k], GuestPermissions) \in T
    PROVE  MadeOf(T)
<1> DEFINE rows(c) == [k \in DOMAIN InitialMembers[c] |->
                          UserLine(InitialMembers[c][k], GuestPermissions)]
<1>1. ASSUME NEW c \in Chats PROVE <<IdLine(c)>> \o rows(c) \o <<Marker>> \in Seq(T)
  <2>1. PICK n \in Nat : DOMAIN InitialMembers[c] = 1 .. n
    BY RowsAssumption, LenProperties
  <2>2. rows(c) \in [1 .. n -> T]
    BY <2>1
  <2>3. rows(c) \in Seq(T)
    BY <2>2, SeqDef
  <2>4. <<IdLine(c)>> \in Seq(T) /\ <<Marker>> \in Seq(T)
    OBVIOUS
  <2>5. <<IdLine(c)>> \o rows(c) \in Seq(T)
    BY <2>3, <2>4, ConcatProperties
  <2> QED
    BY <2>4, <2>5, ConcatProperties
<1>2. <<>> \in Seq(T)
  OBVIOUS
<1>3. content \in [Inodes -> Seq(T)]
  BY <1>1, <1>2 DEF Init
<1>4. ASSUME NEW t \in Threads PROVE worker[t].buf \in Seq(T)
  BY <1>2 DEF Init, Idle
<1> QED
  BY <1>3, <1>4 DEF MadeOf

\* The call that goes on in a thread has a message, of a user.
LEMMA BusyHasMessage ==
    ASSUME TypeOK, NEW t \in Threads, worker[t].pc # "idle"
    PROVE  /\ worker[t].msg \in DOMAIN received
           /\ Cid(t) \in Nat /\ Uid(t) \in Users
<1>1. DOMAIN received = 1 .. Len(received) /\ Len(received) \in Nat
  BY LenProperties DEF TypeOK
<1>2. worker[t].msg \in 1 .. Len(received)
  BY <1>1 DEF TypeOK
<1>3. received[worker[t].msg] \in [cid : Nat, uid : Users]
  BY <1>2, ElementOfSeq DEF TypeOK
<1> QED
  BY <1>1, <1>2, <1>3 DEF Cid, Uid

\* A step makes up no token: what is written was read from some file, is a line
\* of the search's own, what is left of an overwritten one, or stands for a
\* message that was received.
LEMMA StepMadeOf ==
    ASSUME NEW CONSTANT T, TypeOK, MadeOf(T), [Next]_vars,
           T \subseteq Token, \A c \in Nat, old \in Token : NewIdLine(c, old) \in T,
           \A i \in Inodes : \A k \in DOMAIN content[i] : Torn(content[i][k].nl) \in T,
           \A k \in DOMAIN received :
              /\ NewUserRow(received[k].uid) \in T
              /\ \A mid \in Nat : PostToken(k, received[k].uid, mid) \in T
    PROVE  MadeOf(T)'
<1> USE DEF MadeOf
<1>1. <<>> \in Seq(T)
  OBVIOUS
<1>2. TmpInode \in Inodes /\ FreeInode \in Inodes
  BY TmpInodeExists, FreeInodeExists
<1>3. ASSUME NEW n \in Names, Linked(n) PROVE dir[n] \in Inodes
  BY <1>3 DEF TypeOK, Linked
<1>4. ASSUME TruncateTmp PROVE content' \in [Inodes -> Seq(T)]
  BY <1>1, <1>2, <1>4 DEF TruncateTmp
<1>5. ASSUME Die PROVE \A t \in Threads : worker'[t].buf \in Seq(T)
  BY <1>1, <1>5 DEF Die, Idle
<1>6. worker \in [Threads -> Worker]
  BY DEF TypeOK
<1>7. ASSUME NEW t \in Threads, Receive(t) PROVE MadeOf(T)'
  BY <1>6, <1>7 DEF Receive, files, Worker
<1>8. ASSUME NEW t \in Threads, Call(t) PROVE MadeOf(T)'
  <2>1. CASE skipFile(t)
    BY <1>6, <2>1 DEF skipFile, files, Worker
  <2>2. CASE getPermOfUser(t)
    BY <1>6, <2>2 DEF getPermOfUser, files, Worker
  <2>3. CASE findChat_storeName(t)
    <3>1. PICK n \in worker[t].scan :
             /\ FindsIn(t, "addNewUser", n)
             /\ worker' = [worker EXCEPT ![t].pc = "openTempy",
                                         ![t].scan = {},
                                         ![t].file = dir[n],
                                         ![t].buf = content[dir[n]],
                                         ![t].name = n]
      BY <2>3 DEF findChat_storeName
    <3>2. n \in Names
      BY <1>6 DEF Worker
    <3>3. content[dir[n]] \in Seq(T)
      BY <1>3, <3>1, <3>2 DEF FindsIn, Fits
    <3> QED
      BY <1>6, <2>3, <3>1, <3>3 DEF findChat_storeName, files, Worker
  <2>4. CASE findChatName(t)
    BY <1>6, <2>4 DEF findChatName, files, Worker
  <2>5. CASE getNumberOfMessages(t)
    BY <1>6, <2>5 DEF getNumberOfMessages, files, Worker
  <2>6. CASE spin(t)
    BY <1>6, <2>6 DEF spin, files, Worker
  <2>7. CASE NotFound(t)
    <3>1. CASE TruncateTmp /\ Die
      BY <1>4, <1>5, <3>1
    <3>2. CASE UNCHANGED files /\ Die
      BY <1>5, <3>2 DEF files
    <3>3. CASE /\ UNCHANGED files
               /\ worker' = [worker EXCEPT ![t].pc = "getNumberOfMessages",
                                           ![t].name = NoName,
                                           ![t].scan = Existing]
      BY <1>6, <3>3 DEF files, Worker
    <3> QED
      BY <2>7, <3>1, <3>2, <3>3 DEF NotFound
  <2>8. CASE openTempy(t)
    BY <1>4, <1>6, <2>8 DEF openTempy, Worker
  <2>9. CASE copy(t)
    <3> DEFINE before == Refill(worker[t].buf, content[worker[t].file])
    <3>1. worker[t].file \in Inodes
      BY <1>6, <2>9 DEF copy, TypeOK, Worker
    <3>2. before \in Seq(T)
      BY <3>1, RefillTokens
    <3>3. /\ worker[t].msg \in DOMAIN received
          /\ Cid(t) \in Nat /\ NewUserRow(Uid(t)) \in T
      BY <2>9, BusyHasMessage DEF copy, Uid
    <3>4. CopyWithUser(Cid(t), Uid(t), before) \in Seq(T)
      BY <3>2, <3>3, CopyTokens
    <3> QED
      BY <1>6, <2>9, <3>4 DEF copy, files, Worker
  <2>10. CASE closeTempy(t)
    <3>1. worker[t].tempy \in Inodes
      BY <1>6, <2>10 DEF closeTempy, TypeOK, Worker
    <3>2. Overlay(worker[t].buf, content[worker[t].tempy]) \in Seq(T)
      BY <3>1, OverlayTokens
    <3>3. content' \in [Inodes -> Seq(T)]
      BY <2>10, <3>1, <3>2 DEF closeTempy
    <3> QED
      BY <1>1, <1>6, <2>10, <3>3 DEF closeTempy, Worker
  <2>11. CASE remove(t)
    BY <1>6, <2>11 DEF remove, Worker
  <2>12. CASE rename(t)
    BY <1>6, <2>12 DEF rename, Worker
  <2>13. CASE openChat(t)
    <3>1. content' \in [Inodes -> Seq(T)]
      BY <1>1, <1>2, <2>13 DEF openChat
    <3> QED
      BY <1>6, <2>13, <3>1 DEF openChat, Worker
  <2>14. CASE openNoChat(t)
    BY <1>5, <2>14 DEF openNoChat, files
  <2>15. CASE append(t)
    <3> DEFINE post == PostToken(worker[t].msg, Uid(t), worker[t].mid)
    <3>1. worker[t].file \in Inodes /\ worker[t].mid \in Nat
      BY <1>6, <2>15 DEF append, TypeOK, Worker
    <3>2. worker[t].msg \in DOMAIN received
      BY <2>15, BusyHasMessage DEF append
    <3>3. post \in T
      BY <3>1, <3>2 DEF Uid
    <3>4. Append(content[worker[t].file], post) \in Seq(T)
      BY <3>1, <3>3, AppendProperties
    <3>5. content' \in [Inodes -> Seq(T)]
      BY <2>15, <3>1, <3>4 DEF append
    <3> QED
      BY <1>1, <1>6, <2>15, <3>5 DEF append, Idle
  <2> QED
    BY <1>8, <2>1, <2>2, <2>3, <2>4, <2>5, <2>6, <2>7, <2>8, <2>9, <2>10, <2>11,
       <2>12, <2>13, <2>14, <2>15 DEF Call
<1>9. CASE Crash
  BY <1>5, <1>9 DEF Crash, files
<1>10. CASE UNCHANGED vars
  BY <1>10 DEF vars
<1> QED
  BY <1>7, <1>8, <1>9, <1>10 DEF Next

-----------------------------------------------------------------------------
(* Type correctness.                                                        *)

LEMMA TokenLines ==
    /\ Marker \in Token
    /\ \A b \in BOOLEAN : Torn(b) \in Token
    /\ \A c \in Nat : IdLine(c) \in Token
    /\ \A c \in Nat, old \in Token : NewIdLine(c, old) \in Token
    /\ \A u \in Nat, p \in Nat : UserLine(u, p) \in Token
    /\ \A u \in Users : NewUserRow(u) \in Token
    /\ \A n \in Nat, u \in Users, mid \in Nat : PostToken(n, u, mid) \in Token
    /\ \A token \in Token : token.nl \in BOOLEAN
<1>1. Users \subseteq Nat
  BY IdsAssumption
<1>2. ASSUME NEW c \in Nat, NEW old \in Token PROVE NewIdLine(c, old) \in Token
  <2>1. old.key \in Nat /\ old.num \in Nat
    BY DEF Token
  <2>2. LeftUnread(old) \in Nat
    BY <2>1 DEF LeftUnread
  <2>3. c \div 10 \in Nat
    OBVIOUS
  <2> QED
    BY <2>2, <2>3 DEF NewIdLine, Token
<1> QED
  BY <1>1, <1>2 DEF Token, Marker, Torn, IdLine, UserLine, NewUserRow, PostToken,
                    GuestPermissions

LEMMA InitTypeOK == Init => TypeOK
<1> SUFFICES ASSUME Init PROVE TypeOK
  OBVIOUS
<1>1. dir \in [Names -> Inodes \union {NoInode}]
  BY IdsAssumption, InodesAssumption DEF Init, Names, ChatFile, Tmp
<1>2. MadeOf(Token)
  <2>1. \A c \in Chats : \A k \in DOMAIN InitialMembers[c] : InitialMembers[c][k] \in Nat
    <3> SUFFICES ASSUME NEW c \in Chats, NEW k \in DOMAIN InitialMembers[c]
                 PROVE  InitialMembers[c][k] \in Users
      BY IdsAssumption
    <3>1. InitialMembers[c] \in Seq(Users)
      BY RowsAssumption
    <3> QED
      BY <3>1, ElementOfSeq, LenProperties
  <2> QED
    BY <2>1, TokenLines, IdsAssumption, InitMadeOf DEF GuestPermissions
<1>3. worker \in [Threads -> Worker]
  BY DEF Init, Idle, Worker, Places
<1>4. \A t \in Threads : worker[t] = Idle
  BY DEF Init
<1>5. received = <<>> /\ applied = {} /\ crashes = 0
  BY DEF Init
<1>6. /\ received \in Seq([cid : Nat, uid : Users])
      /\ Len(received) = 0
      /\ crashes \in 0 .. MaxCrashes
  BY <1>5, BoundsAssumption
<1> QED
  BY <1>1, <1>2, <1>3, <1>4, <1>5, <1>6, BoundsAssumption DEF Idle, TypeOK, MadeOf

\* The fields of a thread, between calls of applyMessage and within one.
PlaceOK(w, len) ==
    /\ w \in Worker
    /\ w.msg \in 0 .. len
    /\ w.msg = 0 <=> w.pc = "idle"
    /\ w.file # NoInode <=> w.pc \in {"openTempy", "copy", "append"}
    /\ w.tempy # NoInode <=> w.pc \in {"copy", "closeTempy"}

\* Only a thread between calls is given a message.
LEMMA PlaceWithMessage ==
    ASSUME NEW w, NEW len \in Nat, PlaceOK(w, len), w.pc = "idle",
           NEW scan \in SUBSET Names
    PROVE  PlaceOK([w EXCEPT !.pc = "getPermOfUser", !.msg = len + 1, !.scan = scan],
                   len + 1)
<1> DEFINE v == [w EXCEPT !.pc = "getPermOfUser", !.msg = len + 1, !.scan = scan]
<1>1. v \in Worker
  <2>1. w \in Worker /\ "getPermOfUser" \in Places /\ len + 1 \in Nat
    BY DEF PlaceOK, Places, Calls
  <2> QED
    BY <2>1 DEF Worker
<1>2. /\ v.pc = "getPermOfUser" /\ v.msg = len + 1
      /\ v.file = w.file /\ v.tempy = w.tempy
  BY DEF PlaceOK, Worker
<1>3. w.file = NoInode /\ w.tempy = NoInode
  BY DEF PlaceOK
<1> HIDE DEF v
<1>4. PlaceOK(v, len + 1)
  BY <1>1, <1>2, <1>3 DEF PlaceOK
<1> QED
  BY <1>4 DEF v

LEMMA LinesCounted ==
    ASSUME NEW T, NEW s \in Seq(T)
    PROVE  LinesAfterMarker(s) \in Nat
<1> DEFINE P == {i \in DOMAIN s : AtLineStart(s, i) /\ \E m \in Markers(s) : m < i}
<1>1. DOMAIN s = 1 .. Len(s) /\ Len(s) \in Nat
  BY LenProperties
<1>2. P \in SUBSET (1 .. Len(s))
  BY <1>1
<1>3. Cardinality(P) \in Nat
  <2> HIDE DEF P
  <2> QED
    BY <1>1, <1>2, PositionsBound
<1> QED
  BY <1>3 DEF LinesAfterMarker

LEMMA StepTypeOK ==
    ASSUME TypeOK, [Next]_vars
    PROVE  TypeOK'
<1>1. MadeOf(Token)'
  <2>1. MadeOf(Token)
    BY DEF TypeOK, MadeOf, Worker
  <2>2. \A i \in Inodes : \A k \in DOMAIN content[i] : Torn(content[i][k].nl) \in Token
    <3> SUFFICES ASSUME NEW i \in Inodes, NEW k \in DOMAIN content[i]
                 PROVE  Torn(content[i][k].nl) \in Token
      OBVIOUS
    <3>1. content[i] \in Seq(Token)
      BY DEF TypeOK
    <3>2. content[i][k] \in Token
      BY <3>1, ElementOfSeq, LenProperties
    <3> QED
      BY <3>2, TokenLines
  <2>3. \A k \in DOMAIN received : k \in Nat /\ received[k].uid \in Users
    <3> SUFFICES ASSUME NEW k \in DOMAIN received
                 PROVE  k \in Nat /\ received[k].uid \in Users
      OBVIOUS
    <3>1. received \in Seq([cid : Nat, uid : Users])
      BY DEF TypeOK
    <3>2. k \in 1 .. Len(received)
      BY <3>1, LenProperties
    <3>3. received[k] \in [cid : Nat, uid : Users]
      BY <3>1, <3>2, ElementOfSeq
    <3> QED
      BY <3>2, <3>3
  <2> QED
    BY <2>1, <2>2, <2>3, TokenLines, StepMadeOf
<1>2. /\ worker \in [Threads -> Worker]
      /\ \A t \in Threads : PlaceOK(worker[t], Len(received))
  BY DEF TypeOK, PlaceOK
<1> DEFINE DirOK == dir' \in [Names -> Inodes \union {NoInode}]
           PlacesOK == /\ worker' \in [Threads -> Worker]
                       /\ \A t \in Threads : PlaceOK(worker'[t], Len(received))
<1>3. Len(received) \in Nat
  BY LenProperties DEF TypeOK
<1>4. PlaceOK(Idle, Len(received))
  BY <1>3 DEF PlaceOK, Idle, Worker, Places
<1>5. TmpInode \in Inodes /\ FreeInode \in Inodes /\ NoInode \notin Inodes
  BY TmpInodeExists, FreeInodeExists, InodesAssumption DEF NoInode
<1>6. ASSUME TruncateTmp PROVE DirOK
  BY <1>5, <1>6 DEF TruncateTmp, TypeOK
<1>7. ASSUME Die PROVE PlacesOK
  BY <1>4, <1>7 DEF Die, PlaceOK
<1>8. UNCHANGED dir => DirOK
  BY DEF TypeOK
<1>9. ASSUME NEW t \in Threads, NEW w, worker' = [worker EXCEPT ![t] = w],
             PlaceOK(w, Len(received))
      PROVE  PlacesOK
  BY <1>2, <1>9 DEF PlaceOK
<1>10. ASSUME NEW t \in Threads, Call(t) PROVE DirOK /\ PlacesOK
  <2> DEFINE w == worker[t]
             len == Len(received)
  <2>1. ASSUME UNCHANGED dir, NEW v, worker' = [worker EXCEPT ![t] = v], PlaceOK(v, len)
        PROVE  DirOK /\ PlacesOK
    BY <1>8, <1>9, <2>1
  <2>2. PlaceOK(w, len) /\ worker \in [Threads -> Worker]
    BY <1>2
  <2>3. CASE skipFile(t)
    <3>1. PICK n : worker' = [worker EXCEPT ![t] = [w EXCEPT !.scan = w.scan \ {n}]]
      BY <2>2, <2>3 DEF skipFile
    <3>2. PlaceOK([w EXCEPT !.scan = w.scan \ {n}], len)
      BY <2>2 DEF PlaceOK, Worker
    <3> QED
      BY <2>1, <2>3, <3>1, <3>2 DEF skipFile, files
  <2>4. CASE getPermOfUser(t)
    <3>1. PICK pc \in {"addNewUser", "findChatName"} :
             /\ worker' = [worker EXCEPT ![t] = [w EXCEPT !.pc = pc, !.scan = Existing]]
             /\ w.pc = "getPermOfUser"
      BY <2>2, <2>4 DEF getPermOfUser, FindsIn
    <3>2. PlaceOK([w EXCEPT !.pc = pc, !.scan = Existing], len)
      BY <2>2, <3>1 DEF PlaceOK, Worker, Places, Calls, Existing
    <3> QED
      BY <2>1, <2>4, <3>1, <3>2 DEF getPermOfUser, files
  <2>5. CASE findChat_storeName(t)
    <3> DEFINE v(n) == [w EXCEPT !.pc = "openTempy", !.scan = {}, !.file = dir[n],
                                 !.buf = content[dir[n]], !.name = n]
    <3>1. PICK n \in w.scan : /\ FindsIn(t, "addNewUser", n)
                              /\ worker' = [worker EXCEPT ![t] = v(n)]
      BY ZenonT(60), <2>2, <2>5 DEF findChat_storeName
    <3>2. n \in Names
      BY <2>2 DEF Worker
    <3>3. w.pc = "addNewUser" /\ dir[n] # NoInode
      BY <3>1 DEF FindsIn, Fits, Linked
    <3>4. dir[n] \in Inodes
      BY <3>2, <3>3 DEF TypeOK
    <3>5. content[dir[n]] \in Seq(Token)
      BY <3>4 DEF TypeOK
    <3>6. PlaceOK(v(n), len)
      BY <2>2, <3>2, <3>3, <3>4, <3>5 DEF PlaceOK, Worker, Places, Calls
    <3> QED
      BY <2>1, <2>5, <3>1, <3>6 DEF findChat_storeName, files
  <2>6. CASE findChatName(t)
    <3> DEFINE v(n) == [w EXCEPT !.pc = "getNumberOfMessages", !.scan = Existing,
                                 !.name = n]
    <3>1. PICK n \in w.scan : /\ w.pc = "findChatName"
                              /\ worker' = [worker EXCEPT ![t] = v(n)]
      BY <2>2, <2>6 DEF findChatName, FindsIn
    <3>2. PlaceOK(v(n), len)
      BY <2>2, <3>1 DEF PlaceOK, Worker, Places, Calls, Existing
    <3> QED
      BY <2>1, <2>6, <3>1, <3>2 DEF findChatName, files
  <2>7. CASE getNumberOfMessages(t)
    <3> DEFINE v(m) == [w EXCEPT !.pc = "openChat", !.scan = {}, !.mid = m]
    <3>1. PICK n \in w.scan :
             /\ FindsIn(t, "getNumberOfMessages", n)
             /\ worker' = [worker EXCEPT ![t] = v(LinesAfterMarker(content[dir[n]]))]
      BY <2>2, <2>7 DEF getNumberOfMessages
    <3>2. n \in Names /\ w.pc = "getNumberOfMessages" /\ dir[n] # NoInode
      BY <2>2, <3>1 DEF Worker, FindsIn, Fits, Linked
    <3>3. content[dir[n]] \in Seq(Token)
      BY <3>2 DEF TypeOK
    <3>4. LinesAfterMarker(content[dir[n]]) \in Nat
      BY <3>3, LinesCounted
    <3>5. PlaceOK(v(LinesAfterMarker(content[dir[n]])), len)
      BY <2>2, <3>2, <3>4 DEF PlaceOK, Worker, Places, Calls
    <3> QED
      BY <2>1, <2>7, <3>1, <3>5 DEF getNumberOfMessages, files
  <2>8. CASE spin(t)
    <3> DEFINE v == [w EXCEPT !.pc = "spin", !.scan = {}]
    <3>1. w.pc \in Calls /\ worker' = [worker EXCEPT ![t] = v]
      BY <2>2, <2>8 DEF spin, FindsIn, Calls
    <3>2. PlaceOK(v, len)
      BY <2>2, <3>1 DEF PlaceOK, Worker, Places, Calls
    <3> QED
      BY <2>1, <2>8, <3>1, <3>2 DEF spin, files
  <2>9. CASE NotFound(t)
    <3> DEFINE v == [w EXCEPT !.pc = "getNumberOfMessages", !.name = NoName,
                              !.scan = Existing]
    <3>1. CASE TruncateTmp /\ Die
      BY <1>6, <1>7, <3>1
    <3>2. CASE UNCHANGED files /\ Die
      BY <1>7, <1>8, <3>2 DEF files
    <3>3. CASE /\ UNCHANGED files
               /\ w.pc = "findChatName"
               /\ worker' = [worker EXCEPT ![t] = v]
      <4>1. PlaceOK(v, len)
        BY <2>2, <3>3 DEF PlaceOK, Worker, Places, Calls, Existing
      <4> QED
        BY <2>1, <3>3, <4>1 DEF files
    <3> QED
      BY <2>2, <2>9, <3>1, <3>2, <3>3 DEF NotFound
  <2>10. CASE openTempy(t)
    <3> DEFINE v == [w EXCEPT !.pc = "copy", !.tempy = TmpInode]
    <3>1. w.pc = "openTempy" /\ worker' = [worker EXCEPT ![t] = v]
      BY <2>2, <2>10 DEF openTempy
    <3>2. PlaceOK(v, len)
      BY <1>5, <2>2, <3>1 DEF PlaceOK, Worker, Places, Calls
    <3> QED
      BY <1>6, <1>9, <2>10, <3>1, <3>2 DEF openTempy
  <2>11. CASE copy(t)
    <3> DEFINE b == CopyWithUser(Cid(t), Uid(t), Refill(w.buf, content[w.file]))
               v == [w EXCEPT !.pc = "closeTempy", !.file = NoInode, !.buf = b]
    <3>1. w.pc = "copy" /\ worker' = [worker EXCEPT ![t] = v]
      BY <2>2, <2>11 DEF copy
    <3>2. worker'[t].buf = b
      BY <2>2, <3>1 DEF Worker
    <3>3. b \in Seq(Token)
      BY <1>1, <3>2 DEF MadeOf
    <3>4. PlaceOK(v, len)
      <4> HIDE DEF b
      <4> QED
        BY <2>2, <3>1, <3>3 DEF PlaceOK, Worker, Places, Calls
    <3> QED
      BY <2>1, <2>11, <3>1, <3>4 DEF copy, files
  <2>12. CASE closeTempy(t)
    <3> DEFINE v == [w EXCEPT !.pc = "remove", !.tempy = NoInode, !.buf = <<>>]
    <3>1. w.pc = "closeTempy" /\ worker' = [worker EXCEPT ![t] = v]
      BY <2>2, <2>12 DEF closeTempy
    <3>2. PlaceOK(v, len)
      <4>1. PICK empty \in Seq(Token) : empty = <<>>
        BY EmptySeq
      <4>2. PlaceOK([w EXCEPT !.pc = "remove", !.tempy = NoInode, !.buf = empty], len)
        BY <2>2, <3>1 DEF PlaceOK, Worker, Places, Calls
      <4> QED
        BY <4>1, <4>2
    <3> QED
      BY <2>1, <2>12, <3>1, <3>2 DEF closeTempy
  <2>13. CASE remove(t)
    <3> DEFINE v == [w EXCEPT !.pc = "rename"]
    <3>1. w.pc = "remove" /\ worker' = [worker EXCEPT ![t] = v]
      BY <2>2, <2>13 DEF remove
    <3>2. PlaceOK(v, len)
      BY <2>2, <3>1 DEF PlaceOK, Worker, Places, Calls
    <3>3. DirOK
      BY <2>13 DEF remove, TypeOK
    <3> QED
      BY <1>9, <3>1, <3>2, <3>3
  <2>14. CASE rename(t)
    <3> DEFINE v == [w EXCEPT !.pc = "findChatName", !.name = NoName,
                              !.scan = {n \in Names : dir'[n] # NoInode}]
    <3>1. w.pc = "rename" /\ worker' = [worker EXCEPT ![t] = v]
      BY <2>2, <2>14 DEF rename
    <3>2. PlaceOK(v, len)
      BY <2>2, <3>1 DEF PlaceOK, Worker, Places, Calls
    <3>3. DirOK
      <4>1. dir[Tmp] \in Inodes \union {NoInode} /\ dir \in [Names -> Inodes \union {NoInode}]
        BY DEF TypeOK, Names
      <4> QED
        BY <2>14, <4>1 DEF rename
    <3> QED
      BY <1>9, <3>1, <3>2, <3>3
  <2>15. CASE openChat(t)
    <3> DEFINE inode == IF Linked(w.name) THEN dir[w.name] ELSE FreeInode
               v == [w EXCEPT !.pc = "append", !.file = inode]
    <3>1. /\ w.pc = "openChat"
          /\ dir' = [dir EXCEPT ![w.name] = inode]
          /\ worker' = [worker EXCEPT ![t] = v]
      BY <2>2, <2>15 DEF openChat
    <3>2. w.name \in Names
      BY <2>2, <2>15 DEF openChat, Worker
    <3>3. inode \in Inodes
      BY <1>5, <3>2 DEF Linked, TypeOK
    <3> HIDE DEF inode
    <3>4. PlaceOK(v, len)
      BY <1>5, <2>2, <3>1, <3>3 DEF PlaceOK, Worker, Places, Calls
    <3>5. DirOK
      BY <3>1, <3>3 DEF TypeOK
    <3> QED
      BY <1>9, <3>1, <3>4, <3>5
  <2>16. CASE openNoChat(t)
    BY <1>7, <1>8, <2>16 DEF openNoChat, files
  <2>17. CASE append(t)
    BY <1>4, <2>1, <2>17 DEF append
  <2> QED
    BY <1>10, <2>3, <2>4, <2>5, <2>6, <2>7, <2>8, <2>9, <2>10, <2>11, <2>12, <2>13,
       <2>14, <2>15, <2>16, <2>17 DEF Call
<1>11. ASSUME DirOK, PlacesOK, UNCHANGED <<received, crashes>>,
              applied' \subseteq 1 .. Len(received)
       PROVE  TypeOK'
  BY <1>1, <1>11 DEF TypeOK, MadeOf, PlaceOK
<1>12. ASSUME NEW t \in Threads, Receive(t) PROVE TypeOK'
  <2>1. PICK m \in Serve[t] : received' = Append(received, [cid |-> m[1], uid |-> m[2]])
    BY <1>12 DEF Receive
  <2>2. [cid |-> m[1], uid |-> m[2]] \in [cid : Nat, uid : Users]
    BY ServeAssumption
  <2>3. /\ received' \in Seq([cid : Nat, uid : Users])
        /\ Len(received') = Len(received) + 1
    BY <2>1, <2>2, AppendProperties DEF TypeOK
  <2>4. Len(received') <= MaxMessages
    BY <1>3, <1>12, <2>3, BoundsAssumption DEF Receive
  <2>5. /\ worker' \in [Threads -> Worker]
        /\ \A u \in Threads : PlaceOK(worker'[u], Len(received'))
    <3> DEFINE len == Len(received)
               v == [worker[t] EXCEPT !.pc = "getPermOfUser", !.msg = len + 1,
                                      !.scan = Existing]
    <3>1. worker[t].pc = "idle" /\ worker' = [worker EXCEPT ![t] = v]
      BY <1>2, <1>12 DEF Receive
    <3>2. PlaceOK(worker[t], len)
      BY <1>2
    <3>3. PlaceOK(v, len + 1)
      BY <1>3, <3>1, <3>2, PlaceWithMessage DEF Existing
    <3>4. \A u \in Threads : PlaceOK(worker[u], len) => PlaceOK(worker[u], len + 1)
      BY <1>3 DEF PlaceOK
    <3>5. v \in Worker
      BY <3>3 DEF PlaceOK
    <3> HIDE DEF v
    <3> QED
      BY <1>2, <2>3, <3>1, <3>3, <3>4, <3>5
  <2> QED
    BY <1>1, <1>3, <1>12, <2>3, <2>4, <2>5
    DEF Receive, files, TypeOK, MadeOf, PlaceOK
<1>13. ASSUME NEW t \in Threads, Call(t) PROVE TypeOK'
  <2>1. UNCHANGED <<received, crashes>>
    BY ZenonT(40), <1>13
    DEF Call, skipFile, getPermOfUser, findChat_storeName, findChatName,
        getNumberOfMessages, spin, NotFound, openTempy, copy, closeTempy, remove,
        rename, openChat, openNoChat, append
  <2>2. CASE append(t)
    <3>1. worker[t].msg \in 1 .. Len(received)
      BY <2>2, BusyHasMessage, LenProperties DEF append, TypeOK
    <3>2. applied' \subseteq 1 .. Len(received)
      BY <2>2, <3>1 DEF append, TypeOK
    <3> QED
      BY <1>10, <1>11, <1>13, <2>1, <3>2
  <2>3. CASE ~append(t)
    <3>1. UNCHANGED applied
      BY ZenonT(40), <1>13, <2>3
      DEF Call, skipFile, getPermOfUser, findChat_storeName, findChatName,
          getNumberOfMessages, spin, NotFound, openTempy, copy, closeTempy, remove,
          rename, openChat, openNoChat
    <3> QED
      BY SMTT(40), <1>10, <1>11, <1>13, <2>1, <3>1 DEF TypeOK
  <2> QED
    BY SMTT(40), <2>2, <2>3
<1>14. CASE Crash
  <2>1. DirOK /\ PlacesOK
    BY <1>7, <1>8, <1>14 DEF Crash, files
  <2>2. crashes' \in 0 .. MaxCrashes
    BY <1>14, BoundsAssumption DEF Crash, TypeOK
  <2> QED
    BY <1>1, <1>14, <2>1, <2>2 DEF Crash, TypeOK, MadeOf, PlaceOK
<1>15. CASE UNCHANGED vars
  BY <1>15 DEF vars, TypeOK
<1> QED
  BY <1>12, <1>13, <1>14, <1>15 DEF Next

\* In every state the directory and the buffers of every thread are well formed,
\* and a thread has exactly the files open that its place in applyMessage needs:
\* neither of addNewUser's two files stays open after the call, whichever entry
\* it went through.
THEOREM TypeCorrect == Spec => []TypeOK
<1>1. TypeOK /\ [Next]_vars => TypeOK'
  BY StepTypeOK
<1> QED
  BY InitTypeOK, <1>1, PTL DEF Spec

-----------------------------------------------------------------------------
(* Nothing is made up.                                                      *)

GenuineTokens == {token \in Token : Genuine(token)}

\* The strengthening.  A thread works on what a file held when it looked, and
\* a file that is no longer, or not yet, in the directory is read and written
\* by those who have it open: every file and every buffer is in question, not
\* only what a name leads to.
AllGenuine == MadeOf(GenuineTokens)

LEMMA InitGenuine == Init => AllGenuine
<1> SUFFICES ASSUME Init PROVE AllGenuine
  OBVIOUS
<1>1. PICK T : T = GenuineTokens
  OBVIOUS
<1>2. Marker \in T
  BY <1>1, TokenLines DEF GenuineTokens, Genuine, Marker
<1>3. ASSUME NEW c \in Chats PROVE IdLine(c) \in T
  BY <1>1, TokenLines, IdsAssumption DEF GenuineTokens, Genuine, IdLine
<1>4. ASSUME NEW c \in Chats, NEW k \in DOMAIN InitialMembers[c]
      PROVE  UserLine(InitialMembers[c][k], GuestPermissions) \in T
  <2> DEFINE u == InitialMembers[c][k]
  <2>1. InitialMembers[c] \in Seq(Users)
    BY RowsAssumption
  <2>2. u \in Nat
    <3>1. u \in Users
      BY <2>1, ElementOfSeq, LenProperties
    <3> QED
      BY <3>1, IdsAssumption
  <2>3. UserLine(u, GuestPermissions) \in Token
    BY <2>2, TokenLines DEF GuestPermissions
  <2>4. u \in MembersAtStart(c)
    BY DEF MembersAtStart
  <2>5. Genuine(UserLine(u, GuestPermissions))
    BY <2>4 DEF Genuine, UserLine
  <2> QED
    BY <1>1, <2>3, <2>5 DEF GenuineTokens
<1>5. MadeOf(T)
  BY <1>2, <1>3, <1>4, InitMadeOf
<1> QED
  BY <1>1, <1>5 DEF AllGenuine, MadeOf

\* What was received is not taken back, also by a crash.
LEMMA ReceivedGrows ==
    ASSUME TypeOK, [Next]_vars, NEW k \in DOMAIN received
    PROVE  k \in DOMAIN received' /\ received'[k] = received[k]
<1>1. CASE UNCHANGED received
  BY <1>1
<1>2. ASSUME NEW t \in Threads, Receive(t)
      PROVE  k \in DOMAIN received' /\ received'[k] = received[k]
  <2>1. PICK m \in Serve[t] : received' = Append(received, [cid |-> m[1], uid |-> m[2]])
    BY SMTT(40), <1>2 DEF Receive
  <2>2. [cid |-> m[1], uid |-> m[2]] \in [cid : Nat, uid : Users]
    BY ServeAssumption
  <2>3. received \in Seq([cid : Nat, uid : Users])
    BY DEF TypeOK
  <2>4. k \in 1 .. Len(received) /\ Len(received) \in Nat
    BY <2>3, LenProperties
  <2> QED
    BY <2>1, <2>2, <2>3, <2>4, AppendProperties, LenProperties
<1>3. ASSUME NEW t \in Threads, Call(t) PROVE UNCHANGED received
  BY ZenonT(40), <1>3
  DEF Call, skipFile, getPermOfUser, findChat_storeName, findChatName,
      getNumberOfMessages, spin, NotFound, openTempy, copy, closeTempy, remove,
      rename, openChat, openNoChat, append
<1> QED
  BY <1>1, <1>2, <1>3 DEF Next, Crash, vars

LEMMA StepGenuine ==
    ASSUME TypeOK, AllGenuine, [Next]_vars
    PROVE  AllGenuine'
<1>1. PICK T : T = GenuineTokens'
  OBVIOUS
<1>2. GenuineTokens \subseteq T
  BY <1>1, ReceivedGrows DEF GenuineTokens, Genuine
<1>3. MadeOf(T)
  BY <1>2, SeqMonotonic DEF AllGenuine, MadeOf
<1>4. /\ T \subseteq Token
      /\ \A c \in Nat, old \in Token : NewIdLine(c, old) \in T
  BY <1>1, TokenLines DEF GenuineTokens, Genuine, NewIdLine
<1>5. \A b \in BOOLEAN : Torn(b) \in T
  BY <1>1, TokenLines DEF GenuineTokens, Genuine, Torn
<1>6. \A i \in Inodes : \A k \in DOMAIN content[i] : Torn(content[i][k].nl) \in T
  <2> SUFFICES ASSUME NEW i \in Inodes, NEW k \in DOMAIN content[i]
               PROVE  Torn(content[i][k].nl) \in T
    OBVIOUS
  <2>1. content[i] \in Seq(Token)
    BY DEF TypeOK
  <2>2. content[i][k] \in Token
    BY <2>1, ElementOfSeq, LenProperties
  <2> QED
    BY <1>5, <2>2, TokenLines
<1>7. ASSUME NEW k \in DOMAIN received
      PROVE  /\ NewUserRow(received[k].uid) \in T
             /\ \A mid \in Nat : PostToken(k, received[k].uid, mid) \in T
  <2> DEFINE u == received[k].uid
  <2>1. received \in Seq([cid : Nat, uid : Users])
    BY DEF TypeOK
  <2>2. k \in 1 .. Len(received)
    BY <2>1, LenProperties
  <2>3. k \in Nat /\ u \in Users
    <3>1. received[k] \in [cid : Nat, uid : Users]
      BY <2>1, <2>2, ElementOfSeq
    <3> QED
      BY <2>2, <3>1
  <2>4. k \in DOMAIN received' /\ received'[k].uid = u
    BY ReceivedGrows
  <2>5. NewUserRow(u) \in Token /\ \A mid \in Nat : PostToken(k, u, mid) \in Token
    BY <2>3, TokenLines
  <2>6. NewUserRow(u) \in T
    BY <1>1, <2>4, <2>5 DEF GenuineTokens, Genuine, NewUserRow
  <2>7. \A mid \in Nat : PostToken(k, u, mid) \in T
    BY <1>1, <2>4, <2>5 DEF GenuineTokens, Genuine, PostToken
  <2> QED
    BY <2>6, <2>7
<1>8. MadeOf(T)'
  BY <1>3, <1>4, <1>6, <1>7, StepMadeOf
<1> QED
  BY <1>1, <1>8 DEF AllGenuine, MadeOf

\* Whatever the threads do to each other's files and wherever the process is
\* killed, every row in a chat is of a first member or of a user who has sent
\* something, and every post carries the user who sent it: two calls that
\* copy into the one temporary file never mix a post with another's user.
THEOREM NothingInventedHolds == Spec => []NothingInvented
<1>1. TypeOK /\ AllGenuine /\ [Next]_vars => AllGenuine'
  BY StepGenuine
<1>2. TypeOK /\ AllGenuine => NothingInvented
  <2> SUFFICES ASSUME TypeOK, AllGenuine, NEW n \in Existing,
                      NEW i \in DOMAIN content[dir[n]]
               PROVE  Genuine(content[dir[n]][i])
    BY DEF NothingInvented
  <2>1. dir[n] \in Inodes
    BY DEF TypeOK, Existing, Linked
  <2>2. content[dir[n]] \in Seq(GenuineTokens)
    BY <2>1 DEF AllGenuine, MadeOf
  <2>3. content[dir[n]][i] \in GenuineTokens
    BY <2>2, ElementOfSeq, LenProperties
  <2> QED
    BY <2>3 DEF GenuineTokens
<1> QED
  BY InitGenuine, TypeCorrect, <1>1, <1>2, PTL DEF Spec
=============================================================================
