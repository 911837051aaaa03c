-------------------------- MODULE ChatApartProofs ---------------------------
(***************************************************************************)
(* While the chats are kept apart, every message applied is stored once,   *)
(* every chat can be found at every moment, and the files implement        *)
(* ChatLog.  For any number of threads, chats, users and messages.         *)
(***************************************************************************)
EXTENDS ChatApart, ChatStoreProofs, WellFoundedInduction

-----------------------------------------------------------------------------
(* The inductive invariant.                                                 *)

\* The lines of a chat file: its id, rows, the marker at p, posts.
Shape(s, c, p) ==
    /\ p \in 2 .. Len(s)
    /\ s[1] = IdLine(c)
    /\ \A i \in 2 .. p - 1 :
          s[i].kind = "user" /\ s[i].nl = TRUE /\ s[i].num = GuestPermissions
    /\ s[p] = Marker
    /\ \A i \in p + 1 .. Len(s) : s[i].kind = "post"

\* The posts of s are those of the messages in numbers, one of each.
HasPosts(s, numbers) ==
    /\ {s[i].key : i \in Posts(s)} = numbers
    /\ \A i, j \in Posts(s) : s[i].key = s[j].key => i = j

\* What a file holds that stands for chat c with the messages in numbers.
Complete(s, c, numbers) == /\ \E p \in Nat : Shape(s, c, p)
                           /\ HasPosts(s, numbers)
                           /\ MembersAtStart(c) \subseteq RowKeys(s)

AppliedIn(c) == {n \in applied : received[n].cid = c}

Home(t) == ChatFile(Cid(t))
File(c) == content[dir[ChatFile(c)]]

Joining == {"addNewUser", "openTempy", "copy", "closeTempy", "remove", "rename"}
Posting == {"findChatName", "getNumberOfMessages", "openChat", "append"}

\* What a thread in addNewUser relies on.
JoinerOK(t) ==
    LET w == worker[t] IN
    /\ Uid(t) \notin MembersAtStart(Cid(t))
    /\ w.pc # "addNewUser" => w.name = Home(t)
    /\ w.pc # "rename" => Uid(t) \notin RowKeys(File(Cid(t)))
    /\ w.pc \in {"openTempy", "copy"} =>
          w.file = dir[Home(t)] /\ w.buf = File(Cid(t))
    /\ w.pc \in {"copy", "closeTempy"} =>
          w.tempy = dir[Tmp] /\ content[dir[Tmp]] = <<>>
    /\ w.pc = "closeTempy" => w.buf = CopyWithUser(Cid(t), Uid(t), File(Cid(t)))
    /\ w.pc = "remove" =>
          /\ Linked(Tmp)
          /\ content[dir[Tmp]] = CopyWithUser(Cid(t), Uid(t), File(Cid(t)))
    /\ w.pc = "rename" =>
          /\ Linked(Tmp) /\ ~Linked(Home(t))
          /\ Complete(content[dir[Tmp]], Cid(t), AppliedIn(Cid(t)))
          /\ Uid(t) \in RowKeys(content[dir[Tmp]])

\* What a thread in applyMessage relies on.
CallerOK(t) ==
    LET w == worker[t] IN
    /\ w.pc # "spin"
    /\ <<Cid(t), Uid(t)>> \in Serve[t]
    /\ w.msg \notin applied
    /\ w.pc \in Calls => Home(t) \in w.scan
    /\ w.pc \in Joining => JoinerOK(t)
    /\ w.pc \in Posting => Uid(t) \in RowKeys(File(Cid(t)))
    /\ w.pc \in {"getNumberOfMessages", "openChat"} => w.name = Home(t)
    /\ w.pc = "append" => w.file = dir[Home(t)]

Renaming(c) == \E t \in Threads : worker[t].pc = "rename" /\ Cid(t) = c

\* The directory: who may have unlinked a chat, and who made the temporary file.
DirectoryOK ==
    /\ \A c \in Chats : Linked(ChatFile(c)) \/ Renaming(c)
    /\ \A c \in Chats : Linked(ChatFile(c)) => Complete(File(c), c, AppliedIn(c))
    /\ \A m, n \in Names : m # n /\ Linked(m) => dir[m] # dir[n]
    /\ Linked(Tmp) => \E t \in Threads :
          worker[t].pc \in {"copy", "closeTempy", "remove", "rename"}

\* A message is in the hands of one thread.
MessagesOK ==
    \A t, u \in Threads :
        t # u /\ worker[t].pc # "idle" => worker[t].msg # worker[u].msg

Inv == /\ DirectoryOK
       /\ MessagesOK
       /\ \A t \in Threads : worker[t].pc # "idle" => CallerOK(t)

-----------------------------------------------------------------------------
(* Chat files.                                                              *)

LEMMA LeastExists ==
    ASSUME NEW S \in SUBSET Nat, S # {}
    PROVE  \E i \in S : \A j \in S : i <= j
<1>1. IsWellFoundedOn(OpToRel(<, Nat), Nat)
  BY NatLessThanWellFounded, Zenon
<1>2. \E i \in S : \A j \in S : ~(<<j, i>> \in OpToRel(<, Nat))
  BY <1>1, WFMin, Zenon
<1>3. \A i, j \in Nat : j < i => <<j, i>> \in OpToRel(<, Nat)
  BY Zenon DEF OpToRel
<1>4. \E i \in S : \A j \in S : ~(j < i)
  BY <1>2, <1>3, Zenon
<1> QED
  BY <1>4

LEMMA ShapeParts ==
    ASSUME NEW s \in Seq(Token), NEW c \in Nat, NEW p, Shape(s, c, p)
    PROVE  /\ Len(s) \in Nat /\ DOMAIN s = 1 .. Len(s) /\ p \in Nat
           /\ s[1].kind = "id" /\ s[1].nl = TRUE
           /\ s[p].kind = "mark"
           /\ Markers(s) = {p}
           /\ Rows(s) = 2 .. p - 1
           /\ Posts(s) = p + 1 .. Len(s)
<1>1. Len(s) \in Nat /\ DOMAIN s = 1 .. Len(s) /\ p \in 2 .. Len(s)
  BY LenProperties DEF Shape
<1>2. s[1].kind = "id" /\ s[1].nl = TRUE /\ s[p].kind = "mark"
  BY DEF Shape, IdLine, Marker
<1>3. \A i \in 2 .. p - 1 : s[i].kind = "user" /\ s[i].nl = TRUE
  BY DEF Shape
<1>4. \A i \in p + 1 .. Len(s) : s[i].kind = "post"
  BY DEF Shape
<1>5. \A i \in 1 .. Len(s) : i = 1 \/ i \in 2 .. p - 1 \/ i = p \/ i \in p + 1 .. Len(s)
  BY <1>1
<1>6. Rows(s) = 2 .. p - 1
  BY <1>1, <1>2, <1>3, <1>4, <1>5 DEF Rows
<1>7. Posts(s) = p + 1 .. Len(s)
  BY <1>1, <1>2, <1>3, <1>4, <1>5 DEF Posts
<1>8. s[p - 1].nl = TRUE
  <2>1. p - 1 = 1 \/ p - 1 \in 2 .. p - 1
    BY <1>1
  <2> QED
    BY <1>2, <1>3, <2>1
<1>9. Markers(s) = {p}
  BY <1>1, <1>2, <1>3, <1>4, <1>5, <1>8 DEF Markers, AtLineStart
<1> QED
  BY <1>1, <1>2, <1>6, <1>7, <1>9

\* getPermOfUser on a chat file: it ends, and it says 255 of those only who have
\* no row.
LEMMA PermOfShape ==
    ASSUME NEW s \in Seq(Token), NEW c \in Nat, NEW p, Shape(s, c, p), NEW u
    PROVE  /\ PermStops(s, u) # {}
           /\ Perm(s, u) = NotMember <=> u \notin RowKeys(s)
<1> DEFINE stops == PermStops(s, u)
           first == First(stops)
<1>1. /\ Len(s) \in Nat /\ DOMAIN s = 1 .. Len(s) /\ p \in 2 .. Len(s)
      /\ s[1].nl = TRUE /\ s[p].kind = "mark"
      /\ Markers(s) = {p} /\ Rows(s) = 2 .. p - 1
  <2>1. p \in 2 .. Len(s)
    BY DEF Shape
  <2> QED
    BY <2>1, ShapeParts
<1>2. \A i \in 2 .. p - 1 :
         s[i].kind = "user" /\ s[i].nl = TRUE /\ s[i].num = GuestPermissions
  BY DEF Shape
<1>3. p \in stops
  BY <1>1 DEF PermStops
<1>4. first \in stops /\ \A j \in stops : first <= j
  <2>1. stops \in SUBSET Nat
    BY <1>1 DEF PermStops
  <2>2. \E i \in stops : \A j \in stops : i <= j
    BY <1>3, <2>1, LeastExists
  <2> QED
    BY <2>2 DEF First
<1>5. first \in 2 .. p
  BY <1>1, <1>3, <1>4 DEF PermStops
<1>6. CASE u \in RowKeys(s)
  <2>1. PICK i \in 2 .. p - 1 : s[i].key = u
    BY <1>1, <1>6 DEF RowKeys
  <2>2. AtLineStart(s, i)
    <3>1. i - 1 = 1 \/ i - 1 \in 2 .. p - 1
      BY <1>1, <2>1
    <3> QED
      BY <1>1, <1>2, <3>1 DEF AtLineStart
  <2>3. i \in stops
    BY <1>1, <1>2, <2>1, <2>2 DEF PermStops
  <2>4. first \in 2 .. p - 1
    BY <1>1, <1>4, <1>5, <2>1, <2>3
  <2>5. Perm(s, u) = GuestPermissions
    BY <1>2, <2>4 DEF Perm
  <2> QED
    BY <1>3, <1>6, <2>5 DEF GuestPermissions, NotMember
<1>7. CASE u \notin RowKeys(s)
  <2>1. first = p
    <3>1. ASSUME first \in 2 .. p - 1 PROVE FALSE
      <4>1. first # p /\ first \in Rows(s)
        BY <1>1, <3>1
      <4>2. s[first].key # u
        BY <1>7, <4>1 DEF RowKeys
      <4> QED
        BY <1>1, <1>4, <4>1, <4>2 DEF PermStops
    <3> QED
      BY <1>1, <1>5, <3>1
  <2>2. Perm(s, u) = NotMember
    BY <1>1, <2>1 DEF Perm
  <2> QED
    BY <1>3, <1>7, <2>2
<1> QED
  BY <1>6, <1>7

\* An id of eight digits at most is written whole, and nothing that follows it is
\* lost.
LEMMA NewIdLineShort ==
    ASSUME NEW c \in Nat, c < NineDigits
    PROVE  NewIdLine(c, IdLine(c)) = IdLine(c)
<1>1. c < TenDigits
  BY DEF NineDigits, TenDigits
<1>2. IdLine(c).key = c /\ IdLine(c).num = 8
  BY DEF IdLine
<1>3. LeftUnread(IdLine(c)) + 1 = 8
  BY <1>1, <1>2 DEF LeftUnread, TenDigits
<1>4. (8 # 0) = TRUE
  OBVIOUS
<1> QED
  BY <1>1, <1>3, <1>4, Zenon DEF NewIdLine, IdLine

\* addNewUser's copy of a chat file: the row of u before the marker, all else
\* as it was.
LEMMA CopyOfShape ==
    ASSUME NEW s \in Seq(Token), NEW c \in Nat, c < NineDigits, NEW p, Shape(s, c, p),
           NEW u \in Users, u \notin LongUids
    PROVE  LET k == CopyWithUser(c, u, s)
           IN  /\ k = [i \in 1 .. Len(s) + 1 |->
                          IF i < p THEN s[i] ELSE IF i = p THEN NewUserRow(u) ELSE s[i - 1]]
               /\ k \in Seq(Token) /\ Len(k) = Len(s) + 1
<1> DEFINE marks == Markers(s) \ {1}
           to(i) == i + Cardinality({m \in marks : m <= i})
           line(k) == IF k = 1 THEN NewIdLine(c, s[1])
                      ELSE IF \E i \in 2 .. Len(s) : to(i) = k
                      THEN s[CHOOSE i \in 2 .. Len(s) : to(i) = k]
                      ELSE NewUserRow(u)
           new(i) == IF i < p THEN s[i] ELSE IF i = p THEN NewUserRow(u) ELSE s[i - 1]
<1>1. Len(s) \in Nat /\ p \in 2 .. Len(s) /\ s[1] = IdLine(c) /\ marks = {p}
  <2>1. p \in 2 .. Len(s) /\ s[1] = IdLine(c)
    BY DEF Shape
  <2>2. Len(s) \in Nat /\ Markers(s) = {p}
    BY ShapeParts
  <2> QED
    BY <2>1, <2>2
<1>2. \A i \in Nat : to(i) = IF i < p THEN i ELSE i + 1
  <2> SUFFICES ASSUME NEW i \in Nat PROVE to(i) = IF i < p THEN i ELSE i + 1
    OBVIOUS
  <2>1. CASE i < p
    <3>1. {m \in marks : m <= i} = {}
      BY <1>1, <2>1
    <3>2. Cardinality({m \in marks : m <= i}) = 0
      BY <3>1, FS_EmptySet
    <3> QED
      BY <2>1, <3>2
  <2>2. CASE ~(i < p)
    <3>1. {m \in marks : m <= i} = {p}
      BY <1>1, <2>2
    <3>2. Cardinality({m \in marks : m <= i}) = 1
      BY <3>1, FS_Singleton
    <3> QED
      BY <2>2, <3>2
  <2> QED
    BY <2>1, <2>2
<1> HIDE DEF to, marks
<1>3. /\ to(Len(s)) = Len(s) + 1
      /\ \A i \in 2 .. Len(s) : to(i) = IF i < p THEN i ELSE i + 1
  BY <1>1, <1>2
<1>4. ASSUME NEW k \in 1 .. Len(s) + 1 PROVE line(k) = new(k)
  <2>1. CASE k = 1
    <3>1. NewIdLine(c, s[1]) = s[1]
      BY <1>1, NewIdLineShort
    <3> QED
      BY <1>1, <2>1, <3>1
  <2>2. CASE k = p
    <3>1. ~ \E i \in 2 .. Len(s) : to(i) = k
      BY <1>1, <1>3, <2>2
    <3> QED
      BY <1>1, <2>2, <3>1
  <2>3. CASE k \in 2 .. p - 1
    <3>1. k \in 2 .. Len(s) /\ to(k) = k
      BY <1>1, <1>3, <2>3
    <3>2. \A i \in 2 .. Len(s) : to(i) = k => i = k
      BY <1>1, <1>3, <2>3
    <3>3. (CHOOSE i \in 2 .. Len(s) : to(i) = k) = k
      BY <3>1, <3>2
    <3>4. k # 1
      BY <2>3
    <3>5. line(k) = s[k]
      BY <3>1, <3>3, <3>4
    <3> QED
      BY <1>1, <2>3, <3>5
  <2>4. CASE k \in p + 1 .. Len(s) + 1
    <3>1. k - 1 \in 2 .. Len(s) /\ to(k - 1) = k
      BY <1>1, <1>3, <2>4
    <3>2. \A i \in 2 .. Len(s) : to(i) = k => i = k - 1
      BY <1>1, <1>3, <2>4
    <3>3. (CHOOSE i \in 2 .. Len(s) : to(i) = k) = k - 1
      BY <3>1, <3>2
    <3>4. k # 1 /\ \E i \in 2 .. Len(s) : to(i) = k
      BY <1>1, <2>4, <3>1
    <3>5. line(k) = s[k - 1]
      BY <3>3, <3>4
    <3> QED
      BY <1>1, <2>4, <3>5
  <2> QED
    BY <1>1, <2>1, <2>2, <2>3, <2>4
<1>5. CopyWithUser(c, u, s) = [i \in 1 .. Len(s) + 1 |-> line(i)]
  BY <1>3 DEF CopyWithUser, to, marks
<1>6. CopyWithUser(c, u, s) = [i \in 1 .. Len(s) + 1 |-> new(i)]
  <2> HIDE DEF line, new
  <2> QED
    BY <1>4, <1>5
<1>7. CopyWithUser(c, u, s) \in Seq(Token)
  BY TokenLines, CopyTokens
<1>8. Len(CopyWithUser(c, u, s)) = Len(s) + 1
  <2>1. DOMAIN CopyWithUser(c, u, s) = 1 .. Len(s) + 1
    BY <1>6
  <2>2. DOMAIN CopyWithUser(c, u, s) = 1 .. Len(CopyWithUser(c, u, s))
        /\ Len(CopyWithUser(c, u, s)) \in Nat
    BY <1>7, LenProperties
  <2> QED
    BY <1>1, <2>1, <2>2
<1> QED
  BY <1>6, <1>7, <1>8

\* The posts of a chat file are what follows the marker.
LEMMA PostsOfShape ==
    ASSUME NEW s \in Seq(Token), NEW c \in Nat, NEW p, Shape(s, c, p)
    PROVE  PostsOf(s) = [k \in 1 .. Len(s) - p |->
                            [number |-> s[p + k].key, uid |-> s[p + k].uid]]
<1>1. Posts(s) = p + 1 .. Len(s) /\ Len(s) \in Nat /\ p \in 2 .. Len(s)
  <2>1. p \in 2 .. Len(s)
    BY DEF Shape
  <2> QED
    BY <2>1, ShapeParts
<1>2. Cardinality(Posts(s)) = Len(s) - p
  <2>1. p + 1 \in Int /\ Len(s) \in Int
    BY <1>1
  <2>2. Cardinality(p + 1 .. Len(s)) = IF p + 1 > Len(s) THEN 0 ELSE Len(s) - (p + 1) + 1
    BY <2>1, FS_Interval
  <2> QED
    BY <1>1, <2>2
<1>3. ASSUME NEW i \in Posts(s)
      PROVE  Cardinality({j \in Posts(s) : j <= i}) = i - p
  <2>1. {j \in Posts(s) : j <= i} = p + 1 .. i
    BY <1>1
  <2>2. p + 1 \in Int /\ i \in Int
    BY <1>1
  <2>3. Cardinality(p + 1 .. i) = IF p + 1 > i THEN 0 ELSE i - (p + 1) + 1
    BY <2>2, FS_Interval
  <2>4. Cardinality({j \in Posts(s) : j <= i}) = Cardinality(p + 1 .. i)
    BY <2>1
  <2> QED
    BY <1>1, <2>3, <2>4
<1>4. ASSUME NEW k \in 1 .. Len(s) - p PROVE PostAt(s, k) = p + k
  <2>1. PICK P : P = Posts(s)
    OBVIOUS
  <2>2. PICK f : f = [i \in P |-> Cardinality({j \in P : j <= i})]
    OBVIOUS
  <2>3. \A i \in P : f[i] = i - p
    BY <1>3, <2>1, <2>2
  <2>4. p + k \in P /\ f[p + k] = k /\ \A i \in P : f[i] = k => i = p + k
    BY <1>1, <2>1, <2>3
  <2>5. PostAt(s, k) = CHOOSE i \in P : f[i] = k
    BY <2>1, <2>2, Zenon DEF PostAt
  <2> QED
    BY <2>4, <2>5
<1> QED
  BY <1>2, <1>4 DEF PostsOf

LEMMA CopyComplete ==
    ASSUME NEW s \in Seq(Token), NEW c \in Nat, NEW numbers, Complete(s, c, numbers),
           NEW u \in Users, u \notin LongUids, c < NineDigits
    PROVE  /\ Complete(CopyWithUser(c, u, s), c, numbers)
           /\ RowKeys(CopyWithUser(c, u, s)) = RowKeys(s) \union {u}
           /\ PostsOf(CopyWithUser(c, u, s)) = PostsOf(s)
<1> DEFINE k == CopyWithUser(c, u, s)
<1>1. PICK p \in Nat : Shape(s, c, p)
  BY DEF Complete
<1>2. p \in 2 .. Len(s) /\ Len(s) \in Nat
  <2>1. p \in 2 .. Len(s)
    BY <1>1 DEF Shape
  <2> QED
    BY <1>1, <2>1, ShapeParts
<1>3. /\ k \in Seq(Token) /\ Len(k) = Len(s) + 1
      /\ \A i \in 1 .. p - 1 : k[i] = s[i]
      /\ k[p] = NewUserRow(u)
      /\ \A i \in p .. Len(s) : k[i + 1] = s[i]
  <2>1. /\ k = [i \in 1 .. Len(s) + 1 |->
                   IF i < p THEN s[i] ELSE IF i = p THEN NewUserRow(u) ELSE s[i - 1]]
        /\ k \in Seq(Token) /\ Len(k) = Len(s) + 1
    BY <1>1, CopyOfShape
  <2> HIDE DEF k
  <2> QED
    BY <1>2, <2>1
<1> HIDE DEF k
<1>4. \A i \in 2 .. p - 1 :
         s[i].kind = "user" /\ s[i].nl = TRUE /\ s[i].num = GuestPermissions
  BY <1>1 DEF Shape
<1>5. NewUserRow(u).kind = "user" /\ NewUserRow(u).nl = TRUE
      /\ NewUserRow(u).num = GuestPermissions /\ NewUserRow(u).key = u
  BY DEF NewUserRow
<1>6. Shape(k, c, p + 1)
  <2>1. p + 1 \in 2 .. Len(k) /\ k[1] = IdLine(c) /\ k[p + 1] = Marker
    BY <1>1, <1>2, <1>3 DEF Shape
  <2>2. ASSUME NEW i \in 2 .. p
        PROVE  k[i].kind = "user" /\ k[i].nl = TRUE /\ k[i].num = GuestPermissions
    <3>1. CASE i = p
      BY <1>3, <1>5, <3>1
    <3>2. CASE i \in 2 .. p - 1
      <4>1. k[i] = s[i]
        BY <1>2, <1>3, <3>2
      <4> QED
        BY <1>4, <3>2, <4>1
    <3>3. i = p \/ i \in 2 .. p - 1
      BY <1>2
    <3> QED
      BY <3>1, <3>2, <3>3, Zenon
  <2>3. ASSUME NEW i \in p + 2 .. Len(k) PROVE k[i].kind = "post"
    <3>1. i - 1 \in p + 1 .. Len(s) /\ k[(i - 1) + 1] = s[i - 1] /\ (i - 1) + 1 = i
      BY <1>2, <1>3
    <3> QED
      BY <1>1, <3>1 DEF Shape
  <2>4. (p + 1) - 1 = p /\ (p + 1) + 1 = p + 2
    BY <1>2
  <2> QED
    BY <2>1, <2>2, <2>3, <2>4 DEF Shape
<1>7. /\ Rows(s) = 2 .. p - 1 /\ Rows(k) = 2 .. p
      /\ Posts(s) = p + 1 .. Len(s) /\ Posts(k) = p + 2 .. Len(s) + 1
  <2>1. Rows(s) = 2 .. p - 1 /\ Posts(s) = p + 1 .. Len(s)
    BY <1>1, ShapeParts
  <2>2. Rows(k) = 2 .. (p + 1) - 1 /\ Posts(k) = (p + 1) + 1 .. Len(k)
    <3>1. k \in Seq(Token)
      BY <1>3
    <3> QED
      BY <1>6, <3>1, ShapeParts
  <2> QED
    BY <1>2, <1>3, <2>1, <2>2
<1>8. RowKeys(k) = RowKeys(s) \union {u}
  <2>1. ASSUME NEW x \in RowKeys(k) PROVE x \in RowKeys(s) \union {u}
    <3>1. PICK i \in 2 .. p : x = k[i].key
      BY <1>7, <2>1 DEF RowKeys
    <3>2. CASE i = p
      BY <1>3, <1>5, <3>1, <3>2
    <3>3. CASE i \in 2 .. p - 1
      <4>1. i \in Rows(s) /\ x = s[i].key
        BY <1>2, <1>3, <1>7, <3>1, <3>3
      <4> QED
        BY <4>1 DEF RowKeys
    <3> QED
      BY <1>2, <3>2, <3>3
  <2>2. ASSUME NEW x \in RowKeys(s) PROVE x \in RowKeys(k)
    <3>1. PICK i \in 2 .. p - 1 : x = s[i].key
      BY <1>7, <2>2 DEF RowKeys
    <3>2. i \in 2 .. p /\ k[i].key = x
      BY <1>2, <1>3, <3>1
    <3> QED
      BY <1>7, <3>2 DEF RowKeys
  <2>3. u \in RowKeys(k)
    <3>1. p \in Rows(k) /\ k[p].key = u
      BY <1>2, <1>3, <1>5, <1>7
    <3> QED
      BY <3>1 DEF RowKeys
  <2> QED
    BY <2>1, <2>2, <2>3
\* The posts move down by one place.
<1>9. /\ \A i \in Posts(s) : i + 1 \in Posts(k) /\ k[i + 1] = s[i]
      /\ \A i \in Posts(k) : i - 1 \in Posts(s) /\ k[i] = s[i - 1]
  <2>1. ASSUME NEW i \in Posts(s) PROVE i + 1 \in Posts(k) /\ k[i + 1] = s[i]
    BY <1>2, <1>3, <1>7
  <2>2. ASSUME NEW i \in Posts(k) PROVE i - 1 \in Posts(s) /\ k[i] = s[i - 1]
    <3>1. i - 1 \in Posts(s) /\ i = (i - 1) + 1
      BY <1>2, <1>7
    <3> QED
      BY <2>1, <3>1
  <2> QED
    BY <2>1, <2>2
<1>10. HasPosts(k, numbers)
  <2>1. {k[i].key : i \in Posts(k)} = {s[i].key : i \in Posts(s)}
    BY <1>9
  <2>2. ASSUME NEW i \in Posts(k), NEW j \in Posts(k), k[i].key = k[j].key PROVE i = j
    <3>1. i - 1 = j - 1
      BY <1>9, <2>2 DEF Complete, HasPosts
    <3> QED
      BY <1>2, <1>7, <3>1
  <2> QED
    BY <2>1, <2>2 DEF Complete, HasPosts
<1>11. Complete(k, c, numbers)
  BY <1>2, <1>6, <1>8, <1>10 DEF Complete
<1>12. PostsOf(k) = PostsOf(s)
  <2>1. PostsOf(s) = [j \in 1 .. Len(s) - p |->
                         [number |-> s[p + j].key, uid |-> s[p + j].uid]]
    BY <1>1, PostsOfShape
  <2>2. PostsOf(k) = [j \in 1 .. Len(k) - (p + 1) |->
                         [number |-> k[(p + 1) + j].key, uid |-> k[(p + 1) + j].uid]]
    <3>1. k \in Seq(Token)
      BY <1>3
    <3> QED
      BY <1>6, <3>1, PostsOfShape
  <2>3. Len(k) - (p + 1) = Len(s) - p
    BY <1>2, <1>3
  <2>4. ASSUME NEW j \in 1 .. Len(s) - p PROVE k[(p + 1) + j] = s[p + j]
    <3>1. p + j \in p .. Len(s) /\ (p + 1) + j = (p + j) + 1
      BY <1>2
    <3> QED
      BY <1>3, <3>1
  <2> QED
    BY <2>1, <2>2, <2>3, <2>4
<1> QED
  BY <1>8, <1>11, <1>12 DEF k

Post == [number : Nat, uid : Users]

LEMMA PostsAreSequence ==
    ASSUME NEW s \in Seq(Token), NEW c \in Nat, NEW p, Shape(s, c, p)
    PROVE  PostsOf(s) \in Seq(Post) /\ Len(PostsOf(s)) = Len(s) - p
<1>1. Len(s) \in Nat /\ p \in 2 .. Len(s)
  <2>1. p \in 2 .. Len(s)
    BY DEF Shape
  <2> QED
    BY <2>1, ShapeParts
<1>2. ASSUME NEW k \in 1 .. Len(s) - p
      PROVE  [number |-> s[p + k].key, uid |-> s[p + k].uid] \in Post
  <2>1. p + k \in p + 1 .. Len(s) /\ p + k \in 1 .. Len(s)
    BY <1>1
  <2>2. s[p + k].kind = "post" /\ s[p + k] \in Token
    BY <2>1, ElementOfSeq DEF Shape
  <2> QED
    BY <2>2 DEF Token, Post
<1>3. PICK n \in Nat : n = Len(s) - p
  BY <1>1
<1>4. PostsOf(s) \in [1 .. n -> Post]
  BY <1>2, <1>3, PostsOfShape
<1>5. PostsOf(s) \in Seq(Post)
  BY <1>4, SeqDef
<1>6. Len(PostsOf(s)) = n
  <2>1. DOMAIN PostsOf(s) = 1 .. n
    BY <1>4
  <2>2. DOMAIN PostsOf(s) = 1 .. Len(PostsOf(s)) /\ Len(PostsOf(s)) \in Nat
    BY <1>5, LenProperties
  <2> QED
    BY <2>1, <2>2
<1> QED
  BY <1>3, <1>5, <1>6

\* k is s with one more line, the post of message n from u.
OneMore(k, s, n, u) ==
    /\ Len(k) = Len(s) + 1
    /\ \A i \in 1 .. Len(s) : k[i] = s[i]
    /\ k[Len(s) + 1].kind = "post" /\ k[Len(s) + 1].key = n /\ k[Len(s) + 1].uid = u

\* k stands for chat c with one more post than s.
Posted(k, s, c, numbers, n, u) ==
    /\ Complete(k, c, numbers \union {n})
    /\ RowKeys(k) = RowKeys(s)
    /\ PostsOf(k) = Append(PostsOf(s), [number |-> n, uid |-> u])

\* addNewPost on a chat file.
LEMMA PostAdded ==
    ASSUME NEW s \in Seq(Token), NEW c \in Nat, NEW numbers, Complete(s, c, numbers),
           NEW n \in Nat, n \notin numbers, NEW u \in Users,
           NEW k \in Seq(Token), OneMore(k, s, n, u)
    PROVE  Posted(k, s, c, numbers, n, u)
<1>1. PICK p \in Nat : Shape(s, c, p)
  BY DEF Complete
<1>2. p \in 2 .. Len(s) /\ Len(s) \in Nat
  <2>1. p \in 2 .. Len(s)
    BY <1>1 DEF Shape
  <2> QED
    BY <1>1, <2>1, ShapeParts
<1>3. /\ k \in Seq(Token) /\ Len(k) = Len(s) + 1
      /\ \A i \in 1 .. Len(s) : k[i] = s[i]
  BY DEF OneMore
<1>4. LET last == k[Len(s) + 1]
      IN  last.kind = "post" /\ last.key = n /\ last.uid = u
  BY DEF OneMore
<1>5. Shape(k, c, p)
  <2>1. p \in 2 .. Len(k) /\ k[1] = IdLine(c) /\ k[p] = Marker
    BY <1>1, <1>2, <1>3 DEF Shape
  <2>2. ASSUME NEW i \in 2 .. p - 1
        PROVE  k[i].kind = "user" /\ k[i].nl = TRUE /\ k[i].num = GuestPermissions
    <3>1. k[i] = s[i]
      BY <1>2, <1>3
    <3> QED
      BY <1>1, <3>1 DEF Shape
  <2>3. ASSUME NEW i \in p + 1 .. Len(k) PROVE k[i].kind = "post"
    <3>1. CASE i = Len(s) + 1
      BY <1>4, <3>1
    <3>2. CASE i # Len(s) + 1
      <4>1. i \in p + 1 .. Len(s) /\ k[i] = s[i]
        BY <1>2, <1>3, <3>2
      <4> QED
        BY <1>1, <4>1 DEF Shape
    <3> QED
      BY <3>1, <3>2
  <2> QED
    BY <2>1, <2>2, <2>3 DEF Shape
<1>6. /\ Rows(s) = 2 .. p - 1 /\ Rows(k) = 2 .. p - 1
      /\ Posts(s) = p + 1 .. Len(s) /\ Posts(k) = p + 1 .. Len(s) + 1
  <2>1. Rows(s) = 2 .. p - 1 /\ Posts(s) = p + 1 .. Len(s)
    BY <1>1, ShapeParts
  <2>2. Rows(k) = 2 .. p - 1 /\ Posts(k) = p + 1 .. Len(k)
    <3>1. k \in Seq(Token)
      BY <1>3
    <3> QED
      BY <1>5, <3>1, ShapeParts
  <2> QED
    BY <1>3, <2>1, <2>2
<1>7. RowKeys(k) = RowKeys(s)
  <2>1. ASSUME NEW i \in 2 .. p - 1 PROVE k[i].key = s[i].key
    BY <1>2, <1>3
  <2>2. {k[i].key : i \in 2 .. p - 1} = {s[i].key : i \in 2 .. p - 1}
    BY <2>1
  <2>3. RowKeys(k) = {k[i].key : i \in 2 .. p - 1}
    BY <1>6 DEF RowKeys
  <2>4. RowKeys(s) = {s[i].key : i \in 2 .. p - 1}
    BY <1>6 DEF RowKeys
  <2> QED
    BY <2>2, <2>3, <2>4
<1>8. /\ Posts(k) = Posts(s) \union {Len(s) + 1}
      /\ \A i \in Posts(s) : k[i] = s[i]
  BY SMTT(40), <1>2, <1>3, <1>6
<1>9. HasPosts(k, numbers \union {n})
  <2>1. {s[i].key : i \in Posts(s)} = numbers
        /\ \A i, j \in Posts(s) : s[i].key = s[j].key => i = j
    BY DEF Complete, HasPosts
  <2>2. {k[i].key : i \in Posts(k)} = numbers \union {n}
    BY <1>4, <1>8, <2>1
  <2>3. ASSUME NEW i \in Posts(k), NEW j \in Posts(k), k[i].key = k[j].key PROVE i = j
    <3>1. \A x \in Posts(s) : k[x].key = s[x].key /\ s[x].key # n
      BY <1>8, <2>1
    <3> QED
      BY <1>4, <1>8, <2>1, <2>3, <3>1
  <2> QED
    BY <2>2, <2>3 DEF HasPosts
<1>10. Complete(k, c, numbers \union {n})
  BY <1>5, <1>7, <1>9 DEF Complete
<1>11. PostsOf(k) = Append(PostsOf(s), [number |-> n, uid |-> u])
  <2>1. PICK post \in Post : post = [number |-> n, uid |-> u]
    BY DEF Post
  <2>2. /\ PostsOf(s) \in Seq(Post) /\ Len(PostsOf(s)) = Len(s) - p
        /\ PostsOf(s) = [j \in 1 .. Len(s) - p |->
                            [number |-> s[p + j].key, uid |-> s[p + j].uid]]
    BY <1>1, PostsAreSequence, PostsOfShape
  <2>3. /\ PostsOf(k) \in Seq(Post) /\ Len(PostsOf(k)) = Len(k) - p
        /\ PostsOf(k) = [j \in 1 .. Len(k) - p |->
                            [number |-> k[p + j].key, uid |-> k[p + j].uid]]
    <3>1. k \in Seq(Token)
      BY <1>3
    <3> QED
      BY <1>5, <3>1, PostsAreSequence, PostsOfShape
  <2>4. /\ Append(PostsOf(s), post) \in Seq(Post)
        /\ Len(Append(PostsOf(s), post)) = Len(PostsOf(s)) + 1
        /\ \A j \in 1 .. Len(PostsOf(s)) : Append(PostsOf(s), post)[j] = PostsOf(s)[j]
        /\ Append(PostsOf(s), post)[Len(PostsOf(s)) + 1] = post
    <3>1. PICK seq \in Seq(Post) : seq = PostsOf(s)
      BY <2>2
    <3> QED
      BY <3>1, AppendProperties
  <2>5. ASSUME NEW j \in 1 .. Len(k) - p PROVE PostsOf(k)[j] = Append(PostsOf(s), post)[j]
    <3>1. CASE j = Len(k) - p
      <4>1. p + j = Len(s) + 1 /\ j = Len(PostsOf(s)) + 1
        BY <1>2, <1>3, <2>2, <3>1
      <4>2. PostsOf(k)[j] = post
        BY <1>4, <2>1, <2>3, <4>1
      <4> QED
        BY <2>4, <4>1, <4>2
    <3>2. CASE j # Len(k) - p
      <4>1. j \in 1 .. Len(s) - p /\ p + j \in 1 .. Len(s)
        BY <1>2, <1>3, <3>2
      <4>2. PostsOf(k)[j] = PostsOf(s)[j]
        BY <1>3, <2>2, <2>3, <4>1
      <4> QED
        BY <2>2, <2>4, <4>1, <4>2
    <3> QED
      BY <3>1, <3>2
  <2>6. Len(PostsOf(k)) = Len(Append(PostsOf(s), post))
    BY <1>2, <1>3, <2>2, <2>3, <2>4
  <2> QED
    BY <2>1, <2>3, <2>4, <2>5, <2>6, SeqEqual
<1> QED
  BY <1>7, <1>10, <1>11 DEF Posted

-----------------------------------------------------------------------------
(* The start.                                                               *)

LEMMA FileNames ==
    /\ \A c \in Chats : ChatFile(c) \in Names /\ ChatFile(c) # Tmp /\ ChatFile(c) # NoName
    /\ \A c, d : ChatFile(c) = ChatFile(d) => c = d
    /\ Tmp \in Names
    /\ \A n \in Names : n = Tmp \/ \E c \in Chats : n = ChatFile(c)
<1>1. \A c : ChatFile(c)[1] = "chat" /\ ChatFile(c)[2] = c
  BY DEF ChatFile
<1>2. Tmp[1] = "copyChat.tmp" /\ NoName[1] = "none"
  BY DEF Tmp, NoName
<1>3. "chat" # "copyChat.tmp" /\ "chat" # "none"
  OBVIOUS
<1> QED
  BY <1>1, <1>2, <1>3 DEF Names

LEMMA BetweenTwo ==
    ASSUME NEW T, NEW a \in T, NEW middle \in Seq(T), NEW b \in T
    PROVE  LET s == <<a>> \o middle \o <<b>>
               n == Len(middle)
           IN  /\ s \in Seq(T) /\ Len(s) = n + 2
               /\ s[1] = a /\ s[n + 2] = b
               /\ \A i \in 2 .. n + 1 : s[i] = middle[i - 1]
<1> DEFINE n == Len(middle)
<1>1. /\ <<a>> \in Seq(T) /\ Len(<<a>>) = 1 /\ <<a>>[1] = a
      /\ <<b>> \in Seq(T) /\ Len(<<b>>) = 1 /\ <<b>>[1] = b
      /\ n \in Nat
  BY LenProperties
<1>2. /\ <<a>> \o middle \in Seq(T)
      /\ Len(<<a>> \o middle) = Len(<<a>>) + n
      /\ \A i \in 1 .. Len(<<a>>) + n : (<<a>> \o middle)[i] =
            IF i <= Len(<<a>>) THEN <<a>>[i] ELSE middle[i - Len(<<a>>)]
  BY <1>1, ConcatProperties
<1>3. PICK head \in Seq(T) : head = <<a>> \o middle
  BY <1>2
<1>4. /\ Len(head) = n + 1 /\ head[1] = a
      /\ \A i \in 2 .. n + 1 : head[i] = middle[i - 1]
  BY <1>1, <1>2, <1>3
<1>5. /\ head \o <<b>> \in Seq(T)
      /\ Len(head \o <<b>>) = Len(head) + Len(<<b>>)
      /\ \A i \in 1 .. Len(head) + Len(<<b>>) : (head \o <<b>>)[i] =
            IF i <= Len(head) THEN head[i] ELSE <<b>>[i - Len(head)]
  BY <1>1, ConcatProperties
<1>6. PICK s \in Seq(T) : s = <<a>> \o middle \o <<b>>
  BY <1>3, <1>5
<1>7. Len(s) = n + 2 /\ s[n + 2] = b /\ \A i \in 1 .. n + 1 : s[i] = head[i]
  BY <1>1, <1>3, <1>4, <1>5, <1>6
<1>8. 1 \in 1 .. n + 1 /\ \A i \in 2 .. n + 1 : i \in 1 .. n + 1
  BY <1>1
<1>9. /\ s \in Seq(T) /\ Len(s) = n + 2
      /\ s[1] = a /\ s[n + 2] = b
      /\ \A i \in 2 .. n + 1 : s[i] = middle[i - 1]
  BY <1>4, <1>7, <1>8, Zenon
<1> QED
  BY <1>6, <1>9

LEMMA StartFile ==
    ASSUME Init, NEW c \in Chats
    PROVE  /\ Linked(ChatFile(c)) /\ dir[ChatFile(c)] = c /\ File(c) \in Seq(Token)
           /\ \E p \in Nat : Shape(File(c), c, p)
           /\ Posts(File(c)) = {}
           /\ RowKeys(File(c)) = MembersAtStart(c)
<1> DEFINE rows == [k \in DOMAIN InitialMembers[c] |->
                       UserLine(InitialMembers[c][k], GuestPermissions)]
           s == <<IdLine(c)>> \o rows \o <<Marker>>
<1>1. dir[ChatFile(c)] = c /\ c # NoInode
  <2>1. dir[ChatFile(c)] = ChatFile(c)[2]
    BY FileNames DEF Init
  <2> QED
    BY <2>1, IdsAssumption DEF ChatFile, NoInode
<1>2. File(c) = s
  <2>1. c \in Inodes
    BY InodesAssumption
  <2>2. content[c] = IF c \notin Chats THEN <<>> ELSE s
    BY <2>1, Zenon DEF Init
  <2> QED
    BY <1>1, <2>2 DEF File
<1>3. PICK n \in Nat : DOMAIN InitialMembers[c] = 1 .. n
  BY RowsAssumption, LenProperties
<1>4. \A k \in 1 .. n : InitialMembers[c][k] \in Nat
  <2>1. InitialMembers[c] \in Seq(Users) /\ Len(InitialMembers[c]) = n
    BY <1>3, RowsAssumption, LenProperties
  <2> QED
    BY <2>1, ElementOfSeq, IdsAssumption
<1>5. rows \in Seq(Token) /\ Len(rows) = n
  <2>1. \A k \in 1 .. n : UserLine(InitialMembers[c][k], GuestPermissions) \in Token
    BY <1>4, TokenLines DEF GuestPermissions
  <2>2. rows \in [1 .. n -> Token]
    BY <1>3, <2>1
  <2>3. rows \in Seq(Token)
    BY <2>2, SeqDef
  <2>4. DOMAIN rows = 1 .. n /\ DOMAIN rows = 1 .. Len(rows) /\ Len(rows) \in Nat
    BY <2>2, <2>3, LenProperties
  <2> QED
    BY <2>3, <2>4
<1>6. \A k \in 1 .. n : rows[k] = UserLine(InitialMembers[c][k], GuestPermissions)
  BY <1>3
<1> HIDE DEF rows
<1>7. IdLine(c) \in Token /\ Marker \in Token
  BY TokenLines, IdsAssumption
<1>8. /\ s \in Seq(Token) /\ Len(s) = n + 2
      /\ s[1] = IdLine(c) /\ s[n + 2] = Marker
      /\ \A i \in 2 .. n + 1 : s[i] = rows[i - 1]
  <2>1. PICK middle \in Seq(Token) : middle = rows /\ Len(middle) = n
    BY <1>5
  <2>2. PICK t : t = s
    OBVIOUS
  <2>3. /\ t \in Seq(Token) /\ Len(t) = Len(middle) + 2
        /\ t[1] = IdLine(c) /\ t[Len(middle) + 2] = Marker
        /\ \A i \in 2 .. Len(middle) + 1 : t[i] = middle[i - 1]
    BY <1>7, <2>1, <2>2, BetweenTwo
  <2> HIDE DEF s
  <2> QED
    BY <2>1, <2>2, <2>3
<1> HIDE DEF s
<1>9. \A u, m : /\ UserLine(u, m).kind = "user" /\ UserLine(u, m).nl = TRUE
              /\ UserLine(u, m).num = m /\ UserLine(u, m).key = u
  BY DEF UserLine
<1>10. \A i \in 2 .. n + 1 :
          s[i] = UserLine(InitialMembers[c][i - 1], GuestPermissions)
  <2> SUFFICES ASSUME NEW i \in 2 .. n + 1
               PROVE  s[i] = UserLine(InitialMembers[c][i - 1], GuestPermissions)
    OBVIOUS
  <2>1. i - 1 \in 1 .. n
    BY <1>3
  <2> QED
    BY <1>6, <1>8, <2>1
<1>11. Shape(s, c, n + 2)
  <2>1. n + 2 \in 2 .. Len(s) /\ (n + 2) - 1 = n + 1
    BY <1>3, <1>8
  <2>2. \A i \in 2 .. n + 1 :
           s[i].kind = "user" /\ s[i].nl = TRUE /\ s[i].num = GuestPermissions
    BY <1>9, <1>10
  <2>3. \A i \in (n + 2) + 1 .. Len(s) : s[i].kind = "post"
    BY <1>3, <1>8
  <2> QED
    BY <1>8, <2>1, <2>2, <2>3 DEF Shape
<1>12. Rows(s) = 2 .. n + 1 /\ Posts(s) = {}
  <2>1. Rows(s) = 2 .. (n + 2) - 1 /\ Posts(s) = (n + 2) + 1 .. Len(s)
    <3>1. c \in Nat
      BY IdsAssumption
    <3>2. s \in Seq(Token)
      BY <1>8
    <3>3. PICK p : p = n + 2
      OBVIOUS
    <3>4. Shape(s, c, p)
      BY <1>11, <3>3
    <3>5. Rows(s) = 2 .. p - 1 /\ Posts(s) = p + 1 .. Len(s)
      BY <3>1, <3>2, <3>4, ShapeParts
    <3> QED
      BY <3>3, <3>5
  <2> QED
    BY <1>3, <1>8, <2>1
<1>13. RowKeys(s) = MembersAtStart(c)
  <2>1. RowKeys(s) = {s[i].key : i \in 2 .. n + 1}
    BY <1>12 DEF RowKeys
  <2>2. MembersAtStart(c) = {InitialMembers[c][k] : k \in 1 .. n}
    BY <1>3 DEF MembersAtStart
  <2>3. \A i \in 2 .. n + 1 : i - 1 \in 1 .. n /\ s[i].key = InitialMembers[c][i - 1]
    <3> SUFFICES ASSUME NEW i \in 2 .. n + 1
                 PROVE  i - 1 \in 1 .. n /\ s[i].key = InitialMembers[c][i - 1]
      OBVIOUS
    <3>1. i - 1 \in 1 .. n
      BY <1>3
    <3> QED
      BY <1>9, <1>10, <3>1
  <2>4. \A k \in 1 .. n : k + 1 \in 2 .. n + 1 /\ s[k + 1].key = InitialMembers[c][k]
    <3> SUFFICES ASSUME NEW k \in 1 .. n
                 PROVE  k + 1 \in 2 .. n + 1 /\ s[k + 1].key = InitialMembers[c][k]
      OBVIOUS
    <3>1. k + 1 \in 2 .. n + 1 /\ (k + 1) - 1 = k
      BY <1>3
    <3> QED
      BY <2>3, <3>1
  <2>5. ASSUME NEW x \in RowKeys(s) PROVE x \in MembersAtStart(c)
    BY <2>1, <2>2, <2>3
  <2>6. ASSUME NEW x \in MembersAtStart(c) PROVE x \in RowKeys(s)
    BY <2>1, <2>2, <2>4
  <2> QED
    BY <2>5, <2>6
<1> QED
  BY <1>1, <1>2, <1>3, <1>8, <1>11, <1>12, <1>13 DEF Linked

LEMMA InitInv == Init => Inv
<1> SUFFICES ASSUME Init PROVE Inv
  OBVIOUS
<1>1. \A t \in Threads : worker[t].pc = "idle"
  BY DEF Init, Idle
<1>2. ASSUME NEW c \in Chats PROVE Complete(File(c), c, AppliedIn(c))
  <2>1. AppliedIn(c) = {}
    BY DEF Init, AppliedIn
  <2>2. HasPosts(File(c), AppliedIn(c))
    BY <2>1, StartFile DEF HasPosts
  <2> QED
    BY <2>2, StartFile DEF Complete
<1>3. ~Linked(Tmp)
  BY FileNames DEF Init, Linked
<1>4. \A m, n \in Names : m # n /\ Linked(m) => dir[m] # dir[n]
  <2> SUFFICES ASSUME NEW m \in Names, NEW n \in Names, m # n, Linked(m)
               PROVE  dir[m] # dir[n]
    OBVIOUS
  <2>1. PICK c \in Chats : m = ChatFile(c)
    BY <1>3, FileNames
  <2>2. CASE n = Tmp
    BY <1>3, <2>2 DEF Linked
  <2>3. CASE n # Tmp
    <3>1. PICK d \in Chats : n = ChatFile(d)
      BY <2>3, FileNames
    <3> QED
      BY <2>1, <3>1, StartFile
  <2> QED
    BY <2>2, <2>3
<1>5. DirectoryOK
  BY <1>2, <1>3, <1>4, StartFile DEF DirectoryOK
<1> QED
  BY <1>1, <1>5 DEF Inv, MessagesOK

-----------------------------------------------------------------------------
(* What holds in every state that satisfies the invariant.                  *)

LEMMA BusyChat ==
    ASSUME TypeOK, Inv, NEW t \in Threads, worker[t].pc # "idle"
    PROVE  /\ Cid(t) \in Chats /\ Cid(t) \in Nat /\ Uid(t) \in Users
           /\ <<Cid(t), Uid(t)>> \in Serve[t]
           /\ Home(t) \in Names /\ Home(t) # Tmp
           /\ CallerOK(t)
           /\ worker[t].msg \in 1 .. Len(received)
<1>1. CallerOK(t)
  BY DEF Inv
<1>2. <<Cid(t), Uid(t)>> \in Serve[t]
  BY <1>1 DEF CallerOK
<1>3. Cid(t) \in Chats
  BY <1>2, ApartAssumption
<1>4. worker[t].msg \in 1 .. Len(received)
  <2>1. DOMAIN received = 1 .. Len(received)
    BY LenProperties DEF TypeOK
  <2> QED
    BY <2>1, BusyHasMessage
<1> QED
  BY <1>1, <1>2, <1>3, <1>4, BusyHasMessage, FileNames DEF Home

\* What one thread joins, no other thread touches, and no other thread joins
\* anything.
LEMMA JoinerAlone ==
    ASSUME TypeOK, Inv, NEW t \in Threads, worker[t].pc \in Joining
    PROVE  /\ Cid(t) \in Joins(t) /\ Uid(t) \notin LongUids /\ JoinerOK(t)
           /\ Cid(t) < NineDigits
           /\ MaxCrashes = 0
           /\ \A u \in Threads : u # t /\ worker[u].pc # "idle" =>
                 Cid(u) # Cid(t) /\ worker[u].pc \notin Joining
<1>1. worker[t].pc # "idle"
  BY DEF Joining
<1>2. CallerOK(t) /\ <<Cid(t), Uid(t)>> \in Serve[t] /\ Cid(t) \in Chats
  BY <1>1, BusyChat
<1>3. JoinerOK(t) /\ Uid(t) \notin MembersAtStart(Cid(t))
  BY <1>2 DEF CallerOK, JoinerOK
<1>4. \A u \in Threads : \A m \in Serve[u] :
         m[2] \notin MembersAtStart(m[1]) => m[1] \in Joins(u)
  BY DEF Joins
<1>5. Cid(t) \in Joins(t)
  BY <1>2, <1>3, <1>4
<1>6. Uid(t) \notin LongUids
  BY <1>2, <1>3, ApartAssumption
<1>7. MaxCrashes = 0 /\ Cid(t) < NineDigits
  BY <1>5, ApartAssumption
<1>8. ASSUME NEW u \in Threads, u # t, worker[u].pc # "idle"
      PROVE  Cid(u) # Cid(t) /\ worker[u].pc \notin Joining
  <2>1. <<Cid(u), Uid(u)>> \in Serve[u] /\ CallerOK(u)
    BY <1>8, BusyChat
  <2>2. Cid(u) # Cid(t)
    BY <1>5, <1>8, <2>1, ApartAssumption
  <2>3. ASSUME worker[u].pc \in Joining PROVE FALSE
    <3>1. Uid(u) \notin MembersAtStart(Cid(u))
      BY <2>1, <2>3 DEF CallerOK, JoinerOK
    <3>2. Cid(u) \in Joins(u)
      BY <1>4, <2>1, <3>1
    <3> QED
      BY <1>5, <1>8, <3>2, ApartAssumption
  <2> QED
    BY <2>2, <2>3
<1> QED
  BY <1>3, <1>5, <1>6, <1>7, <1>8

\* Only the thread that joins a chat sees it without its file.
LEMMA AllLinked ==
    ASSUME TypeOK, Inv, NEW t \in Threads, worker[t].pc # "idle",
           worker[t].pc # "rename"
    PROVE  /\ Linked(Home(t))
           /\ worker[t].pc \in Joining => \A c \in Chats : Linked(ChatFile(c))
<1>1. \A c \in Chats : Linked(ChatFile(c)) \/ Renaming(c)
  BY DEF Inv, DirectoryOK
<1>2. ASSUME NEW c \in Chats, ~Linked(ChatFile(c)), c = Cid(t) \/ worker[t].pc \in Joining
      PROVE  FALSE
  <2>1. PICK r \in Threads : worker[r].pc = "rename" /\ Cid(r) = c
    BY <1>1, <1>2 DEF Renaming
  <2>2. worker[r].pc \in Joining /\ r # t
    BY <2>1 DEF Joining
  <2> QED
    BY <1>2, <2>1, <2>2, JoinerAlone
<1> QED
  BY <1>2, BusyChat DEF Home

LEMMA HomeComplete ==
    ASSUME TypeOK, Inv, NEW t \in Threads, worker[t].pc # "idle", worker[t].pc # "rename"
    PROVE  /\ dir[Home(t)] \in Inodes /\ File(Cid(t)) = content[dir[Home(t)]]
           /\ File(Cid(t)) \in Seq(Token)
           /\ Complete(File(Cid(t)), Cid(t), AppliedIn(Cid(t)))
<1>1. Linked(Home(t)) /\ Cid(t) \in Chats /\ Home(t) \in Names
  BY AllLinked, BusyChat
<1>2. Complete(File(Cid(t)), Cid(t), AppliedIn(Cid(t)))
  BY <1>1 DEF Inv, DirectoryOK, Home
<1> QED
  BY <1>1, <1>2 DEF TypeOK, Linked, File, Home

\* The copy that is about to replace a chat's file.
LEMMA CopyReady ==
    ASSUME TypeOK, Inv, NEW t \in Threads, worker[t].pc = "remove"
    PROVE  /\ Linked(Tmp)
           /\ Complete(content[dir[Tmp]], Cid(t), AppliedIn(Cid(t)))
           /\ Uid(t) \notin RowKeys(File(Cid(t)))
           /\ RowKeys(content[dir[Tmp]]) = RowKeys(File(Cid(t))) \union {Uid(t)}
           /\ PostsOf(content[dir[Tmp]]) = PostsOf(File(Cid(t)))
<1>1. worker[t].pc \in Joining /\ worker[t].pc # "idle" /\ worker[t].pc # "rename"
  BY DEF Joining
<1>2. JoinerOK(t) /\ Uid(t) \notin LongUids /\ Cid(t) < NineDigits
  BY <1>1, JoinerAlone
<1>3. Linked(Tmp) /\ content[dir[Tmp]] = CopyWithUser(Cid(t), Uid(t), File(Cid(t)))
  BY <1>2 DEF JoinerOK
<1>4. Uid(t) \notin RowKeys(File(Cid(t)))
  BY <1>2 DEF JoinerOK
<1>5. PICK s \in Seq(Token) : s = File(Cid(t)) /\ Complete(s, Cid(t), AppliedIn(Cid(t)))
  BY <1>1, HomeComplete
<1>6. Cid(t) \in Nat /\ Uid(t) \in Users
  BY <1>1, BusyChat
<1>7. /\ Complete(CopyWithUser(Cid(t), Uid(t), s), Cid(t), AppliedIn(Cid(t)))
      /\ RowKeys(CopyWithUser(Cid(t), Uid(t), s)) = RowKeys(s) \union {Uid(t)}
      /\ PostsOf(CopyWithUser(Cid(t), Uid(t), s)) = PostsOf(s)
  BY <1>2, <1>5, <1>6, CopyComplete
<1> QED
  BY <1>3, <1>4, <1>5, <1>7

\* The temporary file is empty or begins with the id of the chat it was made for.
LEMMA TmpOfJoiner ==
    ASSUME TypeOK, Inv, Linked(Tmp)
    PROVE  \E t \in Threads :
              /\ worker[t].pc \in Joining
              /\ \/ content[dir[Tmp]] = <<>>
                 \/ content[dir[Tmp]][1] = IdLine(Cid(t))
<1>1. PICK t \in Threads : worker[t].pc \in {"copy", "closeTempy", "remove", "rename"}
  BY DEF Inv, DirectoryOK
<1>2. worker[t].pc \in Joining
  BY <1>1 DEF Joining
<1>3. JoinerOK(t)
  BY <1>2, JoinerAlone
<1>4. CASE worker[t].pc \in {"copy", "closeTempy"}
  BY <1>2, <1>3, <1>4 DEF JoinerOK
<1>5. CASE worker[t].pc = "remove"
  BY <1>2, <1>5, CopyReady DEF Complete, Shape
<1>6. CASE worker[t].pc = "rename"
  BY <1>2, <1>3, <1>6 DEF JoinerOK, Complete, Shape
<1> QED
  BY <1>1, <1>4, <1>5, <1>6

\* The search of a call ends at the file of its chat and at no other.
LEMMA FitsHome ==
    ASSUME TypeOK, Inv, NEW t \in Threads, worker[t].pc \in Calls, NEW n \in Names
    PROVE  Fits(t, n) <=> n = Home(t)
<1>1. worker[t].pc # "idle" /\ worker[t].pc # "rename"
  BY DEF Calls
<1>2. Cid(t) \in Chats /\ Linked(Home(t)) /\ CallerOK(t)
  BY <1>1, AllLinked, BusyChat
<1>3. ASSUME NEW c \in Chats, NEW s, s[1] = IdLine(c), IsDecimalPrefix(Cid(t), s[1].key)
      PROVE  c = Cid(t)
  BY <1>2, <1>3, ApartAssumption DEF IdLine
<1>4. ASSUME NEW c \in Chats, Linked(ChatFile(c))
      PROVE  File(c)[1] = IdLine(c) /\ File(c) # <<>>
  <2>1. PICK p \in Nat : Shape(File(c), c, p)
    BY <1>4 DEF Inv, DirectoryOK, Complete
  <2>2. File(c) \in Seq(Token)
    BY <1>4, FileNames DEF TypeOK, File, Linked
  <2>3. Len(File(c)) # 0
    BY <2>1, <2>2, LenProperties DEF Shape
  <2> QED
    BY <2>1, <2>3, EmptySeq DEF Shape
<1>5. ASSUME n = Home(t) PROVE Fits(t, n)
  <2>1. File(Cid(t))[1] = IdLine(Cid(t)) /\ File(Cid(t)) # <<>>
    BY <1>2, <1>4 DEF Home
  <2>2. IdLine(Cid(t)).kind = "id" /\ IdLine(Cid(t)).key = Cid(t)
    BY DEF IdLine
  <2>3. IsDecimalPrefix(Cid(t), Cid(t))
    BY DEF IsDecimalPrefix
  <2> QED
    BY <1>2, <1>5, <2>1, <2>2, <2>3 DEF Fits, Matches, File, Home
<1>6. ASSUME Fits(t, n), n # Tmp PROVE n = Home(t)
  <2>1. PICK c \in Chats : n = ChatFile(c)
    BY <1>6, FileNames
  <2>2. File(c)[1] = IdLine(c) /\ IsDecimalPrefix(Cid(t), File(c)[1].key)
    BY <1>4, <1>6, <2>1 DEF Fits, Matches, File
  <2>3. c = Cid(t)
    BY <1>3, <2>2
  <2> QED
    BY <2>1, <2>3 DEF Home
<1>7. ASSUME Fits(t, n), n = Tmp PROVE FALSE
  <2>1. PICK j \in Threads :
           /\ worker[j].pc \in Joining
           /\ \/ content[dir[Tmp]] = <<>>
              \/ content[dir[Tmp]][1] = IdLine(Cid(j))
    BY <1>7, TmpOfJoiner DEF Fits
  <2>2. content[dir[Tmp]] # <<>> /\ IsDecimalPrefix(Cid(t), content[dir[Tmp]][1].key)
    BY <1>7 DEF Fits, Matches
  <2>3. Cid(j) \in Chats
    BY <2>1, BusyChat DEF Joining
  <2>4. Cid(j) = Cid(t)
    BY <1>3, <2>1, <2>2, <2>3
  <2>5. j = t
    BY <1>1, <2>1, <2>4, JoinerAlone
  <2>6. worker[t].pc = "addNewUser"
    BY <2>1, <2>5 DEF Joining, Calls
  <2>7. PICK r \in Threads : worker[r].pc \in {"copy", "closeTempy", "remove", "rename"}
    BY <1>7 DEF Fits, Inv, DirectoryOK
  <2>8. worker[r].pc \in Joining /\ r # t /\ worker[r].pc # "idle"
    BY <2>6, <2>7 DEF Joining
  <2> QED
    BY <2>1, <2>5, <2>8, JoinerAlone
<1> QED
  BY <1>5, <1>6, <1>7

-----------------------------------------------------------------------------
(* What a step leaves to the threads that do not take it.                   *)

LEMMA SameMessage ==
    ASSUME TypeOK, [Next]_vars, NEW u \in Threads, worker[u].pc # "idle",
           worker'[u].msg = worker[u].msg
    PROVE  Cid(u)' = Cid(u) /\ Uid(u)' = Uid(u)
<1>1. worker[u].msg \in DOMAIN received
  BY BusyHasMessage
<1>2. received'[worker[u].msg] = received[worker[u].msg]
  BY <1>1, ReceivedGrows
<1> QED
  BY <1>2 DEF Cid, Uid

LEMMA SameApplied ==
    ASSUME TypeOK, [Next]_vars, applied' = applied, NEW CONSTANT c
    PROVE  AppliedIn(c)' = AppliedIn(c)
<1>1. \A n \in applied : n \in DOMAIN received
  BY LenProperties DEF TypeOK
<1>2. \A n \in applied : received'[n] = received[n]
  BY <1>1, ReceivedGrows
<1> QED
  BY <1>2 DEF AppliedIn

LEMMA OthersKeep ==
    ASSUME TypeOK, Inv, [Next]_vars, NEW u \in Threads,
           worker[u].pc # "idle", worker'[u] = worker[u],
           worker[u].msg \notin applied',
           NEW CONSTANT c, c = Cid(u),
           dir'[ChatFile(c)] = dir[ChatFile(c)],
           worker[u].pc # "rename" =>
              RowKeys(content[dir[ChatFile(c)]])
                 \subseteq RowKeys(content'[dir[ChatFile(c)]]),
           worker[u].pc \in Joining =>
              /\ AppliedIn(c)' = AppliedIn(c)
              /\ worker[u].pc # "rename" =>
                    content'[dir[ChatFile(c)]] = content[dir[ChatFile(c)]]
              /\ worker[u].pc \in {"copy", "closeTempy", "remove", "rename"} =>
                    dir'[Tmp] = dir[Tmp] /\ content'[dir[Tmp]] = content[dir[Tmp]]
    PROVE  CallerOK(u)'
<1>1. Cid(u)' = c /\ Uid(u)' = Uid(u)
  BY SameMessage
<1>2. Home(u)' = ChatFile(c) /\ Home(u) = ChatFile(c)
  BY <1>1 DEF Home
<1>3. /\ File(c) = content[dir[ChatFile(c)]]
      /\ File(c)' = content'[dir[ChatFile(c)]]
  BY DEF File
<1>4. CallerOK(u)
  BY DEF Inv
<1>5. ASSUME worker[u].pc \in Joining PROVE JoinerOK(u)'
  <2>1. JoinerOK(u)
    BY <1>4, <1>5 DEF CallerOK
  <2>2. PICK x : x = Uid(u)
    OBVIOUS
  <2>3. PICK w : w = worker[u]
    OBVIOUS
  <2>4. /\ x \notin MembersAtStart(c)
        /\ w.pc # "addNewUser" => w.name = ChatFile(c)
        /\ w.pc # "rename" => x \notin RowKeys(File(c))
        /\ w.pc \in {"openTempy", "copy"} =>
              w.file = dir[ChatFile(c)] /\ w.buf = File(c)
        /\ w.pc \in {"copy", "closeTempy"} =>
              w.tempy = dir[Tmp] /\ content[dir[Tmp]] = <<>>
        /\ w.pc = "closeTempy" => w.buf = CopyWithUser(c, x, File(c))
        /\ w.pc = "remove" =>
              /\ Linked(Tmp)
              /\ content[dir[Tmp]] = CopyWithUser(c, x, File(c))
        /\ w.pc = "rename" =>
              /\ Linked(Tmp) /\ ~Linked(ChatFile(c))
              /\ Complete(content[dir[Tmp]], c, AppliedIn(c))
              /\ x \in RowKeys(content[dir[Tmp]])
    BY <1>2, <2>1, <2>2, <2>3 DEF JoinerOK
  <2>5. /\ w.pc # "rename" => File(c)' = File(c)
        /\ w.pc \in {"copy", "closeTempy", "remove", "rename"} =>
              /\ dir'[Tmp] = dir[Tmp] /\ content'[dir'[Tmp]] = content[dir[Tmp]]
              /\ Linked(Tmp)' = Linked(Tmp)
        /\ Linked(ChatFile(c))' = Linked(ChatFile(c))
        /\ AppliedIn(c)' = AppliedIn(c)
    BY <1>3, <1>5, <2>3 DEF Linked
  <2>6. w = worker'[u] /\ x = Uid(u)'
    BY <1>1, <2>2, <2>3
  <2>7. /\ x \notin MembersAtStart(c)
        /\ w.pc # "addNewUser" => w.name = ChatFile(c)
        /\ w.pc # "rename" => x \notin RowKeys(File(c)')
        /\ w.pc \in {"openTempy", "copy"} =>
              w.file = dir'[ChatFile(c)] /\ w.buf = File(c)'
        /\ w.pc \in {"copy", "closeTempy"} =>
              w.tempy = dir'[Tmp] /\ content'[dir'[Tmp]] = <<>>
        /\ w.pc = "closeTempy" => w.buf = CopyWithUser(c, x, File(c)')
        /\ w.pc = "remove" =>
              /\ Linked(Tmp)'
              /\ content'[dir'[Tmp]] = CopyWithUser(c, x, File(c)')
        /\ w.pc = "rename" =>
              /\ Linked(Tmp)' /\ ~Linked(ChatFile(c))'
              /\ Complete(content'[dir'[Tmp]], c, AppliedIn(c)')
              /\ x \in RowKeys(content'[dir'[Tmp]])
    BY <2>4, <2>5
  <2> QED
    BY <1>1, <1>2, <2>6, <2>7 DEF JoinerOK
<1>6. ASSUME worker[u].pc \in Posting PROVE Uid(u) \in RowKeys(File(c)')
  <2>1. worker[u].pc # "rename"
    BY <1>6 DEF Posting
  <2> QED
    BY <1>3, <1>4, <1>6, <2>1 DEF CallerOK
<1>7. <<c, Uid(u)>> \in Serve[u]
  BY <1>4 DEF CallerOK
<1>8. worker[u].pc \in Calls => ChatFile(c) \in worker[u].scan
  BY <1>2, <1>4 DEF CallerOK
<1>9. /\ worker[u].pc \in {"getNumberOfMessages", "openChat"} =>
            worker[u].name = ChatFile(c)
      /\ worker[u].pc = "append" => worker[u].file = dir'[ChatFile(c)]
      /\ worker[u].pc # "spin"
  BY <1>2, <1>4 DEF CallerOK
<1> QED
  BY <1>1, <1>2, <1>5, <1>6, <1>7, <1>8, <1>9 DEF CallerOK

\* The directory stays in order when the chat files stay as they are.
LEMMA DirectoryKeeps ==
    ASSUME TypeOK, TypeOK', Inv, [Next]_vars, applied' = applied,
           \A c \in Chats : dir'[ChatFile(c)] = dir[ChatFile(c)],
           \A c \in Chats : Linked(ChatFile(c)) =>
              content'[dir[ChatFile(c)]] = content[dir[ChatFile(c)]],
           \A t \in Threads : worker[t].pc = "rename" => worker'[t] = worker[t],
           \/ dir'[Tmp] = dir[Tmp]
           \/ \A n \in Names : dir'[Tmp] # dir[n],
           dir'[Tmp] # NoInode => \E t \in Threads :
              worker'[t].pc \in {"copy", "closeTempy", "remove", "rename"}
    PROVE  DirectoryOK'
<1>1. ASSUME NEW c \in Chats
      PROVE  /\ Linked(ChatFile(c))' <=> Linked(ChatFile(c))
             /\ Linked(ChatFile(c)) => File(c)' = File(c)
  BY DEF Linked, File
<1>2. ASSUME NEW c \in Chats, Renaming(c) PROVE Renaming(c)'
  <2>1. PICK t \in Threads : worker[t].pc = "rename" /\ Cid(t) = c
    BY <1>2 DEF Renaming
  <2>2. worker'[t] = worker[t] /\ worker[t].pc # "idle"
    BY <2>1
  <2>3. Cid(t)' = c
    BY <2>1, <2>2, SameMessage
  <2> QED
    BY <2>1, <2>2, <2>3 DEF Renaming
<1>3. ASSUME NEW c \in Chats PROVE Linked(ChatFile(c))' \/ Renaming(c)'
  BY <1>1, <1>2 DEF Inv, DirectoryOK
<1>4. ASSUME NEW c \in Chats, Linked(ChatFile(c))'
      PROVE  Complete(File(c)', c, AppliedIn(c)')
  <2>1. File(c)' = File(c) /\ AppliedIn(c)' = AppliedIn(c)
    BY <1>1, <1>4, SameApplied
  <2>2. Complete(File(c), c, AppliedIn(c))
    BY <1>1, <1>4 DEF Inv, DirectoryOK
  <2> QED
    BY <2>1, <2>2
<1>5. ASSUME NEW m \in Names, NEW n \in Names, m # n, Linked(m)'
      PROVE  dir'[m] # dir'[n]
  <2>1. \A k, l \in Names : k # l /\ dir[k] # NoInode => dir[k] # dir[l]
    BY DEF Inv, DirectoryOK, Linked
  <2>2. \A k \in Names : k # Tmp => dir'[k] = dir[k]
    BY FileNames
  <2> QED
    BY <1>5, <2>1, <2>2 DEF Linked
<1>6. ASSUME Linked(Tmp)'
      PROVE  \E t \in Threads :
                worker'[t].pc \in {"copy", "closeTempy", "remove", "rename"}
  BY <1>6 DEF Linked
<1> QED
  BY <1>3, <1>4, <1>5, <1>6 DEF DirectoryOK

\* The invariant after a step of t that changes no chat file.
LEMMA StepOfOne ==
    ASSUME TypeOK, TypeOK', Inv, [Next]_vars, NEW t \in Threads, applied' = applied,
           worker[t].pc # "idle", worker'[t].pc # "idle",
           worker'[t].msg = worker[t].msg,
           \A u \in Threads : u # t => worker'[u] = worker[u],
           DirectoryOK', CallerOK(t)',
           \A u \in Threads : u # t /\ worker[u].pc # "idle" => CallerOK(u)'
    PROVE  Inv'
<1>1. MessagesOK'
  <2>1. \A u \in Threads : worker'[u].pc = "idle" <=> worker[u].pc = "idle"
    OBVIOUS
  <2>2. \A u \in Threads : worker'[u].msg = worker[u].msg
    OBVIOUS
  <2> QED
    BY <2>1, <2>2 DEF Inv, MessagesOK
<1>2. \A u \in Threads : worker'[u].pc # "idle" => CallerOK(u)'
  OBVIOUS
<1> QED
  BY <1>1, <1>2 DEF Inv

\* A step that only changes the buffers of t and its place.
LEMMA PrivateStep ==
    ASSUME TypeOK, TypeOK', Inv, [Next]_vars, NEW t \in Threads,
           UNCHANGED <<dir, content, received, applied>>,
           worker[t].pc \notin {"idle", "rename"}, worker'[t].pc \notin {"idle", "rename"},
           worker[t].pc \in {"copy", "closeTempy", "remove"} =>
              worker'[t].pc \in {"copy", "closeTempy", "remove"},
           worker'[t].msg = worker[t].msg,
           \A u \in Threads : u # t => worker'[u] = worker[u],
           CallerOK(t)'
    PROVE  Inv'
<1>1. DirectoryOK'
  <2>1. dir'[Tmp] # NoInode => \E u \in Threads :
           worker'[u].pc \in {"copy", "closeTempy", "remove", "rename"}
    <3> SUFFICES ASSUME Linked(Tmp)
                 PROVE  \E u \in Threads :
                    worker'[u].pc \in {"copy", "closeTempy", "remove", "rename"}
      BY DEF Linked
    <3>1. PICK u \in Threads : worker[u].pc \in {"copy", "closeTempy", "remove", "rename"}
      BY DEF Inv, DirectoryOK
    <3>2. worker'[u].pc \in {"copy", "closeTempy", "remove", "rename"}
      BY <3>1
    <3> QED
      BY <3>2
  <2>2. \A u \in Threads : worker[u].pc = "rename" => worker'[u] = worker[u]
    OBVIOUS
  <2> QED
    BY <2>1, <2>2, DirectoryKeeps
<1>2. ASSUME NEW u \in Threads, u # t, worker[u].pc # "idle" PROVE CallerOK(u)'
  <2>1. PICK c : c = Cid(u)
    OBVIOUS
  <2>2. worker[u].msg \notin applied'
    BY <1>2 DEF Inv, CallerOK
  <2>3. AppliedIn(c)' = AppliedIn(c)
    BY SameApplied
  <2>4. worker'[u] = worker[u]
    BY <1>2
  <2> QED
    BY <1>2, <2>1, <2>2, <2>3, <2>4, OthersKeep
<1>3. worker[t].pc # "idle" /\ worker'[t].pc # "idle"
  OBVIOUS
<1> QED
  BY <1>1, <1>2, <1>3, StepOfOne

\* A new message finds its thread and the file of its chat.
LEMMA ReceiveInv ==
    ASSUME TypeOK, TypeOK', Inv, [Next]_vars, NEW t \in Threads, Receive(t)
    PROVE  Inv'
<1>1. PICK m \in Serve[t] : received' = Append(received, [cid |-> m[1], uid |-> m[2]])
  BY DEF Receive
<1>2. /\ worker[t].pc = "idle" /\ UNCHANGED <<dir, content, applied>>
      /\ worker' = [worker EXCEPT ![t].pc = "getPermOfUser",
                                  ![t].msg = Len(received) + 1, ![t].scan = Existing]
  BY DEF Receive, files
<1>3. worker \in [Threads -> Worker]
  BY DEF TypeOK
<1>4. /\ worker'[t].pc = "getPermOfUser" /\ worker'[t].msg = Len(received) + 1
      /\ worker'[t].scan = Existing
      /\ \A u \in Threads : u # t => worker'[u] = worker[u]
  BY <1>2, <1>3 DEF Worker
<1>5. DirectoryOK'
  <2>1. dir'[Tmp] # NoInode => \E u \in Threads :
           worker'[u].pc \in {"copy", "closeTempy", "remove", "rename"}
    <3> SUFFICES ASSUME Linked(Tmp)
                 PROVE  \E u \in Threads :
                    worker'[u].pc \in {"copy", "closeTempy", "remove", "rename"}
      BY <1>2 DEF Linked
    <3>1. PICK u \in Threads : worker[u].pc \in {"copy", "closeTempy", "remove", "rename"}
      BY DEF Inv, DirectoryOK
    <3>2. worker'[u].pc \in {"copy", "closeTempy", "remove", "rename"}
      BY <1>2, <1>4, <3>1
    <3> QED
      BY <3>2
  <2>2. \A u \in Threads : worker[u].pc = "rename" => worker'[u] = worker[u]
    BY <1>2, <1>4
  <2>3. UNCHANGED <<dir, content, applied>>
    BY <1>2
  <2> QED
    BY <2>1, <2>2, <2>3, DirectoryKeeps
<1>6. ASSUME NEW u \in Threads, u # t, worker[u].pc # "idle" PROVE CallerOK(u)'
  <2>1. PICK c : c = Cid(u)
    OBVIOUS
  <2>2. worker[u].msg \notin applied'
    BY <1>2, <1>6 DEF Inv, CallerOK
  <2>3. UNCHANGED <<dir, content, applied>>
    BY <1>2
  <2>4. AppliedIn(c)' = AppliedIn(c)
    BY <2>3, SameApplied
  <2>5. worker'[u] = worker[u]
    BY <1>4, <1>6
  <2> QED
    BY <1>6, <2>1, <2>2, <2>3, <2>4, <2>5, OthersKeep
<1>7. received' \in Seq([cid : Nat, uid : Users]) /\ Len(received) \in Nat
      /\ received'[Len(received) + 1] = [cid |-> m[1], uid |-> m[2]]
  <2>1. received \in Seq([cid : Nat, uid : Users])
    BY DEF TypeOK
  <2>2. [cid |-> m[1], uid |-> m[2]] \in [cid : Nat, uid : Users]
    BY ServeAssumption
  <2> QED
    BY <1>1, <2>1, <2>2, AppendProperties, LenProperties
<1>8. CallerOK(t)'
  <2>1. Cid(t)' = m[1] /\ Uid(t)' = m[2] /\ m[1] \in Chats
    BY <1>4, <1>7, ApartAssumption DEF Cid, Uid
  <2>2. <<Cid(t)', Uid(t)'>> \in Serve[t]
    <3>1. m = <<m[1], m[2]>>
      BY ServeAssumption
    <3> QED
      BY <2>1, <3>1
  <2>3. Home(t)' \in Existing
    <3>1. Linked(ChatFile(m[1])) \/ Renaming(m[1])
      BY <2>1 DEF Inv, DirectoryOK
    <3>2. ASSUME Renaming(m[1]) PROVE FALSE
      <4>1. PICK r \in Threads : worker[r].pc = "rename" /\ Cid(r) = m[1]
        BY <3>2 DEF Renaming
      <4>2. worker[r].pc \in Joining /\ r # t
        BY <1>2, <4>1 DEF Joining
      <4>3. m[1] \in Joins(r)
        BY <4>1, <4>2, JoinerAlone
      <4> QED
        BY <4>2, <4>3, ApartAssumption
    <3>3. Home(t)' = ChatFile(m[1])
      BY <2>1 DEF Home
    <3> QED
      BY <2>1, <3>1, <3>2, <3>3, FileNames DEF Existing
  <2>4. worker'[t].msg \notin applied'
    <3>1. Len(received) + 1 \notin 1 .. Len(received)
      BY <1>7
    <3> QED
      BY <1>2, <1>4, <3>1 DEF TypeOK
  <2> QED
    BY <1>4, <2>2, <2>3, <2>4 DEF CallerOK, Joining, Posting
<1>9. MessagesOK'
  <2>1. \A u, v \in Threads :
           u # v /\ worker'[u].pc # "idle" => worker'[u].msg # worker'[v].msg
    <3> SUFFICES ASSUME NEW u \in Threads, NEW v \in Threads, u # v, worker'[u].pc # "idle"
                 PROVE  worker'[u].msg # worker'[v].msg
      OBVIOUS
    <3>1. \A x \in Threads : x # t => worker[x].msg # Len(received) + 1
      BY <1>7 DEF TypeOK
    <3>2. CASE u = t
      BY <1>4, <3>1, <3>2
    <3>3. CASE v = t
      BY <1>4, <3>1, <3>3
    <3>4. CASE u # t /\ v # t
      BY <1>4, <3>4 DEF Inv, MessagesOK
    <3> QED
      BY <3>2, <3>3, <3>4
  <2> QED
    BY <2>1 DEF MessagesOK
<1> QED
  BY <1>4, <1>5, <1>6, <1>8, <1>9 DEF Inv

-----------------------------------------------------------------------------
(* The steps of a thread on its own buffers.                                *)

\* No call fails: no search comes to its end, no file has no name, no file
\* lacks what a scan looks for.
LEMMA NoFailure ==
    ASSUME TypeOK, Inv, NEW t \in Threads, spin(t) \/ NotFound(t) \/ openNoChat(t)
    PROVE  FALSE
<1>1. CASE spin(t)
  <2>1. PICK n \in worker[t].scan :
           \/ FindsIn(t, "getPermOfUser", n) /\ PermStops(content[dir[n]], Uid(t)) = {}
           \/ FindsIn(t, "getNumberOfMessages", n) /\ Markers(content[dir[n]]) = {}
    BY <1>1 DEF spin
  <2>2. /\ worker[t].pc \in Calls /\ Fits(t, n)
        /\ worker[t].pc # "idle" /\ worker[t].pc # "rename"
    BY <2>1 DEF FindsIn, Calls
  <2>3. n \in Names
    BY DEF TypeOK, Worker
  <2>4. n = Home(t)
    BY <2>2, <2>3, FitsHome
  <2>5. PICK s \in Seq(Token) : s = content[dir[n]] /\ Complete(s, Cid(t), AppliedIn(Cid(t)))
    BY <2>2, <2>4, HomeComplete
  <2>6. PICK p \in Nat : Shape(s, Cid(t), p)
    BY <2>5 DEF Complete
  <2>7. Cid(t) \in Nat
    BY <2>2, BusyChat
  <2>8. Markers(s) # {} /\ PermStops(s, Uid(t)) # {}
    BY <2>6, <2>7, ShapeParts, PermOfShape
  <2> QED
    BY <2>1, <2>5, <2>8
<1>2. CASE NotFound(t)
  <2>1. worker[t].pc \in Calls /\ worker[t].scan = {} /\ worker[t].pc # "idle"
    BY <1>2 DEF NotFound, Calls
  <2> QED
    BY <2>1, BusyChat DEF CallerOK
<1>3. CASE openNoChat(t)
  <2>1. worker[t].pc = "openChat" /\ worker[t].name = NoName
    BY <1>3 DEF openNoChat
  <2>2. Cid(t) \in Chats /\ CallerOK(t)
    BY <2>1, BusyChat
  <2> QED
    BY <2>1, <2>2, FileNames DEF CallerOK, Home
<1> QED
  BY <1>1, <1>2, <1>3

\* What a thread can count on after a step of its own that leaves the files.
LEMMA OwnStep ==
    ASSUME TypeOK, Inv, [Next]_vars, NEW t \in Threads,
           UNCHANGED <<dir, content, applied>>,
           worker[t].pc # "idle", worker[t].pc # "rename",
           worker'[t].msg = worker[t].msg
    PROVE  /\ Cid(t)' = Cid(t) /\ Uid(t)' = Uid(t) /\ Home(t)' = Home(t)
           /\ File(Cid(t))' = File(Cid(t))
           /\ <<Cid(t)', Uid(t)'>> \in Serve[t]
           /\ worker'[t].msg \notin applied'
           /\ Home(t) \in Existing
<1>1. Cid(t)' = Cid(t) /\ Uid(t)' = Uid(t)
  BY SameMessage
<1>2. Home(t)' = Home(t) /\ File(Cid(t))' = File(Cid(t))
  BY <1>1 DEF Home, File
<1>3. CallerOK(t)
  BY DEF Inv
<1>4. Home(t) \in Existing
  BY AllLinked, BusyChat DEF Existing
<1> QED
  BY <1>1, <1>2, <1>3, <1>4 DEF CallerOK

LEMMA skipFileInv ==
    ASSUME TypeOK, TypeOK', Inv, [Next]_vars, NEW t \in Threads, skipFile(t)
    PROVE  Inv'
<1>1. PICK n \in worker[t].scan :
         /\ ~Fits(t, n)
         /\ worker' = [worker EXCEPT ![t].scan = @ \ {n}]
  BY DEF skipFile
<1>2. /\ worker[t].pc \in Calls
      /\ UNCHANGED <<dir, content, received, applied>>
  BY DEF skipFile, files
<1>3. worker[t].pc \notin {"idle", "rename", "copy", "closeTempy", "remove"}
  BY <1>2 DEF Calls
<1>4. worker \in [Threads -> Worker]
  BY DEF TypeOK
<1>5. /\ \A u \in Threads : u # t => worker'[u] = worker[u]
      /\ worker'[t] = [worker[t] EXCEPT !.scan = @ \ {n}]
  BY <1>1, <1>4
<1>6. n # Home(t)
  BY <1>1, <1>2, <1>3, BusyChat, FitsHome
<1>7. CallerOK(t)
  BY <1>3 DEF Inv
<1>8. /\ worker'[t].pc = worker[t].pc /\ worker'[t].msg = worker[t].msg
      /\ worker'[t].name = worker[t].name /\ worker'[t].file = worker[t].file
      /\ worker'[t].tempy = worker[t].tempy /\ worker'[t].buf = worker[t].buf
      /\ worker'[t].scan = worker[t].scan \ {n}
  BY <1>4, <1>5 DEF Worker
<1>9. /\ Cid(t)' = Cid(t) /\ Uid(t)' = Uid(t) /\ Home(t)' = Home(t)
      /\ File(Cid(t))' = File(Cid(t))
      /\ <<Cid(t)', Uid(t)'>> \in Serve[t]
      /\ worker'[t].msg \notin applied'
  BY <1>2, <1>3, <1>8, OwnStep
<1>10. CallerOK(t)'
  <2>1. worker[t].pc \in Calls => Home(t) \in worker'[t].scan
    BY <1>6, <1>7, <1>8 DEF CallerOK
  <2>2. worker[t].pc \in Joining => JoinerOK(t)'
    <3> SUFFICES ASSUME worker[t].pc = "addNewUser" PROVE JoinerOK(t)'
      BY <1>2 DEF Calls, Joining
    <3>1. JoinerOK(t)
      BY <1>7 DEF CallerOK, Joining
    <3> QED
      BY <1>8, <1>9, <3>1 DEF JoinerOK
  <2>3. worker[t].pc \in Posting => Uid(t) \in RowKeys(File(Cid(t)))
    BY <1>7 DEF CallerOK
  <2>4. /\ worker[t].pc # "spin" /\ worker[t].pc # "append"
        /\ worker[t].pc \in {"getNumberOfMessages", "openChat"} =>
              worker[t].name = Home(t)
    BY <1>2, <1>7 DEF CallerOK, Calls
  <2> QED
    BY <1>8, <1>9, <2>1, <2>2, <2>3, <2>4 DEF CallerOK
<1> QED
  BY <1>2, <1>3, <1>5, <1>8, <1>10, PrivateStep

\* The entry that a search ends at, and what the file holds.
LEMMA Found ==
    ASSUME TypeOK, Inv, NEW t \in Threads, NEW call \in Calls,
           NEW n \in worker[t].scan, FindsIn(t, call, n)
    PROVE  /\ worker[t].pc = call /\ n = Home(t)
           /\ worker[t].pc \notin {"idle", "rename", "copy", "closeTempy", "remove"}
           /\ content[dir[n]] = File(Cid(t)) /\ dir[n] \in Inodes
           /\ CallerOK(t)
<1>1. worker[t].pc = call /\ Fits(t, n)
  BY DEF FindsIn
<1>2. worker[t].pc \notin {"idle", "rename", "copy", "closeTempy", "remove"}
  BY <1>1 DEF Calls
<1>3. n \in Names
  BY DEF TypeOK, Worker
<1>4. n = Home(t)
  BY <1>1, <1>3, FitsHome
<1>5. CallerOK(t)
  BY <1>2 DEF Inv
<1> QED
  BY <1>1, <1>2, <1>4, <1>5, HomeComplete

LEMMA getPermOfUserInv ==
    ASSUME TypeOK, TypeOK', Inv, [Next]_vars, NEW t \in Threads, getPermOfUser(t)
    PROVE  Inv'
<1>1. PICK n \in worker[t].scan :
         /\ FindsIn(t, "getPermOfUser", n)
         /\ worker' = [worker EXCEPT
               ![t].pc = IF Perm(content[dir[n]], Uid(t)) = NotMember
                         THEN "addNewUser" ELSE "findChatName",
               ![t].scan = Existing]
  BY DEF getPermOfUser
<1>2. UNCHANGED <<dir, content, received, applied>>
  BY DEF getPermOfUser, files
<1>3. /\ worker[t].pc \notin {"idle", "rename", "copy", "closeTempy", "remove"}
      /\ content[dir[n]] = File(Cid(t))
  BY <1>1, Found DEF Calls
<1>4. worker \in [Threads -> Worker]
  BY DEF TypeOK
<1>5. \A u \in Threads : u # t => worker'[u] = worker[u]
  BY <1>1, <1>4
<1>6. /\ worker'[t].pc = IF Perm(content[dir[n]], Uid(t)) = NotMember
                         THEN "addNewUser" ELSE "findChatName"
      /\ worker'[t].msg = worker[t].msg
      /\ worker'[t].scan = Existing
  BY <1>1, <1>4 DEF Worker
<1>7. /\ Cid(t)' = Cid(t) /\ Uid(t)' = Uid(t) /\ Home(t)' = Home(t)
      /\ File(Cid(t))' = File(Cid(t))
      /\ <<Cid(t)', Uid(t)'>> \in Serve[t]
      /\ worker'[t].msg \notin applied'
      /\ Home(t) \in Existing
  BY <1>2, <1>3, <1>6, OwnStep
<1>8. PICK s \in Seq(Token) : s = File(Cid(t)) /\ Complete(s, Cid(t), AppliedIn(Cid(t)))
  BY <1>3, HomeComplete
<1>9. /\ Perm(s, Uid(t)) = NotMember <=> Uid(t) \notin RowKeys(s)
      /\ MembersAtStart(Cid(t)) \subseteq RowKeys(s)
  <2>1. PICK p \in Nat : Shape(s, Cid(t), p)
    BY <1>8 DEF Complete
  <2>2. Cid(t) \in Nat
    BY <1>3, BusyChat
  <2>3. Perm(s, Uid(t)) = NotMember <=> Uid(t) \notin RowKeys(s)
    BY <2>1, <2>2, PermOfShape
  <2> QED
    BY <1>8, <2>3 DEF Complete
<1>10. CallerOK(t)'
  <2>1. CASE Uid(t) \notin RowKeys(s)
    <3>1. worker'[t].pc = "addNewUser"
      BY <1>3, <1>6, <1>8, <1>9, <2>1
    <3>2. JoinerOK(t)'
      BY <1>7, <1>8, <1>9, <2>1, <3>1 DEF JoinerOK
    <3> QED
      BY <1>6, <1>7, <3>1, <3>2 DEF CallerOK, Posting
  <2>2. CASE Uid(t) \in RowKeys(s)
    <3>1. worker'[t].pc = "findChatName"
      BY <1>3, <1>6, <1>8, <1>9, <2>2
    <3> QED
      BY <1>6, <1>7, <1>8, <2>2, <3>1 DEF CallerOK, Joining
  <2> QED
    BY <2>1, <2>2
<1>11. worker'[t].pc \notin {"idle", "rename"}
  BY <1>6
<1> QED
  BY <1>2, <1>3, <1>5, <1>6, <1>10, <1>11, PrivateStep

LEMMA findChat_storeNameInv ==
    ASSUME TypeOK, TypeOK', Inv, [Next]_vars, NEW t \in Threads, findChat_storeName(t)
    PROVE  Inv'
<1>1. PICK n \in worker[t].scan :
         /\ FindsIn(t, "addNewUser", n)
         /\ worker' = [worker EXCEPT ![t].pc = "openTempy", ![t].scan = {},
                                     ![t].file = dir[n], ![t].buf = content[dir[n]],
                                     ![t].name = n]
  BY DEF findChat_storeName
<1>2. UNCHANGED <<dir, content, received, applied>>
  BY DEF findChat_storeName, files
<1>3. /\ worker[t].pc = "addNewUser" /\ n = Home(t)
      /\ content[dir[n]] = File(Cid(t)) /\ CallerOK(t)
  BY <1>1, Found DEF Calls
<1>4. worker \in [Threads -> Worker]
  BY DEF TypeOK
<1>5. \A u \in Threads : u # t => worker'[u] = worker[u]
  BY <1>1, <1>4
<1>6. /\ worker'[t].pc = "openTempy" /\ worker'[t].msg = worker[t].msg
      /\ worker'[t].file = dir[n] /\ worker'[t].buf = content[dir[n]]
      /\ worker'[t].name = n
  BY <1>1, <1>4 DEF Worker
<1>7. /\ Cid(t)' = Cid(t) /\ Uid(t)' = Uid(t) /\ Home(t)' = Home(t)
      /\ File(Cid(t))' = File(Cid(t))
      /\ <<Cid(t)', Uid(t)'>> \in Serve[t]
      /\ worker'[t].msg \notin applied'
  BY <1>2, <1>3, <1>6, OwnStep
<1>8. JoinerOK(t)'
  <2>1. JoinerOK(t)
    BY <1>3 DEF CallerOK, Joining
  <2> QED
    BY <1>2, <1>3, <1>6, <1>7, <2>1 DEF JoinerOK
<1>9. CallerOK(t)'
  BY <1>6, <1>7, <1>8 DEF CallerOK, Calls, Posting
<1> QED
  BY <1>2, <1>3, <1>5, <1>6, <1>9, PrivateStep

LEMMA findChatNameInv ==
    ASSUME TypeOK, TypeOK', Inv, [Next]_vars, NEW t \in Threads, findChatName(t)
    PROVE  Inv'
<1>1. PICK n \in worker[t].scan :
         /\ FindsIn(t, "findChatName", n)
         /\ worker' = [worker EXCEPT ![t].pc = "getNumberOfMessages",
                                     ![t].scan = Existing, ![t].name = n]
  BY DEF findChatName
<1>2. UNCHANGED <<dir, content, received, applied>>
  BY DEF findChatName, files
<1>3. worker[t].pc = "findChatName" /\ n = Home(t) /\ CallerOK(t)
  BY <1>1, Found DEF Calls
<1>4. worker \in [Threads -> Worker]
  BY DEF TypeOK
<1>5. \A u \in Threads : u # t => worker'[u] = worker[u]
  BY <1>1, <1>4
<1>6. /\ worker'[t].pc = "getNumberOfMessages" /\ worker'[t].msg = worker[t].msg
      /\ worker'[t].scan = Existing /\ worker'[t].name = n
  BY <1>1, <1>4 DEF Worker
<1>7. /\ Cid(t)' = Cid(t) /\ Uid(t)' = Uid(t) /\ Home(t)' = Home(t)
      /\ File(Cid(t))' = File(Cid(t))
      /\ <<Cid(t)', Uid(t)'>> \in Serve[t]
      /\ worker'[t].msg \notin applied'
      /\ Home(t) \in Existing
  BY <1>2, <1>3, <1>6, OwnStep
<1>8. Uid(t) \in RowKeys(File(Cid(t)))
  BY <1>3 DEF CallerOK, Posting
<1>9. CallerOK(t)'
  BY <1>3, <1>6, <1>7, <1>8 DEF CallerOK, Joining
<1> QED
  BY <1>2, <1>3, <1>5, <1>6, <1>9, PrivateStep

LEMMA getNumberOfMessagesInv ==
    ASSUME TypeOK, TypeOK', Inv, [Next]_vars, NEW t \in Threads, getNumberOfMessages(t)
    PROVE  Inv'
<1>1. PICK n \in worker[t].scan :
         /\ FindsIn(t, "getNumberOfMessages", n)
         /\ worker' = [worker EXCEPT ![t].pc = "openChat", ![t].scan = {},
                                     ![t].mid = LinesAfterMarker(content[dir[n]])]
  BY DEF getNumberOfMessages
<1>2. UNCHANGED <<dir, content, received, applied>>
  BY DEF getNumberOfMessages, files
<1>3. worker[t].pc = "getNumberOfMessages" /\ CallerOK(t)
  BY <1>1, Found DEF Calls
<1>4. worker \in [Threads -> Worker]
  BY DEF TypeOK
<1>5. \A u \in Threads : u # t => worker'[u] = worker[u]
  BY <1>1, <1>4
<1>6. /\ worker'[t].pc = "openChat" /\ worker'[t].msg = worker[t].msg
      /\ worker'[t].name = worker[t].name
  BY <1>1, <1>4 DEF Worker
<1>7. /\ Cid(t)' = Cid(t) /\ Uid(t)' = Uid(t) /\ Home(t)' = Home(t)
      /\ File(Cid(t))' = File(Cid(t))
      /\ <<Cid(t)', Uid(t)'>> \in Serve[t]
      /\ worker'[t].msg \notin applied'
  BY <1>2, <1>3, <1>6, OwnStep
<1>8. Uid(t) \in RowKeys(File(Cid(t))) /\ worker[t].name = Home(t)
  BY <1>3 DEF CallerOK, Posting
<1>9. CallerOK(t)'
  BY <1>6, <1>7, <1>8 DEF CallerOK, Calls, Joining
<1> QED
  BY <1>2, <1>3, <1>5, <1>6, <1>9, PrivateStep

\* The chat's file is there, so that fopen leaves the directory as it is.
LEMMA openChatInv ==
    ASSUME TypeOK, TypeOK', Inv, [Next]_vars, NEW t \in Threads, openChat(t)
    PROVE  Inv' /\ UNCHANGED <<dir, content>>
<1>1. worker[t].pc = "openChat" /\ UNCHANGED <<received, applied>>
  BY DEF openChat
<1>2. CallerOK(t) /\ Linked(Home(t)) /\ Home(t) \in Names
  BY <1>1, AllLinked, BusyChat
<1>3. worker[t].name = Home(t) /\ Uid(t) \in RowKeys(File(Cid(t)))
  BY <1>1, <1>2 DEF CallerOK, Posting
<1>4. /\ dir' = [dir EXCEPT ![Home(t)] = dir[Home(t)]]
      /\ content' = content
      /\ worker' = [worker EXCEPT ![t].pc = "append", ![t].file = dir[Home(t)]]
  BY <1>2, <1>3 DEF openChat
<1>5. UNCHANGED <<dir, content>>
  BY <1>4 DEF TypeOK
<1>6. worker \in [Threads -> Worker]
  BY DEF TypeOK
<1>7. \A u \in Threads : u # t => worker'[u] = worker[u]
  BY <1>4, <1>6
<1>8. /\ worker'[t].pc = "append" /\ worker'[t].msg = worker[t].msg
      /\ worker'[t].file = dir[Home(t)]
  BY <1>4, <1>6 DEF Worker
<1>9. /\ Cid(t)' = Cid(t) /\ Uid(t)' = Uid(t) /\ Home(t)' = Home(t)
      /\ File(Cid(t))' = File(Cid(t))
      /\ <<Cid(t)', Uid(t)'>> \in Serve[t]
      /\ worker'[t].msg \notin applied'
  BY <1>1, <1>5, <1>8, OwnStep
<1>10. CallerOK(t)'
  BY <1>3, <1>5, <1>8, <1>9 DEF CallerOK, Calls, Joining
<1> QED
  BY <1>1, <1>5, <1>7, <1>8, <1>10, PrivateStep

\* The loop finds nothing new at the end of the file.
LEMMA copyInv ==
    ASSUME TypeOK, TypeOK', Inv, [Next]_vars, NEW t \in Threads, copy(t)
    PROVE  Inv'
<1>1. /\ worker[t].pc = "copy" /\ UNCHANGED <<dir, content, received, applied>>
      /\ worker' = [worker EXCEPT
            ![t].pc = "closeTempy", ![t].file = NoInode,
            ![t].buf = CopyWithUser(Cid(t), Uid(t), Refill(@, content[worker[t].file]))]
  BY DEF copy, files
<1>2. worker \in [Threads -> Worker]
  BY DEF TypeOK
<1>3. \A u \in Threads : u # t => worker'[u] = worker[u]
  BY <1>1, <1>2
<1>4. /\ worker'[t].pc = "closeTempy" /\ worker'[t].msg = worker[t].msg
      /\ worker'[t].name = worker[t].name /\ worker'[t].tempy = worker[t].tempy
      /\ worker'[t].buf = CopyWithUser(Cid(t), Uid(t),
                             Refill(worker[t].buf, content[worker[t].file]))
  BY <1>1, <1>2 DEF Worker
<1>5. JoinerOK(t)
  BY <1>1, JoinerAlone DEF Joining
<1>6. /\ Uid(t) \notin MembersAtStart(Cid(t)) /\ worker[t].name = Home(t)
      /\ Uid(t) \notin RowKeys(File(Cid(t)))
      /\ worker[t].file = dir[Home(t)] /\ worker[t].buf = File(Cid(t))
      /\ worker[t].tempy = dir[Tmp] /\ content[dir[Tmp]] = <<>>
  BY <1>1, <1>5 DEF JoinerOK
<1>7. PICK s \in Seq(Token) : s = File(Cid(t)) /\ s = content[dir[Home(t)]]
  BY <1>1, HomeComplete
<1>8. Refill(s, s) = s
  <2>1. Len(s) \in Nat
    BY LenProperties
  <2>2. SubSeq(s, Len(s) + 1, Len(s)) = <<>>
    BY <2>1, SubSeqEmpty
  <2> QED
    BY <2>2, ConcatEmptySeq DEF Refill
<1>9. worker'[t].buf = CopyWithUser(Cid(t), Uid(t), File(Cid(t)))
  BY <1>4, <1>6, <1>7, <1>8
<1>10. /\ Cid(t)' = Cid(t) /\ Uid(t)' = Uid(t) /\ Home(t)' = Home(t)
       /\ File(Cid(t))' = File(Cid(t))
       /\ <<Cid(t)', Uid(t)'>> \in Serve[t]
       /\ worker'[t].msg \notin applied'
  BY <1>1, <1>4, OwnStep
<1>11. JoinerOK(t)'
  BY <1>1, <1>4, <1>6, <1>9, <1>10 DEF JoinerOK
<1>12. CallerOK(t)'
  BY <1>4, <1>10, <1>11 DEF CallerOK, Calls, Posting
<1> QED
  BY <1>1, <1>3, <1>4, <1>12, PrivateStep

-----------------------------------------------------------------------------
(* The steps of a thread in addNewUser.                                     *)

LEMMA JoinStep ==
    ASSUME TypeOK, TypeOK', Inv, [Next]_vars, NEW t \in Threads,
           worker[t].pc \in Joining, applied' = applied,
           worker'[t].pc # "idle", worker'[t].msg = worker[t].msg,
           \A u \in Threads : u # t => worker'[u] = worker[u],
           \A c \in Chats : c # Cid(t) /\ Linked(ChatFile(c)) =>
              /\ dir'[ChatFile(c)] = dir[ChatFile(c)]
              /\ content'[dir[ChatFile(c)]] = content[dir[ChatFile(c)]],
           DirectoryOK', CallerOK(t)'
    PROVE  Inv'
<1>1. ASSUME NEW u \in Threads, u # t, worker[u].pc # "idle" PROVE CallerOK(u)'
  <2>1. PICK c : c = Cid(u)
    OBVIOUS
  <2>2. c # Cid(t) /\ worker[u].pc \notin Joining
    BY <1>1, <2>1, JoinerAlone
  <2>3. worker[u].pc # "rename"
    BY <2>2 DEF Joining
  <2>4. c \in Chats /\ Linked(ChatFile(c))
    BY <1>1, <2>1, <2>3, AllLinked, BusyChat DEF Home
  <2>5. /\ dir'[ChatFile(c)] = dir[ChatFile(c)]
        /\ content'[dir[ChatFile(c)]] = content[dir[ChatFile(c)]]
    BY <2>2, <2>4
  <2>6. worker[u].msg \notin applied' /\ worker'[u] = worker[u]
    BY <1>1 DEF Inv, CallerOK
  <2>7. RowKeys(content[dir[ChatFile(c)]]) \subseteq RowKeys(content'[dir[ChatFile(c)]])
    BY <2>5
  <2> QED
    BY <1>1, <2>1, <2>2, <2>5, <2>6, <2>7, OthersKeep
<1>2. worker[t].pc # "idle"
  BY DEF Joining
<1> QED
  BY <1>1, <1>2, StepOfOne

LEMMA TmpInodeApart ==
    ASSUME TypeOK, Inv
    PROVE  /\ TmpInode \in Inodes /\ TmpInode # NoInode
           /\ \A c \in Chats : dir[ChatFile(c)] # TmpInode
           /\ \/ TmpInode = dir[Tmp]
              \/ \A n \in Names : dir[n] # TmpInode
<1>1. TmpInode \in Inodes /\ TmpInode # NoInode
  BY TmpInodeExists, InodesAssumption DEF NoInode
<1>2. CASE Linked(Tmp)
  <2>1. TmpInode = dir[Tmp]
    BY <1>2 DEF TmpInode
  <2>2. \A n \in Names : n # Tmp => dir[Tmp] # dir[n]
    BY <1>2, FileNames DEF Inv, DirectoryOK
  <2> QED
    BY <1>1, <2>1, <2>2, FileNames
<1>3. CASE ~Linked(Tmp)
  <2>1. TmpInode = FreeInode
    BY <1>3 DEF TmpInode
  <2>2. \A n \in Names : dir[n] # FreeInode
    BY FreeInodeExists DEF InUse
  <2> QED
    BY <1>1, <2>1, <2>2, FileNames
<1> QED
  BY <1>2, <1>3

LEMMA openTempyInv ==
    ASSUME TypeOK, TypeOK', Inv, [Next]_vars, NEW t \in Threads, openTempy(t)
    PROVE  /\ Inv'
           /\ \A c \in Chats : /\ Linked(ChatFile(c))
                               /\ dir'[ChatFile(c)] = dir[ChatFile(c)]
                               /\ File(c)' = File(c)
<1>1. /\ worker[t].pc = "openTempy" /\ UNCHANGED <<received, applied>>
      /\ dir' = [dir EXCEPT ![Tmp] = TmpInode]
      /\ content' = [content EXCEPT ![TmpInode] = <<>>]
      /\ worker' = [worker EXCEPT ![t].pc = "copy", ![t].tempy = TmpInode]
  BY DEF openTempy, TruncateTmp
<1>2. worker[t].pc \in Joining /\ worker[t].pc # "idle" /\ worker[t].pc # "rename"
  BY <1>1 DEF Joining
<1>3. worker \in [Threads -> Worker]
  BY DEF TypeOK
<1>4. /\ \A u \in Threads : u # t => worker'[u] = worker[u]
      /\ worker'[t].pc = "copy" /\ worker'[t].msg = worker[t].msg
      /\ worker'[t].name = worker[t].name /\ worker'[t].tempy = TmpInode
      /\ worker'[t].buf = worker[t].buf /\ worker'[t].file = worker[t].file
  BY <1>1, <1>3 DEF Worker
<1>5. /\ dir'[Tmp] = TmpInode /\ content'[TmpInode] = <<>>
      /\ \A c \in Chats : dir'[ChatFile(c)] = dir[ChatFile(c)]
  BY <1>1, FileNames, TmpInodeApart DEF TypeOK
<1>6. ASSUME NEW c \in Chats
      PROVE  /\ Linked(ChatFile(c)) /\ dir[ChatFile(c)] \in Inodes
             /\ content'[dir[ChatFile(c)]] = content[dir[ChatFile(c)]]
  <2>1. Linked(ChatFile(c)) /\ dir[ChatFile(c)] \in Inodes
    BY <1>2, AllLinked, FileNames DEF TypeOK, Linked
  <2> QED
    BY <1>1, <2>1, TmpInodeApart DEF TypeOK
<1>7. \A c \in Chats : File(c)' = File(c)
  BY <1>5, <1>6 DEF File
<1>8. DirectoryOK'
  <2>1. \A u \in Threads : worker[u].pc # "rename"
    BY <1>2, JoinerAlone DEF Joining
  <2>2. \/ dir'[Tmp] = dir[Tmp]
        \/ \A n \in Names : dir'[Tmp] # dir[n]
    BY <1>5, TmpInodeApart
  <2>3. \E u \in Threads : worker'[u].pc \in {"copy", "closeTempy", "remove", "rename"}
    BY <1>4
  <2> QED
    BY <1>1, <1>5, <1>6, <2>1, <2>2, <2>3, DirectoryKeeps
<1>9. Cid(t)' = Cid(t) /\ Uid(t)' = Uid(t)
  BY <1>2, <1>4, SameMessage
<1>10. Home(t)' = Home(t) /\ File(Cid(t))' = File(Cid(t)) /\ dir'[Home(t)] = dir[Home(t)]
  <2>1. Cid(t) \in Chats
    BY <1>2, BusyChat
  <2> QED
    BY <1>5, <1>7, <1>9, <2>1 DEF Home, File
<1>11. CallerOK(t)'
  <2>1. JoinerOK(t) /\ CallerOK(t)
    BY <1>2, BusyChat, JoinerAlone
  <2>2. /\ Uid(t) \notin MembersAtStart(Cid(t)) /\ worker[t].name = Home(t)
        /\ Uid(t) \notin RowKeys(File(Cid(t)))
        /\ worker[t].file = dir[Home(t)] /\ worker[t].buf = File(Cid(t))
    BY <1>1, <2>1 DEF JoinerOK
  <2>3. JoinerOK(t)'
    BY <1>4, <1>5, <1>9, <1>10, <2>2 DEF JoinerOK
  <2>4. <<Cid(t), Uid(t)>> \in Serve[t] /\ worker[t].msg \notin applied
    BY <2>1 DEF CallerOK
  <2> QED
    BY <1>1, <1>4, <1>9, <2>3, <2>4 DEF CallerOK, Calls, Posting
<1>12. Inv'
  <2>1. \A c \in Chats : c # Cid(t) /\ Linked(ChatFile(c)) =>
           /\ dir'[ChatFile(c)] = dir[ChatFile(c)]
           /\ content'[dir[ChatFile(c)]] = content[dir[ChatFile(c)]]
    BY <1>5, <1>6
  <2>2. worker'[t].pc # "idle" /\ applied' = applied
    BY <1>1, <1>4
  <2> QED
    BY <1>2, <1>4, <1>8, <1>11, <2>1, <2>2, JoinStep
<1> QED
  BY <1>5, <1>6, <1>7, <1>12

\* The whole copy is written into an empty file.
LEMMA OverlayEmpty ==
    ASSUME NEW T, NEW new \in Seq(T)
    PROVE  Overlay(new, <<>>) = new
<1> DEFINE old == <<>>
           kept == {i \in DOMAIN old : Bytes(SubSeq(old, 1, i - 1)) >= Bytes(new)}
           cut  == {i \in DOMAIN old \ kept :
                       Bytes(SubSeq(old, 1, i)) > Bytes(new)}
           tail == SubSeq(old, Len(old) - Cardinality(kept) + 1, Len(old))
<1>1. DOMAIN old = {} /\ Len(old) = 0
  <2>1. PICK empty \in Seq(T) : empty = old /\ Len(empty) = 0
    BY EmptySeq
  <2>2. DOMAIN empty = 1 .. Len(empty)
    BY LenProperties
  <2> QED
    BY <2>1, <2>2
<1> HIDE DEF old
<1>2. kept = {} /\ cut = {}
  BY <1>1
<1>3. Cardinality(kept) = 0
  BY <1>2, FS_EmptySet
<1> HIDE DEF kept, cut
<1>4. tail = <<>>
  <2>1. 1 \in Int /\ 0 \in Int /\ 0 < 1
    OBVIOUS
  <2>2. SubSeq(old, 1, 0) = <<>>
    BY <2>1, SubSeqEmpty
  <2> QED
    BY <1>1, <1>3, <2>2
<1>5. new \o tail = new
  BY <1>4, ConcatEmptySeq
<1>6. Overlay(new, old) = new \o tail
  BY <1>2 DEF Overlay, kept, cut
<1> QED
  BY <1>5, <1>6 DEF old

LEMMA closeTempyInv ==
    ASSUME TypeOK, TypeOK', Inv, [Next]_vars, NEW t \in Threads, closeTempy(t)
    PROVE  /\ Inv'
           /\ \A c \in Chats : /\ Linked(ChatFile(c))
                               /\ dir'[ChatFile(c)] = dir[ChatFile(c)]
                               /\ File(c)' = File(c)
<1>1. /\ worker[t].pc = "closeTempy" /\ UNCHANGED <<dir, received, applied>>
      /\ content' = [content EXCEPT ![worker[t].tempy] = Overlay(worker[t].buf, @)]
      /\ worker' = [worker EXCEPT ![t].pc = "remove", ![t].tempy = NoInode, ![t].buf = <<>>]
  BY DEF closeTempy
<1>2. worker[t].pc \in Joining /\ worker[t].pc # "idle" /\ worker[t].pc # "rename"
  BY <1>1 DEF Joining
<1>3. worker \in [Threads -> Worker]
  BY DEF TypeOK
<1>4. /\ \A u \in Threads : u # t => worker'[u] = worker[u]
      /\ worker'[t].pc = "remove" /\ worker'[t].msg = worker[t].msg
      /\ worker'[t].name = worker[t].name
  BY <1>1, <1>3 DEF Worker
<1>5. JoinerOK(t) /\ CallerOK(t)
  BY <1>2, BusyChat, JoinerAlone
<1>6. /\ Uid(t) \notin MembersAtStart(Cid(t)) /\ worker[t].name = Home(t)
      /\ Uid(t) \notin RowKeys(File(Cid(t)))
      /\ worker[t].tempy = dir[Tmp] /\ content[dir[Tmp]] = <<>>
      /\ worker[t].buf = CopyWithUser(Cid(t), Uid(t), File(Cid(t)))
  BY <1>1, <1>5 DEF JoinerOK
<1>7. dir[Tmp] \in Inodes /\ Linked(Tmp)
  BY <1>1, <1>6 DEF TypeOK, Worker, Linked
<1>8. content'[dir[Tmp]] = CopyWithUser(Cid(t), Uid(t), File(Cid(t)))
  <2>1. content'[dir[Tmp]] = Overlay(worker[t].buf, content[dir[Tmp]])
    BY <1>1, <1>6, <1>7 DEF TypeOK
  <2>2. worker[t].buf \in Seq(Token)
    BY <1>3 DEF Worker
  <2> QED
    BY <1>6, <2>1, <2>2, OverlayEmpty
<1>9. ASSUME NEW c \in Chats
      PROVE  /\ Linked(ChatFile(c))
             /\ dir'[ChatFile(c)] = dir[ChatFile(c)]
             /\ content'[dir[ChatFile(c)]] = content[dir[ChatFile(c)]]
  <2>1. Linked(ChatFile(c)) /\ dir[ChatFile(c)] \in Inodes
    BY <1>2, AllLinked, FileNames DEF TypeOK, Linked
  <2>2. dir[ChatFile(c)] # dir[Tmp]
    BY <2>1, FileNames DEF Inv, DirectoryOK
  <2> QED
    BY <1>1, <1>6, <2>1, <2>2 DEF TypeOK
<1>10. \A c \in Chats : File(c)' = File(c)
  BY <1>9 DEF File
<1>11. DirectoryOK'
  <2>1. \A u \in Threads : worker[u].pc # "rename"
    BY <1>2, JoinerAlone DEF Joining
  <2>2. dir'[Tmp] = dir[Tmp] /\ applied' = applied
    BY <1>1
  <2>3. \E u \in Threads : worker'[u].pc \in {"copy", "closeTempy", "remove", "rename"}
    BY <1>4
  <2> QED
    BY <1>9, <2>1, <2>2, <2>3, DirectoryKeeps
<1>12. Cid(t)' = Cid(t) /\ Uid(t)' = Uid(t)
  BY <1>2, <1>4, SameMessage
<1>13. Home(t)' = Home(t) /\ File(Cid(t))' = File(Cid(t))
  <2>1. Cid(t) \in Chats
    BY <1>2, BusyChat
  <2> QED
    BY <1>10, <1>12, <2>1 DEF Home
<1>14. CallerOK(t)'
  <2>1. JoinerOK(t)'
    BY <1>1, <1>4, <1>6, <1>7, <1>8, <1>12, <1>13 DEF JoinerOK, Linked
  <2>2. <<Cid(t), Uid(t)>> \in Serve[t] /\ worker[t].msg \notin applied
    BY <1>5 DEF CallerOK
  <2> QED
    BY <1>1, <1>4, <1>12, <2>1, <2>2 DEF CallerOK, Calls, Posting
<1>15. Inv'
  <2>1. worker'[t].pc # "idle" /\ applied' = applied
    BY <1>1, <1>4
  <2> QED
    BY <1>2, <1>4, <1>9, <1>11, <1>14, <2>1, JoinStep
<1> QED
  BY <1>9, <1>10, <1>15

LEMMA removeInv ==
    ASSUME TypeOK, TypeOK', Inv, [Next]_vars, NEW t \in Threads, remove(t)
    PROVE  /\ Inv'
           /\ \A c \in Chats : Linked(ChatFile(c))
           /\ \A c \in Chats : c # Cid(t) => dir'[ChatFile(c)] = dir[ChatFile(c)]
           /\ dir'[Home(t)] = NoInode /\ dir'[Tmp] = dir[Tmp]
<1>1. /\ worker[t].pc = "remove" /\ UNCHANGED <<content, received, applied>>
      /\ dir' = [dir EXCEPT ![worker[t].name] = NoInode]
      /\ worker' = [worker EXCEPT ![t].pc = "rename"]
  BY DEF remove
<1>2. worker[t].pc \in Joining /\ worker[t].pc # "idle" /\ worker[t].pc # "rename"
  BY <1>1 DEF Joining
<1>3. worker \in [Threads -> Worker]
  BY DEF TypeOK
<1>4. /\ \A u \in Threads : u # t => worker'[u] = worker[u]
      /\ worker'[t].pc = "rename" /\ worker'[t].msg = worker[t].msg
      /\ worker'[t].name = worker[t].name
  BY <1>1, <1>3 DEF Worker
<1>5. JoinerOK(t) /\ CallerOK(t) /\ Cid(t) \in Chats /\ Home(t) \in Names /\ Home(t) # Tmp
  BY <1>2, BusyChat, JoinerAlone
<1>6. Uid(t) \notin MembersAtStart(Cid(t)) /\ worker[t].name = Home(t)
  BY <1>1, <1>5 DEF JoinerOK
<1>7. /\ dir'[Home(t)] = NoInode
      /\ \A n \in Names : n # Home(t) => dir'[n] = dir[n]
  BY <1>1, <1>5, <1>6 DEF TypeOK
<1>8. \A c \in Chats : Linked(ChatFile(c))
  BY <1>2, AllLinked
<1>9. \A c \in Chats : c # Cid(t) =>
         ChatFile(c) # Home(t) /\ dir'[ChatFile(c)] = dir[ChatFile(c)]
  BY <1>7, FileNames DEF Home
<1>10. Cid(t)' = Cid(t) /\ Uid(t)' = Uid(t)
  BY <1>2, <1>4, SameMessage
<1>11. \A c \in Chats : AppliedIn(c)' = AppliedIn(c)
  BY <1>1, SameApplied
<1>12. DirectoryOK'
  <2>1. ASSUME NEW c \in Chats PROVE Linked(ChatFile(c))' \/ Renaming(c)'
    <3>1. CASE c = Cid(t)
      BY <1>4, <1>10, <3>1 DEF Renaming
    <3>2. CASE c # Cid(t)
      BY <1>8, <1>9, <3>2 DEF Linked
    <3> QED
      BY <3>1, <3>2
  <2>2. ASSUME NEW c \in Chats, Linked(ChatFile(c))'
        PROVE  Complete(File(c)', c, AppliedIn(c)')
    <3>1. c # Cid(t)
      BY <1>7, <2>2 DEF Linked, Home
    <3>2. File(c)' = File(c) /\ AppliedIn(c)' = AppliedIn(c)
      BY <1>1, <1>9, <1>11, <3>1 DEF File
    <3>3. Complete(File(c), c, AppliedIn(c))
      BY <1>8 DEF Inv, DirectoryOK
    <3> QED
      BY <3>2, <3>3
  <2>3. ASSUME NEW m \in Names, NEW n \in Names, m # n, Linked(m)'
        PROVE  dir'[m] # dir'[n]
    <3>1. \A k, l \in Names : k # l /\ dir[k] # NoInode => dir[k] # dir[l]
      BY DEF Inv, DirectoryOK, Linked
    <3>2. m # Home(t)
      BY <1>7, <2>3 DEF Linked
    <3> QED
      BY <1>7, <2>3, <3>1, <3>2 DEF Linked
  <2>4. \E u \in Threads : worker'[u].pc \in {"copy", "closeTempy", "remove", "rename"}
    BY <1>4
  <2> QED
    BY <2>1, <2>2, <2>3, <2>4 DEF DirectoryOK
<1>13. /\ Linked(Tmp) /\ dir'[Tmp] = dir[Tmp] /\ content'[dir'[Tmp]] = content[dir[Tmp]]
       /\ Complete(content[dir[Tmp]], Cid(t), AppliedIn(Cid(t)))
       /\ Uid(t) \in RowKeys(content[dir[Tmp]])
  BY <1>1, <1>5, <1>7, CopyReady, FileNames
<1>14. ~Linked(Home(t))' /\ Linked(Tmp)' /\ Home(t)' = Home(t)
  BY <1>7, <1>10, <1>13 DEF Linked, Home
<1>15. CallerOK(t)'
  <2>1. AppliedIn(Cid(t))' = AppliedIn(Cid(t))
    <3>1. PICK c \in Chats : c = Cid(t)
      BY <1>5
    <3>2. AppliedIn(c)' = AppliedIn(c)
      BY <1>11
    <3> QED
      BY <1>10, <3>1, <3>2
  <2>2. JoinerOK(t)'
    BY <1>4, <1>6, <1>10, <1>13, <1>14, <2>1 DEF JoinerOK
  <2>3. <<Cid(t), Uid(t)>> \in Serve[t] /\ worker[t].msg \notin applied
    BY <1>5 DEF CallerOK
  <2> QED
    BY <1>1, <1>4, <1>10, <2>2, <2>3 DEF CallerOK, Calls, Posting
<1>16. Inv'
  <2>1. worker'[t].pc # "idle" /\ applied' = applied
    BY <1>1, <1>4
  <2>2. \A c \in Chats : c # Cid(t) /\ Linked(ChatFile(c)) =>
           /\ dir'[ChatFile(c)] = dir[ChatFile(c)]
           /\ content'[dir[ChatFile(c)]] = content[dir[ChatFile(c)]]
    BY <1>1, <1>9
  <2> QED
    BY <1>2, <1>4, <1>12, <1>15, <2>1, <2>2, JoinStep
<1> QED
  BY <1>7, <1>8, <1>9, <1>13, <1>16

LEMMA renameInv ==
    ASSUME TypeOK, TypeOK', Inv, [Next]_vars, NEW t \in Threads, rename(t)
    PROVE  /\ Inv'
           /\ \A c \in Chats : c # Cid(t) =>
                 Linked(ChatFile(c)) /\ dir'[ChatFile(c)] = dir[ChatFile(c)]
           /\ ~Linked(Home(t)) /\ Linked(Tmp)
           /\ dir'[Home(t)] = dir[Tmp]
<1>1. /\ worker[t].pc = "rename" /\ UNCHANGED <<content, received, applied>>
      /\ dir' = IF Linked(Tmp)
                THEN [dir EXCEPT ![Tmp] = NoInode, ![worker[t].name] = dir[Tmp]]
                ELSE dir
      /\ worker' = [worker EXCEPT ![t].pc = "findChatName", ![t].name = NoName,
                                  ![t].scan = {n \in Names : dir'[n] # NoInode}]
  BY DEF rename
<1>2. worker[t].pc \in Joining /\ worker[t].pc # "idle"
  BY <1>1 DEF Joining
<1>3. worker \in [Threads -> Worker]
  BY DEF TypeOK
<1>4. /\ \A u \in Threads : u # t => worker'[u] = worker[u]
      /\ worker'[t].pc = "findChatName" /\ worker'[t].msg = worker[t].msg
      /\ worker'[t].scan = {n \in Names : dir'[n] # NoInode}
  BY <1>1, <1>3 DEF Worker
<1>5. JoinerOK(t) /\ CallerOK(t) /\ Cid(t) \in Chats /\ Home(t) \in Names /\ Home(t) # Tmp
  BY <1>2, BusyChat, JoinerAlone
<1>6. /\ worker[t].name = Home(t)
      /\ Linked(Tmp) /\ ~Linked(Home(t))
      /\ Complete(content[dir[Tmp]], Cid(t), AppliedIn(Cid(t)))
      /\ Uid(t) \in RowKeys(content[dir[Tmp]])
  BY <1>1, <1>5 DEF JoinerOK
<1>7. dir' = [dir EXCEPT ![Tmp] = NoInode, ![Home(t)] = dir[Tmp]]
  BY <1>1, <1>6
<1>8. /\ dir'[Home(t)] = dir[Tmp] /\ dir'[Tmp] = NoInode
      /\ \A n \in Names : n # Home(t) /\ n # Tmp => dir'[n] = dir[n]
  BY <1>5, <1>7, FileNames DEF TypeOK
<1>9. \A c \in Chats : c # Cid(t) =>
         ChatFile(c) # Home(t) /\ dir'[ChatFile(c)] = dir[ChatFile(c)]
  BY <1>8, FileNames DEF Home
<1>10. ASSUME NEW c \in Chats, c # Cid(t) PROVE Linked(ChatFile(c))
  <2>1. ASSUME Renaming(c) PROVE FALSE
    <3>1. PICK r \in Threads : worker[r].pc = "rename" /\ Cid(r) = c
      BY <2>1 DEF Renaming
    <3>2. worker[r].pc \in Joining /\ worker[r].pc # "idle" /\ r # t
      BY <1>10, <3>1 DEF Joining
    <3> QED
      BY <1>2, <3>2, JoinerAlone
  <2> QED
    BY <2>1 DEF Inv, DirectoryOK
<1>11. Cid(t)' = Cid(t) /\ Uid(t)' = Uid(t)
  BY <1>2, <1>4, SameMessage
<1>12. \A c \in Chats : AppliedIn(c)' = AppliedIn(c)
  BY <1>1, SameApplied
<1>13. PICK c \in Chats : c = Cid(t)
  BY <1>5
<1>14. /\ File(c)' = content[dir[Tmp]] /\ Linked(ChatFile(c))'
       /\ Home(t)' = ChatFile(c) /\ Home(t) = ChatFile(c)
  BY <1>1, <1>6, <1>8, <1>11, <1>13 DEF File, Home, Linked
<1>15. DirectoryOK'
  <2>1. ASSUME NEW d \in Chats
        PROVE  Linked(ChatFile(d))' /\ Complete(File(d)', d, AppliedIn(d)')
    <3>1. CASE d = c
      BY <1>6, <1>12, <1>13, <1>14, <3>1
    <3>2. CASE d # c
      <4>1. Linked(ChatFile(d)) /\ dir'[ChatFile(d)] = dir[ChatFile(d)]
        BY <1>9, <1>10, <1>13, <3>2
      <4>2. File(d)' = File(d) /\ AppliedIn(d)' = AppliedIn(d) /\ Linked(ChatFile(d))'
        BY <1>1, <1>12, <4>1 DEF File, Linked
      <4>3. Complete(File(d), d, AppliedIn(d))
        BY <4>1 DEF Inv, DirectoryOK
      <4> QED
        BY <4>2, <4>3
    <3> QED
      BY <3>1, <3>2
  <2>2. ASSUME NEW m \in Names, NEW n \in Names, m # n, Linked(m)'
        PROVE  dir'[m] # dir'[n]
    <3>1. \A k, l \in Names : k # l /\ dir[k] # NoInode => dir[k] # dir[l]
      BY DEF Inv, DirectoryOK, Linked
    <3>2. m # Tmp /\ dir'[m] # NoInode
      BY <1>8, <2>2 DEF Linked
    <3>3. CASE n = Tmp
      BY <1>8, <3>2, <3>3
    <3>4. CASE n # Tmp
      BY <1>6, <1>8, <2>2, <3>1, <3>2, <3>4, FileNames DEF Linked
    <3> QED
      BY <3>3, <3>4
  <2>3. ~Linked(Tmp)'
    BY <1>8 DEF Linked
  <2> QED
    BY <2>1, <2>2, <2>3 DEF DirectoryOK
<1>16. CallerOK(t)'
  <2>1. Uid(t)' \in RowKeys(File(Cid(t))')
    BY <1>6, <1>11, <1>13, <1>14
  <2>2. Home(t)' \in worker'[t].scan
    BY <1>4, <1>5, <1>14 DEF Linked
  <2>3. <<Cid(t)', Uid(t)'>> \in Serve[t]
    BY <1>5, <1>11 DEF CallerOK
  <2>4. worker'[t].msg \notin applied'
    BY <1>1, <1>4, <1>5 DEF CallerOK
  <2>5. worker'[t].pc \notin Joining
    BY <1>4 DEF Joining
  <2> QED
    BY <1>4, <2>1, <2>2, <2>3, <2>4, <2>5 DEF CallerOK
<1>17. Inv'
  <2>1. worker'[t].pc # "idle" /\ applied' = applied
    BY <1>1, <1>4
  <2>2. \A d \in Chats : d # Cid(t) /\ Linked(ChatFile(d)) =>
           /\ dir'[ChatFile(d)] = dir[ChatFile(d)]
           /\ content'[dir[ChatFile(d)]] = content[dir[ChatFile(d)]]
    BY <1>1, <1>9
  <2> QED
    BY <1>2, <1>4, <1>15, <1>16, <2>1, <2>2, JoinStep
<1> QED
  BY <1>6, <1>8, <1>9, <1>10, <1>17

-----------------------------------------------------------------------------
(* The post, a crash, and any step.                                         *)

\* What append does to the file of the chat and to the others.
LEMMA Appended ==
    ASSUME TypeOK, Inv, NEW t \in Threads, append(t)
    PROVE  /\ worker[t].pc = "append" /\ worker[t].file = dir[Home(t)]
           /\ Linked(Home(t)) /\ dir[Home(t)] \in Inodes /\ CallerOK(t)
           /\ File(Cid(t)) = content[dir[Home(t)]]
           /\ Uid(t) \in RowKeys(File(Cid(t)))
           /\ \A n \in Names : Linked(n) /\ n # Home(t) => content'[dir[n]] = content[dir[n]]
           /\ dir' = dir /\ worker[t].msg \in Nat
           /\ applied' = applied \union {worker[t].msg}
           /\ Posted(content'[dir[Home(t)]], File(Cid(t)), Cid(t), AppliedIn(Cid(t)),
                     worker[t].msg, Uid(t))
<1>1. /\ worker[t].pc = "append" /\ UNCHANGED <<dir, received, crashes>>
      /\ content' = [content EXCEPT ![worker[t].file] =
            Append(@, PostToken(worker[t].msg, Uid(t), worker[t].mid))]
      /\ applied' = applied \union {worker[t].msg}
  BY DEF append
<1>2. worker[t].pc # "idle" /\ worker[t].pc # "rename"
  BY <1>1
<1>3. CallerOK(t) /\ Linked(Home(t)) /\ Home(t) \in Names /\ Cid(t) \in Nat /\ Uid(t) \in Users
  BY <1>2, AllLinked, BusyChat
<1>4. worker[t].file = dir[Home(t)] /\ Uid(t) \in RowKeys(File(Cid(t)))
      /\ worker[t].msg \notin applied
  BY <1>1, <1>3 DEF CallerOK, Posting
<1>5. dir[Home(t)] \in Inodes
  BY <1>2, HomeComplete
<1>6. PICK s \in Seq(Token) :
         /\ s = File(Cid(t)) /\ s = content[dir[Home(t)]]
         /\ Complete(s, Cid(t), AppliedIn(Cid(t)))
  BY <1>2, HomeComplete
<1>7. content'[dir[Home(t)]] = Append(s, PostToken(worker[t].msg, Uid(t), worker[t].mid))
  BY <1>1, <1>4, <1>5, <1>6 DEF TypeOK
<1>8. ASSUME NEW n \in Names, Linked(n), n # Home(t)
      PROVE  content'[dir[n]] = content[dir[n]]
  <2>1. dir[n] # dir[Home(t)] /\ dir[n] \in Inodes
    BY <1>3, <1>8 DEF Inv, DirectoryOK, TypeOK, Linked
  <2> QED
    BY <1>1, <1>4, <2>1 DEF TypeOK
<1>9. worker[t].msg \in Nat /\ worker[t].mid \in Nat
  BY DEF TypeOK, Worker
<1>10. worker[t].msg \notin AppliedIn(Cid(t))
  BY <1>4 DEF AppliedIn
<1>11. Posted(content'[dir[Home(t)]], s, Cid(t), AppliedIn(Cid(t)), worker[t].msg, Uid(t))
  <2>1. PICK c \in Nat : c = Cid(t)
    BY <1>3
  <2>2. PICK u \in Users : u = Uid(t)
    BY <1>3
  <2>3. PICK n \in Nat : n = worker[t].msg
    BY <1>9
  <2>4. PICK mid \in Nat : mid = worker[t].mid
    BY <1>9
  <2>5. PICK numbers : numbers = AppliedIn(Cid(t))
    OBVIOUS
  <2>6. Complete(s, c, numbers)
    BY <1>6, <2>1, <2>5
  <2>7. n \notin numbers
    BY <1>10, <2>3, <2>5
  <2>8. PICK k \in Seq(Token) :
           k = content'[dir[Home(t)]] /\ OneMore(k, s, n, u)
    <3>1. PICK post \in Token : post = PostToken(n, u, mid)
      BY <2>2, <2>3, <2>4, TokenLines
    <3>2. post.kind = "post" /\ post.key = n /\ post.uid = u
      BY <3>1 DEF PostToken
    <3>3. content'[dir[Home(t)]] = Append(s, post)
      BY <1>7, <2>2, <2>3, <2>4, <3>1
    <3>4. /\ Append(s, post) \in Seq(Token) /\ Len(Append(s, post)) = Len(s) + 1
          /\ \A i \in 1 .. Len(s) : Append(s, post)[i] = s[i]
          /\ Append(s, post)[Len(s) + 1] = post
      BY <1>6, <3>1, AppendProperties
    <3>5. OneMore(Append(s, post), s, n, u)
      BY <3>2, <3>4 DEF OneMore
    <3> QED
      BY <3>3, <3>4, <3>5
  <2>9. Posted(k, s, c, numbers, n, u)
    <3>1. s \in Seq(Token) /\ c \in Nat /\ u \in Users /\ n \in Nat /\ k \in Seq(Token)
      BY <1>6, <2>1, <2>2, <2>3, <2>8
    <3>2. OneMore(k, s, n, u)
      BY <2>8
    <3> QED
      BY <2>6, <2>7, <3>1, <3>2, PostAdded
  <2> QED
    BY <2>1, <2>2, <2>3, <2>5, <2>8, <2>9
<1> QED
  BY <1>1, <1>3, <1>4, <1>5, <1>6, <1>8, <1>9, <1>11

LEMMA appendInv ==
    ASSUME TypeOK, TypeOK', Inv, [Next]_vars, NEW t \in Threads, append(t)
    PROVE  Inv'
<1>1. /\ worker[t].pc = "append" /\ Linked(Home(t))
      /\ dir' = dir /\ received' = received
      /\ applied' = applied \union {worker[t].msg}
      /\ worker' = [worker EXCEPT ![t] = Idle]
  BY Appended DEF append
<1>2. /\ \A n \in Names : Linked(n) /\ n # Home(t) => content'[dir[n]] = content[dir[n]]
      /\ Complete(content'[dir[Home(t)]], Cid(t), AppliedIn(Cid(t)) \union {worker[t].msg})
      /\ RowKeys(content'[dir[Home(t)]]) = RowKeys(content[dir[Home(t)]])
  <2>1. /\ Posted(content'[dir[Home(t)]], File(Cid(t)), Cid(t), AppliedIn(Cid(t)),
                  worker[t].msg, Uid(t))
        /\ \A n \in Names : Linked(n) /\ n # Home(t) => content'[dir[n]] = content[dir[n]]
        /\ File(Cid(t)) = content[dir[Home(t)]]
    BY Appended
  <2> QED
    BY <2>1 DEF Posted
<1>3. /\ \A u \in Threads : u # t => worker'[u] = worker[u]
      /\ worker'[t].pc = "idle" /\ worker'[t].msg = 0
  BY <1>1 DEF TypeOK, Idle
<1>4. Cid(t) \in Chats /\ Home(t) \in Names /\ worker[t].pc # "idle"
  BY <1>1, BusyChat
<1>5. ASSUME NEW c \in Chats, c # Cid(t) PROVE AppliedIn(c)' = AppliedIn(c)
  BY <1>1, <1>5 DEF AppliedIn, Cid
<1>6. DirectoryOK'
  <2>1. ASSUME NEW c \in Chats PROVE Linked(ChatFile(c))' \/ Renaming(c)'
    <3>1. ASSUME Renaming(c) PROVE Renaming(c)'
      <4>1. PICK r \in Threads : worker[r].pc = "rename" /\ Cid(r) = c
        BY <3>1 DEF Renaming
      <4>2. worker'[r] = worker[r] /\ worker[r].pc # "idle"
        BY <1>1, <1>3, <4>1
      <4>3. Cid(r)' = c
        BY <4>1, <4>2, SameMessage
      <4> QED
        BY <4>1, <4>2, <4>3 DEF Renaming
    <3> QED
      BY <1>1, <3>1 DEF Inv, DirectoryOK, Linked
  <2>2. ASSUME NEW c \in Chats, Linked(ChatFile(c))
        PROVE  Complete(content'[dir[ChatFile(c)]], c, AppliedIn(c)')
    <3>1. CASE c = Cid(t)
      <4>1. AppliedIn(c)' = AppliedIn(c) \union {worker[t].msg}
        <5>1. PICK m : m = worker[t].msg
          OBVIOUS
        <5>2. received[m].cid = c
          BY <3>1, <5>1 DEF Cid
        <5> QED
          BY <1>1, <5>1, <5>2 DEF AppliedIn
      <4> QED
        BY <1>2, <3>1, <4>1 DEF Home
    <3>2. CASE c # Cid(t)
      <4>1. ChatFile(c) # Home(t) /\ ChatFile(c) \in Names
        BY <3>2, FileNames DEF Home
      <4>2. Complete(File(c), c, AppliedIn(c))
        BY <2>2 DEF Inv, DirectoryOK
      <4> QED
        BY <1>2, <1>5, <2>2, <3>2, <4>1, <4>2 DEF File
    <3> QED
      BY <3>1, <3>2
  <2>3. \A c \in Chats : Linked(ChatFile(c))' => Complete(File(c)', c, AppliedIn(c)')
    BY <1>1, <2>2 DEF Linked, File
  <2>4. \A m, n \in Names : m # n /\ Linked(m)' => dir'[m] # dir'[n]
    BY <1>1 DEF Inv, DirectoryOK, Linked
  <2>5. ASSUME Linked(Tmp)
        PROVE  \E u \in Threads :
                  worker'[u].pc \in {"copy", "closeTempy", "remove", "rename"}
    <3>1. PICK u \in Threads : worker[u].pc \in {"copy", "closeTempy", "remove", "rename"}
      BY <2>5 DEF Inv, DirectoryOK
    <3>2. worker'[u].pc \in {"copy", "closeTempy", "remove", "rename"}
      BY <1>1, <1>3, <3>1
    <3> QED
      BY <3>2
  <2>6. Linked(Tmp)' => Linked(Tmp)
    BY <1>1 DEF Linked
  <2> QED
    BY <2>1, <2>3, <2>4, <2>5, <2>6 DEF DirectoryOK
<1>7. ASSUME NEW u \in Threads, u # t, worker[u].pc # "idle" PROVE CallerOK(u)'
  <2>1. PICK c : c = Cid(u)
    OBVIOUS
  <2>2. c \in Chats /\ ChatFile(c) \in Names /\ worker'[u] = worker[u]
    BY <1>3, <1>7, <2>1, BusyChat, FileNames
  <2>3. worker[u].msg \notin applied'
    <3>1. worker[u].msg # worker[t].msg
      BY <1>7 DEF Inv, MessagesOK
    <3>2. worker[u].msg \notin applied
      BY <1>7 DEF Inv, CallerOK
    <3> QED
      BY <1>1, <3>1, <3>2
  <2>4. worker[u].pc # "rename" => Linked(ChatFile(c))
    BY <1>7, <2>1, AllLinked DEF Home
  <2>5. ASSUME worker[u].pc # "rename"
        PROVE  /\ RowKeys(content[dir[ChatFile(c)]])
                     \subseteq RowKeys(content'[dir[ChatFile(c)]])
               /\ c # Cid(t) => content'[dir[ChatFile(c)]] = content[dir[ChatFile(c)]]
    <3>1. CASE c = Cid(t)
      BY <1>2, <3>1 DEF Home
    <3>2. CASE c # Cid(t)
      <4>1. ChatFile(c) # Home(t)
        BY <3>2, FileNames DEF Home
      <4> QED
        BY <1>2, <2>2, <2>4, <2>5, <4>1
    <3> QED
      BY <3>1, <3>2
  <2>6. ASSUME worker[u].pc \in Joining
        PROVE  /\ AppliedIn(c)' = AppliedIn(c)
               /\ worker[u].pc # "rename" =>
                     content'[dir[ChatFile(c)]] = content[dir[ChatFile(c)]]
               /\ worker[u].pc \in {"copy", "closeTempy", "remove", "rename"} =>
                     dir'[Tmp] = dir[Tmp] /\ content'[dir[Tmp]] = content[dir[Tmp]]
    <3>1. c # Cid(t)
      BY <1>4, <1>7, <2>1, <2>6, JoinerAlone
    <3>2. JoinerOK(u)
      BY <2>6, JoinerAlone
    <3>3. worker[u].pc \in {"copy", "closeTempy", "remove", "rename"} => Linked(Tmp)
      BY <3>2 DEF JoinerOK, TypeOK, Worker, Linked
    <3>4. Tmp \in Names /\ Tmp # Home(t)
      BY <1>4, FileNames DEF Home
    <3> QED
      BY <1>1, <1>2, <1>5, <2>2, <2>5, <3>1, <3>3, <3>4
  <2>7. dir'[ChatFile(c)] = dir[ChatFile(c)]
    BY <1>1
  <2> QED
    BY <1>7, <2>1, <2>2, <2>3, <2>5, <2>6, <2>7, OthersKeep
<1>8. MessagesOK'
  <2>1. \A u \in Threads : worker[u].pc # "idle" => worker[u].msg # 0
    BY DEF TypeOK
  <2>2. \A u, v \in Threads : u # v /\ worker[u].pc # "idle" => worker[u].msg # worker[v].msg
    BY DEF Inv, MessagesOK
  <2> QED
    BY <1>3, <2>1, <2>2 DEF MessagesOK
<1>9. \A u \in Threads : worker'[u].pc # "idle" => CallerOK(u)'
  BY <1>3, <1>7
<1> QED
  BY <1>6, <1>8, <1>9 DEF Inv

\* A crash finds every chat in its place, for nobody joins.
LEMMA CrashInv ==
    ASSUME TypeOK, TypeOK', Inv, [Next]_vars, Crash
    PROVE  Inv'
<1>1. /\ crashes < MaxCrashes /\ worker' = [t \in Threads |-> Idle]
      /\ UNCHANGED <<dir, content, received, applied>>
  BY DEF Crash, Die, files
<1>2. MaxCrashes # 0
  BY <1>1, BoundsAssumption DEF TypeOK
<1>3. \A t \in Threads : worker[t].pc \notin Joining
  BY <1>2, JoinerAlone
<1>4. \A t \in Threads : worker'[t].pc = "idle"
  BY <1>1 DEF Idle
<1>5. ~Linked(Tmp)
  BY <1>3 DEF Inv, DirectoryOK, Joining
<1>6. DirectoryOK'
  <2>1. ASSUME NEW c \in Chats
        PROVE  Linked(ChatFile(c))' /\ Complete(File(c)', c, AppliedIn(c)')
    <3>1. Linked(ChatFile(c)) /\ Complete(File(c), c, AppliedIn(c))
      BY <1>3 DEF Inv, DirectoryOK, Renaming, Joining
    <3>2. Linked(ChatFile(c))' /\ File(c)' = File(c) /\ AppliedIn(c)' = AppliedIn(c)
      BY <1>1, <3>1 DEF Linked, File, AppliedIn
    <3> QED
      BY <3>1, <3>2
  <2>2. \A m, n \in Names : m # n /\ Linked(m)' => dir'[m] # dir'[n]
    BY <1>1 DEF Inv, DirectoryOK, Linked
  <2>3. ~Linked(Tmp)'
    BY <1>1, <1>5 DEF Linked
  <2> QED
    BY <2>1, <2>2, <2>3 DEF DirectoryOK
<1> QED
  BY <1>4, <1>6 DEF Inv, MessagesOK

LEMMA StepInv ==
    ASSUME TypeOK, TypeOK', Inv, [Next]_vars
    PROVE  Inv'
<1>1. CASE UNCHANGED vars
  <2>1. UNCHANGED <<dir, content, worker, received, applied>>
    BY <1>1 DEF vars
  <2>2. DirectoryOK'
    <3>1. dir'[Tmp] # NoInode => \E t \in Threads :
             worker'[t].pc \in {"copy", "closeTempy", "remove", "rename"}
      BY <2>1 DEF Inv, DirectoryOK, Linked
    <3> QED
      BY <2>1, <3>1, DirectoryKeeps
  <2>3. ASSUME NEW u \in Threads, worker[u].pc # "idle" PROVE CallerOK(u)'
    <3>1. PICK c : c = Cid(u)
      OBVIOUS
    <3>2. worker[u].msg \notin applied'
      BY <2>1, <2>3 DEF Inv, CallerOK
    <3>3. AppliedIn(c)' = AppliedIn(c)
      BY <2>1 DEF AppliedIn
    <3> QED
      BY <2>1, <2>3, <3>1, <3>2, <3>3, OthersKeep
  <2> QED
    BY <2>1, <2>2, <2>3 DEF Inv, MessagesOK
<1>2. ASSUME NEW t \in Threads, Receive(t) PROVE Inv'
  BY <1>2, ReceiveInv
<1>3. ASSUME NEW t \in Threads, Call(t) PROVE Inv'
  <2>1. CASE skipFile(t)
    BY <2>1, skipFileInv
  <2>2. CASE getPermOfUser(t)
    BY <2>2, getPermOfUserInv
  <2>3. CASE findChat_storeName(t)
    BY <2>3, findChat_storeNameInv
  <2>4. CASE findChatName(t)
    BY <2>4, findChatNameInv
  <2>5. CASE getNumberOfMessages(t)
    BY <2>5, getNumberOfMessagesInv
  <2>6. CASE spin(t) \/ NotFound(t) \/ openNoChat(t)
    BY <2>6, NoFailure
  <2>7. CASE openTempy(t)
    BY <2>7, openTempyInv
  <2>8. CASE copy(t)
    BY <2>8, copyInv
  <2>9. CASE closeTempy(t)
    BY <2>9, closeTempyInv
  <2>10. CASE remove(t)
    BY <2>10, removeInv
  <2>11. CASE rename(t)
    BY <2>11, renameInv
  <2>12. CASE openChat(t)
    BY <2>12, openChatInv
  <2>13. CASE append(t)
    BY <2>13, appendInv
  <2> QED
    BY <1>3, <2>1, <2>2, <2>3, <2>4, <2>5, <2>6, <2>7, <2>8, <2>9, <2>10, <2>11,
       <2>12, <2>13 DEF Call
<1>4. ASSUME Crash PROVE Inv'
  BY <1>4, CrashInv
<1> QED
  BY <1>1, <1>2, <1>3, <1>4 DEF Next

-----------------------------------------------------------------------------
(* Safety.                                                                  *)

\* At every moment each chat has one file that holds its rows, its marker and one
\* post for each message applied to it, or its copy stands ready in the temporary
\* file; and each thread in a call can rely on what it has read so far.
THEOREM ApartInv == Spec => [](TypeOK /\ Inv)
<1>1. Init => TypeOK /\ Inv
  BY InitTypeOK, InitInv
<1>2. TypeOK /\ Inv /\ [Next]_vars => (TypeOK /\ Inv)'
  BY StepTypeOK, StepInv
<1> QED
  BY <1>1, <1>2, PTL DEF Spec

\* Also while its file is away, a chat is stored as a whole.
LEMMA StoredComplete ==
    ASSUME TypeOK, Inv, NEW c \in Chats
    PROVE  Stored(c) \in Seq(Token) /\ Complete(Stored(c), c, AppliedIn(c))
<1>1. CASE Linked(ChatFile(c))
  <2>1. Stored(c) = File(c) /\ dir[ChatFile(c)] \in Inodes
    BY <1>1, FileNames DEF Stored, File, Linked, TypeOK
  <2>2. File(c) \in Seq(Token)
    BY <2>1 DEF TypeOK, File
  <2>3. Complete(File(c), c, AppliedIn(c))
    BY <1>1 DEF Inv, DirectoryOK
  <2> QED
    BY <2>1, <2>2, <2>3
<1>2. CASE ~Linked(ChatFile(c))
  <2>1. PICK t \in Threads : worker[t].pc = "rename" /\ Cid(t) = c
    BY <1>2 DEF Inv, DirectoryOK, Renaming
  <2>2. JoinerOK(t)
    BY <2>1, JoinerAlone DEF Joining
  <2>3. Linked(Tmp) /\ Complete(content[dir[Tmp]], c, AppliedIn(c))
    BY <2>1, <2>2 DEF JoinerOK
  <2>4. Stored(c) = content[dir[Tmp]] /\ dir[Tmp] \in Inodes
    BY <1>2, <2>3, FileNames DEF Stored, Linked, TypeOK
  <2>5. content[dir[Tmp]] \in Seq(Token)
    BY <2>4 DEF TypeOK
  <2> QED
    BY <2>3, <2>4, <2>5
<1> QED
  BY <1>1, <1>2

\* A message whose applyMessage has returned is in its chat exactly once and in
\* no other chat; one that has not is nowhere.
THEOREM AppliedPostsStoredHolds == Spec => []AppliedPostsStored
<1>1. TypeOK /\ Inv => AppliedPostsStored
  <2> SUFFICES ASSUME TypeOK, Inv, NEW n \in 1 .. Len(received), NEW c \in Chats
               PROVE  Cardinality(Copies(n, c)) =
                         IF n \in applied /\ received[n].cid = c THEN 1 ELSE 0
    BY DEF AppliedPostsStored
  <2>1. PICK s : s = Stored(c)
    OBVIOUS
  <2>2. HasPosts(s, AppliedIn(c))
    BY <2>1, StoredComplete DEF Complete
  <2>3. Copies(n, c) = {i \in Posts(s) : s[i].key = n}
    BY <2>1 DEF Copies
  <2>4. CASE n \in AppliedIn(c)
    <3>1. PICK i \in Posts(s) : s[i].key = n
      BY <2>2, <2>4 DEF HasPosts
    <3>2. Copies(n, c) = {i}
      BY <2>2, <2>3, <3>1 DEF HasPosts
    <3>3. Cardinality(Copies(n, c)) = 1
      BY <3>2, FS_Singleton
    <3> QED
      BY <2>4, <3>3 DEF AppliedIn
  <2>5. CASE n \notin AppliedIn(c)
    <3>1. Copies(n, c) = {}
      BY <2>2, <2>3, <2>5 DEF HasPosts
    <3>2. Cardinality(Copies(n, c)) = 0
      BY <3>1, FS_EmptySet
    <3> QED
      BY <2>5, <3>2 DEF AppliedIn
  <2> QED
    BY <2>4, <2>5
<1> QED
  BY <1>1, ApartInv, PTL

\* At every moment some file begins with the id of the chat and has the marker
\* that ends the scans, between remove and rename too.
THEOREM ChatsFindableHolds == Spec => []ChatsFindable
<1>1. TypeOK /\ Inv => ChatsFindable
  <2> SUFFICES ASSUME TypeOK, Inv, NEW c \in Chats
               PROVE  \E n \in Existing : /\ content[dir[n]] # <<>>
                                          /\ content[dir[n]][1] = IdLine(c)
                                          /\ Markers(content[dir[n]]) # {}
    BY DEF ChatsFindable
  <2>1. PICK n \in Existing : Stored(c) = content[dir[n]]
    <3>1. CASE Linked(ChatFile(c))
      BY <3>1, FileNames DEF Stored, Existing
    <3>2. CASE ~Linked(ChatFile(c))
      <4>1. PICK t \in Threads : worker[t].pc = "rename" /\ Cid(t) = c
        BY <3>2 DEF Inv, DirectoryOK, Renaming
      <4>2. JoinerOK(t)
        BY <4>1, JoinerAlone DEF Joining
      <4>3. Linked(Tmp)
        BY <4>1, <4>2 DEF JoinerOK
      <4> QED
        BY <3>2, <4>3, FileNames DEF Stored, Existing
    <3> QED
      BY <3>1, <3>2
  <2>2. PICK s \in Seq(Token) : s = Stored(c)
    BY StoredComplete
  <2>3. PICK p \in Nat : Shape(s, c, p)
    BY <2>2, StoredComplete DEF Complete
  <2>4. c \in Nat
    BY IdsAssumption
  <2>5. Markers(s) # {}
    BY <2>2, <2>3, <2>4, ShapeParts
  <2>6. s # <<>>
    <3>1. Len(s) # 0
      BY <2>2, <2>3, LenProperties DEF Shape
    <3> QED
      BY <3>1, EmptySeq
  <2>7. s[1] = IdLine(c)
    BY <2>3 DEF Shape
  <2> QED
    BY <2>1, <2>2, <2>5, <2>6, <2>7
<1> QED
  BY <1>1, ApartInv, PTL

-----------------------------------------------------------------------------
(* Refinement.                                                              *)

LEMMA AbstractStart == Init => Abstract!Init
<1> SUFFICES ASSUME Init PROVE Abstract!Init
  OBVIOUS
<1>1. ASSUME NEW c \in Chats PROVE MembersOf(c) = MembersAtStart(c) /\ LogOf(c) = <<>>
  <2>1. Stored(c) = File(c) /\ RowKeys(File(c)) = MembersAtStart(c) /\ Posts(File(c)) = {}
    BY StartFile DEF Stored, File
  <2>2. PICK s : s = File(c) /\ Posts(s) = {}
    BY <2>1
  <2>3. Cardinality(Posts(s)) = 0
    BY <2>2, FS_EmptySet
  <2>4. PostsOf(s) = [k \in 1 .. 0 |->
                         [number |-> s[PostAt(s, k)].key, uid |-> s[PostAt(s, k)].uid]]
    BY <2>3 DEF PostsOf
  <2>5. PostsOf(s) = <<>>
    BY <2>4
  <2> QED
    BY <2>1, <2>2, <2>5 DEF MembersOf, LogOf
<1> QED
  BY <1>1 DEF Abstract!Init

\* Only the removal of a chat's file, whose copy then stands for it, and the post
\* change what is stored.
LEMMA StoredKeeps ==
    ASSUME TypeOK, TypeOK', Inv, [Next]_vars,
           \A t \in Threads : ~remove(t) /\ ~append(t),
           NEW c \in Chats
    PROVE  Stored(c)' = Stored(c)
<1>1. CASE UNCHANGED <<dir, content>>
  BY <1>1 DEF Stored, Linked
<1>2. ASSUME NEW t \in Threads, openTempy(t) \/ closeTempy(t)
      PROVE  Stored(c)' = Stored(c)
  <2>1. Linked(ChatFile(c)) /\ dir'[ChatFile(c)] = dir[ChatFile(c)] /\ File(c)' = File(c)
    BY <1>2, openTempyInv, closeTempyInv
  <2> QED
    BY <2>1 DEF Stored, File, Linked
<1>3. ASSUME NEW t \in Threads, rename(t) PROVE Stored(c)' = Stored(c)
  <2>1. /\ \A d \in Chats : d # Cid(t) =>
              Linked(ChatFile(d)) /\ dir'[ChatFile(d)] = dir[ChatFile(d)]
        /\ ~Linked(Home(t)) /\ Linked(Tmp) /\ dir'[Home(t)] = dir[Tmp]
    BY <1>3, renameInv
  <2>2. content' = content
    BY <1>3 DEF rename
  <2>3. CASE c # Cid(t)
    BY <2>1, <2>2, <2>3 DEF Stored, Linked
  <2>4. CASE c = Cid(t)
    BY <2>1, <2>2, <2>4 DEF Stored, Linked, Home
  <2> QED
    BY <2>3, <2>4
<1>4. ASSUME NEW t \in Threads, Call(t), ~(openTempy(t) \/ closeTempy(t) \/ rename(t))
      PROVE  UNCHANGED <<dir, content>>
  <2>1. CASE spin(t) \/ NotFound(t) \/ openNoChat(t)
    BY <2>1, NoFailure
  <2>2. CASE openChat(t)
    BY SMTT(40), <2>2, openChatInv
  <2>3. CASE skipFile(t) \/ getPermOfUser(t) \/ findChat_storeName(t) \/ findChatName(t)
             \/ getNumberOfMessages(t) \/ copy(t)
    BY <2>3 DEF skipFile, getPermOfUser, findChat_storeName, findChatName,
                getNumberOfMessages, copy, files
  <2> QED
    BY <1>4, <2>1, <2>2, <2>3 DEF Call
<1>5. ASSUME NEW t \in Threads, Receive(t) PROVE UNCHANGED <<dir, content>>
  BY <1>5 DEF Receive, files
<1>6. ASSUME Crash PROVE UNCHANGED <<dir, content>>
  BY <1>6 DEF Crash, files
<1>7. ASSUME UNCHANGED vars PROVE UNCHANGED <<dir, content>>
  BY <1>7 DEF vars
<1> QED
  BY <1>1, <1>2, <1>3, <1>4, <1>5, <1>6, <1>7 DEF Next

LEMMA AbstractStep ==
    ASSUME TypeOK, TypeOK', Inv, [Next]_vars
    PROVE  [Abstract!Next]_(Abstract!vars)
<1> DEFINE members == [c \in Chats |-> MembersOf(c)]
           log     == [c \in Chats |-> LogOf(c)]
<1>1. CASE \A t \in Threads : ~remove(t) /\ ~append(t)
  <2>1. \A c \in Chats : Stored(c)' = Stored(c)
    BY <1>1, StoredKeeps
  <2>2. \A c \in Chats : MembersOf(c)' = MembersOf(c) /\ LogOf(c)' = LogOf(c)
    BY <2>1 DEF MembersOf, LogOf
  <2> QED
    BY <2>2 DEF Abstract!vars
<1>2. ASSUME NEW t \in Threads, remove(t) PROVE Abstract!Next
  <2>1. /\ \A c \in Chats : Linked(ChatFile(c))
        /\ \A c \in Chats : c # Cid(t) => dir'[ChatFile(c)] = dir[ChatFile(c)]
        /\ dir'[Home(t)] = NoInode /\ dir'[Tmp] = dir[Tmp]
    BY <1>2, removeInv
  <2>2. worker[t].pc = "remove" /\ content' = content
    BY <1>2 DEF remove
  <2>3. /\ Linked(Tmp)
        /\ Uid(t) \notin RowKeys(File(Cid(t)))
        /\ RowKeys(content[dir[Tmp]]) = RowKeys(File(Cid(t))) \union {Uid(t)}
        /\ PostsOf(content[dir[Tmp]]) = PostsOf(File(Cid(t)))
    BY <2>2, CopyReady
  <2>4. PICK c \in Chats : c = Cid(t)
    BY <2>2, BusyChat
  <2>5. PICK u \in Users : u = Uid(t)
    BY <2>2, BusyChat
  <2>6. Stored(c) = File(c) /\ Stored(c)' = content[dir[Tmp]]
    <3>1. Linked(ChatFile(c)) /\ dir'[ChatFile(c)] = NoInode
      BY <2>1, <2>4 DEF Home
    <3>2. Stored(c) = File(c)
      BY <3>1 DEF Stored, File
    <3>3. Stored(c)' = content[dir[Tmp]]
      BY <2>1, <2>2, <2>3, <3>1 DEF Stored, Linked
    <3> QED
      BY <3>2, <3>3
  <2>7. ASSUME NEW d \in Chats, d # c PROVE Stored(d)' = Stored(d)
    BY <2>1, <2>2, <2>4, <2>7 DEF Stored, Linked
  <2>8. /\ u \notin MembersOf(c) /\ MembersOf(c)' = MembersOf(c) \union {u}
        /\ \A d \in Chats : d # c => MembersOf(d)' = MembersOf(d)
    BY <2>3, <2>4, <2>5, <2>6, <2>7 DEF MembersOf
  <2>9. \A d \in Chats : LogOf(d)' = LogOf(d)
    BY <2>3, <2>4, <2>6, <2>7 DEF LogOf
  <2>10. members' = [members EXCEPT ![c] = @ \union {u}]
    BY <2>8
  <2>11. log' = log
    BY <2>9
  <2>12. Abstract!Join(c, u)
    BY <2>8, <2>10, <2>11 DEF Abstract!Join
  <2> QED
    BY <2>12 DEF Abstract!Next
<1>3. ASSUME NEW t \in Threads, append(t) PROVE Abstract!Next
  <2>1. /\ worker[t].pc = "append" /\ Linked(Home(t)) /\ dir' = dir
        /\ File(Cid(t)) = content[dir[Home(t)]]
        /\ Uid(t) \in RowKeys(File(Cid(t)))
        /\ \A n \in Names : Linked(n) /\ n # Home(t) => content'[dir[n]] = content[dir[n]]
        /\ Posted(content'[dir[Home(t)]], File(Cid(t)), Cid(t), AppliedIn(Cid(t)),
                  worker[t].msg, Uid(t))
    BY <1>3, Appended
  <2>2. PICK c \in Chats : c = Cid(t)
    BY <2>1, BusyChat
  <2>3. PICK u \in Users : u = Uid(t)
    BY <2>1, BusyChat
  <2>4. PICK n \in 1 .. MaxMessages : n = worker[t].msg
    <3>1. worker[t].msg \in 1 .. Len(received)
      BY <2>1, BusyChat
    <3>2. Len(received) \in Nat /\ Len(received) <= MaxMessages
      BY LenProperties DEF TypeOK
    <3> QED
      BY <3>1, <3>2, BoundsAssumption
  <2>5. Stored(c) = File(c) /\ Stored(c)' = content'[dir[Home(t)]]
    BY <2>1, <2>2 DEF Stored, Linked, Home, File
  <2>6. ASSUME NEW d \in Chats, d # c PROVE Stored(d)' = Stored(d)
    <3>1. ChatFile(d) \in Names /\ ChatFile(d) # Home(t) /\ Tmp \in Names /\ Tmp # Home(t)
      BY <2>2, <2>6, FileNames DEF Home
    <3> QED
      BY <2>1, <3>1 DEF Stored, Linked
  <2>7. Posted(Stored(c)', Stored(c), c, AppliedIn(c), n, u)
    BY <2>1, <2>2, <2>3, <2>4, <2>5
  <2>8. /\ MembersOf(c)' = MembersOf(c)
        /\ LogOf(c)' = Append(LogOf(c), [number |-> n, uid |-> u])
    BY <2>7 DEF Posted, MembersOf, LogOf
  <2>9. \A d \in Chats : d # c => MembersOf(d)' = MembersOf(d) /\ LogOf(d)' = LogOf(d)
    BY <2>6 DEF MembersOf, LogOf
  <2>10. u \in MembersOf(c)
    BY <2>1, <2>2, <2>3, <2>5 DEF MembersOf
  <2>11. ASSUME NEW d \in Chats PROVE n \notin Abstract!Logged(d)
    <3>1. n \notin AppliedIn(d)
      BY <2>1, <2>4, BusyChat DEF AppliedIn, CallerOK
    <3>2. Abstract!Logged(d) = {LogOf(d)[i].number : i \in DOMAIN LogOf(d)}
      BY DEF Abstract!Logged
    <3>3. PICK s \in Seq(Token) : s = Stored(d) /\ Complete(s, d, AppliedIn(d))
      BY StoredComplete
    <3>4. PICK p \in Nat : Shape(s, d, p)
      BY <3>3 DEF Complete
    <3>5. d \in Nat
      BY IdsAssumption
    <3>6. LogOf(d) = [k \in 1 .. Len(s) - p |->
                         [number |-> s[p + k].key, uid |-> s[p + k].uid]]
      BY <3>3, <3>4, <3>5, PostsOfShape DEF LogOf
    <3>7. Posts(s) = p + 1 .. Len(s) /\ Len(s) \in Nat
      BY <3>3, <3>4, <3>5, ShapeParts
    <3>8. ASSUME NEW k \in 1 .. Len(s) - p PROVE s[p + k].key # n
      <4>1. p + k \in Posts(s)
        BY <3>4, <3>7
      <4>2. s[p + k].key \in AppliedIn(d)
        BY <3>3, <4>1 DEF Complete, HasPosts
      <4> QED
        BY <3>1, <4>2
    <3> QED
      BY <3>2, <3>6, <3>8
  <2>12. log' = [log EXCEPT ![c] = Append(@, [number |-> n, uid |-> u])]
    BY <2>8, <2>9
  <2>13. members' = members
    BY <2>8, <2>9
  <2>14. Abstract!Say(c, u, n)
    BY <2>10, <2>11, <2>12, <2>13 DEF Abstract!Say
  <2> QED
    BY <2>14 DEF Abstract!Next
<1> QED
  BY <1>1, <1>2, <1>3

\* The files implement the abstract chats: every step adds one member, or one
\* post of a member, or changes nothing that a chat is.
THEOREM ImplementsChatLogHolds == Spec => ImplementsChatLog
<1>1. TypeOK /\ Inv /\ TypeOK' /\ [Next]_vars => [Abstract!Next]_(Abstract!vars)
  BY AbstractStep
<1> QED
  BY <1>1, AbstractStart, ApartInv, PTL DEF Spec, ImplementsChatLog, Abstract!Spec
=============================================================================
