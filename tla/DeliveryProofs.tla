--------------------------- MODULE DeliveryProofs ---------------------------
(***************************************************************************)
(* What is posted was sent, in order and in its sender's name, for any     *)
(* streams and any way in which events join their messages.                *)
(***************************************************************************)
EXTENDS Delivery, WireProofs

-----------------------------------------------------------------------------
(* Concatenation: the buffer of an event, the chunks of a text.             *)

\* w[k] is F[1] to F[k], one behind the other.
Concatenates(w, n, F) ==
    /\ w[0] = <<>>
    /\ \A k \in 1 .. n : w[k] = w[k - 1] \o F[k]

\* Such a function exists for every list of parts.
LEMMA ConcatenationExists ==
    ASSUME NEW n \in Nat, NEW F \in [1 .. n -> Seq(Nat)]
    PROVE  \E g : g = [k \in 0 .. n |-> g[k]] /\ Concatenates(g, n, F)
<1> DEFINE step == [p \in (1 .. n) \X Seq(Nat) |-> p[2] \o F[p[1]]]
<1>1. step \in [(1 .. n) \X Seq(Nat) -> Seq(Nat)]
  <2>1. ASSUME NEW p \in (1 .. n) \X Seq(Nat) PROVE p[2] \o F[p[1]] \in Seq(Nat)
    <3>1. p[1] \in 1 .. n /\ p[2] \in Seq(Nat)
      OBVIOUS
    <3>2. F[p[1]] \in Seq(Nat)
      BY <3>1, Zenon
    <3> QED
      BY <3>1, <3>2, Joined
  <2> QED
    BY <2>1
<1>2. PICK base \in Seq(Nat) : base = <<>>
  <2>1. <<>> \in Seq(Nat)
    OBVIOUS
  <2> QED
    BY <2>1, Zenon
<1>3. PICK g : Computes(g, Seq(Nat), base, n, step)
  <2> HIDE DEF step
  <2> QED
    BY <1>1, Recursive
<1>4. /\ g \in [0 .. n -> Seq(Nat)] /\ g[0] = base
      /\ \A k \in 1 .. n : g[k] = step[<<k, g[k - 1]>>]
  BY <1>3, Zenon DEF Computes
<1>5. ASSUME NEW k \in 1 .. n PROVE g[k] = g[k - 1] \o F[k]
  <2>1. PICK x \in Seq(Nat) : x = g[k - 1]
    <3>1. k - 1 \in 0 .. n
      OBVIOUS
    <3> QED
      BY <1>4, <3>1, Zenon
  <2>2. step[<<k, x>>] = x \o F[k]
    OBVIOUS
  <2> QED
    BY <1>4, <2>1, <2>2, Zenon
<1>6. g = [k \in 0 .. n |-> g[k]]
  BY <1>4
<1> QED
  BY <1>2, <1>4, <1>5, <1>6, Zenon DEF Concatenates

\* All it takes on are sequences.
LEMMA ConcatenationIs ==
    ASSUME NEW n \in Nat, NEW F \in [1 .. n -> Seq(Nat)], NEW w, Concatenates(w, n, F)
    PROVE  \A k \in 0 .. n : w[k] \in Seq(Nat)
<1> DEFINE T == {k \in 0 .. n : w[k] \in Seq(Nat)}
<1>1. 0 \in T
  <2>1. <<>> \in Seq(Nat) /\ 0 \in 0 .. n
    OBVIOUS
  <2> QED
    BY <2>1, Zenon DEF Concatenates
<1>2. ASSUME NEW k \in 1 .. n, k - 1 \in T PROVE k \in T
  <2>1. PICK x \in Seq(Nat), y \in Seq(Nat) : x = w[k - 1] /\ y = F[k]
    BY <1>2
  <2>2. w[k] = x \o y
    BY <2>1, Zenon DEF Concatenates
  <2>3. x \o y \in Seq(Nat) /\ k \in 0 .. n
    OBVIOUS
  <2> QED
    BY <2>2, <2>3, Zenon
<1>3. \A k \in 0 .. n : k \in T
  <2> HIDE DEF T
  <2> QED
    BY <1>1, <1>2, UpTo
<1> QED
  BY <1>3, Zenon

\* Concatenation is associative.
LEMMA Associative ==
    ASSUME NEW p \in Seq(Nat), NEW t \in Seq(Nat), NEW y \in Seq(Nat)
    PROVE  (p \o t) \o y = p \o (t \o y) /\ t \o y \in Seq(Nat)
<1>1. t \o y \in Seq(Nat)
  BY Joined
<1>2. (p \o t) \o y = p \o (t \o y)
  BY ConcatAssociative, SMTT(60)
<1> QED
  BY <1>1, <1>2, Zenon

\* A buffer begins with the message that is next on the stream.
LEMMA BundleBegins ==
    ASSUME rest \in Seq(Messages), NEW n \in 1 .. Len(rest)
    PROVE  \E t \in Seq(Nat) : Bundle(n) = PackMessage(rest[1]) \o t
<1>1. n \in Nat /\ \A k \in 1 .. n : rest[k] \in Messages
  OBVIOUS
<1>2. PICK F \in [1 .. n -> Seq(Nat)] : \A k \in 1 .. n : F[k] = PackMessage(rest[k])
  <2> DEFINE G == [k \in 1 .. n |-> PackMessage(rest[k])]
  <2>1. ASSUME NEW k \in 1 .. n PROVE PackMessage(rest[k]) \in Seq(Nat)
    <3>1. IsMessage(rest[k])
      BY <1>1, MessagesAssumption DEF IsMessage
    <3> QED
      BY <3>1, Measured
  <2>2. G \in [1 .. n -> Seq(Nat)] /\ \A k \in 1 .. n : G[k] = PackMessage(rest[k])
    BY <2>1
  <2> QED
    BY <2>2, Zenon
<1> DEFINE Is(b) == b = [k \in 0 .. n |-> IF k = 0 THEN <<>> ELSE b[k - 1] \o PackMessage(rest[k])]
<1>3. \E g : Is(g)
  <2>1. PICK g : g = [k \in 0 .. n |-> g[k]] /\ Concatenates(g, n, F)
    BY <1>1, <1>2, ConcatenationExists
  <2>2. ASSUME NEW k \in 0 .. n
        PROVE  g[k] = IF k = 0 THEN <<>> ELSE g[k - 1] \o PackMessage(rest[k])
    <3>1. k = 0 \/ k \in 1 .. n
      OBVIOUS
    <3>2. k \in 1 .. n => k # 0
      OBVIOUS
    <3> QED
      BY <1>2, <2>1, <3>1, <3>2, Zenon DEF Concatenates
  <2>3. Is(g)
    BY <2>1, <2>2, Zenon
  <2> QED
    BY <2>3
<1>4. PICK b : Is(b) /\ Bundle(n) = b[n]
  <2> DEFINE v == CHOOSE b : b = [k \in 0 .. n |-> IF k = 0 THEN <<>> ELSE b[k - 1] \o PackMessage(rest[k])]
  <2>1. Bundle(n) = v[n]
    BY DEF Bundle
  <2>2. Is(v)
    BY <1>3
  <2> QED
    BY <2>1, <2>2
<1>5. Concatenates(b, n, F)
  <2>1. b[0] = <<>>
    BY <1>4, <1>1
  <2>2. ASSUME NEW k \in 1 .. n PROVE b[k] = b[k - 1] \o F[k]
    <3>1. k \in 0 .. n /\ k # 0
      OBVIOUS
    <3>2. b[k] = b[k - 1] \o PackMessage(rest[k])
      BY <1>4, <3>1, Zenon
    <3> QED
      BY <1>2, <3>2, Zenon
  <2> QED
    BY <2>1, <2>2, Zenon DEF Concatenates
<1>6. \A k \in 0 .. n : b[k] \in Seq(Nat)
  BY <1>1, <1>5, ConcatenationIs
<1>7. PICK p \in Seq(Nat) : p = F[1]
  BY <1>2
<1> DEFINE Begins(k) == \E t \in Seq(Nat) : b[k] = p \o t
           T == {k \in 0 .. n : k # 0 => Begins(k)}
<1>8. 0 \in T
  OBVIOUS
<1>9. ASSUME NEW k \in 1 .. n, k - 1 \in T PROVE k \in T
  <2>1. PICK y \in Seq(Nat) : y = F[k] /\ b[k] = b[k - 1] \o y
    BY <1>2, <1>5, Zenon DEF Concatenates
  <2>2. CASE k = 1
    <3>1. k - 1 = 0 /\ k \in 0 .. n
      BY <2>2
    <3>2. b[k] = <<>> \o p
      BY <1>5, <1>7, <2>1, <2>2, <3>1, Zenon DEF Concatenates
    <3>3. <<>> \o p = p \o <<>> /\ <<>> \in Seq(Nat)
      OBVIOUS
    <3> QED
      BY <3>1, <3>2, <3>3, Zenon
  <2>3. CASE k # 1
    <3>1. k - 1 # 0
      BY <2>3
    <3>2. PICK t \in Seq(Nat) : b[k - 1] = p \o t
      BY <1>9, <3>1
    <3>3. (p \o t) \o y = p \o (t \o y) /\ t \o y \in Seq(Nat)
      BY Associative
    <3>4. b[k] = p \o (t \o y)
      BY <2>1, <3>2, <3>3, Zenon
    <3>5. k \in 0 .. n
      OBVIOUS
    <3> QED
      BY <3>3, <3>4, <3>5, Zenon
  <2> QED
    BY <2>2, <2>3
<1>10. \A k \in 0 .. n : k \in T
  <2> HIDE DEF T
  <2> QED
    BY <1>1, <1>8, <1>9, UpTo
<1>11. n \in 0 .. n /\ n # 0 /\ 1 \in 1 .. n
  OBVIOUS
<1>12. Begins(n)
  BY <1>10, <1>11, Zenon
<1> QED
  BY <1>2, <1>4, <1>7, <1>11, <1>12, Zenon

-----------------------------------------------------------------------------
(* Texts.                                                                   *)

\* A string is a sequence of what it is read from.
LEMMA UpToZeroIs ==
    ASSUME NEW s \in Seq(Nat)
    PROVE  UpToZero(s) \in Seq(Nat)
<1> DEFINE S == {n \in 0 .. Len(s) : n = Len(s) \/ s[n + 1] = 0}
           Ends(n) == /\ n = Len(s) \/ s[n + 1] = 0
                      /\ \A i \in 1 .. n : s[i] # 0
<1>1. S \in SUBSET Nat /\ S # {}
  <2>1. Len(s) \in S
    OBVIOUS
  <2> QED
    BY <2>1
<1>2. PICK n \in S : \A m \in S : n <= m
  <2> HIDE DEF S
  <2> QED
    BY <1>1, LeastExists
<1>3. ASSUME NEW i \in 1 .. n, s[i] = 0 PROVE FALSE
  <2>1. n \in 0 .. Len(s)
    OBVIOUS
  <2>2. i - 1 \in 0 .. Len(s) /\ i - 1 + 1 = i /\ ~(n <= i - 1)
    BY <2>1
  <2>3. i - 1 \in S
    BY <1>3, <2>2
  <2> QED
    BY <1>2, <2>2, <2>3
<1>4. n \in 0 .. Len(s) /\ Ends(n)
  BY <1>3
<1>5. PICK m \in 0 .. Len(s) : m = CHOOSE x \in 0 .. Len(s) : Ends(x)
  BY <1>4
<1>6. UpToZero(s) = SubSeq(s, 1, m)
  BY <1>5 DEF UpToZero
<1>7. SubSeq(s, 1, m) \in Seq(Nat)
  <2>1. \A k \in 1 .. m : k \in 1 .. Len(s)
    OBVIOUS
  <2> QED
    BY <2>1
<1> QED
  BY <1>6, <1>7

\* A part of a sequence, element by element.
LEMMA Piece ==
    ASSUME NEW S, NEW t \in Seq(S), NEW a \in Nat, NEW e \in Nat, a <= e, e <= Len(t)
    PROVE  /\ SubSeq(t, a + 1, e) \in Seq(S) /\ Len(SubSeq(t, a + 1, e)) = e - a
           /\ \A x \in 1 .. e - a : SubSeq(t, a + 1, e)[x] = t[a + x]
<1>1. PICK i \in Nat : i = a + 1
  OBVIOUS
<1>2. i \in 1 .. Len(t) + 1 /\ e \in i - 1 .. Len(t) /\ e - i + 1 = e - a
  BY <1>1
<1>3. /\ SubSeq(t, i, e) \in Seq(S) /\ Len(SubSeq(t, i, e)) = e - i + 1
      /\ \A x \in 1 .. e - i + 1 : SubSeq(t, i, e)[x] = t[i + x - 1]
  BY <1>2, SubSeqProperties
<1>4. \A x \in 1 .. e - a : i + x - 1 = a + x
  BY <1>1
<1> QED
  BY <1>1, <1>2, <1>3, <1>4, Zenon

\* A concatenation, element by element.
LEMMA JoinedElements ==
    ASSUME NEW s \in Seq(Nat), NEW p \in Seq(Nat)
    PROVE  /\ s \o p \in Seq(Nat) /\ Len(s \o p) = Len(s) + Len(p)
           /\ \A i \in 1 .. Len(s) : (s \o p)[i] = s[i]
           /\ \A x \in 1 .. Len(p) : (s \o p)[Len(s) + x] = p[x]
  OBVIOUS

\* s is made of characters of t, one in ChunkLen of which is left out.
Thinned(s, t) == \A i \in 1 .. Len(s) : s[i] = t[i + (i - 1) \div (ChunkLen - 1)]

\* s is what is written of the first e characters of t when j are lost.
Written(s, t, j, e) == s \in Seq(Nat) /\ Len(s) = e - j /\ Thinned(s, t)

\* One more chunk, of which the characters up to e are written.
LEMMA ChunkAdds ==
    ASSUME NEW t \in Seq(Nat), NEW s, NEW C \in Nat \ {0, 1}, C = ChunkLen,
           NEW j \in Nat, NEW e \in Nat, NEW a \in Nat,
           a = j * C, a <= e, e <= Len(t), e <= a + C - 1,
           Written(s, t, j, a)
    PROVE  Written(s \o SubSeq(t, a + 1, e), t, j, e)
<1>1. PICK Q \in Nat \ {0} : Q = ChunkLen - 1 /\ C = Q + 1
  OBVIOUS
<1>2. PICK b \in Nat : s \in Seq(Nat) /\ b = Len(s) /\ b = j * Q /\ b + j = a
  <2>1. j * (Q + 1) = j * Q + j /\ j * Q \in Nat
    OBVIOUS
  <2>2. s \in Seq(Nat) /\ Len(s) = a - j
    BY DEF Written
  <2> QED
    BY <1>1, <2>1, <2>2
<1>3. PICK n \in Nat : n = e - a
  OBVIOUS
<1>4. PICK p \in Seq(Nat) : /\ p = SubSeq(t, a + 1, e) /\ Len(p) = n
                            /\ \A x \in 1 .. n : p[x] = t[a + x]
  <2>1. /\ SubSeq(t, a + 1, e) \in Seq(Nat) /\ Len(SubSeq(t, a + 1, e)) = e - a
        /\ \A x \in 1 .. e - a : SubSeq(t, a + 1, e)[x] = t[a + x]
    BY Piece
  <2> QED
    BY <1>3, <2>1, Zenon
<1>5. PICK u \in Seq(Nat) : /\ u = s \o p /\ Len(u) = b + n
                            /\ \A i \in 1 .. b : u[i] = s[i]
                            /\ \A x \in 1 .. n : u[b + x] = p[x]
  <2>1. /\ s \o p \in Seq(Nat) /\ Len(s \o p) = Len(s) + Len(p)
        /\ \A i \in 1 .. Len(s) : (s \o p)[i] = s[i]
        /\ \A x \in 1 .. Len(p) : (s \o p)[Len(s) + x] = p[x]
    BY <1>2, JoinedElements
  <2>2. Len(s) = b /\ Len(p) = n
    BY <1>2, <1>4, Zenon
  <2> QED
    BY <2>1, <2>2, Zenon
<1>6. Len(u) = e - j
  <2>1. Len(u) = b + n
    BY <1>5
  <2>2. b + n = e - j
    BY ONLY <1>2, <1>3, b \in Nat, n \in Nat, a \in Nat, j \in Nat, e \in Nat
  <2> QED
    BY <2>1, <2>2, Zenon
<1>7. ASSUME NEW i \in 1 .. b + n PROVE u[i] = t[i + (i - 1) \div Q]
  <2>1. CASE i \in 1 .. b
    <3>1. s[i] = t[i + (i - 1) \div Q]
      BY <1>1, <1>2, <2>1, Zenon DEF Written, Thinned
    <3> QED
      BY <1>5, <2>1, <3>1
  <2>2. CASE i \notin 1 .. b
    <3>1. PICK x \in Nat, r \in Nat :
             r = x - 1 /\ x \in 1 .. n /\ i = b + x /\ i - 1 = r + b
      BY <2>2
    <3>2. r < Q
      BY <1>1, <1>3, <3>1
    <3>3. (r + j * Q) \div Q = j
      BY <3>2, DividedSum
    <3>4. (i - 1) \div Q = j
      BY <1>2, <3>1, <3>3, Zenon
    <3>5. i + j = a + x
      <4>1. b + x + j = a + x
        BY ONLY <1>2, b \in Nat, x \in Nat, a \in Nat, j \in Nat
      <4> QED
        BY <3>1, <4>1, Zenon
    <3>6. u[i] = t[a + x]
      <4>1. u[b + x] = p[x] /\ p[x] = t[a + x]
        BY <1>4, <1>5, <3>1, Zenon
      <4> QED
        BY <3>1, <4>1, Zenon
    <3> QED
      BY <3>4, <3>5, <3>6, Zenon
  <2> QED
    BY <2>1, <2>2
<1>8. Thinned(u, t)
  BY <1>1, <1>5, <1>7, Zenon DEF Thinned
<1> QED
  BY <1>4, <1>5, <1>6, <1>8, Zenon DEF Written

\* Multiplication is monotonic.
LEMMA Products ==
    ASSUME NEW k \in Nat, NEW q \in Nat, NEW C \in Nat, k <= q
    PROVE  k * C \in Nat /\ q * C \in Nat /\ k * C <= q * C
<1>1. PICK d \in Nat : q = k + d
  <2>1. q - k \in Nat /\ q = k + (q - k)
    OBVIOUS
  <2> QED
    BY <2>1
<1>2. (k + d) * C = k * C + d * C /\ k * C \in Nat /\ d * C \in Nat
  OBVIOUS
<1>3. q * C = k * C + d * C
  BY <1>1, <1>2
<1> QED
  BY <1>2, <1>3

\* The number of chunks: the full ones, and one for the rest.
LEMMA Chunks ==
    ASSUME NEW L \in Nat, NEW C \in Nat \ {0}
    PROVE  \E q \in Nat, r \in 0 .. C - 1, a \in Nat :
              /\ q = L \div C /\ a = q * C /\ L = a + r
              /\ (L + C - 1) \div C = IF r = 0 THEN q ELSE q + 1
<1>1. PICK q \in Nat, r \in 0 .. C - 1 : q = L \div C /\ r = L % C /\ L = q * C + r
  BY Divided
<1>2. PICK a \in Nat : a = q * C
  OBVIOUS
<1>3. CASE r = 0
  <2>1. PICK m \in Nat : m = C - 1 /\ m < C
    OBVIOUS
  <2>2. (m + q * C) \div C = q
    BY <2>1, DividedSum
  <2>3. L + C - 1 = m + a
    BY <1>1, <1>2, <1>3, <2>1
  <2> QED
    BY <1>1, <1>2, <1>3, <2>2, <2>3
<1>4. CASE r # 0
  <2>1. PICK m \in Nat : m = r - 1 /\ m < C
    BY <1>4
  <2>2. (m + (q + 1) * C) \div C = q + 1
    BY <2>1, DividedSum
  <2>3. (q + 1) * C = q * C + C
    OBVIOUS
  <2>4. L + C - 1 = m + (a + C)
    BY <1>1, <1>2, <2>1
  <2>5. (L + C - 1) \div C = q + 1
    BY <1>2, <2>2, <2>3, <2>4, Zenon
  <2>6. L = a + r
    BY <1>1, <1>2
  <2> QED
    BY <1>1, <1>2, <1>4, <2>5, <2>6
<1> QED
  BY <1>3, <1>4

\* The last character of chunk k that is written.
ChunkEnd(k, L) == IF k * ChunkLen <= L THEN k * ChunkLen - 1 ELSE L

\* F has the n chunks of t, without what each one loses.
ChunksOf(F, n, t) ==
    \A k \in 1 .. n : F[k] = SubSeq(t, (k - 1) * ChunkLen + 1, ChunkEnd(k, Len(t)))

\* All chunks of a text together keep what each one keeps.
LEMMA ChunksKeep ==
    ASSUME NEW t \in Seq(Nat), NEW L \in Nat, L = Len(t), NEW C \in Nat \ {0, 1}, C = ChunkLen,
           NEW q \in Nat, NEW r \in 0 .. C - 1, NEW a \in Nat, a = q * C, L = a + r,
           NEW n \in Nat, n = IF r = 0 THEN q ELSE q + 1,
           NEW F \in [1 .. n -> Seq(Nat)], NEW w, Concatenates(w, n, F), ChunksOf(F, n, t)
    PROVE  Written(w[n], t, q, L)
<1>1. q <= n
  OBVIOUS
<1> DEFINE Good(k) == Written(w[k], t, k, k * C)
           T == {k \in 0 .. q : Good(k)}
<1>3. 0 \in T
  <2>1. w[0] = <<>>
    BY DEF Concatenates
  <2>2. w[0] \in Seq(Nat) /\ Len(w[0]) = 0 /\ 1 .. 0 = {} /\ 0 * C = 0 /\ 0 - 0 = 0 /\ 0 \in 0 .. q
    BY <2>1
  <2>3. Thinned(w[0], t)
    BY <2>2, Zenon DEF Thinned
  <2> QED
    BY <2>2, <2>3, Zenon DEF Written
<1>4. ASSUME NEW k \in 1 .. q, k - 1 \in T PROVE k \in T
  <2>1. PICK j \in Nat : j = k - 1 /\ k = j + 1 /\ j \in 0 .. n /\ k \in 1 .. n /\ k \in 0 .. q
    OBVIOUS
  <2>2. PICK b \in Nat, c \in Nat : b = j * C /\ c = k * C /\ c <= L /\ c = b + C
    <3>1. k * C \in Nat /\ k * C <= q * C
      BY Products
    <3>2. (j + 1) * C = j * C + C /\ j * C \in Nat
      OBVIOUS
    <3>3. k * C <= L
      <4>1. PICK x \in Nat : x = k * C
        BY <3>1
      <4>2. x <= a /\ r \in Nat
        BY <3>1, <4>1
      <4>3. x <= a + r
        BY ONLY <4>2, x \in Nat, a \in Nat
      <4> QED
        BY <4>1, <4>3, Zenon
    <3> QED
      BY <2>1, <3>1, <3>2, <3>3
  <2>3. PICK e \in Nat : e = c - 1 /\ b <= e /\ e <= L /\ e <= b + C - 1
    <3>1. c <= L /\ c = b + C
      BY <2>2
    <3> QED
      BY ONLY <3>1, b \in Nat, c \in Nat, L \in Nat, C \in Nat \ {0, 1}
  <2>4. F[k] = SubSeq(t, b + 1, e)
    BY <2>1, <2>2, <2>3, Zenon DEF ChunksOf, ChunkEnd
  <2>5. PICK s : s = w[j] /\ w[k] = s \o F[k]
    BY <2>1, Zenon DEF Concatenates
  <2>6. Written(s, t, j, b)
    BY <1>4, <2>1, <2>2, <2>5, Zenon
  <2>7. b = j * C /\ b <= e /\ e <= Len(t) /\ e <= b + C - 1
    BY <2>2, <2>3, Zenon
  <2>8. Written(s \o SubSeq(t, b + 1, e), t, j, e)
    BY <2>6, <2>7, ChunkAdds, Zenon
  <2>9. Written(w[k], t, j, e)
    BY <2>4, <2>5, <2>8, Zenon
  <2>10. e - j = c - k
    BY <2>1, <2>3
  <2>11. Written(w[k], t, k, c)
    BY <2>9, <2>10, Zenon DEF Written
  <2> QED
    BY <2>1, <2>2, <2>11, Zenon
<1>5. \A k \in 0 .. q : k \in T
  <2> HIDE DEF T
  <2> QED
    BY <1>3, <1>4, UpTo
<1>6. PICK s : s = w[q] /\ Written(s, t, q, a)
  <2>1. q \in 0 .. q
    OBVIOUS
  <2> QED
    BY <1>5, <2>1, Zenon
<1>7. CASE r = 0
  <2>1. n = q /\ L = a
    BY <1>7
  <2> QED
    BY <1>6, <2>1, Zenon
<1>8. CASE r # 0
  <2>1. n = q + 1 /\ n - 1 = q /\ n \in 1 .. n
    BY <1>8
  <2>2. PICK c \in Nat : c = n * C /\ c = a + C
    <3>1. (q + 1) * C = q * C + C /\ q * C \in Nat
      OBVIOUS
    <3> QED
      BY <1>1, <2>1, <3>1
  <2>3. ~(c <= L) /\ a <= L /\ L <= a + C - 1
    BY <1>1, <2>2
  <2>4. F[n] = SubSeq(t, a + 1, L)
    BY <2>1, <2>2, <2>3, Zenon DEF ChunksOf, ChunkEnd
  <2>5. w[n] = s \o F[n]
    BY <1>6, <2>1, Zenon DEF Concatenates
  <2>6. Written(s \o SubSeq(t, a + 1, L), t, q, L)
    <3>1. a = q * C /\ a <= L /\ L <= Len(t) /\ L <= a + C - 1
      BY <2>3
    <3> QED
      BY <1>6, <3>1, ChunkAdds, Zenon
  <2> QED
    BY <2>4, <2>5, <2>6, Zenon
<1> QED
  BY <1>7, <1>8

\* What addNewPost writes of a text is the text without every ChunkLen-th character.
LEMMA WrittenKeeps ==
    ASSUME NEW t \in Seq(Nat)
    PROVE  Keeps(written(t), t)
<1>1. PICK C \in Nat \ {0, 1}, L \in Nat : C = ChunkLen /\ L = Len(t)
  BY ChunkAssumption
<1>2. PICK q \in Nat, r \in 0 .. C - 1, a \in Nat :
         /\ q = L \div C /\ a = q * C /\ L = a + r
         /\ (L + C - 1) \div C = IF r = 0 THEN q ELSE q + 1
  BY Chunks
<1>3. PICK n \in Nat : n = (L + C - 1) \div C /\ n = IF r = 0 THEN q ELSE q + 1
  BY <1>2
<1>4. PICK F \in [1 .. n -> Seq(Nat)] : ChunksOf(F, n, t)
  <2> DEFINE G == [k \in 1 .. n |-> SubSeq(t, (k - 1) * ChunkLen + 1, ChunkEnd(k, Len(t)))]
  <2>1. ASSUME NEW k \in 1 .. n
        PROVE  SubSeq(t, (k - 1) * ChunkLen + 1, ChunkEnd(k, Len(t))) \in Seq(Nat)
    <3>1. PICK j \in Nat : j = k - 1 /\ k = j + 1
      OBVIOUS
    <3>2. PICK b \in Nat, c \in Nat : b = j * C /\ c = k * C /\ b + C = c
      <4>1. (j + 1) * C = j * C + C /\ j * C \in Nat
        OBVIOUS
      <4> QED
        BY <3>1, <4>1
    <3>3. PICK e \in Nat : e = ChunkEnd(k, Len(t)) /\ e <= L
      <4>1. ChunkEnd(k, Len(t)) = IF c <= L THEN c - 1 ELSE L
        BY <1>1, <3>2, Zenon DEF ChunkEnd
      <4>2. c \in Nat \ {0}
        BY ONLY <3>2, b \in Nat, c \in Nat, C \in Nat \ {0, 1}
      <4> QED
        BY ONLY <4>1, <4>2, L \in Nat
    <3>4. SubSeq(t, b + 1, e) \in Seq(Nat)
      <4>1. \A i \in b + 1 .. e : i \in 1 .. Len(t)
        BY ONLY <1>1, <3>3, b \in Nat, e \in Nat, L \in Nat
      <4> QED
        BY ONLY <4>1, t \in Seq(Nat), b \in Nat, e \in Nat
    <3> QED
      BY <1>1, <3>1, <3>2, <3>3, <3>4, Zenon
  <2>2. G \in [1 .. n -> Seq(Nat)]
    BY <2>1, Zenon
  <2>3. \A k \in 1 .. n : G[k] = SubSeq(t, (k - 1) * ChunkLen + 1, ChunkEnd(k, Len(t)))
    BY Zenon
  <2>4. ChunksOf(G, n, t)
    BY <2>3, Zenon DEF ChunksOf
  <2> QED
    BY <2>2, <2>4, Zenon
<1> DEFINE Chunk(k) == SubSeq(t, (k - 1) * ChunkLen + 1,
                            IF k * ChunkLen <= Len(t) THEN k * ChunkLen - 1 ELSE Len(t))
           Is(w) == w = [k \in 0 .. n |-> IF k = 0 THEN <<>> ELSE w[k - 1] \o Chunk(k)]
<1>5. \A k \in 1 .. n : F[k] = Chunk(k)
  BY <1>4, Zenon DEF ChunksOf, ChunkEnd
<1>6. \E g : Is(g)
  <2>1. PICK g : g = [k \in 0 .. n |-> g[k]] /\ Concatenates(g, n, F)
    BY ConcatenationExists
  <2>2. ASSUME NEW k \in 0 .. n PROVE g[k] = IF k = 0 THEN <<>> ELSE g[k - 1] \o Chunk(k)
    <3> HIDE DEF Chunk
    <3>1. k = 0 \/ k \in 1 .. n
      BY ONLY k \in 0 .. n, n \in Nat
    <3>2. k \in 1 .. n => k # 0
      BY ONLY n \in Nat
    <3> QED
      BY <1>5, <2>1, <3>1, <3>2, Zenon DEF Concatenates
  <2>3. Is(g)
    BY <2>1, <2>2, Zenon
  <2> QED
    BY <2>3, Zenon
<1>7. PICK w : Is(w) /\ written(t) = w[n]
  <2> DEFINE v == CHOOSE w : Is(w)
  <2>1. written(t) = v[n]
    <3>1. n = (Len(t) + ChunkLen - 1) \div ChunkLen
      BY <1>1, <1>3, Zenon
    <3> QED
      BY <3>1, Zenon DEF written
  <2>2. Is(v)
    BY <1>6, Zenon
  <2> QED
    BY <2>1, <2>2, Zenon
<1>8. Concatenates(w, n, F)
  <2> HIDE DEF Chunk
  <2>1. 0 \in 0 .. n /\ \A k \in 1 .. n : k \in 0 .. n /\ k # 0
    BY ONLY n \in Nat
  <2>2. w[0] = <<>>
    BY <1>7, <2>1, Zenon
  <2>3. ASSUME NEW k \in 1 .. n PROVE w[k] = w[k - 1] \o F[k]
    BY <1>5, <1>7, <2>1, Zenon
  <2> QED
    BY <2>2, <2>3, Zenon DEF Concatenates
<1>9. Written(w[n], t, q, L)
  BY <1>1, <1>2, <1>3, <1>4, <1>8, ChunksKeep, Zenon
<1> QED
  BY <1>1, <1>2, <1>7, <1>9, Zenon DEF Keeps, Written, Thinned

-----------------------------------------------------------------------------
(* Unpacking a buffer that begins with a message.                           *)

\* The buffer holds sent, and then whatever t is.
Holding(t) ==
    /\ sent \in Messages /\ IsPost(sent)
    /\ beyond \in Seq(Nat) /\ t \in Seq(Nat)
    /\ bytes = PackMessage(sent) \o t

\* What a message of the stream is, and where it lies.
LEMMA HoldingIs ==
    ASSUME NEW t, Holding(t)
    PROVE  /\ IsMessage(sent) /\ sent.head.class = sent.head.data /\ Len(sent.frames) = 2
           /\ sent.frames[1] \in Frame /\ IsFrame(sent.frames[1]) /\ sent.frames[1].type = 0
           /\ sent.frames[2] \in Frame /\ IsFrame(sent.frames[2]) /\ sent.frames[2].type \in {2, 3}
           /\ \E y \in Seq(Nat) : memory = PackMessage(sent) \o y
<1>1. IsMessage(sent)
  BY MessagesAssumption DEF Holding, IsMessage
<1>2. sent.head.class = sent.head.data /\ Len(sent.frames) = 2
  BY DEF Holding, IsPost
<1>3. sent.frames[1].type = 0 /\ sent.frames[2].type \in {2, 3}
  BY DEF Holding, IsPost
<1>4. 1 \in 1 .. 2 /\ 2 \in 1 .. 2
  OBVIOUS
<1>5. \A k \in 1 .. 2 : sent.frames[k] \in Frame /\ IsFrame(sent.frames[k])
  BY <1>1, <1>2, MessageFrames
<1>6. PICK y \in Seq(Nat) : memory = PackMessage(sent) \o y
  <2>1. PICK p \in Seq(Nat), x \in Seq(Nat), z \in Seq(Nat) :
           p = PackMessage(sent) /\ x = t /\ z = beyond /\ bytes = p \o x
    BY <1>1, Measured, Zenon DEF Holding
  <2>2. (p \o x) \o z = p \o (x \o z) /\ x \o z \in Seq(Nat)
    BY Associative
  <2>3. memory = (p \o x) \o z
    BY <2>1, Zenon DEF memory
  <2> QED
    BY <2>1, <2>2, <2>3, Zenon
<1> QED
  BY <1>1, <1>2, <1>3, <1>4, <1>5, <1>6, Zenon

\* While a frame of sent is to come, the loop goes on to it, however the buffer
\* goes on behind sent.
LEMMA FrameToCome ==
    ASSUME NEW t, Holding(t), start = Cell(sent, 0), NEW k \in {0, 1},
           Got(sent, k, frames, curLoc, lastEnd)
    PROVE  /\ MoreFrames /\ curLoc \in Nat \ {0} /\ memory \in Seq(Nat)
           /\ At(memory, curLoc, SerializeFrameInto(sent.frames[k + 1]))
           /\ Cell(sent, k + 1) \in Nat
           /\ Cell(sent, k + 1) = curLoc + Len(SerializeFrameInto(sent.frames[k + 1]))
           /\ frameType = sent.frames[k + 1].type
<1>1. /\ IsMessage(sent) /\ Len(sent.frames) = 2
      /\ sent.frames[1] \in Frame /\ IsFrame(sent.frames[1]) /\ sent.frames[1].type = 0
      /\ sent.frames[2] \in Frame /\ IsFrame(sent.frames[2]) /\ sent.frames[2].type \in {2, 3}
  BY HoldingIs, Zenon
<1>2. PICK y \in Seq(Nat) : memory = PackMessage(sent) \o y
  BY HoldingIs, Zenon
<1>3. /\ 0 \in 0 .. 2 /\ 1 \in 0 .. 2 /\ 2 \in 0 .. 2 /\ 1 \in 1 .. 2 /\ 2 \in 1 .. 2
      /\ 1 - 1 = 0 /\ 2 - 1 = 1 /\ 0 + 1 = 1 /\ 1 + 1 = 2 /\ 0 # 1
  OBVIOUS
<1>4. PICK i0 \in Nat \ {0}, i1 \in Nat \ {0}, i2 \in Nat \ {0} :
         i0 = Cell(sent, 0) /\ i1 = Cell(sent, 1) /\ i2 = Cell(sent, 2)
  BY <1>1, <1>3, Measured, Zenon
<1>5. PICK s1 \in Seq(Nat), s2 \in Seq(Nat) :
         /\ s1 = SerializeFrameInto(sent.frames[1]) /\ Len(s1) >= 2
         /\ s2 = SerializeFrameInto(sent.frames[2]) /\ Len(s2) >= 2
  BY <1>1, <1>3, MessageFrames
<1>6. i1 = i0 + Len(s1) /\ i2 = i1 + Len(s2)
  BY <1>1, <1>3, <1>4, <1>5, Measured, Zenon
<1>7. PICK L \in Nat : L = Len(bytes) /\ i2 <= L + 1
  <2>1. PICK p \in Seq(Nat), x \in Seq(Nat) : p = PackMessage(sent) /\ bytes = p \o x
    BY <1>1, Measured, Zenon DEF Holding
  <2>2. i2 = Len(p) + 1
    BY <1>1, <1>4, <2>1, Measured, Zenon
  <2>3. PICK m \in Nat, n \in Nat : m = Len(p) /\ n = Len(x) /\ Len(p \o x) = m + n
    BY ONLY p \in Seq(Nat), x \in Seq(Nat)
  <2>4. m + n \in Nat /\ m + 1 <= (m + n) + 1
    OBVIOUS
  <2> QED
    BY <2>1, <2>2, <2>3, <2>4, Zenon
<1>8. /\ memory \in Seq(Nat) /\ At(memory, i0, s1) /\ At(memory, i1, s2)
  BY <1>1, <1>2, <1>3, <1>4, <1>5, InMemory, Zenon
<1>9. MoreFrames <=> lastEnd - i0 + 2 < L - (i0 - 1)
  BY <1>4, <1>7, Zenon DEF MoreFrames
<1>10. CASE k = 0
  <2>1. lastEnd = i0 /\ curLoc = i0
    BY <1>4, <1>10, Zenon DEF Got
  <2>2. MoreFrames
    BY <1>5, <1>6, <1>7, <1>9, <2>1
  <2>3. frameType = 0
    BY <1>1, <1>5, <1>8, <2>1, TransitRead DEF frameType
  <2> QED
    BY <1>1, <1>3, <1>4, <1>5, <1>6, <1>8, <1>10, <2>1, <2>2, <2>3, Zenon
<1>11. CASE k = 1
  <2>1. sent.frames[1].type # 2
    BY <1>1
  <2>2. lastEnd = i1 - 1 /\ curLoc = lastEnd + 1
    BY <1>3, <1>4, <1>11, <2>1, Zenon DEF Got
  <2>3. MoreFrames /\ curLoc = i1
    BY <1>5, <1>6, <1>7, <1>9, <2>2
  <2>4. frameType = sent.frames[2].type
    <3>1. CASE sent.frames[2].type = 2
      BY <1>1, <1>5, <1>8, <2>3, <3>1, ZeroRead DEF frameType
    <3>2. CASE sent.frames[2].type = 3
      BY <1>1, <1>5, <1>8, <2>3, <3>2, LengthRead DEF frameType
    <3> QED
      BY <1>1, <3>1, <3>2
  <2> QED
    BY <1>3, <1>4, <1>5, <1>6, <1>8, <1>11, <2>3, <2>4, Zenon
<1> QED
  BY <1>10, <1>11

\* fr is a list whose second element is f.
Second(fr, f) == \E S : fr \in Seq(S) /\ Len(fr) >= 2 /\ fr[2] = f

\* Appending leaves the second element alone.
LEMMA SecondStays ==
    ASSUME NEW fr, NEW f, NEW x, Second(fr, f)
    PROVE  Second(Append(fr, x), f)
<1>1. PICK S : fr \in Seq(S) /\ Len(fr) >= 2 /\ fr[2] = f
  BY Zenon DEF Second
<1>2. PICK R : R = S \cup {x}
  OBVIOUS
<1>3. fr \in Seq(R) /\ x \in R
  BY <1>1, <1>2
<1>4. Append(fr, x) \in Seq(R) /\ Len(Append(fr, x)) >= 2 /\ Append(fr, x)[2] = f
  BY <1>1, <1>3
<1> QED
  BY <1>4, Zenon DEF Second

\* How far a buffer that begins with sent is unpacked: the frames of sent come
\* first, and what is extracted behind them leaves them alone.
Underway ==
    /\ phase = "header" => frames = <<>>
    /\ phase # "header" =>
          /\ head = sent.head /\ start = Cell(sent, 0)
          /\ \/ Second(frames, sent.frames[2])
             \/ /\ phase = "frames"
                /\ \E k \in {0, 1} : Got(sent, k, frames, curLoc, lastEnd)

\* The header read is that of sent.
LEMMA HeaderFirst ==
    ASSUME NEW t, Holding(t), Underway, unpackHeader
    PROVE  Underway'
<1>1. IsMessage(sent)
  BY HoldingIs, Zenon
<1>2. head' = sent.head
  <2>1. PICK y \in Seq(Nat) : memory = PackMessage(sent) \o y
    BY HoldingIs, Zenon
  <2>2. memory \in Seq(Nat) /\ At(memory, 1, SerializeHeader(sent.head))
    BY <1>1, <2>1, InMemory, Zenon
  <2>3. IsHeader(sent.head)
    BY <1>1 DEF IsMessage
  <2>4. rebuildHeader(memory) = sent.head
    BY <2>2, <2>3, HeaderRead
  <2> QED
    BY <2>4, Zenon DEF unpackHeader
<1>3. start' = Cell(sent, 0)
  BY <1>1, <1>2, Measured, Zenon DEF unpackHeader
<1>4. Got(sent, 0, frames', curLoc', lastEnd')
  <2>1. frames = <<>>
    BY DEF Underway, unpackHeader
  <2>2. frames' = <<>> /\ curLoc' = Cell(sent, 0) /\ lastEnd' = Cell(sent, 0)
    BY <1>3, <2>1, Zenon DEF unpackHeader
  <2> QED
    BY <2>2, GotNone, Zenon
<1>5. phase' = "frames" /\ sent' = sent
  BY DEF unpackHeader
<1> QED
  BY <1>2, <1>3, <1>4, <1>5 DEF Underway

\* The first frame read is the transit metadata of sent.
LEMMA TransitFirst ==
    ASSUME NEW t, Holding(t), start = Cell(sent, 0), Got(sent, 0, frames, curLoc, lastEnd),
           unpackTransitMetadata
    PROVE  Got(sent, 1, frames', curLoc', lastEnd')
<1>1. /\ IsMessage(sent) /\ Len(sent.frames) = 2
      /\ sent.frames[1] \in Frame /\ IsFrame(sent.frames[1]) /\ sent.frames[1].type = 0
  BY HoldingIs, Zenon
<1>2. PICK f \in Frame, k \in {0, 1} : f = sent.frames[1] /\ IsFrame(f) /\ f.type = 0 /\ k = 0
                                     /\ k + 1 = 1 /\ k + 1 \in 1 .. 2 /\ k \in Nat
  BY <1>1
<1>3. PICK e \in Nat : /\ curLoc \in Nat \ {0} /\ memory \in Seq(Nat)
                       /\ At(memory, curLoc, SerializeFrameInto(f))
                       /\ e = Cell(sent, 1) /\ e = curLoc + Len(SerializeFrameInto(f))
  BY <1>2, FrameToCome, Zenon
<1>4. PICK m \in Nat, n \in Nat :
         /\ m = getSizeOfLVIToPack(f.total) /\ n = getSizeOfLVIToPack(f.specific)
         /\ Len(SerializeFrameInto(f)) = 5 + m + n
         /\ Value(memory, curLoc + 1, 4, memory[curLoc + 1]) = f.id
         /\ unpackLogVarInt(memory, curLoc + 5) = f.total
         /\ unpackLogVarInt(memory, curLoc + 5 + m) = f.specific
  BY <1>2, <1>3, TransitRead
<1>5. f = TransitMetadata(f.id, f.total, f.specific)
  BY <1>2, FrameFields
<1>6. frames' = Append(frames, f)
  BY <1>4, <1>5, Zenon DEF unpackTransitMetadata
<1>7. lastEnd' = e - 1 /\ curLoc' = lastEnd' + 1
  <2>1. lastEnd' = curLoc + 5 + m + n - 1 /\ curLoc' = lastEnd' + 1
    BY <1>4, Zenon DEF unpackTransitMetadata
  <2>2. e = curLoc + (5 + m + n)
    BY <1>3, <1>4, Zenon
  <2> QED
    BY <1>3, <2>1, <2>2
<1>8. f.type # 2
  BY <1>2
<1> QED
  BY <1>1, <1>2, <1>3, <1>6, <1>7, <1>8, GotNext, Zenon

\* The second frame read is the text of sent.
LEMMA TextSecond ==
    ASSUME NEW t, Holding(t), start = Cell(sent, 0), Got(sent, 1, frames, curLoc, lastEnd),
           unpackPlaintext
    PROVE  Second(frames', sent.frames[2])
<1>1. /\ IsMessage(sent) /\ Len(sent.frames) = 2
      /\ sent.frames[2] \in Frame /\ IsFrame(sent.frames[2]) /\ sent.frames[2].type \in {2, 3}
  BY HoldingIs, Zenon
<1>2. PICK f \in Frame, k \in {0, 1} : f = sent.frames[2] /\ IsFrame(f) /\ f.type \in {2, 3} /\ k = 1
                                     /\ k + 1 = 2
  BY <1>1
<1>3. PICK e \in Nat : /\ curLoc \in Nat \ {0} /\ memory \in Seq(Nat) /\ frameType = f.type
                       /\ At(memory, curLoc, SerializeFrameInto(f))
                       /\ e = curLoc + Len(SerializeFrameInto(f))
  BY <1>2, FrameToCome, Zenon
<1>4. SubSeq(memory, TextFirst, TextFirst + TextLength - 1) = f.text
  BY <1>2, <1>3, TextFound
<1>5. f = Plaintext(f.type, f.text)
  <2>1. f.type # 0
    BY <1>2
  <2> QED
    BY <1>2, <2>1, FrameFields
<1>6. frames' = Append(frames, f)
  BY <1>3, <1>4, <1>5, Zenon DEF unpackPlaintext
<1>7. frames \in Seq(Frame) /\ Len(frames) = 1
  BY Zenon DEF Got
<1>8. /\ Append(frames, f) \in Seq(Frame) /\ Len(Append(frames, f)) >= 2
      /\ Append(frames, f)[2] = f
  <2>1. PICK fr \in Seq(Frame) : fr = frames /\ Len(fr) = 1
    BY <1>7, Zenon
  <2>2. /\ Append(fr, f) \in Seq(Frame) /\ Len(Append(fr, f)) = 2
        /\ Append(fr, f)[2] = f
    BY ONLY <2>1, fr \in Seq(Frame), f \in Frame
  <2>3. 2 >= 2
    OBVIOUS
  <2> QED
    BY <2>1, <2>2, <2>3, Zenon
<1> QED
  BY <1>2, <1>6, <1>8, Zenon DEF Second

\* Any step of the extraction.
LEMMA UnpackKeeps ==
    ASSUME NEW t, Holding(t), Underway, Next
    PROVE  Underway'
<1>1. CASE unpackHeader
  BY <1>1, HeaderFirst
<1>2. CASE unpackTransitMetadata \/ unpackPlaintext \/ unknownFrame \/ extracted
  <2>1. /\ phase = "frames" /\ head = sent.head /\ start = Cell(sent, 0)
        /\ phase' # "header" /\ UNCHANGED <<sent, head, start>>
    BY <1>2 DEF unpackTransitMetadata, unpackPlaintext, unknownFrame, extracted, Underway
  <2>2. CASE Second(frames, sent.frames[2])
    <3>1. Second(frames', sent.frames[2])
      <4>1. frames' = frames \/ \E x : frames' = Append(frames, x)
        BY <1>2, Zenon DEF unpackTransitMetadata, unpackPlaintext, unknownFrame, extracted
      <4> QED
        BY <2>2, <4>1, SecondStays, Zenon
    <3> QED
      BY <2>1, <3>1, Zenon DEF Underway
  <2>3. CASE \E k \in {0, 1} : Got(sent, k, frames, curLoc, lastEnd)
    <3>1. PICK k \in {0, 1} : Got(sent, k, frames, curLoc, lastEnd)
      BY <2>3, Zenon
    <3>2. MoreFrames /\ frameType = sent.frames[k + 1].type
      BY <2>1, <3>1, FrameToCome, Zenon
    <3>3. sent.frames[1].type = 0 /\ sent.frames[2].type \in {2, 3}
      BY HoldingIs, Zenon
    <3>4. CASE k = 0
      <4>1. frameType = 0
        BY <3>2, <3>3, <3>4
      <4>2. unpackTransitMetadata
        BY <1>2, <3>2, <4>1 DEF unpackPlaintext, unknownFrame, extracted
      <4>3. Got(sent, 1, frames', curLoc', lastEnd')
        BY <2>1, <3>1, <3>4, <4>2, TransitFirst, Zenon
      <4>4. phase' = "frames"
        BY <2>1, <4>2 DEF unpackTransitMetadata
      <4>5. 1 \in {0, 1}
        OBVIOUS
      <4> QED
        BY <2>1, <4>3, <4>4, <4>5, Zenon DEF Underway
    <3>5. CASE k = 1
      <4>1. frameType \in {2, 3}
        BY <3>2, <3>3, <3>5
      <4>2. unpackPlaintext
        BY <1>2, <3>2, <4>1 DEF unpackTransitMetadata, unknownFrame, extracted
      <4>3. Second(frames', sent.frames[2])
        BY <2>1, <3>1, <3>5, <4>2, TextSecond, Zenon
      <4> QED
        BY <2>1, <4>3, Zenon DEF Underway
    <3> QED
      BY <3>4, <3>5
  <2> QED
    BY <2>1, <2>2, <2>3 DEF Underway
<1> QED
  BY <1>1, <1>2 DEF Next

-----------------------------------------------------------------------------
(* What is posted.                                                          *)

\* The ids are read where the class of a message with data has them.
LEMMA IdsRead ==
    ASSUME NEW h, IsHeader(h), h.class = h.data
    PROVE  /\ idsOf(h).chat = h.chat
           /\ idsOf(h).user = <<LowWord(h.source), HighWord(h.source)>>
<1>1. h.class = 0 \/ h.class = 1
  BY DEF IsHeader
<1>2. CASE h.class = 0
  <2>1. h.data = 0 /\ HeaderWords(h) = <<h.chat, LowWord(h.source), HighWord(h.source), h.number>>
    BY <1>2 DEF HeaderWords
  <2> QED
    BY <2>1 DEF idsOf
<1>3. CASE h.class = 1
  <2>1. /\ h.data # 0
        /\ HeaderWords(h) = <<h.version, h.chat, LowWord(h.source), HighWord(h.source), h.number>>
    BY <1>3 DEF HeaderWords
  <2> QED
    BY <2>1 DEF idsOf
<1> QED
  BY <1>1, <1>2, <1>3

\* What one call of applyMessage posts.
Posting(left) ==
    [chat |-> idsOf(head).chat, user |-> idsOf(head).user,
     text |-> written(UpToZero(frames[2].text \o left))]

\* A buffer unpacked that begins with sent posts what sent asks for.
LEMMA PostingIs ==
    ASSUME NEW t, Holding(t), Underway, phase = "done", NEW left \in Leftover
    PROVE  IsPostOf(Posting(left), sent)
<1>1. /\ IsMessage(sent) /\ sent.head.class = sent.head.data
      /\ sent.frames[2] \in Frame /\ IsFrame(sent.frames[2]) /\ sent.frames[2].type \in {2, 3}
  BY HoldingIs, Zenon
<1>2. head = sent.head /\ Second(frames, sent.frames[2])
  BY DEF Underway
<1>3. frames[2] = sent.frames[2]
  BY <1>2, Zenon DEF Second
<1>4. PICK s \in Seq(Nat) : s = sent.frames[2].text
  <2>1. sent.frames[2].type # 0
    BY <1>1
  <2> QED
    BY <1>1, <2>1, FrameFields
<1>5. PICK u \in Seq(Nat) : u = UpToZero(s \o left)
  <2>1. left \in Seq(Nat)
    BY LeftoverAssumption
  <2>2. s \o left \in Seq(Nat)
    BY <2>1
  <2> QED
    BY <2>2, UpToZeroIs
<1>6. Keeps(written(u), u)
  BY <1>5, WrittenKeeps
<1>7. IsHeader(sent.head)
  BY <1>1 DEF IsMessage
<1>8. PICK p : /\ p = Posting(left) /\ p.chat = idsOf(head).chat /\ p.user = idsOf(head).user
               /\ p.text = written(u)
  <2>1. frames[2].text \o left = s \o left
    BY <1>3, <1>4, Zenon
  <2>2. written(UpToZero(frames[2].text \o left)) = written(u)
    BY <1>5, <2>1, Zenon
  <2>3. /\ Posting(left).chat = idsOf(head).chat /\ Posting(left).user = idsOf(head).user
        /\ Posting(left).text = written(UpToZero(frames[2].text \o left))
    BY DEF Posting
  <2> QED
    BY <2>2, <2>3, Zenon
<1>9. p.chat = sent.head.chat /\ p.user = <<LowWord(sent.head.source), HighWord(sent.head.source)>>
  BY <1>1, <1>2, <1>7, <1>8, IdsRead, Zenon
<1>10. Keeps(p.text, UpToZero(sent.frames[2].text \o left))
  BY <1>4, <1>5, <1>6, <1>8, Zenon
<1> QED
  BY <1>8, <1>9, <1>10, Zenon DEF IsPostOf

Posts == {m \in Messages : IsPost(m)}

\* What no event has indicated yet is the stream behind its first p messages.
Behind(p) ==
    /\ p \in 0 .. Len(stream) /\ rest \in Seq(Posts) /\ Len(rest) = Len(stream) - p
    /\ \A i \in 1 .. Len(rest) : rest[i] = stream[p + i]

\* The posts are of messages among the first c of the stream, in their order.
PostedFrom(at, c) ==
    /\ \E S : posts \in Seq(S)
    /\ at \in [1 .. Len(posts) -> 1 .. c]
    /\ \A i, j \in 1 .. Len(posts) : i < j => at[i] < at[j]
    /\ \A i \in 1 .. Len(posts) : IsPostOf(posts[i], stream[at[i]])

\* The buffer being served begins with message c of the stream.
Serving(c) == sent = stream[c] /\ Underway /\ \E t : Holding(t)

\* The inductive invariant: message c is the last one a buffer began with.
DInv ==
    /\ stream \in Seq(Posts) /\ beyond \in Seq(Nat)
    /\ \E p \in Nat, c \in Nat :
         /\ Behind(p) /\ c <= p
         /\ serving => c # 0 /\ Serving(c) /\ \E at : PostedFrom(at, c - 1)
         /\ ~serving => \E at : PostedFrom(at, c)

\* DInv holds before the first event.
LEMMA InitDInv == DeliveryInit => DInv
<1> SUFFICES ASSUME DeliveryInit PROVE DInv
  OBVIOUS
<1>1. stream \in Seq(Posts) /\ beyond \in Seq(Nat)
  BY StreamsAssumption, BeyondAssumption DEF DeliveryInit, Posts
<1>2. Behind(0)
  <2>1. rest = stream /\ Len(stream) \in Nat
    BY <1>1 DEF DeliveryInit
  <2>2. 0 \in 0 .. Len(stream) /\ Len(stream) - 0 = Len(stream)
    BY <2>1
  <2>3. \A i \in 1 .. Len(rest) : 0 + i = i
    BY <2>1
  <2> QED
    BY <1>1, <2>1, <2>2, <2>3, Zenon DEF Behind
<1>3. PostedFrom(<<>>, 0)
  <2>1. posts = <<>>
    BY DEF DeliveryInit
  <2>2. posts \in Seq({}) /\ Len(posts) = 0 /\ 1 .. 0 = {} /\ <<>> \in [1 .. 0 -> 1 .. 0]
    BY <2>1
  <2> QED
    BY <2>2, Zenon DEF PostedFrom
<1>4. ~serving /\ 0 \in Nat /\ 0 <= 0
  BY DEF DeliveryInit
<1> QED
  BY <1>1, <1>2, <1>3, <1>4, Zenon DEF DInv

\* More of the stream is allowed.
LEMMA PostedFromMore ==
    ASSUME NEW at, NEW c \in Nat, NEW d \in Nat, c <= d, PostedFrom(at, c)
    PROVE  PostedFrom(at, d)
<1>1. at \in [1 .. Len(posts) -> 1 .. c]
  BY Zenon DEF PostedFrom
<1>2. 1 .. c \subseteq 1 .. d
  OBVIOUS
<1>3. at \in [1 .. Len(posts) -> 1 .. d]
  BY ONLY <1>1, <1>2
<1> QED
  BY <1>3, Zenon DEF PostedFrom

\* The head of a sequence is its first element.
LEMMA FirstElement ==
    ASSUME NEW S, NEW s \in Seq(S), Len(s) >= 1
    PROVE  Head(s) = s[1] /\ s[1] \in S
<1>1. s # <<>> /\ 1 \in 1 .. Len(s)
  OBVIOUS
<1> QED
  BY <1>1

\* An event moves on to the message its buffer begins with.
LEMMA ReceiveDInv ==
    ASSUME DInv, NEW n \in 1 .. Len(rest), Receive(n)
    PROVE  DInv'
<1>1. /\ stream \in Seq(Posts) /\ beyond \in Seq(Nat)
      /\ UNCHANGED <<stream, posts, beyond>> /\ ~serving /\ serving'
  BY DEF DInv, Receive
<1>2. PICK p \in Nat, c \in Nat : Behind(p) /\ c <= p /\ \E at : PostedFrom(at, c)
  BY <1>1, Zenon DEF DInv
<1>3. PICK r \in Seq(Posts), L \in Nat, N \in Nat :
         /\ r = rest /\ L = Len(r) /\ N = Len(stream) /\ L = N - p
         /\ \A i \in 1 .. L : r[i] = stream[p + i]
  <2>1. Len(stream) \in Nat /\ rest \in Seq(Posts) /\ Len(rest) \in Nat
    BY <1>1, <1>2 DEF Behind
  <2> QED
    BY <1>2, <2>1, Zenon DEF Behind
<1>4. n \in 1 .. L /\ n \in Nat \ {0}
  BY <1>3
<1>5. PICK q \in Nat : q = p + n /\ q \in 0 .. N
  BY <1>3, <1>4
<1>6. PICK r1 \in Seq(Posts) : /\ r1 = SubSeq(r, n + 1, L) /\ Len(r1) = L - n
                               /\ \A i \in 1 .. L - n : r1[i] = r[n + i]
  <2>1. n <= L /\ L <= Len(r)
    BY <1>3, <1>4
  <2>2. /\ SubSeq(r, n + 1, L) \in Seq(Posts) /\ Len(SubSeq(r, n + 1, L)) = L - n
        /\ \A i \in 1 .. L - n : SubSeq(r, n + 1, L)[i] = r[n + i]
    BY <1>4, <2>1, Piece
  <2> QED
    BY <2>2, Zenon
<1>7. Behind(q)'
  <2>1. rest' = r1
    BY <1>3, <1>6, Zenon DEF Receive
  <2>2. Len(r1) = N - q
    BY <1>3, <1>4, <1>5, <1>6
  <2>3. ASSUME NEW i \in 1 .. L - n PROVE r1[i] = stream[q + i]
    <3>1. n + i \in 1 .. L /\ p + (n + i) = q + i
      BY <1>4, <1>5
    <3> QED
      BY <1>3, <1>6, <3>1, Zenon
  <2> QED
    BY <1>1, <1>3, <1>5, <1>6, <2>1, <2>2, <2>3, Zenon DEF Behind
<1>8. PICK d \in Nat : d = p + 1 /\ d # 0 /\ d - 1 = p /\ d <= q
  BY <1>4, <1>5
<1>9. sent' = stream[d] /\ sent' = r[1] /\ r[1] \in Posts
  <2>1. Head(r) = r[1] /\ r[1] \in Posts
    <3>1. Len(r) >= 1
      BY <1>3, <1>4
    <3> QED
      BY <3>1, FirstElement
  <2>2. sent' = Head(rest)
    BY DEF Receive
  <2>3. 1 \in 1 .. L
    BY <1>4
  <2>4. r[1] = stream[p + 1]
    BY <1>3, <2>3, Zenon
  <2> QED
    BY <1>3, <1>8, <2>1, <2>2, <2>4, Zenon
<1>10. \E t : Holding(t)'
  <2>1. rest \in Seq(Messages)
    BY <1>3 DEF Posts
  <2>2. PICK t \in Seq(Nat) : Bundle(n) = PackMessage(rest[1]) \o t
    BY <2>1, BundleBegins
  <2>3. bytes' = PackMessage(sent') \o t
    BY <1>3, <1>9, <2>2, Zenon DEF Receive
  <2>4. sent' \in Messages /\ IsPost(sent')
    BY <1>9 DEF Posts
  <2>5. PackMessage(sent)' = PackMessage(sent')
    BY DEF PackMessage, Packed
  <2> QED
    BY <1>1, <2>3, <2>4, <2>5 DEF Holding
<1>11. Underway'
  BY DEF Receive, Underway
<1>12. \E at : PostedFrom(at, p)'
  <2>1. \E at : PostedFrom(at, p)
    BY <1>2, PostedFromMore
  <2> QED
    BY <1>1, <2>1 DEF PostedFrom
<1> QED
  BY <1>1, <1>5, <1>7, <1>8, <1>9, <1>10, <1>11, <1>12 DEF DInv, Serving

\* Unpacking posts nothing and keeps what is under way.
LEMMA UnpackDInv ==
    ASSUME DInv, UnpackStep
    PROVE  DInv'
<1>1. /\ stream \in Seq(Posts) /\ beyond \in Seq(Nat) /\ serving /\ Next
      /\ UNCHANGED <<stream, rest, serving, posts>>
  BY DEF DInv, UnpackStep, dvars
<1>2. UNCHANGED <<sent, bytes, beyond>>
  BY <1>1 DEF Next, unpackHeader, unpackTransitMetadata, unpackPlaintext, unknownFrame, extracted
<1>3. PICK p \in Nat, c \in Nat :
         Behind(p) /\ c <= p /\ c # 0 /\ Serving(c) /\ \E at : PostedFrom(at, c - 1)
  BY <1>1, Zenon DEF DInv
<1>4. PICK t : sent = stream[c] /\ Underway /\ Holding(t)
  BY <1>3, Zenon DEF Serving
<1>5. Underway'
  BY <1>1, <1>4, UnpackKeeps, Zenon
<1>6. Holding(t)'
  <2>1. PackMessage(sent)' = PackMessage(sent)
    BY <1>2 DEF PackMessage, Packed
  <2> QED
    BY <1>2, <1>4, <2>1 DEF Holding
<1>7. Serving(c)'
  BY <1>1, <1>2, <1>4, <1>5, <1>6 DEF Serving
<1>8. Behind(p)' /\ \E at : PostedFrom(at, c - 1)'
  BY <1>1, <1>3 DEF Behind, PostedFrom
<1> QED
  BY <1>1, <1>2, <1>3, <1>7, <1>8 DEF DInv

\* A post of the message after the first c - 1 joins the row.
LEMMA PostedNext ==
    ASSUME NEW at, NEW c \in Nat \ {0}, PostedFrom(at, c - 1), NEW x, posts' = Append(posts, x),
           stream' = stream, IsPostOf(x, stream[c])
    PROVE  \E am : PostedFrom(am, c)'
<1>1. PICK S : posts \in Seq(S)
  BY Zenon DEF PostedFrom
<1>2. PICK ps \in Seq(S), n \in Nat, d \in Nat : ps = posts /\ n = Len(ps) /\ d = c - 1
  <2>1. Len(posts) \in Nat /\ c - 1 \in Nat
    BY <1>1
  <2> QED
    BY <1>1, <2>1, Zenon
<1>3. /\ at \in [1 .. n -> 1 .. d]
      /\ \A i, j \in 1 .. n : i < j => at[i] < at[j]
      /\ \A i \in 1 .. n : IsPostOf(ps[i], stream[at[i]])
  BY <1>2, Zenon DEF PostedFrom
<1>4. PICK qs : /\ \E R : qs \in Seq(R)
                /\ qs = Append(ps, x) /\ Len(qs) = n + 1
                /\ \A i \in 1 .. n : qs[i] = ps[i]
                /\ qs[n + 1] = x
  <2>1. PICK R : R = S \cup {x}
    OBVIOUS
  <2>2. ps \in Seq(R) /\ x \in R
    BY <1>2, <2>1
  <2>3. /\ Append(ps, x) \in Seq(R) /\ Len(Append(ps, x)) = n + 1
        /\ \A i \in 1 .. n : Append(ps, x)[i] = ps[i]
        /\ Append(ps, x)[n + 1] = x
    BY ONLY <1>2, <2>2, n \in Nat
  <2> QED
    BY <2>3, Zenon
<1> DEFINE am == [i \in 1 .. n + 1 |-> IF i = n + 1 THEN c ELSE at[i]]
<1>5. /\ \A i \in 1 .. n + 1 : i \in 1 .. n \/ i = n + 1
      /\ \A i \in 1 .. n : i \in 1 .. n + 1 /\ i # n + 1 /\ i < n + 1
      /\ n + 1 \in 1 .. n + 1 /\ c \in 1 .. c
      /\ \A k \in 1 .. d : k \in 1 .. c /\ k < c
  BY <1>2
<1>6. am[n + 1] = c /\ \A i \in 1 .. n : am[i] = at[i]
  BY <1>5, Zenon
<1>7. am \in [1 .. n + 1 -> 1 .. c]
  <2>1. ASSUME NEW i \in 1 .. n + 1 PROVE (IF i = n + 1 THEN c ELSE at[i]) \in 1 .. c
    <3>1. i \in 1 .. n => at[i] \in 1 .. d
      BY <1>3, Zenon
    <3> QED
      BY <1>5, <3>1, Zenon
  <2> QED
    BY <2>1, Zenon
<1> HIDE DEF am
<1>8. ASSUME NEW i \in 1 .. n + 1, NEW j \in 1 .. n + 1, i < j PROVE am[i] < am[j]
  <2>1. i \in 1 .. n
    BY <1>8
  <2>2. CASE j = n + 1
    <3>1. at[i] \in 1 .. d
      BY <1>3, <2>1, Zenon
    <3> QED
      BY <1>5, <1>6, <2>1, <2>2, <3>1, Zenon
  <2>3. CASE j \in 1 .. n
    BY <1>3, <1>6, <1>8, <2>1, <2>3, Zenon
  <2> QED
    BY <1>5, <2>2, <2>3, Zenon
<1>9. ASSUME NEW i \in 1 .. n + 1 PROVE IsPostOf(qs[i], stream[am[i]])
  <2>1. CASE i = n + 1
    BY <1>4, <1>6, <2>1, Zenon
  <2>2. CASE i \in 1 .. n
    BY <1>3, <1>4, <1>6, <2>2, Zenon
  <2> QED
    BY <1>5, <2>1, <2>2, Zenon
<1>10. posts' = qs /\ stream' = stream
  BY <1>2, <1>4, Zenon
<1>11. PostedFrom(am, c)'
  <2>1. /\ \E Q : qs \in Seq(Q)
        /\ am \in [1 .. Len(qs) -> 1 .. c]
        /\ \A i, j \in 1 .. Len(qs) : i < j => am[i] < am[j]
        /\ \A i \in 1 .. Len(qs) : IsPostOf(qs[i], stream[am[i]])
    BY <1>4, <1>7, <1>8, <1>9, Zenon
  <2> QED
    BY <1>10, <2>1 DEF PostedFrom
<1> QED
  BY <1>11, Zenon

\* The post of a buffer is of the message it begins with.
LEMMA ApplyDInv ==
    ASSUME DInv, applyMessage
    PROVE  DInv'
<1>1. /\ stream \in Seq(Posts) /\ beyond \in Seq(Nat) /\ serving /\ ~serving' /\ phase = "done"
      /\ UNCHANGED <<stream, rest, beyond>>
  BY DEF DInv, applyMessage, vars
<1>2. PICK p \in Nat, c \in Nat :
         Behind(p) /\ c <= p /\ c # 0 /\ Serving(c) /\ \E at : PostedFrom(at, c - 1)
  BY <1>1, Zenon DEF DInv
<1>3. PICK t : sent = stream[c] /\ Underway /\ Holding(t)
  BY <1>2, Zenon DEF Serving
<1>4. PICK left \in Leftover : posts' = Append(posts, Posting(left))
  BY Zenon DEF applyMessage, Posting
<1>5. IsPostOf(Posting(left), stream[c])
  BY <1>1, <1>3, PostingIs, Zenon
<1>6. \E at : PostedFrom(at, c)'
  <2>1. PICK at : PostedFrom(at, c - 1)
    BY <1>2, Zenon
  <2>2. c \in Nat \ {0} /\ stream' = stream
    BY <1>1, <1>2
  <2> QED
    BY <1>4, <1>5, <2>1, <2>2, PostedNext, Zenon
<1>7. Behind(p)'
  BY <1>1, <1>2 DEF Behind
<1> QED
  BY <1>1, <1>2, <1>6, <1>7 DEF DInv

\* DInv is inductive.
LEMMA NextDInv == DInv /\ [DeliveryNext]_<<vars, dvars>> => DInv'
<1> SUFFICES ASSUME DInv, [DeliveryNext]_<<vars, dvars>> PROVE DInv'
  OBVIOUS
<1>1. ASSUME NEW n \in 1 .. Len(rest), Receive(n) PROVE DInv'
  BY <1>1, ReceiveDInv
<1>2. CASE UnpackStep
  BY <1>2, UnpackDInv
<1>3. CASE applyMessage
  BY <1>3, ApplyDInv
<1>4. CASE UNCHANGED <<vars, dvars>>
  <2>1. UNCHANGED <<sent, bytes, beyond, phase, head, start, curLoc, lastEnd, frames, reach>>
    BY <1>4 DEF vars
  <2>2. UNCHANGED <<stream, rest, serving, joined, posts>>
    BY <1>4 DEF dvars
  <2>3. (\A p : Behind(p)' <=> Behind(p)) /\ (\A at, c : PostedFrom(at, c)' <=> PostedFrom(at, c))
    BY <2>2 DEF Behind, PostedFrom
  <2>4. \A c : Serving(c)' <=> Serving(c)
    BY <2>1, <2>2 DEF Serving, Underway, Holding, PackMessage, Packed, Got, Cell
  <2> QED
    BY <2>1, <2>2, <2>3, <2>4 DEF DInv
<1> QED
  BY <1>1, <1>2, <1>3, <1>4 DEF DeliveryNext

\* Where the stream is and what was posted are as the invariant says in every state.
THEOREM DInvHolds == DeliverySpec => []DInv
  BY InitDInv, NextDInv, PTL DEF DeliverySpec

\* However the events join the messages of a stream in buffers, whatever lies behind
\* a buffer or a text: what is posted was sent, in the order of the stream, none
\* twice, each in its sender's name to the chat it names (ServerStreamCallback,
\* applyMessage, addNewPost).
THEOREM PostedInOrderHolds == DeliverySpec => []PostedInOrder
<1>1. DInv => PostedInOrder
  <2> SUFFICES ASSUME DInv PROVE PostedInOrder
    OBVIOUS
  <2>1. PICK p \in Nat, c \in Nat : Behind(p) /\ c <= p /\ \E at : PostedFrom(at, c)
    <3>1. PICK p \in Nat, c \in Nat :
             /\ Behind(p) /\ c <= p
             /\ serving => c # 0 /\ \E at : PostedFrom(at, c - 1)
             /\ ~serving => \E at : PostedFrom(at, c)
      BY Zenon DEF DInv
    <3>2. CASE serving
      <4>1. c - 1 \in Nat /\ c - 1 <= c
        BY <3>1, <3>2
      <4>2. \E at : PostedFrom(at, c)
        BY <3>1, <3>2, <4>1, PostedFromMore
      <4> QED
        BY <3>1, <4>2, Zenon
    <3>3. CASE ~serving
      BY <3>1, <3>3, Zenon
    <3> QED
      BY <3>2, <3>3
  <2>2. PICK at : PostedFrom(at, c)
    BY <2>1, Zenon
  <2>3. stream \in Seq(Posts) /\ p \in 0 .. Len(stream)
    BY <2>1 DEF DInv, Behind
  <2>4. DOMAIN stream = 1 .. Len(stream) /\ 1 .. c \subseteq 1 .. Len(stream)
    BY <2>1, <2>3
  <2>5. PICK S : posts \in Seq(S)
    BY <2>2, Zenon DEF PostedFrom
  <2>6. DOMAIN posts = 1 .. Len(posts)
    BY <2>5
  <2>7. at \in [1 .. Len(posts) -> 1 .. c]
    BY <2>2, Zenon DEF PostedFrom
  <2>8. at \in [DOMAIN posts -> DOMAIN stream]
    BY ONLY <2>4, <2>6, <2>7
  <2>9. /\ \A i, j \in DOMAIN posts : i < j => at[i] < at[j]
        /\ \A i \in DOMAIN posts : IsPostOf(posts[i], stream[at[i]])
    BY <2>2, <2>6, Zenon DEF PostedFrom
  <2> QED
    BY <2>8, <2>9, Zenon DEF PostedInOrder
<1> QED
  BY <1>1, DInvHolds, PTL
=============================================================================
