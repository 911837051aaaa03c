----------------------------- MODULE WireProofs -----------------------------
(***************************************************************************)
(* The wire format gives back what was packed, for bytes of any size and   *)
(* any messages.                                                           *)
(***************************************************************************)
EXTENDS Wire, WellFoundedInduction, SequenceTheorems, TLAPS

-----------------------------------------------------------------------------
(* Recursion, division and bytes.                                           *)

LEMMA LeastExists ==
    ASSUME NEW S \in SUBSET Nat, S # {}
    PROVE  \E i \in S : \A j \in S : i <= j
<1>1. IsWellFoundedOn(OpToRel(<, Nat), Nat)
  BY NatLessThanWellFounded, Zenon
<1>2. \E i \in S : \A j \in S : ~(<<j, i>> \in OpToRel(<, Nat))
  BY <1>1, WFMin, Zenon
<1>3. \A i, j \in Nat : j < i => <<j, i>> \in OpToRel(<, Nat)
  BY Zenon DEF OpToRel
<1>4. \E i \in S : \A j \in S : ~(j < i)
  BY <1>2, <1>3, Zenon
<1> QED
  BY <1>4

\* A set of numbers that has 0 and, with k - 1, k.
LEMMA UpTo ==
    ASSUME NEW n \in Nat, NEW T, 0 \in T,
           \A k \in 1 .. n : k - 1 \in T => k \in T
    PROVE  \A k \in 0 .. n : k \in T
<1> DEFINE Out == {k \in 0 .. n : k \notin T}
<1>1. SUFFICES ASSUME Out # {} PROVE FALSE
  OBVIOUS
<1>2. Out \in SUBSET Nat
  OBVIOUS
<1>3. PICK k \in Out : \A j \in Out : k <= j
  <2> HIDE DEF Out
  <2> QED
    BY <1>1, <1>2, LeastExists
<1>4. k \in 1 .. n /\ k - 1 \in 0 .. n /\ k - 1 < k
  OBVIOUS
<1>5. k - 1 \in T
  BY <1>3, <1>4
<1> QED
  BY <1>4, <1>5

\* g is what a recursive function computes from 0 to n.
Computes(g, S, base, n, step) ==
    /\ g \in [0 .. n -> S] /\ g[0] = base
    /\ \A k \in 1 .. n : g[k] = step[<<k, g[k - 1]>>]

LEMMA Recursive ==
    ASSUME NEW S, NEW base \in S, NEW n \in Nat, NEW step \in [(1 .. n) \X S -> S]
    PROVE  \E g : Computes(g, S, base, n, step)
<1> DEFINE Good(g, m) == /\ g \in [0 .. m -> S] /\ g[0] = base
                         /\ \A k \in 1 .. m : g[k] = step[<<k, g[k - 1]>>]
           T == {m \in Nat : \E g : Good(g, m)}
<1>1. 0 \in T
  <2>1. Good([k \in 0 .. 0 |-> base], 0)
    OBVIOUS
  <2> QED
    BY <2>1
<1>2. ASSUME NEW m \in 1 .. n, m - 1 \in T PROVE m \in T
  <2>1. PICK g : Good(g, m - 1)
    BY <1>2
  <2>2. g[m - 1] \in S /\ <<m, g[m - 1]>> \in (1 .. n) \X S
    BY <2>1
  <2> DEFINE h == [k \in 0 .. m |-> IF k = m THEN step[<<m, g[m - 1]>>] ELSE g[k]]
  <2>3. h \in [0 .. m -> S]
    BY <2>1, <2>2
  <2>4. h[0] = base
    BY <2>1
  <2>5. ASSUME NEW k \in 1 .. m PROVE h[k] = step[<<k, h[k - 1]>>]
    <3>1. CASE k = m
      <4>1. h[k] = step[<<m, g[m - 1]>>] /\ h[k - 1] = g[m - 1]
        BY <3>1
      <4> QED
        BY <3>1, <4>1
    <3>2. CASE k # m
      <4>1. k \in 1 .. m - 1
        BY <3>2
      <4>2. g[k] = step[<<k, g[k - 1]>>]
        BY <2>1, <4>1
      <4>3. h[k] = g[k] /\ h[k - 1] = g[k - 1]
        BY <3>2
      <4> QED
        BY <4>2, <4>3
    <3> QED
      BY <3>1, <3>2
  <2>6. Good(h, m)
    BY <2>3, <2>4, <2>5
  <2>7. m \in Nat
    OBVIOUS
  <2> HIDE DEF Good, h
  <2> QED
    BY <2>6, <2>7
<1>3. n \in T
  <2> HIDE DEF T
  <2>1. \A k \in 0 .. n : k \in T
    BY <1>1, <1>2, UpTo
  <2> QED
    BY <2>1
<1> QED
  BY <1>3 DEF Computes

LEMMA Divided ==
    ASSUME NEW x \in Nat, NEW B \in Nat \ {0}
    PROVE  /\ x = (x \div B) * B + (x % B)
           /\ x % B \in 0 .. B - 1 /\ x \div B \in Nat
  OBVIOUS

LEMMA DividedSum ==
    ASSUME NEW q \in Nat, NEW r \in Nat, NEW Q \in Nat \ {0}, r < Q
    PROVE  (r + q * Q) \div Q = q /\ (r + q * Q) % Q = r
  OBVIOUS

LEMMA QuotientBelow ==
    ASSUME NEW x \in Nat, NEW Y \in Nat, NEW B \in Nat \ {0}, x < Y * B
    PROVE  x \div B < Y
  OBVIOUS

LEMMA Bounds ==
    /\ Base \in Nat \ {0} /\ Quarter \in Nat \ {0} /\ Quarter >= 4
    /\ Base = 4 * Quarter
  BY BaseAssumption DEF Quarter

LEMMA ShiftedIs ==
    ASSUME NEW v \in Nat
    PROVE  /\ Shifted(v) \in [0 .. 7 -> Nat] /\ Shifted(v)[0] = v
           /\ \A k \in 1 .. 7 : Shifted(v)[k] = Shifted(v)[k - 1] \div Base
<1> DEFINE step == [p \in (1 .. 7) \X Nat |-> p[2] \div Base]
           Is(s) == s = [k \in 0 .. 7 |-> IF k = 0 THEN v ELSE s[k - 1] \div Base]
<1>1. step \in [(1 .. 7) \X Nat -> Nat]
  BY Bounds
<1>2. PICK g : Computes(g, Nat, v, 7, step)
  <2> HIDE DEF step
  <2> QED
    BY <1>1, Recursive
<1>3. /\ g \in [0 .. 7 -> Nat] /\ g[0] = v
      /\ \A k \in 1 .. 7 : g[k] = g[k - 1] \div Base
  BY <1>2 DEF Computes
<1>4. Is(g)
  BY <1>3
<1>5. Is(Shifted(v))
  BY <1>4 DEF Shifted
<1>6. Shifted(v) = g
  <2> DEFINE s == Shifted(v)
             T == {k \in 0 .. 7 : s[k] = g[k]}
  <2> HIDE DEF s
  <2>1. s = [k \in 0 .. 7 |-> IF k = 0 THEN v ELSE s[k - 1] \div Base]
    BY <1>5 DEF s
  <2>2. 0 \in T
    BY <1>3, <2>1
  <2>3. ASSUME NEW k \in 1 .. 7, k - 1 \in T PROVE k \in T
    BY <1>3, <2>1, <2>3
  <2>4. \A k \in 0 .. 7 : k \in T
    <3> HIDE DEF T
    <3> QED
      BY <2>2, <2>3, UpTo
  <2>5. \A k \in 0 .. 7 : s[k] = g[k]
    BY <2>4
  <2>6. s = [k \in 0 .. 7 |-> s[k]] /\ g = [k \in 0 .. 7 |-> g[k]]
    BY <1>3, <2>1
  <2>7. s = g
    BY <2>5, <2>6
  <2> QED
    BY <2>7 DEF s
<1> QED
  BY <1>3, <1>6

\* g is what unpacking computes, byte by byte.
Unpacks(g, b, i, n, top) ==
    /\ g \in [0 .. n -> Nat] /\ g[0] = top
    /\ \A k \in 1 .. n : g[k] = g[k - 1] * Base + b[i + k]
    /\ Value(b, i, n + 1, top) = g[n]

LEMMA ValueIs ==
    ASSUME NEW b \in Seq(Nat), NEW i \in Nat \ {0}, NEW n \in Nat, NEW top \in Nat,
           i + n <= Len(b)
    PROVE  \E g : Unpacks(g, b, i, n, top)
<1> DEFINE step == [p \in (1 .. n) \X Nat |-> p[2] * Base + b[i + p[1]]]
           Is(w) == w = [k \in 0 .. n |-> IF k = 0 THEN top ELSE w[k - 1] * Base + b[i + k]]
<1>1. \A k \in 1 .. n : b[i + k] \in Nat
  OBVIOUS
<1>2. step \in [(1 .. n) \X Nat -> Nat]
  <2>1. ASSUME NEW p \in (1 .. n) \X Nat PROVE p[2] * Base + b[i + p[1]] \in Nat
    <3>1. PICK k \in 1 .. n, x \in Nat : p = <<k, x>>
      OBVIOUS
    <3>2. PICK B \in Nat, y \in Nat : B = Base /\ y = b[i + k]
      BY <1>1, Bounds
    <3>3. x * B + y \in Nat
      OBVIOUS
    <3> QED
      BY <3>1, <3>2, <3>3
  <2> QED
    BY <2>1
<1>3. PICK g : Computes(g, Nat, top, n, step)
  <2> HIDE DEF step
  <2> QED
    BY <1>2, Recursive
<1>4. /\ g \in [0 .. n -> Nat] /\ g[0] = top
      /\ \A k \in 1 .. n : g[k] = g[k - 1] * Base + b[i + k]
  <2>1. /\ g \in [0 .. n -> Nat] /\ g[0] = top
        /\ \A k \in 1 .. n : g[k] = step[<<k, g[k - 1]>>]
    BY <1>3, Zenon DEF Computes
  <2>2. ASSUME NEW k \in 1 .. n PROVE g[k] = g[k - 1] * Base + b[i + k]
    <3>1. PICK x \in Nat : x = g[k - 1]
      <4>1. k - 1 \in 0 .. n
        OBVIOUS
      <4> QED
        BY <2>1, <4>1, Zenon
    <3>2. step[<<k, x>>] = x * Base + b[i + k]
      OBVIOUS
    <3> QED
      BY <2>1, <3>1, <3>2
  <2> QED
    BY <2>1, <2>2
<1>5. Is(g)
  BY <1>4
<1>6. PICK w : Is(w) /\ Value(b, i, n + 1, top) = w[n]
  <2>1. PICK m \in Nat : m = n + 1 /\ m - 1 = n
    OBVIOUS
  <2> DEFINE v == CHOOSE w : w = [k \in 0 .. m - 1 |-> IF k = 0 THEN top ELSE w[k - 1] * Base + b[i + k]]
  <2>2. Value(b, i, m, top) = v[m - 1]
    BY DEF Value
  <2>3. Is(v)
    BY <1>5, <2>1
  <2> QED
    BY <2>1, <2>2, <2>3
<1>7. \A k \in 0 .. n : w[k] = g[k]
  <2> DEFINE T == {k \in 0 .. n : w[k] = g[k]}
  <2>1. 0 \in T
    BY <1>4, <1>6
  <2>2. ASSUME NEW k \in 1 .. n, k - 1 \in T PROVE k \in T
    <3>1. g[k] = g[k - 1] * Base + b[i + k] /\ w[k - 1] = g[k - 1]
      BY <1>4, <2>2
    <3>2. k \in 0 .. n /\ k # 0
      OBVIOUS
    <3>3. w[k] = w[k - 1] * Base + b[i + k]
      BY <1>6, <3>2, Zenon
    <3> QED
      BY <3>1, <3>2, <3>3, Zenon
  <2>3. \A k \in 0 .. n : k \in T
    <3> HIDE DEF T
    <3> QED
      BY <2>1, <2>2, UpTo
  <2> QED
    BY <2>3
<1>8. Value(b, i, n + 1, top) = g[n]
  BY <1>6, <1>7
<1> QED
  BY <1>4, <1>8, Zenon DEF Unpacks

\* The cells of b behind cell i hold the n lowest bytes of v.
Holds(b, i, v, n) == \A k \in 1 .. n : b[i + k] = Shifted(v)[n - k] % Base

LEMMA DigitsRead ==
    ASSUME NEW v \in Nat, NEW b \in Seq(Nat), NEW i \in Nat \ {0}, NEW n \in 0 .. 7,
           i + n <= Len(b), Holds(b, i, v, n)
    PROVE  Value(b, i, n + 1, Shifted(v)[n]) = v
<1>1. PICK s \in [0 .. 7 -> Nat] : s = Shifted(v)
  BY ShiftedIs
<1>2. s[n] \in Nat /\ n \in Nat
  <2>1. s[n] \in Nat
    BY Zenon
  <2> QED
    BY <2>1
<1>3. PICK g : /\ g \in [0 .. n -> Nat] /\ g[0] = s[n]
               /\ \A k \in 1 .. n : g[k] = g[k - 1] * Base + b[i + k]
               /\ Value(b, i, n + 1, s[n]) = g[n]
  <2>1. PICK g : Unpacks(g, b, i, n, s[n])
    BY <1>2, ValueIs
  <2> QED
    BY <2>1, Zenon DEF Unpacks
<1> DEFINE T == {k \in 0 .. n : g[k] = s[n - k]}
<1>4. 0 \in T
  BY <1>2, <1>3
<1>5. ASSUME NEW k \in 1 .. n, k - 1 \in T PROVE k \in T
  <2>1. PICK m \in 1 .. 7 : m - 1 = n - k /\ m = n - (k - 1)
    OBVIOUS
  <2>2. PICK x \in Nat, y \in Nat : x = s[m - 1] /\ y = s[m]
    <3>1. m - 1 \in 0 .. 7 /\ m \in 0 .. 7
      BY ONLY m \in 1 .. 7
    <3>2. s[m - 1] \in Nat /\ s[m] \in Nat
      BY <3>1, Zenon
    <3> QED
      BY <3>2, Zenon
  <2>3. y = x \div Base
    BY <1>1, <2>2, ShiftedIs
  <2>4. x = y * Base + (x % Base)
    <3>1. PICK B \in Nat \ {0} : B = Base
      BY Bounds
    <3>2. x = (x \div B) * B + (x % B)
      BY Divided
    <3> QED
      BY <2>3, <3>1, <3>2, Zenon
  <2>5. g[k - 1] = y
    BY <1>5, <2>1, <2>2
  <2>6. b[i + k] = x % Base
    BY <1>1, <2>1, <2>2 DEF Holds
  <2>7. g[k] = x
    BY <1>3, <2>4, <2>5, <2>6
  <2> QED
    BY <2>1, <2>2, <2>7
<1>6. \A k \in 0 .. n : k \in T
  <2> HIDE DEF T
  <2> QED
    BY <1>2, <1>4, <1>5, UpTo
<1>7. g[n] = s[0]
  <2>1. n \in 0 .. n /\ n - n = 0
    BY <1>2
  <2>2. g[n] = s[n - n]
    BY <1>6, <2>1, Zenon
  <2> QED
    BY <2>1, <2>2, Zenon
<1>8. s[0] = v
  BY <1>1, ShiftedIs
<1> QED
  BY <1>1, <1>3, <1>7, <1>8

LEMMA BytesIs ==
    ASSUME NEW v \in Nat, NEW n \in 0 .. 8
    PROVE  /\ Bytes(v, n) \in Seq(Nat) /\ Len(Bytes(v, n)) = n
           /\ \A k \in 1 .. n : /\ Bytes(v, n)[k] = Shifted(v)[n - k] % Base
                                /\ Bytes(v, n)[k] \in 0 .. Base - 1
<1>1. ASSUME NEW k \in 1 .. n
      PROVE  Shifted(v)[n - k] % Base \in Nat /\ Shifted(v)[n - k] % Base \in 0 .. Base - 1
  <2>1. n - k \in 0 .. 7
    OBVIOUS
  <2>2. PICK x \in Nat : x = Shifted(v)[n - k]
    <3>1. Shifted(v) \in [0 .. 7 -> Nat]
      BY ShiftedIs
    <3> QED
      BY <2>1, <3>1, Zenon
  <2>3. x % Base \in 0 .. Base - 1 /\ x % Base \in Nat
    BY Divided, Bounds
  <2> QED
    BY <2>2, <2>3
<1>2. n \in Nat
  OBVIOUS
<1>3. PICK s : s = Bytes(v, n)
  OBVIOUS
<1>4. s = [k \in 1 .. n |-> Shifted(v)[n - k] % Base]
  BY <1>3 DEF Bytes
<1>5. \A k \in 1 .. n : s[k] = Shifted(v)[n - k] % Base
  BY <1>4
<1>6. s \in [1 .. n -> Nat]
  BY <1>1, <1>4
<1>7. s \in Seq(Nat) /\ Len(s) = n
  BY <1>2, <1>6
<1> QED
  BY <1>1, <1>3, <1>5, <1>7

\* How large the first byte can be.
LEMMA SizeOfLVI ==
    ASSUME NEW v \in Nat, FitsLVI(v)
    PROVE  /\ getSizeOfLVIToPack(v) \in {1, 2, 4, 8}
           /\ Shifted(v)[getSizeOfLVIToPack(v) - 1] \in 0 .. Quarter - 1
           /\ v < 4 => getSizeOfLVIToPack(v) = 1
<1>1. PICK s \in [0 .. 7 -> Nat] : s = Shifted(v)
  BY ShiftedIs
<1>2. PICK s0 \in Nat, s1 \in Nat, s2 \in Nat, s3 \in Nat, s7 \in Nat :
         s0 = s[0] /\ s1 = s[1] /\ s2 = s[2] /\ s3 = s[3] /\ s7 = s[7]
  <2>1. s[0] \in Nat /\ s[1] \in Nat /\ s[2] \in Nat /\ s[3] \in Nat /\ s[7] \in Nat
    BY 0 \in 0 .. 7
  <2> QED
    BY <2>1, Zenon
<1>3. PICK B \in Nat \ {0}, Q \in Nat \ {0} : B = Base /\ Q = Quarter /\ Q >= 4
  BY Bounds
<1>4. s0 = v /\ s1 = s0 \div B /\ s2 = s1 \div B /\ s3 = s2 \div B
  BY <1>1, <1>2, <1>3, ShiftedIs
<1>5. s7 < Q
  BY <1>1, <1>2, <1>3 DEF FitsLVI
<1>6. v < Q * B => s1 < Q
  BY <1>4, QuotientBelow
<1>7. v < Q * B * B * B => s3 < Q
  <2>1. Q * B \in Nat /\ Q * B * B \in Nat
    OBVIOUS
  <2>2. v < Q * B * B * B => s1 < Q * B * B
    BY <1>4, <2>1, QuotientBelow
  <2>3. s1 < Q * B * B => s2 < Q * B
    BY <1>4, <2>1, QuotientBelow
  <2>4. s2 < Q * B => s3 < Q
    BY <1>4, QuotientBelow
  <2> QED
    BY <2>2, <2>3, <2>4
<1>8. getSizeOfLVIToPack(v) = IF v < Q THEN 1 ELSE IF v < Q * B THEN 2
                              ELSE IF v < Q * B * B * B THEN 4 ELSE 8
  BY <1>3 DEF getSizeOfLVIToPack
<1>9. CASE v < Q
  <2>1. getSizeOfLVIToPack(v) = 1
    BY <1>8, <1>9
  <2>2. s0 \in 0 .. Q - 1
    BY <1>4, <1>9
  <2> QED
    BY <1>1, <1>2, <1>3, <2>1, <2>2
<1>10. CASE ~(v < Q) /\ v < Q * B
  <2>1. getSizeOfLVIToPack(v) = 2
    BY <1>8, <1>10
  <2> QED
    BY <1>1, <1>2, <1>3, <1>6, <1>10, <2>1
<1>11. CASE ~(v < Q) /\ ~(v < Q * B) /\ v < Q * B * B * B
  <2>1. getSizeOfLVIToPack(v) = 4
    BY <1>8, <1>11
  <2> QED
    BY <1>1, <1>2, <1>3, <1>7, <1>11, <2>1
<1>12. CASE ~(v < Q) /\ ~(v < Q * B) /\ ~(v < Q * B * B * B)
  <2>1. getSizeOfLVIToPack(v) = 8
    BY <1>8, <1>12
  <2> QED
    BY <1>1, <1>2, <1>3, <1>5, <1>12, <2>1
<1> QED
  BY <1>9, <1>10, <1>11, <1>12

LEMMA SizeOfDVI ==
    ASSUME NEW v \in Nat, FitsDVI(v)
    PROVE  /\ getSizeOfDVIToPack(v) \in 1 .. 4
           /\ Shifted(v)[getSizeOfDVIToPack(v) - 1] \in 0 .. Base - 1
<1>1. PICK s \in [0 .. 7 -> Nat] : s = Shifted(v)
  BY ShiftedIs
<1>2. PICK s0 \in Nat, s1 \in Nat, s2 \in Nat, s3 \in Nat :
         s0 = s[0] /\ s1 = s[1] /\ s2 = s[2] /\ s3 = s[3]
  OBVIOUS
<1>3. PICK B \in Nat \ {0} : B = Base
  BY Bounds
<1>4. s0 = v /\ s1 = s0 \div B /\ s2 = s1 \div B
  BY <1>1, <1>2, <1>3, ShiftedIs
<1>5. s3 < B
  BY <1>1, <1>2, <1>3 DEF FitsDVI
<1>6. v < B * B => s1 < B
  BY <1>4, QuotientBelow
<1>7. v < B * B * B => s2 < B
  <2>1. B * B \in Nat
    OBVIOUS
  <2>2. v < B * B * B => s1 < B * B
    BY <1>4, <2>1, QuotientBelow
  <2>3. s1 < B * B => s2 < B
    BY <1>4, QuotientBelow
  <2> QED
    BY <2>2, <2>3
<1>8. getSizeOfDVIToPack(v) = IF v < B THEN 1 ELSE IF v < B * B THEN 2
                              ELSE IF v < B * B * B THEN 3 ELSE 4
  BY <1>3 DEF getSizeOfDVIToPack
<1>9. CASE v < B
  <2>1. getSizeOfDVIToPack(v) = 1
    BY <1>8, <1>9
  <2>2. s0 \in 0 .. B - 1
    BY <1>4, <1>9
  <2> QED
    BY <1>1, <1>2, <1>3, <2>1, <2>2
<1>10. CASE ~(v < B) /\ v < B * B
  <2>1. getSizeOfDVIToPack(v) = 2
    BY <1>8, <1>10
  <2> QED
    BY <1>1, <1>2, <1>3, <1>6, <1>10, <2>1
<1>11. CASE ~(v < B) /\ ~(v < B * B) /\ v < B * B * B
  <2>1. getSizeOfDVIToPack(v) = 3
    BY <1>8, <1>11
  <2> QED
    BY <1>1, <1>2, <1>3, <1>7, <1>11, <2>1
<1>12. CASE ~(v < B) /\ ~(v < B * B) /\ ~(v < B * B * B)
  <2>1. getSizeOfDVIToPack(v) = 4
    BY <1>8, <1>12
  <2> QED
    BY <1>1, <1>2, <1>3, <1>5, <1>12, <2>1
<1> QED
  BY <1>9, <1>10, <1>11, <1>12

LEMMA SizeCodes ==
    ASSUME NEW n \in {1, 2, 4, 8}
    PROVE  SizeCode(n) \in 0 .. 3 /\ 2 ^ SizeCode(n) = n
<1>1. 2 ^ 0 = 1 /\ 2 ^ 1 = 2 /\ 2 ^ 2 = 4 /\ 2 ^ 3 = 8
  OBVIOUS
<1>2. \E k \in 0 .. 3 : 2 ^ k = n
  BY <1>1
<1> QED
  BY <1>2 DEF SizeCode

\* b has the elements of s from cell i on.
At(b, i, s) ==
    /\ i + Len(s) - 1 <= Len(b)
    /\ \A k \in 1 .. Len(s) : b[i + k - 1] = s[k]

LEMMA PackedLVI ==
    ASSUME NEW v \in Nat, FitsLVI(v)
    PROVE  \E n \in {1, 2, 4, 8}, c \in 0 .. 3 :
              /\ n = getSizeOfLVIToPack(v) /\ 2 ^ c = n
              /\ packLogVarInt(v) \in Seq(Nat) /\ Len(packLogVarInt(v)) = n
              /\ packLogVarInt(v)[1] = Shifted(v)[n - 1] + c * Quarter
              /\ \A k \in 2 .. n : packLogVarInt(v)[k] = Shifted(v)[n - k] % Base
<1>1. PICK n \in {1, 2, 4, 8}, x \in 0 .. Quarter - 1 :
         n = getSizeOfLVIToPack(v) /\ x = Shifted(v)[n - 1]
  BY SizeOfLVI
<1>2. PICK c \in 0 .. 3 : c = SizeCode(n) /\ 2 ^ c = n
  BY SizeCodes
<1>3. n \in 0 .. 8 /\ n \in Nat /\ 1 \in 1 .. n
  OBVIOUS
<1>4. PICK d : /\ d = Bytes(v, n) /\ d \in Seq(Nat) /\ Len(d) = n
               /\ \A k \in 1 .. n : d[k] = Shifted(v)[n - k] % Base
  <2>1. /\ Bytes(v, n) \in Seq(Nat) /\ Len(Bytes(v, n)) = n
        /\ \A k \in 1 .. n : Bytes(v, n)[k] = Shifted(v)[n - k] % Base
    BY <1>3, BytesIs
  <2> QED
    BY <2>1, Zenon
<1>5. x \in Nat /\ x % Base = x
  BY <1>1, Bounds
<1>6. d[1] = x
  BY <1>1, <1>3, <1>4, <1>5
<1>7. PICK p : p = [d EXCEPT ![1] = @ + c * Quarter]
  OBVIOUS
<1>8. packLogVarInt(v) = p
  BY <1>1, <1>2, <1>4, <1>7 DEF packLogVarInt
<1>9. d \in [1 .. n -> Nat]
  BY <1>3, <1>4
<1>10. PICK y \in Nat : y = x + c * Quarter
  BY <1>5, Bounds
<1>11. p = [d EXCEPT ![1] = y]
  BY <1>6, <1>7, <1>10
<1>12. p \in [1 .. n -> Nat] /\ p[1] = y /\ \A k \in 2 .. n : p[k] = d[k]
  BY <1>3, <1>9, <1>11
<1>13. p \in Seq(Nat) /\ Len(p) = n
  BY <1>3, <1>12
<1>14. \A k \in 2 .. n : p[k] = Shifted(v)[n - k] % Base
  BY <1>3, <1>4, <1>12
<1> QED
  BY <1>1, <1>2, <1>8, <1>10, <1>12, <1>13, <1>14

\* A logarithmic integer is read back wherever it lies.
LEMMA LVIRead ==
    ASSUME NEW v \in Nat, FitsLVI(v), NEW b \in Seq(Nat), NEW i \in Nat \ {0},
           At(b, i, packLogVarInt(v))
    PROVE  /\ unpackLogVarInt(b, i) = v
           /\ LogVarIntSize(b, i) = getSizeOfLVIToPack(v)
<1>1. PICK n \in {1, 2, 4, 8}, c \in 0 .. 3 :
         /\ n = getSizeOfLVIToPack(v) /\ 2 ^ c = n
         /\ packLogVarInt(v) \in Seq(Nat) /\ Len(packLogVarInt(v)) = n
         /\ packLogVarInt(v)[1] = Shifted(v)[n - 1] + c * Quarter
         /\ \A k \in 2 .. n : packLogVarInt(v)[k] = Shifted(v)[n - k] % Base
  BY PackedLVI
<1>2. PICK x \in 0 .. Quarter - 1 : x = Shifted(v)[n - 1]
  BY <1>1, SizeOfLVI
<1>3. /\ i + n - 1 <= Len(b)
      /\ \A k \in 1 .. n : b[i + k - 1] = packLogVarInt(v)[k]
  BY <1>1, Zenon DEF At
<1>4. b[i] = x + c * Quarter
  <2>1. 1 \in 1 .. n /\ i + 1 - 1 = i
    OBVIOUS
  <2>2. b[i + 1 - 1] = packLogVarInt(v)[1]
    BY <1>3, <2>1, Zenon
  <2> QED
    BY <1>1, <1>2, <2>1, <2>2, Zenon
<1>5. b[i] \div Quarter = c /\ b[i] % Quarter = x
  <2>1. PICK Q \in Nat \ {0} : Q = Quarter
    BY Bounds
  <2>2. (x + c * Q) \div Q = c /\ (x + c * Q) % Q = x
    BY <2>1, DividedSum
  <2> QED
    BY <1>4, <2>1, <2>2, Zenon
<1>6. LogVarIntSize(b, i) = n
  BY <1>1, <1>5, Zenon DEF LogVarIntSize
<1>7. unpackLogVarInt(b, i) = Value(b, i, n, x)
  BY <1>5, <1>6, Zenon DEF unpackLogVarInt
<1>8. PICK m \in 0 .. 7 : m = n - 1 /\ m + 1 = n
  OBVIOUS
<1>9. Holds(b, i, v, m)
  <2> SUFFICES ASSUME NEW k \in 1 .. m PROVE b[i + k] = Shifted(v)[m - k] % Base
    BY Zenon DEF Holds
  <2>1. k + 1 \in 1 .. n /\ k + 1 \in 2 .. n /\ i + (k + 1) - 1 = i + k /\ n - (k + 1) = m - k
    BY <1>8
  <2>2. b[i + (k + 1) - 1] = packLogVarInt(v)[k + 1]
    BY <1>3, <2>1, Zenon
  <2>3. packLogVarInt(v)[k + 1] = Shifted(v)[n - (k + 1)] % Base
    BY <1>1, <2>1, Zenon
  <2> QED
    BY <2>1, <2>2, <2>3, Zenon
<1>10. i + m <= Len(b)
  BY <1>3, <1>8
<1>11. Value(b, i, m + 1, Shifted(v)[m]) = v
  BY <1>9, <1>10, DigitsRead
<1> QED
  BY <1>1, <1>2, <1>6, <1>7, <1>8, <1>11, Zenon

LEMMA LVIIs ==
    ASSUME NEW v \in Nat, FitsLVI(v)
    PROVE  packLogVarInt(v) \in Seq(Nat) /\ Len(packLogVarInt(v)) = getSizeOfLVIToPack(v)
  BY PackedLVI

LEMMA DVIIs ==
    ASSUME NEW v \in Nat, NEW n \in 1 .. 4
    PROVE  packDirVarInt(v, n) \in Seq(Nat) /\ Len(packDirVarInt(v, n)) = n
<1>1. n \in 0 .. 8
  OBVIOUS
<1> QED
  BY <1>1, BytesIs DEF packDirVarInt

\* So is a direct one, and any integer of n bytes.
LEMMA BytesRead ==
    ASSUME NEW v \in Nat, NEW n \in 1 .. 4, Shifted(v)[n - 1] \in 0 .. Base - 1,
           NEW b \in Seq(Nat), NEW i \in Nat \ {0}, At(b, i, Bytes(v, n))
    PROVE  Value(b, i, n, b[i]) = v
<1>1. PICK m \in 0 .. 7 : m = n - 1 /\ m + 1 = n
  OBVIOUS
<1>2. n \in 0 .. 8
  OBVIOUS
<1>3. PICK d : /\ d = Bytes(v, n) /\ Len(d) = n
               /\ \A k \in 1 .. n : d[k] = Shifted(v)[n - k] % Base
  BY <1>2, BytesIs
<1>4. /\ i + n - 1 <= Len(b)
      /\ \A k \in 1 .. n : b[i + k - 1] = Shifted(v)[n - k] % Base
  BY <1>3, Zenon DEF At
<1>5. b[i] = Shifted(v)[m]
  <2>1. 1 \in 1 .. n /\ i + 1 - 1 = i
    OBVIOUS
  <2>2. b[i] = Shifted(v)[m] % Base
    BY <1>1, <1>4, <2>1, Zenon
  <2>3. PICK x \in 0 .. Base - 1 : x = Shifted(v)[m]
    BY <1>1
  <2>4. x % Base = x
    BY Bounds
  <2> QED
    BY <2>2, <2>3, <2>4, Zenon
<1>6. Holds(b, i, v, m)
  <2> SUFFICES ASSUME NEW k \in 1 .. m PROVE b[i + k] = Shifted(v)[m - k] % Base
    BY Zenon DEF Holds
  <2>1. k + 1 \in 1 .. n /\ i + (k + 1) - 1 = i + k /\ n - (k + 1) = m - k
    BY <1>1
  <2>2. b[i + (k + 1) - 1] = Shifted(v)[n - (k + 1)] % Base
    BY <1>4, <2>1, Zenon
  <2> QED
    BY <2>1, <2>2, Zenon
<1>7. i + m <= Len(b)
  BY <1>1, <1>4
<1>8. Value(b, i, m + 1, Shifted(v)[m]) = v
  BY <1>6, <1>7, DigitsRead
<1> QED
  BY <1>1, <1>5, <1>8, Zenon

-----------------------------------------------------------------------------
(* Headers.                                                                 *)

LEMMA AtParts ==
    ASSUME NEW b \in Seq(Nat), NEW i \in Nat \ {0}, NEW s \in Seq(Nat), NEW t \in Seq(Nat),
           At(b, i, s \o t)
    PROVE  At(b, i, s) /\ At(b, i + Len(s), t)
<1>1. PICK st \in Seq(Nat) : /\ st = s \o t /\ Len(st) = Len(s) + Len(t)
                             /\ \A k \in 1 .. Len(s) : st[k] = s[k]
                             /\ \A k \in 1 .. Len(t) : st[Len(s) + k] = t[k]
  <2>1. /\ s \o t \in Seq(Nat) /\ Len(s \o t) = Len(s) + Len(t)
        /\ \A k \in 1 .. Len(s) : (s \o t)[k] = s[k]
        /\ \A k \in 1 .. Len(t) : (s \o t)[Len(s) + k] = t[k]
    OBVIOUS
  <2> QED
    BY <2>1, Zenon
<1>2. PICK m \in Nat, n \in Nat : m = Len(s) /\ n = Len(t)
  OBVIOUS
<1>3. /\ i + (m + n) - 1 <= Len(b)
      /\ \A k \in 1 .. m + n : b[i + k - 1] = st[k]
  BY <1>1, <1>2, Zenon DEF At
<1>4. Len(b) \in Nat
  OBVIOUS
<1>5. At(b, i, s)
  <2>1. i + m - 1 <= Len(b)
    BY <1>3, <1>4
  <2>2. ASSUME NEW k \in 1 .. m PROVE b[i + k - 1] = s[k]
    <3>1. k \in 1 .. m + n
      OBVIOUS
    <3> QED
      BY <1>1, <1>2, <1>3, <3>1, Zenon
  <2> QED
    BY <1>2, <2>1, <2>2, Zenon DEF At
<1>6. At(b, i + m, t)
  <2>1. (i + m) + n - 1 <= Len(b)
    BY <1>3, <1>4
  <2>2. ASSUME NEW k \in 1 .. n PROVE b[(i + m) + k - 1] = t[k]
    <3>1. m + k \in 1 .. m + n /\ i + (m + k) - 1 = (i + m) + k - 1
      OBVIOUS
    <3>2. b[i + (m + k) - 1] = st[m + k]
      BY <1>3, <3>1, Zenon
    <3>3. st[m + k] = t[k]
      BY <1>1, <1>2, Zenon
    <3> QED
      BY <3>1, <3>2, <3>3, Zenon
  <2> QED
    BY <1>2, <2>1, <2>2, Zenon DEF At
<1> QED
  BY <1>2, <1>5, <1>6, Zenon

LEMMA Joined ==
    ASSUME NEW s \in Seq(Nat), NEW t \in Seq(Nat)
    PROVE  s \o t \in Seq(Nat) /\ Len(s \o t) = Len(s) + Len(t)
  OBVIOUS

\* The five parts of a packed header.
HeaderIs(h, p1, p2, p3, p4, p5) ==
    /\ SerializeHeader(h) = (((p1 \o p2) \o p3) \o p4) \o p5
    /\ p1 = <<SerializeMessageStub(h)>> /\ p1 \in Seq(Nat) /\ Len(p1) = 1
    /\ p2 = Bytes(h.version, VersionSize(h.class)) /\ p2 \in Seq(Nat)
    /\ Len(p2) = VersionSize(h.class)
    /\ p3 = Bytes(h.chat, h.chatLen + 1) /\ p3 \in Seq(Nat) /\ Len(p3) = h.chatLen + 1
    /\ p4 = packLogVarInt(h.source) /\ p4 \in Seq(Nat)
    /\ Len(p4) = getSizeOfLVIToPack(h.source)
    /\ p5 = Bytes(h.number, h.numLen + 1) /\ p5 \in Seq(Nat) /\ Len(p5) = h.numLen + 1

LEMMA HeaderParts ==
    ASSUME NEW h, IsHeader(h)
    PROVE  \E p1, p2, p3, p4, p5 : HeaderIs(h, p1, p2, p3, p4, p5)
<1>1. /\ h.class \in 0 .. 1 /\ h.control \in 0 .. 3 /\ h.numLen \in 0 .. 3
      /\ h.chatLen \in 0 .. 3 /\ h.data \in 0 .. 1
      /\ h.version \in Nat /\ h.chat \in Nat /\ h.source \in Nat /\ h.number \in Nat
      /\ FitsLVI(h.source)
  BY DEF IsHeader
<1>2. PICK p1 : p1 = <<SerializeMessageStub(h)>> /\ p1 \in Seq(Nat) /\ Len(p1) = 1
  <2>1. SerializeMessageStub(h) \in Nat
    BY <1>1 DEF SerializeMessageStub
  <2>2. <<SerializeMessageStub(h)>> \in Seq(Nat) /\ Len(<<SerializeMessageStub(h)>>) = 1
    BY <2>1
  <2> QED
    BY <2>2, Zenon
<1>3. PICK p2 : /\ p2 = Bytes(h.version, VersionSize(h.class)) /\ p2 \in Seq(Nat)
                /\ Len(p2) = VersionSize(h.class)
  <2>1. VersionSize(h.class) \in 0 .. 8
    BY DEF VersionSize
  <2> QED
    BY <1>1, <2>1, BytesIs
<1>4. PICK p3 : p3 = Bytes(h.chat, h.chatLen + 1) /\ p3 \in Seq(Nat) /\ Len(p3) = h.chatLen + 1
  <2>1. h.chatLen + 1 \in 0 .. 8
    BY <1>1
  <2> QED
    BY <1>1, <2>1, BytesIs
<1>5. PICK p4 : /\ p4 = packLogVarInt(h.source) /\ p4 \in Seq(Nat)
                /\ Len(p4) = getSizeOfLVIToPack(h.source)
  BY <1>1, PackedLVI
<1>6. PICK p5 : p5 = Bytes(h.number, h.numLen + 1) /\ p5 \in Seq(Nat) /\ Len(p5) = h.numLen + 1
  <2>1. h.numLen + 1 \in 0 .. 8
    BY <1>1
  <2> QED
    BY <1>1, <2>1, BytesIs
<1>7. SerializeHeader(h) = (((p1 \o p2) \o p3) \o p4) \o p5
  BY <1>2, <1>3, <1>4, <1>5, <1>6, Zenon DEF SerializeHeader, packDirVarInt
<1> QED
  BY <1>2, <1>3, <1>4, <1>5, <1>6, <1>7, Zenon DEF HeaderIs

\* The size of a header is the number of its bytes.
LEMMA HeaderSize ==
    ASSUME NEW h, IsHeader(h)
    PROVE  /\ SerializeHeader(h) \in Seq(Nat)
           /\ Len(SerializeHeader(h)) = getSerializedSizeOfHeader(h)
           /\ Len(SerializeHeader(h)) \in Nat \ {0}
<1>1. PICK p1, p2, p3, p4, p5 : HeaderIs(h, p1, p2, p3, p4, p5)
  BY HeaderParts
<1>2. p1 \in Seq(Nat) /\ p2 \in Seq(Nat) /\ p3 \in Seq(Nat) /\ p4 \in Seq(Nat) /\ p5 \in Seq(Nat)
  BY <1>1, Zenon DEF HeaderIs
<1>3. PICK u : u = p1 \o p2 /\ u \in Seq(Nat) /\ Len(u) = Len(p1) + Len(p2)
  BY <1>2, Joined
<1>4. PICK v : v = u \o p3 /\ v \in Seq(Nat) /\ Len(v) = Len(u) + Len(p3)
  BY <1>2, <1>3, Joined
<1>5. PICK w : w = v \o p4 /\ w \in Seq(Nat) /\ Len(w) = Len(v) + Len(p4)
  BY <1>2, <1>4, Joined
<1>6. PICK s : s = w \o p5 /\ s \in Seq(Nat) /\ Len(s) = Len(w) + Len(p5)
  BY <1>2, <1>5, Joined
<1>7. SerializeHeader(h) = s
  BY <1>1, <1>3, <1>4, <1>5, <1>6, Zenon DEF HeaderIs
<1>8. PICK n2 \in Nat, n3 \in Nat, n4 \in Nat, n5 \in Nat :
         Len(p2) = n2 /\ Len(p3) = n3 /\ Len(p4) = n4 /\ Len(p5) = n5
  BY <1>2
<1>9. /\ Len(p1) = 1 /\ n2 = VersionSize(h.class) /\ n3 = h.chatLen + 1
      /\ n4 = getSizeOfLVIToPack(h.source) /\ n5 = h.numLen + 1
  BY <1>1, <1>8, Zenon DEF HeaderIs
<1>10. Len(s) = 1 + n2 + n3 + n4 + n5
  BY <1>3, <1>4, <1>5, <1>6, <1>8, <1>9
<1>11. getSerializedSizeOfHeader(h) = 1 + n2 + n3 + n5 + n4
  BY <1>9, Zenon DEF getSerializedSizeOfHeader
<1> QED
  BY <1>6, <1>7, <1>10, <1>11

LEMMA WordRead ==
    ASSUME NEW v \in Nat, FitsDVI(v), NEW b \in Seq(Nat), NEW i \in Nat \ {0},
           At(b, i, Bytes(v, 4))
    PROVE  Value(b, i, 4, b[i]) = v
<1>1. PICK s \in [0 .. 7 -> Nat] : s = Shifted(v)
  BY ShiftedIs
<1>2. s[3] \in Nat
  BY 3 \in 0 .. 7
<1>3. s[3] < Base
  BY <1>1 DEF FitsDVI
<1>4. PICK n \in 1 .. 4 : n = 4 /\ n - 1 = 3
  OBVIOUS
<1>5. Shifted(v)[n - 1] \in 0 .. Base - 1
  BY <1>1, <1>2, <1>3, <1>4, Bounds
<1>6. At(b, i, Bytes(v, n))
  BY <1>4
<1>7. Value(b, i, n, b[i]) = v
  BY <1>5, <1>6, BytesRead
<1> QED
  BY <1>4, <1>7

LEMMA DVIRead ==
    ASSUME NEW v \in Nat, FitsDVI(v), NEW b \in Seq(Nat), NEW i \in Nat \ {0},
           NEW n, n = getSizeOfDVIToPack(v), At(b, i, Bytes(v, n))
    PROVE  unpackDirVarInt(b, i, n) = v
<1>1. n \in 1 .. 4 /\ Shifted(v)[n - 1] \in 0 .. Base - 1
  BY SizeOfDVI
<1> QED
  BY <1>1, BytesRead DEF unpackDirVarInt

\* The stub gives back its bit fields.
LEMMA StubRead ==
    ASSUME NEW h, NEW stub, stub = SerializeMessageStub(h),
           h.class \in 0 .. 1, h.control \in 0 .. 3, h.numLen \in 0 .. 3, h.chatLen \in 0 .. 3,
           h.data \in 0 .. 1
    PROVE  /\ stub \div 128 = h.class /\ (stub \div 32) % 4 = h.control
           /\ (stub \div 8) % 4 = h.numLen /\ (stub \div 2) % 4 = h.chatLen
           /\ stub % 2 = h.data
<1>1. PICK c \in 0 .. 1, k \in 0 .. 3, n \in 0 .. 3, m \in 0 .. 3, d \in 0 .. 1 :
         c = h.class /\ k = h.control /\ n = h.numLen /\ m = h.chatLen /\ d = h.data
  OBVIOUS
<1>2. PICK s \in Nat : s = c * 128 + k * 32 + n * 8 + m * 2 + d
  OBVIOUS
<1>3. /\ s \div 128 = c /\ (s \div 32) % 4 = k /\ (s \div 8) % 4 = n
      /\ (s \div 2) % 4 = m /\ s % 2 = d
  BY <1>2
<1>4. stub = s
  BY <1>1, <1>2, Zenon DEF SerializeMessageStub
<1> QED
  BY <1>1, <1>3, <1>4, Zenon

\* The cells at which the parts of a header lie.
LEMMA HeaderCells ==
    ASSUME NEW h, IsHeader(h), NEW b \in Seq(Nat), At(b, 1, SerializeHeader(h))
    PROVE  \E i3 \in Nat \ {0}, i4 \in Nat \ {0}, i5 \in Nat \ {0} :
              /\ i3 = 2 + VersionSize(h.class) /\ i4 = i3 + h.chatLen + 1
              /\ i5 = i4 + getSizeOfLVIToPack(h.source)
              /\ b[1] = SerializeMessageStub(h)
              /\ At(b, 2, Bytes(h.version, VersionSize(h.class)))
              /\ At(b, i3, Bytes(h.chat, h.chatLen + 1))
              /\ At(b, i4, packLogVarInt(h.source))
              /\ At(b, i5, Bytes(h.number, h.numLen + 1))
<1>1. PICK p1, p2, p3, p4, p5 : HeaderIs(h, p1, p2, p3, p4, p5)
  BY HeaderParts
<1>2. p1 \in Seq(Nat) /\ p2 \in Seq(Nat) /\ p3 \in Seq(Nat) /\ p4 \in Seq(Nat) /\ p5 \in Seq(Nat)
  BY <1>1, Zenon DEF HeaderIs
<1>3. /\ p1 = <<SerializeMessageStub(h)>> /\ Len(p1) = 1
      /\ p2 = Bytes(h.version, VersionSize(h.class)) /\ Len(p2) = VersionSize(h.class)
      /\ p3 = Bytes(h.chat, h.chatLen + 1) /\ Len(p3) = h.chatLen + 1
      /\ p4 = packLogVarInt(h.source) /\ Len(p4) = getSizeOfLVIToPack(h.source)
      /\ p5 = Bytes(h.number, h.numLen + 1)
  BY <1>1, Zenon DEF HeaderIs
<1>4. PICK u : u = p1 \o p2 /\ u \in Seq(Nat) /\ Len(u) = Len(p1) + Len(p2)
  BY <1>2, Joined
<1>5. PICK v : v = u \o p3 /\ v \in Seq(Nat) /\ Len(v) = Len(u) + Len(p3)
  BY <1>2, <1>4, Joined
<1>6. PICK w : w = v \o p4 /\ w \in Seq(Nat) /\ Len(w) = Len(v) + Len(p4)
  BY <1>2, <1>5, Joined
<1>7. PICK i \in Nat \ {0} : i = 1
  OBVIOUS
<1>8. At(b, i, w) /\ At(b, i + Len(w), p5)
  <2>1. At(b, i, w \o p5)
    BY <1>1, <1>4, <1>5, <1>6, <1>7, Zenon DEF HeaderIs
  <2> QED
    BY <1>2, <1>6, <2>1, AtParts
<1>9. At(b, i, v) /\ At(b, i + Len(v), p4)
  BY <1>2, <1>5, <1>6, <1>8, AtParts
<1>10. At(b, i, u) /\ At(b, i + Len(u), p3)
  BY <1>2, <1>4, <1>5, <1>9, AtParts
<1>11. At(b, i, p1) /\ At(b, i + Len(p1), p2)
  BY <1>2, <1>4, <1>10, AtParts
<1>12. b[1] = SerializeMessageStub(h)
  <2>1. 1 \in 1 .. 1 /\ 1 + 1 - 1 = 1
    OBVIOUS
  <2>2. b[1 + 1 - 1] = p1[1]
    BY <1>3, <1>7, <1>11, <2>1, Zenon DEF At
  <2>3. p1[1] = SerializeMessageStub(h)
    BY <1>3
  <2> QED
    BY <2>1, <2>2, <2>3, Zenon
<1>13. PICK m2 \in Nat, m3 \in Nat, m4 \in Nat : Len(p2) = m2 /\ Len(p3) = m3 /\ Len(p4) = m4
  BY <1>2
<1>14. PICK c \in Nat : c = h.chatLen /\ m3 = c + 1
  <2>1. h.chatLen \in Nat
    BY DEF IsHeader
  <2> QED
    BY <1>3, <1>13, <2>1, Zenon
<1>15. i + Len(p1) = 2
  BY <1>3, <1>7
<1>16. PICK i3 \in Nat \ {0} : i3 = 2 + m2 /\ i + Len(u) = i3
  BY <1>3, <1>4, <1>7, <1>13
<1>17. PICK i4 \in Nat \ {0} : i4 = i3 + c + 1 /\ i + Len(v) = i4
  <2>1. PICK x \in Nat : x = Len(u)
    BY <1>4
  <2>2. Len(v) = x + (c + 1)
    BY <1>5, <1>13, <1>14, <2>1, Zenon
  <2>3. i + x = i3
    BY <1>16, <2>1, Zenon
  <2>4. i + (x + (c + 1)) = i3 + c + 1
    BY <2>3
  <2>5. i3 + c + 1 \in Nat \ {0}
    OBVIOUS
  <2> QED
    BY <2>2, <2>4, <2>5, Zenon
<1>18. PICK i5 \in Nat \ {0} : i5 = i4 + m4 /\ i + Len(w) = i5
  BY <1>6, <1>7, <1>13, <1>17
<1>19. /\ i3 = 2 + VersionSize(h.class) /\ i4 = i3 + h.chatLen + 1
       /\ i5 = i4 + getSizeOfLVIToPack(h.source)
  BY <1>3, <1>13, <1>14, <1>16, <1>17, <1>18, Zenon
<1>20. /\ At(b, 2, Bytes(h.version, VersionSize(h.class)))
       /\ At(b, i3, Bytes(h.chat, h.chatLen + 1))
       /\ At(b, i4, packLogVarInt(h.source))
       /\ At(b, i5, Bytes(h.number, h.numLen + 1))
  BY <1>3, <1>8, <1>9, <1>10, <1>11, <1>15, <1>16, <1>17, <1>18, Zenon
<1> QED
  BY <1>12, <1>19, <1>20, Zenon

\* A header is rebuilt as it was.
LEMMA HeaderRead ==
    ASSUME NEW h, IsHeader(h), NEW b \in Seq(Nat), At(b, 1, SerializeHeader(h))
    PROVE  rebuildHeader(b) = h
<1>1. PICK i3 \in Nat \ {0}, i4 \in Nat \ {0}, i5 \in Nat \ {0} :
         /\ i3 = 2 + VersionSize(h.class) /\ i4 = i3 + h.chatLen + 1
         /\ i5 = i4 + getSizeOfLVIToPack(h.source)
         /\ b[1] = SerializeMessageStub(h)
         /\ At(b, 2, Bytes(h.version, VersionSize(h.class)))
         /\ At(b, i3, Bytes(h.chat, h.chatLen + 1))
         /\ At(b, i4, packLogVarInt(h.source))
         /\ At(b, i5, Bytes(h.number, h.numLen + 1))
  BY HeaderCells
<1>2. /\ h.class \in 0 .. 1 /\ h.control \in 0 .. 3 /\ h.numLen \in 0 .. 3
      /\ h.chatLen \in 0 .. 3 /\ h.data \in 0 .. 1
      /\ h.version \in Nat /\ h.chat \in Nat /\ h.source \in Nat /\ h.number \in Nat
      /\ FitsLVI(h.source) /\ FitsDVI(h.chat) /\ FitsDVI(h.number) /\ FitsDVI(h.version)
      /\ h.numLen = getSizeOfDVIToPack(h.number) - 1
      /\ h.chatLen = getSizeOfDVIToPack(h.chat) - 1
      /\ h.class = 0 => h.version = 0
  BY DEF IsHeader
<1>3. PICK stub : stub = b[1] /\ stub = SerializeMessageStub(h)
  BY <1>1, Zenon
<1>4. /\ stub \div 128 = h.class /\ (stub \div 32) % 4 = h.control
      /\ (stub \div 8) % 4 = h.numLen /\ (stub \div 2) % 4 = h.chatLen
      /\ stub % 2 = h.data
  BY <1>2, <1>3, StubRead
<1>5. unpackDirVarInt(b, i3, h.chatLen + 1) = h.chat
  <2>1. h.chatLen + 1 = getSizeOfDVIToPack(h.chat)
    BY <1>2, SizeOfDVI
  <2> QED
    BY <1>1, <1>2, <2>1, DVIRead
<1>6. unpackLogVarInt(b, i4) = h.source
  BY <1>1, <1>2, LVIRead
<1>7. unpackDirVarInt(b, i5, h.numLen + 1) = h.number
  <2>1. h.numLen + 1 = getSizeOfDVIToPack(h.number)
    BY <1>2, SizeOfDVI
  <2> QED
    BY <1>1, <1>2, <2>1, DVIRead
<1>8. (IF h.class = 1 THEN Value(b, 2, 4, b[2]) ELSE 0) = h.version
  <2>1. CASE h.class = 0
    BY <1>2, <2>1
  <2>2. CASE h.class = 1
    <3>1. VersionSize(h.class) = 4
      BY <2>2 DEF VersionSize
    <3>2. PICK i \in Nat \ {0} : i = 2
      OBVIOUS
    <3>3. At(b, i, Bytes(h.version, 4))
      BY <1>1, <3>1, <3>2, Zenon
    <3>4. Value(b, i, 4, b[i]) = h.version
      BY <1>2, <3>3, WordRead
    <3> QED
      BY <2>2, <3>2, <3>4, Zenon
  <2> QED
    BY <1>2, <2>1, <2>2
<1>9. rebuildHeader(b) =
         [class |-> h.class, control |-> h.control, numLen |-> h.numLen,
          chatLen |-> h.chatLen, data |-> h.data, version |-> h.version,
          chat |-> h.chat, source |-> h.source, number |-> h.number]
  BY <1>1, <1>3, <1>4, <1>5, <1>6, <1>7, <1>8, Zenon DEF rebuildHeader
<1> QED
  BY <1>9 DEF IsHeader


-----------------------------------------------------------------------------
(* Frames.                                                                  *)

\* A type takes one byte.
LEMMA TypeFits ==
    ASSUME NEW v \in 0 .. 3
    PROVE  FitsLVI(v) /\ getSizeOfLVIToPack(v) = 1
<1>1. v \in Nat
  OBVIOUS
<1>2. PICK s \in [0 .. 7 -> Nat] :
         s = Shifted(v) /\ s[0] = v /\ \A k \in 1 .. 7 : s[k] = s[k - 1] \div Base
  BY <1>1, ShiftedIs, Zenon
<1>3. PICK B \in Nat : B = Base /\ B >= 16
  BY BaseAssumption
<1> DEFINE T == {k \in 0 .. 7 : s[k] < 4}
<1>4. 0 \in T
  BY <1>2
<1>5. ASSUME NEW k \in 1 .. 7, k - 1 \in T PROVE k \in T
  <2>1. PICK x \in 0 .. 3 : x = s[k - 1]
    <3>1. k - 1 \in 0 .. 7
      OBVIOUS
    <3>2. s[k - 1] \in Nat
      BY <3>1, Zenon
    <3> QED
      BY <1>5, <3>2
  <2>2. x \div B = 0
    BY <1>3
  <2> QED
    BY <1>2, <1>3, <2>1, <2>2
<1>6. \A k \in 0 .. 7 : k \in T
  <2> HIDE DEF T
  <2> QED
    BY <1>4, <1>5, UpTo
<1>7. s[7] < 4
  BY <1>6
<1>8. s[7] \in Nat
  BY 7 \in 0 .. 7
<1> QED
  BY <1>1, <1>2, <1>7, <1>8, Bounds DEF FitsLVI, getSizeOfLVIToPack

LEMMA FrameFields ==
    ASSUME NEW f \in Frame, IsFrame(f)
    PROVE  /\ f.type \in 0 .. 3
           /\ f.type = 0 => /\ f = TransitMetadata(f.id, f.total, f.specific)
                            /\ f.id \in Nat /\ f.total \in Nat /\ f.specific \in Nat
                            /\ FitsDVI(f.id) /\ FitsLVI(f.total) /\ FitsLVI(f.specific)
           /\ f.type # 0 => /\ f = Plaintext(f.type, f.text)
                            /\ f.text \in Seq(Nat) /\ Len(f.text) \in Nat
                            /\ FitsLVI(Len(f.text))
                            /\ f.type = 2 => \A i \in 1 .. Len(f.text) : f.text[i] # 0
<1>1. CASE f \in [type : {0}, id : Nat, total : Nat, specific : Nat]
  <2>1. f.type = 0 /\ f.id \in Nat /\ f.total \in Nat /\ f.specific \in Nat
    BY <1>1
  <2>2. f = TransitMetadata(f.id, f.total, f.specific)
    BY <1>1 DEF TransitMetadata
  <2> QED
    BY <2>1, <2>2 DEF IsFrame
<1>2. CASE f \in [type : 1 .. 3, text : Seq(0 .. Base - 1)]
  <2>1. f.type \in 1 .. 3 /\ f.text \in Seq(0 .. Base - 1)
    BY <1>2
  <2>2. f.text \in Seq(Nat) /\ Len(f.text) \in Nat
    BY <2>1, Bounds
  <2>3. f = Plaintext(f.type, f.text)
    BY <1>2 DEF Plaintext
  <2> QED
    BY <2>1, <2>2, <2>3 DEF IsFrame
<1> QED
  BY <1>1, <1>2 DEF Frame

\* The bytes of transit metadata, in their parts.
LEMMA TransitParts ==
    ASSUME NEW f \in Frame, IsFrame(f), f.type = 0
    PROVE  \E q1 \in Seq(Nat), q2 \in Seq(Nat), q3 \in Seq(Nat), q4 \in Seq(Nat) :
              /\ SerializeFrameInto(f) = ((q1 \o q2) \o q3) \o q4
              /\ q1 = packLogVarInt(f.type) /\ Len(q1) = 1
              /\ q2 = Bytes(f.id, 4) /\ Len(q2) = 4
              /\ q3 = packLogVarInt(f.total) /\ Len(q3) = getSizeOfLVIToPack(f.total)
              /\ q4 = packLogVarInt(f.specific) /\ Len(q4) = getSizeOfLVIToPack(f.specific)
<1>1. /\ f.type \in 0 .. 3 /\ f.type \in Nat /\ f.id \in Nat /\ f.total \in Nat /\ f.specific \in Nat
      /\ FitsLVI(f.total) /\ FitsLVI(f.specific)
  BY FrameFields
<1>2. PICK q1 \in Seq(Nat) : q1 = packLogVarInt(f.type) /\ Len(q1) = 1
  BY <1>1, TypeFits, LVIIs
<1>3. PICK q2 \in Seq(Nat) : q2 = Bytes(f.id, 4) /\ Len(q2) = 4
  <2>1. 4 \in 0 .. 8
    OBVIOUS
  <2> QED
    BY <1>1, <2>1, BytesIs
<1>4. PICK q3 \in Seq(Nat) : q3 = packLogVarInt(f.total) /\ Len(q3) = getSizeOfLVIToPack(f.total)
  BY <1>1, LVIIs
<1>5. PICK q4 \in Seq(Nat) :
         q4 = packLogVarInt(f.specific) /\ Len(q4) = getSizeOfLVIToPack(f.specific)
  BY <1>1, LVIIs
<1>6. SerializeFrameInto(f) = SerializeTMDInto(f)
  BY DEF SerializeFrameInto
<1> QED
  BY <1>2, <1>3, <1>4, <1>5, <1>6, Zenon DEF SerializeTMDInto

\* The bytes of a plaintext frame: its type, then a length and the text, or the
\* text and a zero.
TextIs(f, q1, q2, q3) ==
    /\ q1 \in Seq(Nat) /\ q2 \in Seq(Nat) /\ q3 \in Seq(Nat)
    /\ SerializeFrameInto(f) = q1 \o (q2 \o q3)
    /\ q1 = packLogVarInt(f.type) /\ Len(q1) = 1
    /\ f.type = 2 => q2 = f.text /\ q3 = <<0>> /\ Len(q3) = 1
    /\ f.type # 2 => /\ q2 = packLogVarInt(Len(f.text))
                     /\ Len(q2) = getSizeOfLVIToPack(Len(f.text))
                     /\ q3 = f.text

LEMMA TextParts ==
    ASSUME NEW f \in Frame, IsFrame(f), f.type # 0
    PROVE  \E q1, q2, q3 : TextIs(f, q1, q2, q3)
<1>1. /\ f.type \in 1 .. 3 /\ f.type \in 0 .. 3 /\ f.type \in Nat
      /\ f.text \in Seq(Nat) /\ Len(f.text) \in Nat /\ FitsLVI(Len(f.text))
  BY FrameFields
<1>2. PICK q1 \in Seq(Nat) : q1 = packLogVarInt(f.type) /\ Len(q1) = 1
  BY <1>1, TypeFits, LVIIs
<1>3. SerializeFrameInto(f) = SerializePTFInto(f)
  <2>1. f.type \in {1, 2, 3}
    BY <1>1
  <2> QED
    BY <2>1 DEF SerializeFrameInto
<1>4. CASE f.type = 2
  <2>1. f.type % 2 # 1
    BY <1>4
  <2>2. SerializePTFInto(f) = q1 \o (f.text \o <<0>>)
    BY <1>2, <2>1, Zenon DEF SerializePTFInto
  <2>3. PICK q3 \in Seq(Nat) : q3 = <<0>> /\ Len(q3) = 1
    <3>1. <<0>> \in Seq(Nat) /\ Len(<<0>>) = 1
      OBVIOUS
    <3> QED
      BY <3>1, Zenon
  <2> QED
    BY <1>1, <1>2, <1>3, <1>4, <2>2, <2>3, Zenon DEF TextIs
<1>5. CASE f.type # 2
  <2>1. f.type % 2 = 1
    BY <1>1, <1>5
  <2>2. PICK q2 \in Seq(Nat) :
           q2 = packLogVarInt(Len(f.text)) /\ Len(q2) = getSizeOfLVIToPack(Len(f.text))
    BY <1>1, LVIIs
  <2>3. SerializePTFInto(f) = q1 \o (q2 \o f.text)
    BY <1>2, <2>1, <2>2, Zenon DEF SerializePTFInto
  <2> QED
    BY <1>1, <1>2, <1>3, <1>5, <2>2, <2>3, Zenon DEF TextIs
<1> QED
  BY <1>4, <1>5


\* The size of a frame is the number of its bytes, and there are two at least.
LEMMA FrameSize ==
    ASSUME NEW f \in Frame, IsFrame(f)
    PROVE  /\ SerializeFrameInto(f) \in Seq(Nat)
           /\ Len(SerializeFrameInto(f)) = getSerializedSizeOfFrame(f)
           /\ Len(SerializeFrameInto(f)) \in Nat /\ Len(SerializeFrameInto(f)) >= 2
<1>1. CASE f.type = 0
  <2>1. PICK q1 \in Seq(Nat), q2 \in Seq(Nat), q3 \in Seq(Nat), q4 \in Seq(Nat) :
           /\ SerializeFrameInto(f) = ((q1 \o q2) \o q3) \o q4
           /\ q1 = packLogVarInt(f.type) /\ Len(q1) = 1
           /\ q2 = Bytes(f.id, 4) /\ Len(q2) = 4
           /\ q3 = packLogVarInt(f.total) /\ Len(q3) = getSizeOfLVIToPack(f.total)
           /\ q4 = packLogVarInt(f.specific) /\ Len(q4) = getSizeOfLVIToPack(f.specific)
    BY <1>1, TransitParts
  <2>2. PICK u \in Seq(Nat) : u = q1 \o q2 /\ Len(u) = Len(q1) + Len(q2)
    BY Joined
  <2>3. PICK v \in Seq(Nat) : v = u \o q3 /\ Len(v) = Len(u) + Len(q3)
    BY Joined
  <2>4. PICK w \in Seq(Nat) : w = v \o q4 /\ Len(w) = Len(v) + Len(q4)
    BY Joined
  <2>5. SerializeFrameInto(f) = w
    BY <2>1, <2>2, <2>3, <2>4, Zenon
  <2>6. PICK m \in Nat, n \in Nat : m = Len(q3) /\ n = Len(q4)
    OBVIOUS
  <2>7. Len(w) = 1 + 4 + m + n
    BY <2>1, <2>2, <2>3, <2>4, <2>6
  <2>8. getSerializedSizeOfFrame(f) = 1 + 4 + getSizeOfLVIToPack(f.total) + getSizeOfLVIToPack(f.specific)
    BY <1>1 DEF getSerializedSizeOfFrame
  <2>9. getSerializedSizeOfFrame(f) = 1 + 4 + m + n
    BY <2>1, <2>6, <2>8, Zenon
  <2> QED
    BY <2>4, <2>5, <2>6, <2>7, <2>9
<1>2. CASE f.type # 0
  <2>1. PICK q1, q2, q3 : TextIs(f, q1, q2, q3)
    BY <1>2, TextParts
  <2>2. /\ q1 \in Seq(Nat) /\ q2 \in Seq(Nat) /\ q3 \in Seq(Nat)
        /\ SerializeFrameInto(f) = q1 \o (q2 \o q3)
        /\ q1 = packLogVarInt(f.type) /\ Len(q1) = 1
        /\ f.type = 2 => q2 = f.text /\ q3 = <<0>> /\ Len(q3) = 1
        /\ f.type # 2 => /\ q2 = packLogVarInt(Len(f.text))
                         /\ Len(q2) = getSizeOfLVIToPack(Len(f.text))
                         /\ q3 = f.text
    BY <2>1, Zenon DEF TextIs
  <2>3. PICK u \in Seq(Nat) : u = q2 \o q3 /\ Len(u) = Len(q2) + Len(q3)
    BY <2>2, Joined
  <2>4. PICK w \in Seq(Nat) : w = q1 \o u /\ Len(w) = Len(q1) + Len(u)
    BY <2>2, <2>3, Joined
  <2>5. SerializeFrameInto(f) = w
    BY <2>2, <2>3, <2>4, Zenon
  <2>6. PICK m \in Nat, n \in Nat : m = Len(q2) /\ n = Len(q3)
    BY <2>2
  <2>7. Len(w) = 1 + m + n
    BY <2>2, <2>3, <2>4, <2>6
  <2>8. f.type \in 1 .. 3 /\ Len(f.text) \in Nat /\ FitsLVI(Len(f.text))
    BY <1>2, FrameFields
  <2>9. getSerializedSizeOfFrame(f) = getSerializedSizeOfPTF(f)
    <3>1. f.type \in {1, 2, 3}
      BY <2>8
    <3> QED
      BY <3>1 DEF getSerializedSizeOfFrame
  <2>10. CASE f.type = 2
    <3>1. f.type % 2 # 1
      BY <2>10
    <3>2. getSerializedSizeOfPTF(f) = 1 + Len(f.text) + 1
      BY <3>1, Zenon DEF getSerializedSizeOfPTF
    <3>3. m = Len(f.text) /\ n = 1
      BY <2>2, <2>6, <2>10, Zenon
    <3> QED
      BY <2>4, <2>5, <2>6, <2>7, <2>9, <3>2, <3>3
  <2>11. CASE f.type # 2
    <3>1. f.type % 2 = 1
      BY <2>8, <2>11
    <3>2. m = getSizeOfLVIToPack(Len(f.text)) /\ n = Len(f.text)
      BY <2>2, <2>6, <2>11, Zenon
    <3>3. getSerializedSizeOfPTF(f) = n + m + 1
      BY <3>1, <3>2, Zenon DEF getSerializedSizeOfPTF
    <3>4. m >= 1
      <4>1. m \in {1, 2, 4, 8}
        BY <2>8, <3>2, SizeOfLVI
      <4> QED
        BY <4>1
    <3> QED
      BY <2>4, <2>5, <2>6, <2>7, <2>9, <3>3, <3>4
  <2> QED
    BY <2>10, <2>11
<1> QED
  BY <1>1, <1>2

\* Transit metadata is read field by field.
LEMMA TransitRead ==
    ASSUME NEW f \in Frame, IsFrame(f), f.type = 0,
           NEW b \in Seq(Nat), NEW i \in Nat \ {0}, At(b, i, SerializeFrameInto(f))
    PROVE  \E m \in Nat, n \in Nat :
              /\ m = getSizeOfLVIToPack(f.total) /\ n = getSizeOfLVIToPack(f.specific)
              /\ Len(SerializeFrameInto(f)) = 5 + m + n
              /\ unpackLogVarInt(b, i) = 0
              /\ Value(b, i + 1, 4, b[i + 1]) = f.id
              /\ unpackLogVarInt(b, i + 5) = f.total
              /\ unpackLogVarInt(b, i + 5 + m) = f.specific
<1>1. PICK q1 \in Seq(Nat), q2 \in Seq(Nat), q3 \in Seq(Nat), q4 \in Seq(Nat) :
         /\ SerializeFrameInto(f) = ((q1 \o q2) \o q3) \o q4
         /\ q1 = packLogVarInt(f.type) /\ Len(q1) = 1
         /\ q2 = Bytes(f.id, 4) /\ Len(q2) = 4
         /\ q3 = packLogVarInt(f.total) /\ Len(q3) = getSizeOfLVIToPack(f.total)
         /\ q4 = packLogVarInt(f.specific) /\ Len(q4) = getSizeOfLVIToPack(f.specific)
  BY TransitParts
<1>2. PICK u \in Seq(Nat) : u = q1 \o q2 /\ Len(u) = Len(q1) + Len(q2)
  BY Joined
<1>3. PICK v \in Seq(Nat) : v = u \o q3 /\ Len(v) = Len(u) + Len(q3)
  BY Joined
<1>4. At(b, i, v) /\ At(b, i + Len(v), q4)
  <2>1. At(b, i, v \o q4)
    BY <1>1, <1>2, <1>3, Zenon
  <2> QED
    BY <2>1, AtParts
<1>5. At(b, i, u) /\ At(b, i + Len(u), q3)
  BY <1>3, <1>4, AtParts
<1>6. At(b, i, q1) /\ At(b, i + Len(q1), q2)
  BY <1>2, <1>5, AtParts
<1>7. PICK m \in Nat, n \in Nat : m = Len(q3) /\ n = Len(q4)
  OBVIOUS
<1>8. PICK i2 \in Nat \ {0}, i3 \in Nat \ {0}, i4 \in Nat \ {0} :
         i2 = i + 1 /\ i3 = i + 5 /\ i4 = i + 5 + m
  OBVIOUS
<1>9. i + Len(q1) = i2 /\ i + Len(u) = i3 /\ i + Len(v) = i4
  <2>1. Len(u) = 1 + 4
    BY <1>1, <1>2, Zenon
  <2>2. Len(v) = (1 + 4) + m
    BY <1>3, <1>7, <2>1, Zenon
  <2>3. i + 1 = i2 /\ i + (1 + 4) = i3 /\ i + ((1 + 4) + m) = i4
    BY <1>8
  <2> QED
    BY <1>1, <2>1, <2>2, <2>3, Zenon
<1>10. /\ f.type \in Nat /\ f.id \in Nat /\ f.total \in Nat /\ f.specific \in Nat /\ FitsLVI(f.type)
       /\ FitsDVI(f.id) /\ FitsLVI(f.total) /\ FitsLVI(f.specific)
  BY FrameFields, TypeFits
<1>11. unpackLogVarInt(b, i) = 0
  <2>1. At(b, i, packLogVarInt(f.type))
    BY <1>1, <1>6, Zenon
  <2> QED
    BY <1>10, <2>1, LVIRead
<1>12. Value(b, i2, 4, b[i2]) = f.id
  <2>1. At(b, i2, Bytes(f.id, 4))
    BY <1>1, <1>6, <1>9, Zenon
  <2> QED
    BY <1>10, <2>1, WordRead
<1>13. unpackLogVarInt(b, i3) = f.total
  <2>1. At(b, i3, packLogVarInt(f.total))
    BY <1>1, <1>5, <1>9, Zenon
  <2> QED
    BY <1>10, <2>1, LVIRead
<1>14. unpackLogVarInt(b, i4) = f.specific
  <2>1. At(b, i4, packLogVarInt(f.specific))
    BY <1>1, <1>4, <1>9, Zenon
  <2> QED
    BY <1>10, <2>1, LVIRead
<1>15. Len(SerializeFrameInto(f)) = 5 + m + n
  <2>1. Len(v \o q4) = Len(v) + Len(q4)
    BY Joined
  <2>2. SerializeFrameInto(f) = v \o q4
    BY <1>1, <1>2, <1>3, Zenon
  <2>3. Len(SerializeFrameInto(f)) = ((1 + 4) + m) + n
    BY <1>1, <1>2, <1>3, <1>7, <2>1, <2>2, Zenon
  <2> QED
    BY <2>3
<1> QED
  BY <1>1, <1>7, <1>8, <1>11, <1>12, <1>13, <1>14, <1>15, Zenon

\* A text that has its length in front is found behind it.
LEMMA LengthRead ==
    ASSUME NEW f \in Frame, IsFrame(f), f.type = 3,
           NEW b \in Seq(Nat), NEW i \in Nat \ {0}, At(b, i, SerializeFrameInto(f))
    PROVE  \E n \in Nat, m \in Nat :
              /\ n = Len(f.text) /\ m = getSizeOfLVIToPack(n)
              /\ Len(SerializeFrameInto(f)) = 1 + m + n
              /\ unpackLogVarInt(b, i) = 3 /\ unpackLogVarInt(b, i + 1) = n
              /\ At(b, i + 1 + m, f.text)
<1>1. PICK q1, q2, q3 : TextIs(f, q1, q2, q3)
  <2>1. f.type # 0
    OBVIOUS
  <2> QED
    BY <2>1, TextParts
<1>2. /\ q1 \in Seq(Nat) /\ q2 \in Seq(Nat) /\ q3 \in Seq(Nat)
      /\ SerializeFrameInto(f) = q1 \o (q2 \o q3)
      /\ q1 = packLogVarInt(f.type) /\ Len(q1) = 1
      /\ q2 = packLogVarInt(Len(f.text))
      /\ Len(q2) = getSizeOfLVIToPack(Len(f.text))
      /\ q3 = f.text
  <2>1. f.type # 0 /\ f.type # 2
    OBVIOUS
  <2> QED
    BY <1>1, <2>1, Zenon DEF TextIs
<1>3. PICK u \in Seq(Nat) : u = q2 \o q3 /\ Len(u) = Len(q2) + Len(q3)
  BY <1>2, Joined
<1>4. At(b, i, q1) /\ At(b, i + Len(q1), u)
  <2>1. At(b, i, q1 \o u)
    BY <1>2, <1>3, Zenon
  <2> QED
    BY <1>2, <1>3, <2>1, AtParts
<1>5. PICK m \in Nat, n \in Nat : m = Len(q2) /\ n = Len(q3)
  BY <1>2
<1>6. PICK i2 \in Nat \ {0} : i2 = i + 1
  OBVIOUS
<1>7. At(b, i2, q2) /\ At(b, i2 + m, q3)
  <2>1. At(b, i2, q2 \o q3)
    BY <1>2, <1>3, <1>4, <1>6, Zenon
  <2>2. At(b, i2, q2) /\ At(b, i2 + Len(q2), q3)
    BY <1>2, <1>3, <2>1, AtParts
  <2> QED
    BY <1>5, <2>2, Zenon
<1>8. /\ f.type \in Nat /\ FitsLVI(f.type) /\ Len(f.text) \in Nat /\ FitsLVI(Len(f.text))
  BY FrameFields, TypeFits
<1>9. unpackLogVarInt(b, i) = 3
  <2>1. At(b, i, packLogVarInt(f.type))
    BY <1>2, <1>4, Zenon
  <2> QED
    BY <1>8, <2>1, LVIRead
<1>10. unpackLogVarInt(b, i2) = Len(f.text)
  <2>1. At(b, i2, packLogVarInt(Len(f.text)))
    BY <1>2, <1>7, Zenon
  <2> QED
    BY <1>8, <2>1, LVIRead
<1>11. Len(SerializeFrameInto(f)) = 1 + m + n
  <2>1. Len(q1 \o u) = Len(q1) + Len(u)
    BY <1>2, <1>3, Joined
  <2>2. SerializeFrameInto(f) = q1 \o u
    BY <1>2, <1>3, Zenon
  <2>3. Len(u) = m + n
    BY <1>2, <1>3, <1>5, Zenon
  <2>4. Len(SerializeFrameInto(f)) = 1 + (m + n)
    BY <1>2, <2>1, <2>2, <2>3, Zenon
  <2> QED
    BY <2>4
<1> QED
  BY <1>2, <1>5, <1>6, <1>7, <1>9, <1>10, <1>11, Zenon

\* A text that has none ends before the first zero byte.
LEMMA ZeroRead ==
    ASSUME NEW f \in Frame, IsFrame(f), f.type = 2,
           NEW b \in Seq(Nat), NEW i \in Nat \ {0}, At(b, i, SerializeFrameInto(f))
    PROVE  \E n \in Nat :
              /\ n = Len(f.text) /\ Len(SerializeFrameInto(f)) = n + 2
              /\ unpackLogVarInt(b, i) = 2
              /\ At(b, i + 1, f.text) /\ b[i + 1 + n] = 0
<1>1. PICK q1, q2, q3 : TextIs(f, q1, q2, q3)
  <2>1. f.type # 0
    OBVIOUS
  <2> QED
    BY <2>1, TextParts
<1>2. /\ q1 \in Seq(Nat) /\ q2 \in Seq(Nat) /\ q3 \in Seq(Nat)
      /\ SerializeFrameInto(f) = q1 \o (q2 \o q3)
      /\ q1 = packLogVarInt(f.type) /\ Len(q1) = 1
      /\ q2 = f.text /\ q3 = <<0>> /\ Len(q3) = 1
  BY <1>1, Zenon DEF TextIs
<1>3. PICK u \in Seq(Nat) : u = q2 \o q3 /\ Len(u) = Len(q2) + Len(q3)
  BY <1>2, Joined
<1>4. At(b, i, q1) /\ At(b, i + Len(q1), u)
  <2>1. At(b, i, q1 \o u)
    BY <1>2, <1>3, Zenon
  <2> QED
    BY <1>2, <1>3, <2>1, AtParts
<1>5. PICK n \in Nat : n = Len(q2)
  BY <1>2
<1>6. PICK i2 \in Nat \ {0} : i2 = i + 1
  OBVIOUS
<1>7. At(b, i2, q2) /\ At(b, i2 + n, q3)
  <2>1. At(b, i2, q2 \o q3)
    BY <1>2, <1>3, <1>4, <1>6, Zenon
  <2>2. At(b, i2, q2) /\ At(b, i2 + Len(q2), q3)
    BY <1>2, <1>3, <2>1, AtParts
  <2> QED
    BY <1>5, <2>2, Zenon
<1>8. b[i2 + n] = 0
  <2>1. 1 \in 1 .. 1 /\ (i2 + n) + 1 - 1 = i2 + n
    OBVIOUS
  <2>2. b[(i2 + n) + 1 - 1] = q3[1]
    BY <1>2, <1>7, <2>1, Zenon DEF At
  <2>3. q3[1] = 0
    BY <1>2
  <2> QED
    BY <2>1, <2>2, <2>3, Zenon
<1>9. unpackLogVarInt(b, i) = 2
  <2>1. f.type \in Nat /\ FitsLVI(f.type)
    BY FrameFields, TypeFits
  <2>2. At(b, i, packLogVarInt(f.type))
    BY <1>2, <1>4, Zenon
  <2> QED
    BY <2>1, <2>2, LVIRead
<1>10. Len(SerializeFrameInto(f)) = n + 2
  <2>1. Len(q1 \o u) = Len(q1) + Len(u)
    BY <1>2, <1>3, Joined
  <2>2. SerializeFrameInto(f) = q1 \o u
    BY <1>2, <1>3, Zenon
  <2>3. Len(u) = n + 1
    BY <1>2, <1>3, <1>5, Zenon
  <2>4. Len(SerializeFrameInto(f)) = 1 + (n + 1)
    BY <1>2, <2>1, <2>2, <2>3, Zenon
  <2> QED
    BY <2>4
<1> QED
  BY <1>2, <1>5, <1>6, <1>7, <1>8, <1>9, <1>10, Zenon


-----------------------------------------------------------------------------
(* Messages.                                                                *)

IsMessage(m) ==
    /\ IsHeader(m.head)
    /\ m.frames \in Seq(Frame)
    /\ \A k \in 1 .. Len(m.frames) : IsFrame(m.frames[k])

LEMMA MessageFrames ==
    ASSUME NEW m, IsMessage(m), NEW k \in 1 .. Len(m.frames)
    PROVE  /\ m.frames[k] \in Frame /\ IsFrame(m.frames[k])
           /\ SerializeFrameInto(m.frames[k]) \in Seq(Nat)
           /\ Len(SerializeFrameInto(m.frames[k])) = getSerializedSizeOfFrame(m.frames[k])
           /\ Len(SerializeFrameInto(m.frames[k])) >= 2
<1>1. m.frames[k] \in Frame /\ IsFrame(m.frames[k])
  BY DEF IsMessage
<1> QED
  BY <1>1, FrameSize

\* b has what is written, frame by frame.
PackedBy(b, m) ==
    /\ b \in [0 .. Len(m.frames) -> Seq(Nat)] /\ b[0] = SerializeHeader(m.head)
    /\ \A k \in 1 .. Len(m.frames) : b[k] = b[k - 1] \o SerializeFrameInto(m.frames[k])

LEMMA PackedSteps ==
    ASSUME NEW m, IsMessage(m)
    PROVE  PackedBy(Packed(m), m)
<1>1. PICK n \in Nat : n = Len(m.frames)
  BY DEF IsMessage
<1>2. PICK base \in Seq(Nat) : base = SerializeHeader(m.head)
  BY HeaderSize DEF IsMessage
<1>3. PICK F \in [1 .. n -> Seq(Nat)] : F = [k \in 1 .. n |-> SerializeFrameInto(m.frames[k])]
  BY <1>1, MessageFrames
<1> DEFINE step == [p \in (1 .. n) \X Seq(Nat) |-> p[2] \o F[p[1]]]
           Is(w) == w = [k \in 0 .. n |-> IF k = 0 THEN base
                                          ELSE w[k - 1] \o SerializeFrameInto(m.frames[k])]
<1>4. step \in [(1 .. n) \X Seq(Nat) -> Seq(Nat)]
  <2>1. ASSUME NEW p \in (1 .. n) \X Seq(Nat) PROVE p[2] \o F[p[1]] \in Seq(Nat)
    <3>1. p[1] \in 1 .. n /\ p[2] \in Seq(Nat)
      OBVIOUS
    <3>2. F[p[1]] \in Seq(Nat)
      BY <3>1, Zenon
    <3> QED
      BY <3>1, <3>2, Joined
  <2> QED
    BY <2>1
<1>5. PICK g : Computes(g, Seq(Nat), base, n, step)
  <2> HIDE DEF step
  <2> QED
    BY <1>4, Recursive
<1>6. /\ g \in [0 .. n -> Seq(Nat)] /\ g[0] = base
      /\ \A k \in 1 .. n : g[k] = g[k - 1] \o SerializeFrameInto(m.frames[k])
  <2>1. /\ g \in [0 .. n -> Seq(Nat)] /\ g[0] = base
        /\ \A k \in 1 .. n : g[k] = step[<<k, g[k - 1]>>]
    BY <1>5, Zenon DEF Computes
  <2>2. ASSUME NEW k \in 1 .. n PROVE g[k] = g[k - 1] \o SerializeFrameInto(m.frames[k])
    <3>1. PICK x \in Seq(Nat) : x = g[k - 1]
      <4>1. k - 1 \in 0 .. n
        OBVIOUS
      <4> QED
        BY <2>1, <4>1, Zenon
    <3>2. step[<<k, x>>] = x \o F[k]
      OBVIOUS
    <3>3. F[k] = SerializeFrameInto(m.frames[k])
      BY <1>3
    <3> QED
      BY <2>1, <3>1, <3>2, <3>3, Zenon
  <2> QED
    BY <2>1, <2>2
<1>7. Is(g)
  <2>1. g = [k \in 0 .. n |-> g[k]]
    BY <1>6
  <2>2. ASSUME NEW k \in 0 .. n
        PROVE  g[k] = IF k = 0 THEN base ELSE g[k - 1] \o SerializeFrameInto(m.frames[k])
    <3>1. k = 0 \/ k \in 1 .. n
      OBVIOUS
    <3>2. k \in 1 .. n => k # 0
      OBVIOUS
    <3> QED
      BY <1>6, <3>1, <3>2, Zenon
  <2> QED
    BY <2>1, <2>2, Zenon
<1>8. Is(Packed(m))
  BY <1>1, <1>2, <1>7 DEF Packed
<1>9. PICK w : w = Packed(m)
  OBVIOUS
<1>10. \A k \in 0 .. n : w[k] = g[k]
  <2> DEFINE T == {k \in 0 .. n : w[k] = g[k]}
  <2>1. 0 \in T
    BY <1>6, <1>8, <1>9
  <2>2. ASSUME NEW k \in 1 .. n, k - 1 \in T PROVE k \in T
    <3>1. g[k] = g[k - 1] \o SerializeFrameInto(m.frames[k]) /\ w[k - 1] = g[k - 1]
      BY <1>6, <2>2
    <3>2. k \in 0 .. n /\ k # 0
      OBVIOUS
    <3>3. w[k] = w[k - 1] \o SerializeFrameInto(m.frames[k])
      BY <1>8, <1>9, <3>2, Zenon
    <3> QED
      BY <3>1, <3>2, <3>3, Zenon
  <2>3. \A k \in 0 .. n : k \in T
    <3> HIDE DEF T
    <3> QED
      BY <2>1, <2>2, UpTo
  <2> QED
    BY <2>3
<1>11. w = g
  <2>1. w = [k \in 0 .. n |-> w[k]]
    BY <1>8, <1>9
  <2>2. g = [k \in 0 .. n |-> g[k]]
    BY <1>6
  <2>3. w = [k \in 0 .. n |-> g[k]]
    BY <1>10, <2>1
  <2> QED
    BY <2>2, <2>3, Zenon
<1> QED
  BY <1>1, <1>2, <1>6, <1>9, <1>11, Zenon DEF PackedBy

\* n adds the sizes up, frame by frame.
SizedBy(n, m) ==
    /\ n \in [0 .. Len(m.frames) -> Nat] /\ n[0] = getSerializedSizeOfHeader(m.head)
    /\ \A k \in 1 .. Len(m.frames) : n[k] = n[k - 1] + getSerializedSizeOfFrame(m.frames[k])
    /\ PackedSize(m) = n[Len(m.frames)]

LEMMA SizeSteps ==
    ASSUME NEW m, IsMessage(m)
    PROVE  \E n : SizedBy(n, m)
<1>1. PICK n \in Nat : n = Len(m.frames)
  BY DEF IsMessage
<1>2. PICK base \in Nat : base = getSerializedSizeOfHeader(m.head)
  BY HeaderSize DEF IsMessage
<1>3. PICK F \in [1 .. n -> Nat] : F = [k \in 1 .. n |-> getSerializedSizeOfFrame(m.frames[k])]
  <2>1. ASSUME NEW k \in 1 .. n PROVE getSerializedSizeOfFrame(m.frames[k]) \in Nat
    BY <1>1, MessageFrames
  <2> QED
    BY <2>1
<1> DEFINE step == [p \in (1 .. n) \X Nat |-> p[2] + F[p[1]]]
           Is(w) == w = [k \in 0 .. n |-> IF k = 0 THEN base
                                          ELSE w[k - 1] + getSerializedSizeOfFrame(m.frames[k])]
<1>4. step \in [(1 .. n) \X Nat -> Nat]
  OBVIOUS
<1>5. PICK g : Computes(g, Nat, base, n, step)
  <2> HIDE DEF step
  <2> QED
    BY <1>4, Recursive
<1>6. /\ g \in [0 .. n -> Nat] /\ g[0] = base
      /\ \A k \in 1 .. n : g[k] = g[k - 1] + getSerializedSizeOfFrame(m.frames[k])
  <2>1. /\ g \in [0 .. n -> Nat] /\ g[0] = base
        /\ \A k \in 1 .. n : g[k] = step[<<k, g[k - 1]>>]
    BY <1>5, Zenon DEF Computes
  <2>2. ASSUME NEW k \in 1 .. n PROVE g[k] = g[k - 1] + getSerializedSizeOfFrame(m.frames[k])
    <3>1. PICK x \in Nat : x = g[k - 1]
      <4>1. k - 1 \in 0 .. n
        OBVIOUS
      <4> QED
        BY <2>1, <4>1, Zenon
    <3>2. step[<<k, x>>] = x + F[k]
      OBVIOUS
    <3>3. F[k] = getSerializedSizeOfFrame(m.frames[k])
      BY <1>3
    <3> QED
      BY <2>1, <3>1, <3>2, <3>3, Zenon
  <2> QED
    BY <2>1, <2>2
<1>7. Is(g)
  BY <1>6
<1>8. PICK w : Is(w) /\ PackedSize(m) = w[n]
  <2> DEFINE v == CHOOSE w : w = [k \in 0 .. n |-> IF k = 0 THEN base
                                    ELSE w[k - 1] + getSerializedSizeOfFrame(m.frames[k])]
  <2>1. PackedSize(m) = v[n]
    BY <1>1, <1>2 DEF PackedSize
  <2>2. Is(v)
    BY <1>7
  <2> QED
    BY <2>1, <2>2
<1>9. \A k \in 0 .. n : w[k] = g[k]
  <2> DEFINE T == {k \in 0 .. n : w[k] = g[k]}
  <2>1. 0 \in T
    BY <1>6, <1>8
  <2>2. ASSUME NEW k \in 1 .. n, k - 1 \in T PROVE k \in T
    <3>1. g[k] = g[k - 1] + getSerializedSizeOfFrame(m.frames[k]) /\ w[k - 1] = g[k - 1]
      BY <1>6, <2>2
    <3>2. k \in 0 .. n /\ k # 0
      OBVIOUS
    <3>3. w[k] = w[k - 1] + getSerializedSizeOfFrame(m.frames[k])
      BY <1>8, <3>2, Zenon
    <3> QED
      BY <3>1, <3>2, <3>3, Zenon
  <2>3. \A k \in 0 .. n : k \in T
    <3> HIDE DEF T
    <3> QED
      BY <2>1, <2>2, UpTo
  <2> QED
    BY <2>3
<1>10. PackedSize(m) = g[n]
  <2>1. n \in 0 .. n
    OBVIOUS
  <2> QED
    BY <1>8, <1>9, <2>1, Zenon
<1> QED
  BY <1>1, <1>2, <1>6, <1>10, Zenon DEF SizedBy


LEMMA AtLonger ==
    ASSUME NEW b \in Seq(Nat), NEW t \in Seq(Nat), NEW i \in Nat \ {0}, NEW s \in Seq(Nat),
           At(b, i, s)
    PROVE  At(b \o t, i, s)
<1>1. PICK bt \in Seq(Nat) : /\ bt = b \o t /\ Len(bt) = Len(b) + Len(t)
                             /\ \A k \in 1 .. Len(b) : bt[k] = b[k]
  <2>1. /\ b \o t \in Seq(Nat) /\ Len(b \o t) = Len(b) + Len(t)
        /\ \A k \in 1 .. Len(b) : (b \o t)[k] = b[k]
    OBVIOUS
  <2> QED
    BY <2>1, Zenon
<1>2. PICK m \in Nat, n \in Nat, o \in Nat : m = Len(b) /\ n = Len(t) /\ o = Len(s)
  OBVIOUS
<1>3. i + o - 1 <= m /\ \A k \in 1 .. o : b[i + k - 1] = s[k]
  BY <1>2, Zenon DEF At
<1>4. i + o - 1 <= m + n
  BY <1>3
<1>5. ASSUME NEW k \in 1 .. o PROVE bt[i + k - 1] = s[k]
  <2>1. i + k - 1 \in 1 .. m
    BY <1>3
  <2> QED
    BY <1>1, <1>2, <1>3, <2>1, Zenon
<1> QED
  BY <1>1, <1>2, <1>4, <1>5, Zenon DEF At

LEMMA AtEnd ==
    ASSUME NEW b \in Seq(Nat), NEW t \in Seq(Nat)
    PROVE  At(b \o t, Len(b) + 1, t)
<1>1. PICK bt \in Seq(Nat) : /\ bt = b \o t /\ Len(bt) = Len(b) + Len(t)
                             /\ \A k \in 1 .. Len(t) : bt[Len(b) + k] = t[k]
  <2>1. /\ b \o t \in Seq(Nat) /\ Len(b \o t) = Len(b) + Len(t)
        /\ \A k \in 1 .. Len(t) : (b \o t)[Len(b) + k] = t[k]
    OBVIOUS
  <2> QED
    BY <2>1, Zenon
<1>2. PICK m \in Nat, n \in Nat : m = Len(b) /\ n = Len(t)
  OBVIOUS
<1>3. m + 1 + n - 1 <= m + n
  OBVIOUS
<1>4. ASSUME NEW k \in 1 .. n PROVE bt[m + 1 + k - 1] = t[k]
  <2>1. m + 1 + k - 1 = m + k
    OBVIOUS
  <2> QED
    BY <1>1, <1>2, <2>1, Zenon
<1> QED
  BY <1>1, <1>2, <1>3, <1>4, Zenon DEF At

LEMMA AtStart ==
    ASSUME NEW b \in Seq(Nat)
    PROVE  At(b, 1, b)
<1>1. PICK n \in Nat : n = Len(b)
  OBVIOUS
<1>2. 1 + n - 1 <= n /\ \A k \in 1 .. n : 1 + k - 1 = k
  OBVIOUS
<1> QED
  BY <1>1, <1>2, Zenon DEF At

\* The cell behind the header and k frames.
Cell(m, k) == Len(Packed(m)[k]) + 1

LEMMA Laid ==
    ASSUME NEW m, IsMessage(m)
    PROVE  /\ \A j \in 0 .. Len(m.frames) : At(Packed(m)[j], 1, SerializeHeader(m.head))
           /\ \A j \in 0 .. Len(m.frames) : \A k \in 1 .. j :
                 At(Packed(m)[j], Cell(m, k - 1), SerializeFrameInto(m.frames[k]))
<1>1. PICK N \in Nat : N = Len(m.frames)
  BY DEF IsMessage
<1>2. PICK H \in Seq(Nat) : H = SerializeHeader(m.head)
  BY HeaderSize DEF IsMessage
<1>3. PICK F \in [1 .. N -> Seq(Nat)] : \A k \in 1 .. N : F[k] = SerializeFrameInto(m.frames[k])
  <2> DEFINE G == [k \in 1 .. N |-> SerializeFrameInto(m.frames[k])]
  <2>1. G \in [1 .. N -> Seq(Nat)]
    BY <1>1, MessageFrames
  <2>2. \A k \in 1 .. N : G[k] = SerializeFrameInto(m.frames[k])
    OBVIOUS
  <2> QED
    BY <2>1, <2>2, Zenon
<1>4. PICK b : /\ b = Packed(m) /\ b \in [0 .. N -> Seq(Nat)] /\ b[0] = H
               /\ \A k \in 1 .. N : b[k] = b[k - 1] \o F[k]
  <2>1. PackedBy(Packed(m), m)
    BY PackedSteps
  <2> QED
    BY <1>1, <1>2, <1>3, <2>1, Zenon DEF PackedBy
<1> DEFINE Good(j) == /\ At(b[j], 1, H)
                      /\ \A k \in 1 .. j : At(b[j], Len(b[k - 1]) + 1, F[k])
           T == {j \in 0 .. N : Good(j)}
<1>5. 0 \in T
  <2>1. 0 \in 0 .. N /\ 1 .. 0 = {}
    OBVIOUS
  <2>2. At(b[0], 1, H)
    BY <1>4, AtStart
  <2> QED
    BY <2>1, <2>2, Zenon
<1>6. ASSUME NEW j \in 1 .. N, j - 1 \in T PROVE j \in T
  <2>1. j - 1 \in 0 .. N /\ j \in 0 .. N
    OBVIOUS
  <2>2. b[j - 1] \in Seq(Nat) /\ F[j] \in Seq(Nat) /\ b[j] = b[j - 1] \o F[j] /\ Good(j - 1)
    BY <1>4, <1>6, <2>1, Zenon
  <2> HIDE DEF T
  <2>3. At(b[j], 1, H)
    <3>1. PICK i \in Nat \ {0} : i = 1
      OBVIOUS
    <3>2. PICK x \in Seq(Nat), y \in Seq(Nat) : x = b[j - 1] /\ y = F[j]
      BY <2>2, Zenon
    <3>3. At(x, i, H)
      BY <2>2, <3>1, <3>2, Zenon
    <3>4. At(x \o y, i, H)
      BY <3>3, AtLonger
    <3> QED
      BY <2>2, <3>1, <3>2, <3>4, Zenon
  <2>4. ASSUME NEW k \in 1 .. j PROVE At(b[j], Len(b[k - 1]) + 1, F[k])
    <3>1. PICK x \in Seq(Nat), y \in Seq(Nat) : x = b[j - 1] /\ y = F[j]
      BY <2>2, Zenon
    <3>2. CASE k = j
      <4>1. At(x \o y, Len(x) + 1, y)
        BY AtEnd
      <4> QED
        BY <2>2, <3>1, <3>2, <4>1, Zenon
    <3>3. CASE k # j
      <4>1. k \in 1 .. j - 1 /\ k \in 1 .. N /\ k - 1 \in 0 .. N
        BY <3>3
      <4>2. PICK z \in Seq(Nat), s \in Seq(Nat) : z = b[k - 1] /\ s = F[k]
        <5>1. b[k - 1] \in Seq(Nat) /\ F[k] \in Seq(Nat)
          BY <1>4, <4>1, Zenon
        <5> QED
          BY <5>1, Zenon
      <4>3. PICK i \in Nat \ {0} : i = Len(z) + 1
        OBVIOUS
      <4>4. At(x, i, s)
        BY <2>2, <3>1, <4>1, <4>2, <4>3, Zenon
      <4>5. At(x \o y, i, s)
        BY <4>4, AtLonger
      <4> QED
        BY <2>2, <3>1, <4>2, <4>3, <4>5, Zenon
    <3> QED
      BY <3>2, <3>3
  <2> QED
    BY <2>1, <2>3, <2>4, Zenon DEF T
<1>7. \A j \in 0 .. N : j \in T
  <2> HIDE DEF T
  <2> QED
    BY <1>5, <1>6, UpTo
<1>8. \A j \in 0 .. N : Good(j)
  BY <1>7, Zenon
<1>9. \A j \in 0 .. N : \A k \in 1 .. j : k \in 1 .. N
  OBVIOUS
<1> QED
  BY <1>1, <1>2, <1>3, <1>4, <1>8, <1>9, Zenon DEF Cell

LEMMA Measured ==
    ASSUME NEW m, IsMessage(m)
    PROVE  /\ PackMessage(m) \in Seq(Nat)
           /\ \A k \in 0 .. Len(m.frames) : Cell(m, k) \in Nat \ {0}
           /\ Cell(m, 0) = getSerializedSizeOfHeader(m.head) + 1
           /\ Cell(m, Len(m.frames)) = Len(PackMessage(m)) + 1
           /\ \A k \in 1 .. Len(m.frames) :
                 Cell(m, k) = Cell(m, k - 1) + Len(SerializeFrameInto(m.frames[k]))
           /\ PackedSize(m) = Len(PackMessage(m))
<1>1. PICK N \in Nat : N = Len(m.frames)
  BY DEF IsMessage
<1>2. PICK b : /\ b = Packed(m) /\ b \in [0 .. N -> Seq(Nat)] /\ b[0] = SerializeHeader(m.head)
               /\ \A k \in 1 .. N : b[k] = b[k - 1] \o SerializeFrameInto(m.frames[k])
  <2>1. PackedBy(Packed(m), m)
    BY PackedSteps
  <2> QED
    BY <1>1, <2>1, Zenon DEF PackedBy
<1>3. 0 \in 0 .. N /\ N \in 0 .. N
  OBVIOUS
<1>4. ASSUME NEW k \in 0 .. N PROVE b[k] \in Seq(Nat) /\ Len(b[k]) \in Nat
  <2>1. b[k] \in Seq(Nat)
    BY <1>2, Zenon
  <2> QED
    BY <2>1
<1>5. ASSUME NEW k \in 1 .. N
      PROVE  Len(b[k]) = Len(b[k - 1]) + Len(SerializeFrameInto(m.frames[k]))
  <2>1. k - 1 \in 0 .. N
    OBVIOUS
  <2>2. b[k - 1] \in Seq(Nat)
    BY <1>4, <2>1, Zenon
  <2>3. SerializeFrameInto(m.frames[k]) \in Seq(Nat)
    BY <1>1, MessageFrames
  <2>4. PICK x \in Seq(Nat), y \in Seq(Nat) : x = b[k - 1] /\ y = SerializeFrameInto(m.frames[k])
    BY <2>2, <2>3, Zenon
  <2>5. Len(x \o y) = Len(x) + Len(y)
    BY Joined
  <2> QED
    BY <1>2, <2>4, <2>5, Zenon
<1>6. PICK n : SizedBy(n, m)
  BY SizeSteps
<1>7. /\ n \in [0 .. N -> Nat] /\ n[0] = getSerializedSizeOfHeader(m.head)
      /\ \A k \in 1 .. N : n[k] = n[k - 1] + getSerializedSizeOfFrame(m.frames[k])
      /\ PackedSize(m) = n[N]
  BY <1>1, <1>6, Zenon DEF SizedBy
<1> DEFINE T == {k \in 0 .. N : n[k] = Len(b[k])}
<1>8. Len(b[0]) = n[0]
  BY <1>2, <1>7, HeaderSize DEF IsMessage
<1>9. 0 \in T
  BY <1>3, <1>8, Zenon
<1>10. ASSUME NEW k \in 1 .. N, k - 1 \in T PROVE k \in T
  <2>1. k \in 0 .. N
    OBVIOUS
  <2>2. Len(SerializeFrameInto(m.frames[k])) = getSerializedSizeOfFrame(m.frames[k])
    BY <1>1, MessageFrames
  <2> QED
    BY <1>5, <1>7, <1>10, <2>1, <2>2, Zenon
<1>11. \A k \in 0 .. N : k \in T
  <2> HIDE DEF T
  <2> QED
    BY <1>9, <1>10, UpTo
<1>12. PackedSize(m) = Len(b[N])
  BY <1>3, <1>7, <1>11, Zenon
<1>13. PackMessage(m) = b[N]
  BY <1>1, <1>2, Zenon DEF PackMessage
<1>14. \A k \in 0 .. N : Cell(m, k) \in Nat \ {0}
  <2> SUFFICES ASSUME NEW k \in 0 .. N PROVE Cell(m, k) \in Nat \ {0}
    OBVIOUS
  <2>1. PICK x \in Nat : x = Len(b[k])
    BY <1>4, Zenon
  <2>2. x + 1 \in Nat \ {0}
    OBVIOUS
  <2> QED
    BY <1>2, <2>1, <2>2, Zenon DEF Cell
<1>15. \A k \in 1 .. N : Cell(m, k) = Cell(m, k - 1) + Len(SerializeFrameInto(m.frames[k]))
  <2> SUFFICES ASSUME NEW k \in 1 .. N
               PROVE  Cell(m, k) = Cell(m, k - 1) + Len(SerializeFrameInto(m.frames[k]))
    OBVIOUS
  <2>1. k - 1 \in 0 .. N
    OBVIOUS
  <2>2. PICK x \in Nat : x = Len(b[k - 1])
    BY <1>4, <2>1, Zenon
  <2>3. PICK y \in Nat : y = Len(SerializeFrameInto(m.frames[k]))
    <3>1. SerializeFrameInto(m.frames[k]) \in Seq(Nat)
      BY <1>1, MessageFrames
    <3> QED
      BY <3>1
  <2>4. (x + y) + 1 = (x + 1) + y
    OBVIOUS
  <2> QED
    BY <1>2, <1>5, <2>2, <2>3, <2>4, Zenon DEF Cell
<1>16. Cell(m, 0) = getSerializedSizeOfHeader(m.head) + 1
  BY <1>2, <1>7, <1>8, Zenon DEF Cell
<1>17. Cell(m, N) = Len(PackMessage(m)) + 1
  BY <1>2, <1>13, Zenon DEF Cell
<1>18. PackMessage(m) \in Seq(Nat)
  BY <1>2, <1>3, <1>13, Zenon
<1> QED
  BY <1>1, <1>12, <1>13, <1>14, <1>15, <1>16, <1>17, <1>18, Zenon


\* Frames lie one behind the other in the buffer, whatever lies behind it.
LEMMA InMemory ==
    ASSUME NEW m, IsMessage(m), NEW y \in Seq(Nat)
    PROVE  /\ PackMessage(m) \o y \in Seq(Nat)
           /\ At(PackMessage(m) \o y, 1, SerializeHeader(m.head))
           /\ \A k \in 1 .. Len(m.frames) :
                 At(PackMessage(m) \o y, Cell(m, k - 1), SerializeFrameInto(m.frames[k]))
<1>1. PICK N \in Nat : N = Len(m.frames)
  BY DEF IsMessage
<1>2. PICK b \in Seq(Nat) : b = PackMessage(m) /\ b = Packed(m)[N]
  BY <1>1, Measured, Zenon DEF PackMessage
<1>3. N \in 0 .. N
  OBVIOUS
<1>4. /\ At(b, 1, SerializeHeader(m.head))
      /\ \A k \in 1 .. N : At(b, Cell(m, k - 1), SerializeFrameInto(m.frames[k]))
  BY <1>1, <1>2, <1>3, Laid, Zenon
<1>5. At(b \o y, 1, SerializeHeader(m.head))
  <2>1. PICK i \in Nat \ {0} : i = 1
    OBVIOUS
  <2>2. SerializeHeader(m.head) \in Seq(Nat)
    BY HeaderSize DEF IsMessage
  <2>3. At(b \o y, i, SerializeHeader(m.head))
    BY <1>4, <2>1, <2>2, AtLonger
  <2> QED
    BY <2>1, <2>3
<1>6. ASSUME NEW k \in 1 .. N PROVE At(b \o y, Cell(m, k - 1), SerializeFrameInto(m.frames[k]))
  <2>1. k - 1 \in 0 .. N
    OBVIOUS
  <2>2. PICK i \in Nat \ {0} : i = Cell(m, k - 1)
    BY <1>1, <2>1, Measured, Zenon
  <2>3. SerializeFrameInto(m.frames[k]) \in Seq(Nat)
    BY <1>1, MessageFrames
  <2>4. At(b, i, SerializeFrameInto(m.frames[k]))
    BY <1>4, <2>2, Zenon
  <2>5. At(b \o y, i, SerializeFrameInto(m.frames[k]))
    BY <2>3, <2>4, AtLonger
  <2> QED
    BY <2>2, <2>5, Zenon
<1>7. b \o y \in Seq(Nat)
  OBVIOUS
<1> QED
  BY <1>1, <1>2, <1>5, <1>6, <1>7, Zenon

\* A frame that is still to come takes two bytes at least.
LEMMA CellsGrow ==
    ASSUME NEW m, IsMessage(m), NEW k \in 0 .. Len(m.frames)
    PROVE  /\ Cell(m, k) \in Nat \ {0} /\ Cell(m, Len(m.frames)) \in Nat \ {0}
           /\ Cell(m, k) <= Cell(m, Len(m.frames))
           /\ k # Len(m.frames) => Cell(m, k) + 2 <= Cell(m, Len(m.frames))
           /\ k # 0 => Cell(m, k) >= 3
<1>1. PICK N \in Nat : N = Len(m.frames)
  BY DEF IsMessage
<1>2. PICK b \in Seq(Nat) : b = PackMessage(m) /\ b = Packed(m)[N]
  BY <1>1, Measured, Zenon DEF PackMessage
<1>3. N \in 0 .. N
  OBVIOUS
<1>4. PICK i \in Nat \ {0}, e \in Nat \ {0} : i = Cell(m, k) /\ e = Cell(m, N)
  BY <1>1, <1>3, Measured, Zenon
<1>5. ASSUME k # N PROVE i + 2 <= e
  <2>1. PICK j \in 1 .. N : j = k + 1 /\ j - 1 = k
    BY <1>1, <1>5
  <2>2. PICK s \in Seq(Nat) : s = SerializeFrameInto(m.frames[j]) /\ Len(s) >= 2
    BY <1>1, <2>1, MessageFrames
  <2>3. At(b, i, s)
    <3>1. At(b, Cell(m, j - 1), SerializeFrameInto(m.frames[j]))
      BY <1>1, <1>2, <1>3, <2>1, Laid, Zenon
    <3> QED
      BY <1>4, <2>1, <2>2, <3>1, Zenon
  <2>4. i + Len(s) - 1 <= Len(b)
    BY <2>3, Zenon DEF At
  <2>5. e = Len(b) + 1
    BY <1>1, <1>2, <1>4, Measured, Zenon
  <2> QED
    BY <2>2, <2>4, <2>5
<1>6. ASSUME k # 0 PROVE i >= 3
  <2>1. k \in 1 .. N /\ k - 1 \in 0 .. N
    BY <1>1, <1>6
  <2>2. PICK j \in Nat \ {0} : j = Cell(m, k - 1)
    BY <1>1, <2>1, Measured, Zenon
  <2>3. PICK s \in Seq(Nat) : s = SerializeFrameInto(m.frames[k]) /\ Len(s) >= 2
    BY <1>1, <2>1, MessageFrames
  <2>4. i = j + Len(s)
    BY <1>1, <1>4, <2>1, <2>2, <2>3, Measured, Zenon
  <2> QED
    BY <2>3, <2>4
<1>7. i <= e
  <2>1. k = N => i = e
    BY <1>4, Zenon
  <2> QED
    BY <1>5, <2>1
<1> QED
  BY <1>1, <1>4, <1>5, <1>6, <1>7, Zenon

-----------------------------------------------------------------------------
(* Extraction.                                                              *)

\* k frames of m are extracted: the next one begins where its bytes begin.
Got(m, k, fr, cur, last) ==
    /\ fr \in Seq(Frame) /\ Len(fr) = k
    /\ \A i \in 1 .. k : fr[i] = m.frames[i]
    /\ last = IF k = 0 THEN Cell(m, 0)
              ELSE IF m.frames[k].type = 2 THEN Cell(m, k) - 2 ELSE Cell(m, k) - 1
    /\ cur = IF k = 0 THEN last ELSE last + 1

LEMMA GotNone ==
    ASSUME NEW m
    PROVE  Got(m, 0, <<>>, Cell(m, 0), Cell(m, 0))
  BY DEF Got

LEMMA GotNext ==
    ASSUME NEW m, IsMessage(m), NEW k \in Nat, k + 1 \in 1 .. Len(m.frames), NEW fr, NEW cur, NEW last,
           Got(m, k, fr, cur, last),
           NEW e, e = IF m.frames[k + 1].type = 2 THEN Cell(m, k + 1) - 2 ELSE Cell(m, k + 1) - 1
    PROVE  Got(m, k + 1, Append(fr, m.frames[k + 1]), e + 1, e)
<1>1. PICK f \in Frame : f = m.frames[k + 1]
  BY MessageFrames
<1>2. fr \in Seq(Frame) /\ Len(fr) = k /\ \A i \in 1 .. k : fr[i] = m.frames[i]
  BY Zenon DEF Got
<1>3. /\ Append(fr, f) \in Seq(Frame) /\ Len(Append(fr, f)) = k + 1
      /\ \A i \in 1 .. k + 1 : Append(fr, f)[i] = m.frames[i]
  BY <1>1, <1>2
<1>4. k + 1 # 0
  OBVIOUS
<1> QED
  BY <1>1, <1>3, <1>4, Zenon DEF Got

\* A text that lies at cell i is the piece of memory there.
LEMMA PieceRead ==
    ASSUME NEW b \in Seq(Nat), NEW i \in Nat \ {0}, NEW s \in Seq(Nat), At(b, i, s)
    PROVE  SubSeq(b, i, i + Len(s) - 1) = s
<1>1. PICK n \in Nat, e \in Nat : n = Len(s) /\ e = i + n - 1
  OBVIOUS
<1>2. e <= Len(b) /\ \A k \in 1 .. n : b[i + k - 1] = s[k]
  BY <1>1, Zenon DEF At
<1>3. i \in 1 .. Len(b) + 1 /\ e \in i - 1 .. Len(b) /\ e - i + 1 = n
  BY <1>1, <1>2
<1>4. PICK t \in Seq(Nat) : /\ t = SubSeq(b, i, e) /\ Len(t) = n
                            /\ \A k \in 1 .. n : t[k] = b[i + k - 1]
  <2>1. /\ SubSeq(b, i, e) \in Seq(Nat) /\ Len(SubSeq(b, i, e)) = e - i + 1
        /\ \A k \in 1 .. e - i + 1 : SubSeq(b, i, e)[k] = b[i + k - 1]
    BY <1>3, SubSeqProperties
  <2> QED
    BY <1>3, <2>1, Zenon
<1>5. \A k \in 1 .. n : t[k] = s[k]
  BY <1>2, <1>4, Zenon
<1>6. t = s
  BY <1>1, <1>4, <1>5, SeqEqual
<1> QED
  BY <1>1, <1>4, <1>6, Zenon

LEMMA TerminatorFound ==
    ASSUME NEW i \in Nat \ {0}, NEW s \in Seq(Nat), memory \in Seq(Nat), At(memory, i, s),
           i + Len(s) <= Len(memory), memory[i + Len(s)] = 0,
           \A k \in 1 .. Len(s) : s[k] # 0
    PROVE  countUntilTerminator(i) = Len(s)
<1>1. PICK n \in Nat : n = Len(s)
  OBVIOUS
<1>2. \A k \in 1 .. n : memory[i + k - 1] = s[k]
  BY <1>1, Zenon DEF At
<1>3. n \in 0 .. Len(memory)
  BY <1>1
<1>4. ASSUME NEW k \in i .. i + n - 1 PROVE memory[k] # 0
  <2>1. PICK j \in 1 .. n : j = k - i + 1 /\ i + j - 1 = k
    OBVIOUS
  <2> QED
    BY <1>1, <1>2, <2>1, Zenon
<1>5. ASSUME NEW x \in 0 .. Len(memory), memory[i + x] = 0, \A k \in i .. i + x - 1 : memory[k] # 0
      PROVE  x = n
  <2>1. ASSUME x < n PROVE FALSE
    <3>1. i + x \in i .. i + n - 1
      BY <2>1
    <3> QED
      BY <1>4, <1>5, <3>1, Zenon
  <2>2. ASSUME n < x PROVE FALSE
    <3>1. i + n \in i .. i + x - 1
      BY <2>2
    <3> QED
      BY <1>1, <1>5, <3>1, Zenon
  <2> QED
    BY <2>1, <2>2
<1> QED
  BY <1>1, <1>3, <1>4, <1>5, Zenon DEF countUntilTerminator


\* How far the extraction of a message of this program is.
Way ==
    /\ phase \in {"header", "frames", "done"}
    /\ reach \in 0 .. Len(bytes)
    /\ phase = "header" => /\ head = NoHead /\ frames = <<>>
                           /\ start = 1 /\ curLoc = 1 /\ lastEnd = 1
    /\ phase # "header" =>
          /\ head = sent.head /\ start = Cell(sent, 0)
          /\ \E k \in 0 .. Len(sent.frames) : /\ Got(sent, k, frames, curLoc, lastEnd)
                                              /\ phase = "done" => k = Len(sent.frames)

Buffer == sent \in Messages /\ beyond \in Beyond /\ bytes = PackMessage(sent)

LEMMA BufferIs ==
    ASSUME Buffer
    PROVE  IsMessage(sent) /\ beyond \in Seq(Nat) /\ bytes = PackMessage(sent) /\ Len(bytes) \in Nat
<1>1. IsMessage(sent) /\ beyond \in Seq(Nat) /\ bytes = PackMessage(sent)
  BY MessagesAssumption, BeyondAssumption DEF Buffer, IsMessage
<1>2. bytes \in Seq(Nat)
  BY <1>1, Measured, Zenon
<1> QED
  BY <1>1, <1>2

\* The loop goes on for as long as there are frames.
LEMMA LoopGoesOn ==
    ASSUME Buffer, Extractable, start = Cell(sent, 0),
           NEW k \in 0 .. Len(sent.frames), Got(sent, k, frames, curLoc, lastEnd)
    PROVE  /\ MoreFrames <=> k # Len(sent.frames)
           /\ k # Len(sent.frames) => curLoc = Cell(sent, k)
<1>1. IsMessage(sent) /\ bytes = PackMessage(sent)
  BY BufferIs
<1>2. PICK N \in Nat : N = Len(sent.frames)
  BY <1>1 DEF IsMessage
<1>3. PICK i0 \in Nat \ {0}, i \in Nat \ {0}, e \in Nat \ {0} :
         i0 = Cell(sent, 0) /\ i = Cell(sent, k) /\ e = Cell(sent, N)
  <2>1. 0 \in 0 .. N /\ N \in 0 .. N
    OBVIOUS
  <2> QED
    BY <1>1, <1>2, <2>1, Measured, Zenon
<1>4. k # N => i + 2 <= e
  BY <1>1, <1>2, <1>3, CellsGrow
<1>5. Len(bytes) = e - 1
  <2>1. e = Len(bytes) + 1
    BY <1>1, <1>2, <1>3, Measured, Zenon
  <2> QED
    BY <2>1, BufferIs
<1>6. e > i0 + 2
  <2>1. PackedSize(sent) = Len(bytes)
    BY <1>1, Measured, Zenon
  <2>2. PackedSize(sent) > getSerializedSizeOfHeader(sent.head) + 2
    BY Zenon DEF Extractable
  <2>3. i0 = getSerializedSizeOfHeader(sent.head) + 1
    BY <1>1, <1>3, Measured, Zenon
  <2>4. getSerializedSizeOfHeader(sent.head) \in Nat
    BY <1>1, HeaderSize DEF IsMessage
  <2> QED
    BY <1>5, <2>1, <2>2, <2>3, <2>4
<1>7. k \in 1 .. N - 1 => sent.frames[k].type # 2
  BY <1>2, Zenon DEF Extractable
<1>8. /\ lastEnd = IF k = 0 THEN i0 ELSE IF sent.frames[k].type = 2 THEN i - 2 ELSE i - 1
      /\ curLoc = IF k = 0 THEN lastEnd ELSE lastEnd + 1
  BY <1>3, Zenon DEF Got
<1>9. MoreFrames <=> lastEnd - i0 + 2 < (e - 1) - (i0 - 1)
  BY <1>3, <1>5, Zenon DEF MoreFrames
<1>10. CASE k = 0
  <2>1. k # N
    BY <1>3, <1>6, <1>10
  <2>2. curLoc = Cell(sent, k)
    BY <1>3, <1>8, <1>10
  <2>3. MoreFrames
    BY <1>6, <1>8, <1>9, <1>10
  <2> QED
    BY <1>2, <2>1, <2>2, <2>3
<1>11. CASE k # 0 /\ k # N
  <2>1. lastEnd = i - 1
    BY <1>2, <1>7, <1>8, <1>11
  <2>2. curLoc = Cell(sent, k)
    BY <1>3, <1>8, <1>11, <2>1
  <2>3. MoreFrames
    BY <1>4, <1>9, <1>11, <2>1
  <2> QED
    BY <1>2, <1>11, <2>2, <2>3
<1>12. CASE k # 0 /\ k = N
  <2>1. i = e
    BY <1>3, <1>12
  <2>2. lastEnd = i - 2 \/ lastEnd = i - 1
    BY <1>8, <1>12
  <2>3. ~MoreFrames
    BY <1>9, <2>1, <2>2
  <2> QED
    BY <1>2, <1>12, <2>3
<1> QED
  BY <1>10, <1>11, <1>12

\* What lies where the loop goes on.
LEMMA NextFrame ==
    ASSUME Buffer, Extractable, start = Cell(sent, 0), MoreFrames,
           NEW k \in 0 .. Len(sent.frames), Got(sent, k, frames, curLoc, lastEnd)
    PROVE  /\ k \in Nat /\ k + 1 \in 1 .. Len(sent.frames) /\ k + 1 \in 0 .. Len(sent.frames)
           /\ sent.frames[k + 1] \in Frame /\ IsFrame(sent.frames[k + 1])
           /\ sent.frames[k + 1].type \in {0, 2, 3}
           /\ frameType = sent.frames[k + 1].type
           /\ memory \in Seq(Nat) /\ curLoc \in Nat \ {0}
           /\ At(memory, curLoc, SerializeFrameInto(sent.frames[k + 1]))
           /\ Cell(sent, k + 1) = curLoc + Len(SerializeFrameInto(sent.frames[k + 1]))
           /\ Cell(sent, k + 1) \in Nat /\ Cell(sent, k + 1) - 1 <= Len(bytes)
<1>1. IsMessage(sent) /\ bytes = PackMessage(sent) /\ beyond \in Seq(Nat) /\ Len(bytes) \in Nat
  BY BufferIs
<1>2. k # Len(sent.frames) /\ curLoc = Cell(sent, k)
  BY LoopGoesOn
<1>3. PICK N \in Nat : N = Len(sent.frames)
  BY <1>1 DEF IsMessage
<1>4. PICK j \in 1 .. N : j = k + 1 /\ j - 1 = k /\ j \in 0 .. N /\ k \in Nat
  BY <1>2, <1>3
<1>5. PICK f \in Frame : f = sent.frames[j] /\ IsFrame(f)
  BY <1>1, <1>3, MessageFrames
<1>6. f.type \in {0, 2, 3}
  <2>1. f.type \in 0 .. 3
    BY <1>5, FrameFields
  <2>2. f.type # 1
    BY <1>3, <1>5, Zenon DEF Extractable
  <2> QED
    BY <2>1, <2>2
<1>7. curLoc \in Nat \ {0}
  BY <1>1, <1>2, Measured, Zenon
<1>8. memory \in Seq(Nat) /\ At(memory, curLoc, SerializeFrameInto(f))
  <2>1. memory = PackMessage(sent) \o beyond
    BY <1>1, Zenon DEF memory
  <2> QED
    BY <1>1, <1>2, <1>3, <1>4, <1>5, <2>1, InMemory, Zenon
<1>9. frameType = f.type
  <2>1. CASE f.type = 0
    BY <1>5, <1>7, <1>8, <2>1, TransitRead DEF frameType
  <2>2. CASE f.type = 2
    BY <1>5, <1>7, <1>8, <2>2, ZeroRead DEF frameType
  <2>3. CASE f.type = 3
    BY <1>5, <1>7, <1>8, <2>3, LengthRead DEF frameType
  <2> QED
    BY <1>6, <2>1, <2>2, <2>3
<1>10. Cell(sent, j) = curLoc + Len(SerializeFrameInto(f))
  BY <1>1, <1>2, <1>3, <1>4, <1>5, Measured, Zenon
<1>11. Cell(sent, j) \in Nat /\ Cell(sent, j) - 1 <= Len(bytes)
  <2>1. PICK e \in Nat : e = Cell(sent, N) /\ e = Len(bytes) + 1
    <3>1. Len(bytes) + 1 \in Nat
      BY <1>1
    <3> QED
      BY <1>1, <1>3, <3>1, Measured, Zenon
  <2>2. Cell(sent, j) \in Nat \ {0} /\ Cell(sent, j) <= e
    BY <1>1, <1>3, <1>4, <2>1, CellsGrow, Zenon
  <2> QED
    BY <1>1, <2>1, <2>2
<1> QED
  BY <1>3, <1>4, <1>5, <1>6, <1>7, <1>8, <1>9, <1>10, <1>11, Zenon


\* Each text is found where it lies: its first cell, its length, the last cell
\* of its frame and the last one read for it.
LEMMA TextFound ==
    ASSUME NEW f \in Frame, IsFrame(f), f.type \in {2, 3}, frameType = f.type,
           memory \in Seq(Nat), curLoc \in Nat \ {0}, At(memory, curLoc, SerializeFrameInto(f)),
           NEW e \in Nat, e = curLoc + Len(SerializeFrameInto(f))
    PROVE  /\ TextFirst + TextLength - 1 = IF f.type = 2 THEN e - 2 ELSE e - 1
           /\ TextRead = e - 1
           /\ SubSeq(memory, TextFirst, TextFirst + TextLength - 1) = f.text
<1>1. /\ f.text \in Seq(Nat) /\ Len(f.text) \in Nat
      /\ f.type = 2 => \A i \in 1 .. Len(f.text) : f.text[i] # 0
  BY FrameFields
<1>2. CASE f.type = 2
  <2>1. PICK n \in Nat :
           /\ n = Len(f.text) /\ Len(SerializeFrameInto(f)) = n + 2
           /\ At(memory, curLoc + 1, f.text) /\ memory[curLoc + 1 + n] = 0
    BY <1>2, ZeroRead
  <2>2. PICK i \in Nat \ {0} : i = curLoc + 1
    OBVIOUS
  <2>3. TextFirst = i
    BY <1>2, <2>2, Zenon DEF TextFirst
  <2>4. i + n <= Len(memory)
    <3>1. curLoc + Len(SerializeFrameInto(f)) - 1 <= Len(memory)
      BY Zenon DEF At
    <3>2. curLoc + (n + 2) - 1 <= Len(memory)
      BY <2>1, <3>1, Zenon
    <3>3. Len(memory) \in Nat
      OBVIOUS
    <3> QED
      BY <2>2, <3>2, <3>3
  <2>5. countUntilTerminator(i) = n
    <3>1. At(memory, i, f.text) /\ memory[i + Len(f.text)] = 0 /\ i + Len(f.text) <= Len(memory)
      BY <2>1, <2>2, <2>4, Zenon
    <3> QED
      BY <1>1, <1>2, <2>1, <3>1, TerminatorFound
  <2>6. TextLength = n
    BY <1>2, <2>3, <2>5, Zenon DEF TextLength
  <2>7. TextRead = i + n
    BY <1>2, <2>3, <2>6, Zenon DEF TextRead
  <2>8. SubSeq(memory, i, i + n - 1) = f.text
    <3>1. At(memory, i, f.text)
      BY <2>1, <2>2, Zenon
    <3>2. SubSeq(memory, i, i + Len(f.text) - 1) = f.text
      BY <1>1, <3>1, PieceRead
    <3> QED
      BY <2>1, <3>2, Zenon
  <2>9. i + n - 1 = e - 2 /\ i + n = e - 1
    <3>1. e = curLoc + (n + 2)
      BY <2>1, Zenon
    <3> QED
      BY <2>2, <3>1
  <2> QED
    BY <1>2, <2>3, <2>6, <2>7, <2>8, <2>9, Zenon
<1>3. CASE f.type = 3
  <2>1. PICK n \in Nat, m \in Nat :
           /\ n = Len(f.text) /\ m = getSizeOfLVIToPack(n)
           /\ Len(SerializeFrameInto(f)) = 1 + m + n
           /\ unpackLogVarInt(memory, curLoc + 1) = n
           /\ At(memory, curLoc + 1 + m, f.text)
    BY <1>3, LengthRead
  <2>2. PICK i \in Nat \ {0} : i = curLoc + 1 + m
    OBVIOUS
  <2>3. frameType # 2
    BY <1>3
  <2>4. TextFirst = i
    BY <2>1, <2>2, <2>3, Zenon DEF TextFirst
  <2>5. TextLength = n
    BY <2>1, <2>3, Zenon DEF TextLength
  <2>6. TextRead = i + n - 1
    BY <2>3, <2>4, <2>5, Zenon DEF TextRead
  <2>7. SubSeq(memory, i, i + n - 1) = f.text
    <3>1. At(memory, i, f.text)
      BY <2>1, <2>2, Zenon
    <3>2. SubSeq(memory, i, i + Len(f.text) - 1) = f.text
      BY <1>1, <3>1, PieceRead
    <3> QED
      BY <2>1, <3>2, Zenon
  <2>8. i + n - 1 = e - 1
    <3>1. e = curLoc + (1 + m + n)
      BY <2>1, Zenon
    <3> QED
      BY <2>2, <3>1
  <2>9. f.type # 2
    BY <1>3
  <2> QED
    BY <2>4, <2>5, <2>6, <2>7, <2>8, <2>9, Zenon
<1> QED
  BY <1>2, <1>3

\* One more frame is extracted.
LEMMA FrameStep ==
    ASSUME Buffer, Extractable, Way, phase = "frames", start = Cell(sent, 0),
           NEW k \in Nat, k + 1 \in 1 .. Len(sent.frames), k + 1 \in 0 .. Len(sent.frames),
           Got(sent, k, frames, curLoc, lastEnd),
           Cell(sent, k + 1) \in Nat, Cell(sent, k + 1) - 1 <= Len(bytes),
           UNCHANGED <<sent, bytes, phase, head, start>>,
           frames' = Append(frames, sent.frames[k + 1]),
           lastEnd' = IF sent.frames[k + 1].type = 2 THEN Cell(sent, k + 1) - 2
                                                     ELSE Cell(sent, k + 1) - 1,
           curLoc' = lastEnd' + 1,
           reach' = Highest(Cell(sent, k + 1) - 1) \/ reach' = Highest(lastEnd')
    PROVE  Way'
<1>1. IsMessage(sent) /\ Len(bytes) \in Nat
  BY BufferIs
<1>2. Got(sent, k + 1, frames', curLoc', lastEnd')
  BY <1>1, GotNext
<1>3. reach' \in 0 .. Len(bytes')
  <2>1. reach \in 0 .. Len(bytes)
    BY DEF Way
  <2>2. Cell(sent, k + 1) >= 3
    <3>1. PICK j \in 0 .. Len(sent.frames) : j = k + 1 /\ j # 0
      OBVIOUS
    <3>2. Cell(sent, j) >= 3
      BY <1>1, <3>1, CellsGrow
    <3> QED
      BY <3>1, <3>2
  <2> QED
    BY <1>1, <2>1, <2>2 DEF Highest
<1>4. head = sent.head
  BY DEF Way
<1> QED
  BY <1>2, <1>3, <1>4 DEF Way


\* The inductive invariant: a message of this program is extracted frame by frame.
IInv == Buffer /\ (Extractable => Way)

LEMMA InitIInv == Init => IInv
<1> SUFFICES ASSUME Init PROVE IInv
  OBVIOUS
<1>1. Buffer
  BY DEF Init, Buffer
<1>2. Len(bytes) \in Nat
  BY <1>1, BufferIs
<1>3. Way
  BY <1>2 DEF Init, Way
<1> QED
  BY <1>1, <1>3 DEF IInv

\* Where the loop is when it goes on.
LEMMA AtFrame ==
    ASSUME Buffer, Extractable, Way, phase = "frames", MoreFrames
    PROVE  \E k \in Nat, f \in Frame, e \in Nat :
              /\ k \in 0 .. Len(sent.frames) /\ Got(sent, k, frames, curLoc, lastEnd)
              /\ k + 1 \in 1 .. Len(sent.frames) /\ k + 1 \in 0 .. Len(sent.frames)
              /\ f = sent.frames[k + 1] /\ IsFrame(f) /\ f.type \in {0, 2, 3}
              /\ frameType = f.type /\ start = Cell(sent, 0)
              /\ memory \in Seq(Nat) /\ curLoc \in Nat \ {0}
              /\ At(memory, curLoc, SerializeFrameInto(f))
              /\ e = Cell(sent, k + 1) /\ e = curLoc + Len(SerializeFrameInto(f))
              /\ e - 1 <= Len(bytes)
<1>1. start = Cell(sent, 0) /\ phase # "header"
  BY DEF Way
<1>2. PICK k \in 0 .. Len(sent.frames) : Got(sent, k, frames, curLoc, lastEnd)
  BY <1>1, Zenon DEF Way
<1> QED
  BY <1>1, <1>2, NextFrame, Zenon

LEMMA HeaderStep ==
    ASSUME Buffer, Extractable, Way, unpackHeader
    PROVE  Way'
<1>1. IsMessage(sent) /\ beyond \in Seq(Nat) /\ bytes = PackMessage(sent) /\ Len(bytes) \in Nat
  BY BufferIs
<1>2. head' = sent.head
  <2>1. memory \in Seq(Nat) /\ At(memory, 1, SerializeHeader(sent.head))
    BY <1>1, InMemory, Zenon DEF memory
  <2>2. IsHeader(sent.head)
    BY <1>1 DEF IsMessage
  <2>3. rebuildHeader(memory) = sent.head
    BY <2>1, <2>2, HeaderRead
  <2> QED
    BY <2>3, Zenon DEF unpackHeader
<1>3. start' = Cell(sent, 0)
  BY <1>1, <1>2, Measured, Zenon DEF unpackHeader
<1>4. Got(sent, 0, frames', curLoc', lastEnd')
  <2>1. frames = <<>>
    BY DEF Way, unpackHeader
  <2>2. frames' = <<>> /\ curLoc' = Cell(sent, 0) /\ lastEnd' = Cell(sent, 0)
    BY <1>3, <2>1, Zenon DEF unpackHeader
  <2> QED
    BY <2>2, GotNone, Zenon
<1>5. 0 \in 0 .. Len(sent.frames)
  BY <1>1 DEF IsMessage
<1>6. reach' \in 0 .. Len(bytes)
  <2>1. PICK i \in Nat \ {0}, e \in Nat \ {0} :
           i = Cell(sent, 0) /\ e = Cell(sent, Len(sent.frames)) /\ i <= e
    BY <1>1, <1>5, CellsGrow
  <2>2. e = Len(bytes) + 1
    BY <1>1, <2>1, Measured, Zenon
  <2>3. reach' = Highest(i - 1)
    BY <1>3, <2>1, Zenon DEF unpackHeader
  <2>4. reach \in 0 .. Len(bytes)
    BY DEF Way
  <2> QED
    BY <1>1, <2>1, <2>2, <2>3, <2>4 DEF Highest
<1>7. phase' = "frames" /\ sent' = sent /\ bytes' = bytes
  BY DEF unpackHeader
<1> QED
  BY <1>2, <1>3, <1>4, <1>5, <1>6, <1>7 DEF Way

LEMMA TransitStep ==
    ASSUME Buffer, Extractable, Way, unpackTransitMetadata
    PROVE  Way'
<1>1. phase = "frames" /\ MoreFrames /\ frameType = 0
  BY DEF unpackTransitMetadata
<1>2. PICK k \in Nat, f \in Frame, e \in Nat :
         /\ k \in 0 .. Len(sent.frames) /\ Got(sent, k, frames, curLoc, lastEnd)
         /\ k + 1 \in 1 .. Len(sent.frames) /\ k + 1 \in 0 .. Len(sent.frames)
         /\ f = sent.frames[k + 1] /\ IsFrame(f) /\ f.type \in {0, 2, 3}
         /\ frameType = f.type /\ start = Cell(sent, 0)
         /\ memory \in Seq(Nat) /\ curLoc \in Nat \ {0}
         /\ At(memory, curLoc, SerializeFrameInto(f))
         /\ e = Cell(sent, k + 1) /\ e = curLoc + Len(SerializeFrameInto(f))
         /\ e - 1 <= Len(bytes)
  BY <1>1, AtFrame
<1>3. PICK m \in Nat, n \in Nat :
         /\ m = getSizeOfLVIToPack(f.total) /\ n = getSizeOfLVIToPack(f.specific)
         /\ Len(SerializeFrameInto(f)) = 5 + m + n
         /\ Value(memory, curLoc + 1, 4, memory[curLoc + 1]) = f.id
         /\ unpackLogVarInt(memory, curLoc + 5) = f.total
         /\ unpackLogVarInt(memory, curLoc + 5 + m) = f.specific
  BY <1>1, <1>2, TransitRead
<1>4. f = TransitMetadata(f.id, f.total, f.specific)
  BY <1>1, <1>2, FrameFields
<1>5. frames' = Append(frames, f)
  BY <1>3, <1>4, Zenon DEF unpackTransitMetadata
<1>6. lastEnd' = e - 1
  <2>1. lastEnd' = curLoc + 5 + m + n - 1
    BY <1>3, Zenon DEF unpackTransitMetadata
  <2>2. e = curLoc + (5 + m + n)
    BY <1>2, <1>3, Zenon
  <2> QED
    BY <1>2, <2>1, <2>2
<1>7. /\ curLoc' = lastEnd' + 1 /\ reach' = Highest(lastEnd')
      /\ UNCHANGED <<sent, bytes, phase, head, start>>
  BY DEF unpackTransitMetadata
<1>8. f.type # 2
  BY <1>1, <1>2
<1> QED
  BY <1>1, <1>2, <1>5, <1>6, <1>7, <1>8, FrameStep, Zenon

LEMMA TextStep ==
    ASSUME Buffer, Extractable, Way, unpackPlaintext
    PROVE  Way'
<1>1. phase = "frames" /\ MoreFrames /\ frameType \in {2, 3}
  BY DEF unpackPlaintext
<1>2. PICK k \in Nat, f \in Frame, e \in Nat :
         /\ k \in 0 .. Len(sent.frames) /\ Got(sent, k, frames, curLoc, lastEnd)
         /\ k + 1 \in 1 .. Len(sent.frames) /\ k + 1 \in 0 .. Len(sent.frames)
         /\ f = sent.frames[k + 1] /\ IsFrame(f) /\ f.type \in {0, 2, 3}
         /\ frameType = f.type /\ start = Cell(sent, 0)
         /\ memory \in Seq(Nat) /\ curLoc \in Nat \ {0}
         /\ At(memory, curLoc, SerializeFrameInto(f))
         /\ e = Cell(sent, k + 1) /\ e = curLoc + Len(SerializeFrameInto(f))
         /\ e - 1 <= Len(bytes)
  BY <1>1, AtFrame
<1>3. f = Plaintext(f.type, f.text)
  <2>1. f.type # 0
    BY <1>1, <1>2
  <2> QED
    BY <1>2, <2>1, FrameFields
<1>4. /\ TextFirst + TextLength - 1 = IF f.type = 2 THEN e - 2 ELSE e - 1
      /\ TextRead = e - 1
      /\ SubSeq(memory, TextFirst, TextFirst + TextLength - 1) = f.text
  BY <1>1, <1>2, TextFound
<1>5. frames' = Append(frames, f)
  BY <1>2, <1>3, <1>4, Zenon DEF unpackPlaintext
<1>6. lastEnd' = IF f.type = 2 THEN e - 2 ELSE e - 1
  BY <1>4, Zenon DEF unpackPlaintext
<1>7. /\ curLoc' = lastEnd' + 1 /\ reach' = Highest(e - 1)
      /\ UNCHANGED <<sent, bytes, phase, head, start>>
  BY <1>4, Zenon DEF unpackPlaintext
<1> QED
  BY <1>1, <1>2, <1>5, <1>6, <1>7, FrameStep, Zenon

\* No frame of such a message has another type.
LEMMA UnknownStep ==
    ASSUME Buffer, Extractable, Way, unknownFrame
    PROVE  FALSE
<1>1. phase = "frames" /\ MoreFrames /\ frameType \notin {0, 2, 3}
  BY DEF unknownFrame
<1> QED
  BY <1>1, AtFrame, Zenon

LEMMA LastStep ==
    ASSUME Buffer, Extractable, Way, extracted
    PROVE  Way'
<1>1. /\ phase = "frames" /\ ~MoreFrames /\ phase' = "done"
      /\ UNCHANGED <<sent, bytes, head, start, curLoc, lastEnd, frames, reach>>
  BY DEF extracted
<1>2. phase # "header" /\ start = Cell(sent, 0) /\ head = sent.head
  BY <1>1 DEF Way
<1>3. PICK k \in 0 .. Len(sent.frames) : Got(sent, k, frames, curLoc, lastEnd)
  BY <1>2, Zenon DEF Way
<1>4. k = Len(sent.frames)
  BY <1>1, <1>2, <1>3, LoopGoesOn, Zenon
<1> QED
  BY <1>1, <1>2, <1>3, <1>4 DEF Way

LEMMA NextIInv == IInv /\ [Next]_vars => IInv'
<1> SUFFICES ASSUME IInv, [Next]_vars PROVE IInv'
  OBVIOUS
<1>1. UNCHANGED <<sent, bytes, beyond>>
  BY DEF Next, vars, unpackHeader, unpackTransitMetadata, unpackPlaintext, unknownFrame, extracted
<1>2. Buffer'
  BY <1>1 DEF IInv, Buffer
<1>3. ASSUME Extractable' PROVE Way'
  <2>1. Buffer /\ Extractable /\ Way
    BY <1>1, <1>3 DEF IInv, Extractable
  <2>2. CASE unpackHeader
    BY <2>1, <2>2, HeaderStep
  <2>3. CASE unpackTransitMetadata
    BY <2>1, <2>3, TransitStep
  <2>4. CASE unpackPlaintext
    BY <2>1, <2>4, TextStep
  <2>5. CASE unknownFrame
    BY <2>1, <2>5, UnknownStep
  <2>6. CASE extracted
    BY <2>1, <2>6, LastStep
  <2>7. CASE UNCHANGED vars
    BY <2>1, <2>7 DEF Way, vars
  <2> QED
    BY <2>2, <2>3, <2>4, <2>5, <2>6, <2>7 DEF Next
<1> QED
  BY <1>2, <1>3 DEF IInv

\* The buffer and the way through it are as the invariant says in every state.
THEOREM InvHolds == Spec => []IInv
  BY InitIInv, NextIInv, PTL DEF Spec

-----------------------------------------------------------------------------
\* PackMessage allocates what it writes, whatever the widths of the integers
\* and the frames: the two walks over the message agree (MessageReader.c:18-34).
THEOREM BufferFilledHolds == Spec => []BufferFilled
<1>1. IInv => BufferFilled
  <2> SUFFICES ASSUME IInv PROVE BufferFilled
    OBVIOUS
  <2>1. IsMessage(sent) /\ bytes = PackMessage(sent)
    BY BufferIs DEF IInv
  <2> QED
    BY <2>1, Measured, Zenon DEF BufferFilled
<1> QED
  BY <1>1, InvHolds, PTL

\* Unpacking a message of this program reads nothing behind its buffer,
\* whatever lies there (Frames.c:7-19, 22, 93, 148).
THEOREM ReadsInsideHolds == Spec => [](Extractable => ReadsInside)
<1>1. IInv => (Extractable => ReadsInside)
  <2> SUFFICES ASSUME IInv, Extractable PROVE ReadsInside
    OBVIOUS
  <2>1. Buffer /\ reach \in 0 .. Len(bytes)
    BY DEF IInv, Way
  <2>2. Len(bytes) \in Nat
    BY <2>1, BufferIs
  <2> QED
    BY <2>1, <2>2 DEF ReadsInside
<1> QED
  BY <1>1, InvHolds, PTL

\* A message of this program is unpacked to what was packed: the same header
\* and the same frames in the same order (MessageReader.c:40-67).
THEOREM RoundTripHolds == Spec => []RoundTrip
<1>1. IInv => RoundTrip
  <2> SUFFICES ASSUME IInv, phase = "done", Extractable
               PROVE  head = sent.head /\ frames = sent.frames
    BY DEF RoundTrip
  <2>1. Way /\ IsMessage(sent) /\ phase # "header"
    BY BufferIs DEF IInv
  <2>2. head = sent.head /\ Got(sent, Len(sent.frames), frames, curLoc, lastEnd)
    BY <2>1, Zenon DEF Way
  <2>3. /\ frames \in Seq(Frame) /\ Len(frames) = Len(sent.frames)
        /\ \A i \in 1 .. Len(frames) : frames[i] = sent.frames[i]
    BY <2>2, Zenon DEF Got
  <2>4. sent.frames \in Seq(Frame)
    BY <2>1 DEF IsMessage
  <2>5. frames = sent.frames
    BY <2>3, <2>4, SeqEqual
  <2> QED
    BY <2>2, <2>5
<1> QED
  BY <1>1, InvHolds, PTL

\* The pointers of the loop stay in the buffer for a message of this program.
THEOREM TypeCorrect == Spec => [](Extractable => TypeOK)
<1>1. IInv => (Extractable => TypeOK)
  <2> SUFFICES ASSUME IInv, Extractable PROVE TypeOK
    OBVIOUS
  <2>1. Buffer /\ Way /\ IsMessage(sent) /\ bytes = PackMessage(sent) /\ Len(bytes) \in Nat
    BY BufferIs DEF IInv
  <2>2. PICK N \in Nat : N = Len(sent.frames)
    BY <2>1 DEF IsMessage
  <2>3. 0 \in 0 .. N /\ N \in 0 .. N
    OBVIOUS
  <2>4. PICK i0 \in Nat \ {0}, e \in Nat \ {0} : i0 = Cell(sent, 0) /\ e = Cell(sent, N)
    BY <2>1, <2>2, <2>3, Measured, Zenon
  <2>5. e = Len(bytes) + 1
    BY <2>1, <2>2, <2>4, Measured, Zenon
  <2>6. e > i0 + 2
    <3>1. PackedSize(sent) = Len(bytes)
      BY <2>1, Measured, Zenon
    <3>2. PackedSize(sent) > getSerializedSizeOfHeader(sent.head) + 2
      BY Zenon DEF Extractable
    <3>3. i0 = getSerializedSizeOfHeader(sent.head) + 1
      BY <2>1, <2>4, Measured, Zenon
    <3>4. getSerializedSizeOfHeader(sent.head) \in Nat
      BY <2>1, HeaderSize DEF IsMessage
    <3> QED
      BY <2>5, <3>1, <3>2, <3>3, <3>4
  <2>7. CASE phase = "header"
    BY <2>1, <2>4, <2>5, <2>6, <2>7 DEF Way, TypeOK
  <2>8. CASE phase # "header"
    <3>1. PICK k \in 0 .. N : Got(sent, k, frames, curLoc, lastEnd)
      BY <2>1, <2>2, <2>8, Zenon DEF Way
    <3>2. PICK i \in Nat \ {0} : i = Cell(sent, k) /\ i <= e /\ (k # 0 => i >= 3)
      BY <2>1, <2>2, <2>4, CellsGrow
    <3>3. /\ lastEnd = IF k = 0 THEN i0 ELSE IF sent.frames[k].type = 2 THEN i - 2 ELSE i - 1
          /\ curLoc = IF k = 0 THEN lastEnd ELSE lastEnd + 1
      BY <2>4, <3>1, <3>2, Zenon DEF Got
    <3>4. lastEnd \in 1 .. Len(bytes) /\ curLoc \in 1 .. Len(bytes) + 1
      BY <2>1, <2>5, <2>6, <3>2, <3>3
    <3>5. start = i0 /\ head = sent.head /\ phase \in {"header", "frames", "done"}
      BY <2>1, <2>4, <2>8 DEF Way
    <3>6. start \in 1 .. Len(bytes) + 1
      BY <2>1, <2>5, <2>6, <3>5
    <3>7. head # NoHead
      <4>1. DOMAIN sent.head # DOMAIN NoHead
        BY <2>1 DEF IsMessage, IsHeader, NoHead
      <4> QED
        BY <3>5, <4>1
    <3> QED
      BY <2>8, <3>4, <3>5, <3>6, <3>7, Zenon DEF TypeOK
  <2> QED
    BY <2>7, <2>8
<1> QED
  BY <1>1, InvHolds, PTL


-----------------------------------------------------------------------------
\* What is assumed of the headers is what the two functions give, for numbers
\* that have a packed form (Messages.c:210-241).
LEMMA HeadersConstructed ==
    ASSUME NEW chat \in Nat, NEW source \in Nat, NEW number \in Nat, NEW version \in Nat,
           NEW control \in Nat, NEW data \in BOOLEAN,
           FitsDVI(chat), FitsDVI(number), FitsDVI(version), FitsLVI(source)
    PROVE  /\ IsHeader(constructDataMessageHeader(chat, source, number))
           /\ IsHeader(constructControlMessageHeader(control, version, chat, source, number, data))
<1>1. getSizeOfDVIToPack(number) - 1 \in 0 .. 3 /\ getSizeOfDVIToPack(chat) - 1 \in 0 .. 3
  <2>1. getSizeOfDVIToPack(number) \in 1 .. 4 /\ getSizeOfDVIToPack(chat) \in 1 .. 4
    BY SizeOfDVI
  <2> QED
    BY <2>1
<1>2. FitsDVI(0)
  <2>1. PICK z \in Nat : z = 0
    OBVIOUS
  <2>2. PICK s : s = Shifted(z) /\ s[0] = z /\ \A k \in 1 .. 7 : s[k] = s[k - 1] \div Base
    BY ShiftedIs, Zenon
  <2>3. PICK B \in Nat : B = Base /\ B >= 16 /\ 0 \div B = 0
    BY BaseAssumption
  <2>4. s[1] = 0 /\ s[2] = s[1] \div B /\ s[3] = s[2] \div B
    BY <2>1, <2>2, <2>3
  <2>5. s[3] = 0
    BY <2>3, <2>4, Zenon
  <2> QED
    BY <2>1, <2>2, <2>3, <2>5 DEF FitsDVI
<1>3. control % 4 \in 0 .. 3
  OBVIOUS
<1>4. IsHeader(constructDataMessageHeader(chat, source, number))
  BY <1>1, <1>2 DEF IsHeader, constructDataMessageHeader
<1>5. IsHeader(constructControlMessageHeader(control, version, chat, source, number, data))
  BY <1>1, <1>3 DEF IsHeader, constructControlMessageHeader
<1> QED
  BY <1>4, <1>5
=============================================================================
