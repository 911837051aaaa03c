-------------------------- MODULE ChatCacheProofs ---------------------------
(***************************************************************************)
(* What the client finds in its cache, for any names, hosts, ids and       *)
(* shipped file, and any number of entries on the line that grows.         *)
(***************************************************************************)
EXTENDS ChatCache, WellFoundedInduction, SequenceTheorems, TLAPS

-----------------------------------------------------------------------------
(* The inductive invariant.                                                 *)

WrittenEntry(e) == Entry(e.name, e.host, e.chat)

Records      == [name : Nicknames, host : Hosts, chat : Ids]
PlainRecords == [name : Names, host : Hosts, chat : Ids]
USE DEF Records, PlainRecords

\* A line made of the entries of w, all with plain names, one after another.
OneLine(line, w) ==
    /\ line \in Seq(Symbols) /\ line # <<>> /\ Last(line) \in Ids
    /\ \A q \in DOMAIN line : line[q] = Colon =>
          /\ q + 3 <= Len(line)
          /\ \E e \in In(w) : /\ line[q + 1] = e.host
                              /\ line[q + 2] = Comma
                              /\ line[q + 3] = e.chat
    /\ \A q \in DOMAIN line : line[q] = Comma =>
          q + 1 <= Len(line) /\ line[q + 1] \in Ids
    /\ \A q \in DOMAIN line : q + BufLen - 1 <= Len(line) =>
          \E i \in q .. q + BufLen - 1 : line[i] \notin NameSymbols
    /\ IsPrefix(WrittenEntry(w[1]), line)

\* The line behind the shipped ones: whatever is written goes there.
GrownLine(line) == /\ line \in Seq(Symbols) /\ line # <<>> /\ Last(line) \in Ids
                   /\ PlainWritten => OneLine(line, written)

Inv == /\ written \in Seq(Records)
       /\ \/ written = <<>> /\ file = ShippedFile
          \/ written # <<>> /\ \E line : /\ file = Append(ShippedFile, line)
                                         /\ GrownLine(line)

-----------------------------------------------------------------------------
(* Positions and pieces.                                                    *)

LEMMA LeastExists ==
    ASSUME NEW S \in SUBSET Nat, S # {}
    PROVE  First(S) \in S /\ \A j \in S : First(S) <= j
<1>1. IsWellFoundedOn(OpToRel(<, Nat), Nat)
  BY NatLessThanWellFounded, Zenon
<1>2. \E i \in S : \A j \in S : ~(<<j, i>> \in OpToRel(<, Nat))
  BY <1>1, WFMin, Zenon
<1>3. \A i, j \in Nat : j < i => <<j, i>> \in OpToRel(<, Nat)
  BY Zenon DEF OpToRel
<1>4. \E i \in S : \A j \in S : ~(j < i)
  BY <1>2, <1>3, Zenon
<1>5. \E i \in S : \A j \in S : i <= j
  BY <1>4
<1> QED
  BY <1>5 DEF First

\* The position of the first c, as strcspn gives it.
LEMMA FirstSymbol ==
    ASSUME NEW S, NEW s \in Seq(S), NEW c
    PROVE  /\ strcspn(s, c) \in 0 .. Len(s)
           /\ \A i \in 1 .. strcspn(s, c) : s[i] # c
           /\ strcspn(s, c) < Len(s) => s[strcspn(s, c) + 1] = c
<1> DEFINE at == {i \in DOMAIN s : s[i] = c}
<1>1. Len(s) \in Nat /\ DOMAIN s = 1 .. Len(s)
  OBVIOUS
<1>2. CASE at = {}
  <2>1. strcspn(s, c) = Len(s)
    BY <1>2 DEF strcspn
  <2> QED
    BY <1>1, <1>2, <2>1
<1>3. CASE at # {}
  <2>1. strcspn(s, c) = First(at) - 1
    BY <1>3 DEF strcspn
  <2>2. at \in SUBSET Nat
    BY <1>1
  <2>3. First(at) \in at /\ \A j \in at : First(at) <= j
    <3> HIDE DEF at
    <3> QED
      BY <1>3, <2>2, LeastExists
  <2>4. PICK f \in 1 .. Len(s) : /\ f = First(at) /\ s[f] = c
                                /\ \A i \in 1 .. Len(s) : s[i] = c => f <= i
    BY <1>1, <2>3
  <2>5. strcspn(s, c) = f - 1
    BY <2>1, <2>4
  <2>6. f \in 1 .. Len(s) /\ s[f] = c /\ Len(s) \in Nat
    BY <1>1, <2>4
  <2>7. \A i \in 1 .. f - 1 : s[i] # c
    BY <2>4, <2>6
  <2> HIDE DEF at
  <2> QED
    BY <2>5, <2>6, <2>7
<1> QED
  BY <1>2, <1>3

\* Where c is, when the place of the first one is known.
LEMMA SymbolAt ==
    ASSUME NEW S, NEW s \in Seq(S), NEW c, NEW p \in 1 .. Len(s),
           s[p] = c, \A i \in 1 .. p - 1 : s[i] # c
    PROVE  strcspn(s, c) = p - 1
<1>1. /\ strcspn(s, c) \in 0 .. Len(s)
      /\ \A i \in 1 .. strcspn(s, c) : s[i] # c
      /\ strcspn(s, c) < Len(s) => s[strcspn(s, c) + 1] = c
  BY FirstSymbol
<1>2. Len(s) \in Nat
  OBVIOUS
<1>3. PICK n \in 0 .. Len(s) : n = strcspn(s, c)
  BY <1>1
<1>4. ~(p <= n)
  BY <1>1, <1>2, <1>3
<1>5. ~(n < p - 1)
  BY <1>1, <1>2, <1>3
<1> QED
  BY <1>2, <1>3, <1>4, <1>5

\* A piece is a part of its line, no longer than the buffer, that ends where the
\* line does when it is shorter.  A line that fits is one piece.
LEMMA PieceOfLine ==
    ASSUME NEW S, NEW line \in Seq(S), NEW k \in DOMAIN Pieces(line)
    PROVE  \E o \in Nat, n \in 1 .. BufLen :
              /\ o + n <= Len(line)
              /\ n < BufLen => o + n = Len(line)
              /\ Len(line) <= BufLen => o = 0 /\ n = Len(line)
              /\ Pieces(line)[k] = SubSeq(line, o + 1, o + n)
<1>1. PICK b \in Nat \ {0} : b = BufLen
  BY BufLenAssumption
<1>2. PICK l \in Nat : l = Len(line)
  OBVIOUS
<1>3. PICK q \in Nat : q = (l + b - 1) \div b
  BY <1>1, <1>2
<1>4. DOMAIN Pieces(line) = 1 .. q
  BY <1>1, <1>2, <1>3 DEF Pieces
<1>5. k \in 1 .. q /\ q * b <= l + b - 1
  BY <1>1, <1>2, <1>3, <1>4
<1>6. PICK o \in Nat : o = (k - 1) * b
  BY <1>1, <1>5
<1>7. k * b = o + b /\ k * b <= q * b
  BY <1>1, <1>5, <1>6
<1>8. o + b <= l + b - 1
  BY <1>1, <1>2, <1>5, <1>6, <1>7
<1>9. Pieces(line)[k] = SubSeq(line, o + 1, IF o + b < l THEN o + b ELSE l)
  BY <1>1, <1>2, <1>3, <1>4, <1>6, <1>7 DEF Pieces
<1>10. l <= b => o = 0
  BY <1>1, <1>2, <1>5, <1>6, <1>8
<1>11. PICK n \in 1 .. b : n = IF o + b < l THEN b ELSE l - o
  BY <1>1, <1>2, <1>6, <1>8
<1>12. o + n = IF o + b < l THEN o + b ELSE l
  BY <1>1, <1>2, <1>6, <1>11
<1>13. /\ o + n <= Len(line)
       /\ n < BufLen => o + n = Len(line)
       /\ Len(line) <= BufLen => o = 0 /\ n = Len(line)
  BY <1>1, <1>2, <1>6, <1>8, <1>10, <1>11
<1>14. n \in 1 .. BufLen /\ o \in Nat
  BY <1>1, <1>6, <1>11
<1>15. Pieces(line)[k] = SubSeq(line, o + 1, o + n)
  BY <1>9, <1>12
<1> QED
  BY <1>13, <1>14, <1>15

LEMMA OneElement ==
    ASSUME NEW S, NEW s \in Seq(S), NEW i \in 1 .. Len(s)
    PROVE  SubSeq(s, i, i) = <<s[i]>>
<1>1. i \in 1 .. Len(s) + 1 /\ i \in i - 1 .. Len(s)
  OBVIOUS
<1>2. /\ SubSeq(s, i, i) \in Seq(S) /\ Len(SubSeq(s, i, i)) = 1
      /\ \A k \in 1 .. 1 : SubSeq(s, i, i)[k] = s[i + k - 1]
  BY <1>1, SubSeqProperties
<1>3. SubSeq(s, i, i)[1] = s[i]
  BY <1>2
<1>4. ASSUME NEW t \in Seq(S), Len(t) = 1 PROVE t = <<t[1]>>
  BY <1>4
<1> QED
  BY <1>2, <1>3, <1>4, Zenon

\* The elements of a part.
LEMMA PartOf ==
    ASSUME NEW S, NEW s \in Seq(S), NEW o \in Nat, NEW n \in Nat, o + n <= Len(s)
    PROVE  /\ SubSeq(s, o + 1, o + n) \in Seq(S)
           /\ Len(SubSeq(s, o + 1, o + n)) = n
           /\ \A i \in 1 .. n : SubSeq(s, o + 1, o + n)[i] = s[o + i]
<1>1. o + 1 \in 1 .. Len(s) + 1 /\ o + n \in o .. Len(s) /\ Len(s) \in Nat
  OBVIOUS
<1> QED
  BY <1>1, SubSeqProperties

-----------------------------------------------------------------------------
(* Symbols, entries and shipped lines.                                      *)

LEMMA NameLetters ==
    ASSUME NEW name \in Names
    PROVE  /\ name \in Seq(Letters) /\ name \in Seq(Symbols) /\ Len(name) \in Nat \ {0}
           /\ \A i \in 1 .. Len(name) : name[i] \in Letters
<1>1. name \in Seq(Letters) /\ name # <<>>
  BY SymbolsAssumption
<1>2. Letters \subseteq Symbols
  BY DEF Symbols
<1>3. \A i \in 1 .. Len(name) : name[i] \in Letters
  BY <1>1
<1>4. name \in Seq(Symbols)
  BY <1>1, <1>2, <1>3
<1> QED
  BY <1>1, <1>3, <1>4

LEMMA NicknameSymbols ==
    ASSUME NEW name \in Nicknames
    PROVE  /\ name \in Seq(Symbols) /\ Len(name) \in Nat \ {0}
           /\ \A i \in 1 .. Len(name) : name[i] \in NameSymbols
<1>1. name \in Seq(NameSymbols) /\ name # <<>>
  <2>1. CASE name \in Names
    <3>1. name \in Seq(Letters) /\ name # <<>> /\ Letters \subseteq NameSymbols
      BY <2>1, SymbolsAssumption DEF NameSymbols
    <3> QED
      BY <3>1, SeqMonotonic
  <2>2. CASE name \in MarkedNames
    BY <2>2, SymbolsAssumption
  <2> QED
    BY <2>1, <2>2 DEF Nicknames
<1>2. NameSymbols \subseteq Symbols
  BY DEF NameSymbols, Symbols, Marks
<1>3. \A i \in 1 .. Len(name) : name[i] \in NameSymbols
  BY <1>1
<1>4. name \in Seq(Symbols)
  BY <1>1, <1>2, SeqMonotonic
<1> QED
  BY <1>1, <1>3, <1>4

LEMMA SymbolKinds ==
    /\ \A x \in Letters : /\ x # Colon /\ x # Comma /\ x # Blank /\ x # NewLine
                          /\ x \notin Hosts /\ x \notin Ids
    /\ \A x \in Hosts : /\ x # Colon /\ x # Comma /\ x # Blank /\ x # NewLine
                        /\ x \notin Ids /\ x \notin Letters
    /\ \A x \in Ids : /\ x # Colon /\ x # Comma /\ x # Blank /\ x # NewLine
                      /\ x \notin Hosts /\ x \notin Letters
    /\ \A x \in Marks : x \notin Letters /\ x \notin Hosts /\ x \notin Ids
    /\ \A x \in NameSymbols : x = Colon \/ x = Comma \/ x \in Letters
    /\ \A x \in Hosts \cup Ids \cup {Blank, NewLine} : x \notin NameSymbols
    /\ Colon \in NameSymbols
    /\ Colon # Comma /\ Colon # Blank /\ Colon # NewLine
    /\ Comma # Blank /\ Comma # NewLine /\ Blank # NewLine
    /\ Colon \in Marks /\ Comma \in Marks /\ Blank \in Marks /\ NewLine \in Marks
<1>1. Colon \in Marks /\ Comma \in Marks /\ Blank \in Marks /\ NewLine \in Marks
  BY DEF Marks
<1>2. /\ Colon # Comma /\ Colon # Blank /\ Colon # NewLine
      /\ Comma # Blank /\ Comma # NewLine /\ Blank # NewLine
  BY DEF Colon, Comma, Blank, NewLine
<1>3. /\ \A x \in NameSymbols : x = Colon \/ x = Comma \/ x \in Letters
      /\ Colon \in NameSymbols
  BY DEF NameSymbols
<1>4. \A x \in Hosts \cup Ids \cup {Blank, NewLine} : x \notin NameSymbols
  BY <1>1, <1>2, SymbolsAssumption DEF NameSymbols
<1> QED
  BY <1>1, <1>2, <1>3, <1>4, SymbolsAssumption

LEMMA ShortSequences ==
    ASSUME NEW S, NEW a \in S, NEW b \in S, NEW c \in S, NEW d \in S
    PROVE  /\ <<a, b>> \in Seq(S) /\ Len(<<a, b>>) = 2
           /\ <<a, b, c>> \in Seq(S) /\ Len(<<a, b, c>>) = 3
           /\ <<a, b, c, d>> \in Seq(S) /\ Len(<<a, b, c, d>>) = 4
  OBVIOUS

LEMMA Constantly ==
    ASSUME NEW S, NEW b \in S, NEW n \in Nat
    PROVE  [k \in 1 .. n |-> b] \in Seq(S) /\ Len([k \in 1 .. n |-> b]) = n
  OBVIOUS

LEMMA EntryParts ==
    ASSUME NEW name \in Nicknames, NEW host \in Hosts, NEW id \in Ids
    PROVE  LET e == Entry(name, host, id) IN
           /\ e \in Seq(Symbols) /\ Len(e) = Len(name) + 4
           /\ \A i \in 1 .. Len(name) : e[i] = name[i]
           /\ e[Len(name) + 1] = Colon /\ e[Len(name) + 2] = host
           /\ e[Len(name) + 3] = Comma /\ e[Len(name) + 4] = id
<1> DEFINE rest == <<Colon, host, Comma, id>>
<1>1. name \in Seq(Symbols) /\ Len(name) \in Nat
  BY NicknameSymbols
<1>2. Colon \in Symbols /\ Comma \in Symbols /\ host \in Symbols /\ id \in Symbols
  BY DEF Symbols, Marks
<1>3. rest \in Seq(Symbols) /\ Len(rest) = 4
  BY <1>2, ShortSequences
<1>4. rest[1] = Colon /\ rest[2] = host /\ rest[3] = Comma /\ rest[4] = id
  OBVIOUS
<1> HIDE DEF rest
<1>5. /\ name \o rest \in Seq(Symbols) /\ Len(name \o rest) = Len(name) + Len(rest)
      /\ \A i \in 1 .. Len(name) + Len(rest) :
            (name \o rest)[i] = IF i <= Len(name) THEN name[i] ELSE rest[i - Len(name)]
  BY <1>1, <1>3, ConcatProperties
<1>6. Entry(name, host, id) = name \o rest
  BY DEF Entry, rest
<1>7. \A k \in 1 .. 4 : (name \o rest)[Len(name) + k] = rest[k]
  BY <1>1, <1>3, <1>5
<1>8. 1 \in 1 .. 4 /\ 2 \in 1 .. 4 /\ 3 \in 1 .. 4 /\ 4 \in 1 .. 4
  OBVIOUS
<1>9. \A i \in 1 .. Len(name) : (name \o rest)[i] = name[i]
  BY <1>1, <1>3, <1>5
<1>10. /\ (name \o rest)[Len(name) + 1] = Colon /\ (name \o rest)[Len(name) + 2] = host
      /\ (name \o rest)[Len(name) + 3] = Comma /\ (name \o rest)[Len(name) + 4] = id
  BY <1>4, <1>7, <1>8
<1> QED
  BY <1>3, <1>5, <1>6, <1>9, <1>10

LEMMA ShippedParts ==
    ASSUME NEW line \in In(ShippedFile)
    PROVE  \E name \in Names, host \in Hosts, id \in Ids, n \in Nat :
              /\ line \in Seq(Symbols) /\ Len(line) = Len(name) + n + 5
              /\ Len(line) <= BufLen
              /\ \A i \in 1 .. Len(name) : line[i] = name[i]
              /\ line[Len(name) + 1] = Colon /\ line[Len(name) + 2] = host
              /\ line[Len(name) + 3] = Comma
              /\ \A i \in Len(name) + 4 .. Len(name) + n + 3 : line[i] = Blank
              /\ line[Len(name) + n + 4] = id /\ line[Len(name) + n + 5] = NewLine
<1>1. line \in Seq(Symbols) /\ Len(line) <= BufLen /\ Len(line) \in Nat
  BY ShippedAssumption DEF In
<1>2. PICK name \in Names, host \in Hosts, id \in Ids, n \in 0 .. Len(line) :
         line = name \o <<Colon, host, Comma>> \o [k \in 1 .. n |-> Blank] \o <<id, NewLine>>
  BY ShippedAssumption DEF IsShippedLine
<1> DEFINE mid == <<Colon, host, Comma>>
           blanks == [k \in 1 .. n |-> Blank]
           end == <<id, NewLine>>
<1>3. name \in Seq(Symbols) /\ Len(name) \in Nat
  BY NameLetters
<1>4. Colon \in Symbols /\ Comma \in Symbols /\ host \in Symbols /\ id \in Symbols
      /\ Blank \in Symbols /\ NewLine \in Symbols
  BY DEF Symbols, Marks
<1>5. mid \in Seq(Symbols) /\ Len(mid) = 3 /\ end \in Seq(Symbols) /\ Len(end) = 2
  BY <1>4, ShortSequences
<1>6. n \in Nat
  BY <1>1
<1>7. blanks \in Seq(Symbols) /\ Len(blanks) = n
  BY <1>4, <1>6, Constantly
<1>8. blanks \in Seq(Symbols) /\ Len(blanks) = n /\ n \in Nat
  BY <1>6, <1>7
<1>9. mid[1] = Colon /\ mid[2] = host /\ mid[3] = Comma /\ end[1] = id /\ end[2] = NewLine
  OBVIOUS
<1>10. \A k \in 1 .. n : blanks[k] = Blank
  OBVIOUS
<1>11. line = ((name \o mid) \o blanks) \o end
  BY <1>2
<1> HIDE DEF mid, blanks, end
<1>12. PICK l \in Nat : l = Len(name)
  BY <1>3
<1> DEFINE a == name \o mid
           b == a \o blanks
<1>13. /\ a \in Seq(Symbols) /\ Len(a) = Len(name) + Len(mid)
       /\ \A i \in 1 .. Len(name) + Len(mid) :
             a[i] = IF i <= Len(name) THEN name[i] ELSE mid[i - Len(name)]
  BY <1>3, <1>5, ConcatProperties
<1>14. a \in Seq(Symbols)
  BY <1>13
<1> HIDE DEF a
<1>15. /\ b \in Seq(Symbols) /\ Len(b) = Len(a) + Len(blanks)
       /\ \A i \in 1 .. Len(a) + Len(blanks) :
             b[i] = IF i <= Len(a) THEN a[i] ELSE blanks[i - Len(a)]
  BY <1>7, <1>14, ConcatProperties
<1>16. b \in Seq(Symbols)
  BY <1>15
<1> HIDE DEF b
<1>17. /\ Len(b \o end) = Len(b) + Len(end)
       /\ \A i \in 1 .. Len(b) + Len(end) :
             (b \o end)[i] = IF i <= Len(b) THEN b[i] ELSE end[i - Len(b)]
  BY <1>5, <1>16, ConcatProperties
<1>18. line = b \o end
  BY <1>11 DEF a, b
<1>19. Len(a) = l + 3 /\ Len(b) = l + 3 + n
  BY <1>5, <1>8, <1>12, <1>13, <1>15
<1>20. /\ Len(line) = l + n + 5
       /\ \A i \in 1 .. l + n + 5 : line[i] = IF i <= l + 3 + n THEN b[i] ELSE end[i - (l + 3 + n)]
  BY <1>5, <1>8, <1>12, <1>17, <1>18, <1>19
<1>21. \A i \in 1 .. l + 3 + n : line[i] = IF i <= l + 3 THEN a[i] ELSE blanks[i - (l + 3)]
  BY <1>8, <1>12, <1>15, <1>19, <1>20
<1>22. \A i \in 1 .. l + 3 : line[i] = a[i]
  BY <1>8, <1>12, <1>21
<1>23. \A i \in 1 .. l + 3 : a[i] = IF i <= l THEN name[i] ELSE mid[i - l]
  BY <1>5, <1>12, <1>13
<1>24. \A i \in 1 .. l + 3 : line[i] = IF i <= l THEN name[i] ELSE mid[i - l]
  BY <1>22, <1>23
<1>25. \A i \in 1 .. Len(name) : line[i] = name[i]
  BY <1>8, <1>12, <1>24
<1>26. \A k \in 1 .. 3 : line[Len(name) + k] = mid[k]
  BY <1>8, <1>12, <1>24
<1>27. \A i \in Len(name) + 4 .. Len(name) + n + 3 : line[i] = Blank
  <2>1. ASSUME NEW i \in Len(name) + 4 .. Len(name) + n + 3 PROVE line[i] = Blank
    <3>1. line[i] = blanks[i - (Len(name) + 3)] /\ i - (Len(name) + 3) \in 1 .. n
      BY <1>8, <1>12, <1>21, <2>1
    <3> QED
      BY <1>10, <3>1
  <2> QED
    BY <2>1
<1>28. line[Len(name) + n + 4] = end[1] /\ line[Len(name) + n + 5] = end[2]
  BY <1>8, <1>12, <1>20
<1>29. n \in Nat /\ Len(line) = Len(name) + n + 5
  BY <1>8, <1>12, <1>20
<1>30. 1 \in 1 .. 3 /\ 2 \in 1 .. 3 /\ 3 \in 1 .. 3
  OBVIOUS
<1>31. line[Len(name) + 1] = Colon /\ line[Len(name) + 2] = host /\ line[Len(name) + 3] = Comma
  BY <1>9, <1>26, <1>30, Zenon
<1>32. line[Len(name) + n + 4] = id /\ line[Len(name) + n + 5] = NewLine
  BY <1>9, <1>28, Zenon
<1> WITNESS name \in Names, host \in Hosts, id \in Ids, n \in Nat
<1> QED
  BY <1>1, <1>25, <1>27, <1>29, <1>31, <1>32, Zenon

-----------------------------------------------------------------------------
(* What is read from a piece that matches.                                  *)

\* A piece of a line: behind a colon there is a host, then a comma, and behind a
\* comma there is nothing that a name may have, unless the piece ends there.  It
\* does not consist of such symbols.
PieceOK(piece) ==
    /\ \E i \in 1 .. Len(piece) : piece[i] \notin NameSymbols
    /\ \A q \in 1 .. Len(piece) : piece[q] = Colon =>
          /\ q + 1 <= Len(piece) => piece[q + 1] \in Hosts
          /\ q + 2 <= Len(piece) => piece[q + 2] = Comma
    /\ \A q \in 1 .. Len(piece) :
          piece[q] = Comma /\ q + 1 <= Len(piece) => piece[q + 1] \notin NameSymbols

\* The search stops at a colon with nothing but letters before it.
LEMMA ColonFound ==
    ASSUME NEW piece \in Seq(Symbols), PieceOK(piece), NEW nickname \in Nicknames,
           MatchesName(piece, nickname)
    PROVE  \E p \in 1 .. Len(piece) :
              /\ p \in Nat /\ Len(piece) \in Nat
              /\ piece[p] = Colon /\ strcspn(piece, Colon) = p - 1
              /\ \A i \in 1 .. p - 1 : piece[i] \in Letters
              /\ IsPrefix(SubSeq(piece, 1, p - 1), nickname)
<1>1. piece \in Seq(Symbols) /\ Len(piece) \in Nat
  OBVIOUS
<1>2. PICK n \in 0 .. Len(piece) :
         /\ n = strcspn(piece, Colon)
         /\ \A i \in 1 .. n : piece[i] # Colon
         /\ n < Len(piece) => piece[n + 1] = Colon
  BY <1>1, FirstSymbol
<1>3. /\ Len(SubSeq(piece, 1, n)) = n
      /\ \A i \in 1 .. n : SubSeq(piece, 1, n)[i] = piece[i]
  <2>1. n \in Nat /\ 0 + n <= Len(piece) /\ 0 \in Nat
    BY <1>1, <1>2
  <2>2. /\ Len(SubSeq(piece, 0 + 1, 0 + n)) = n
        /\ \A i \in 1 .. n : SubSeq(piece, 0 + 1, 0 + n)[i] = piece[0 + i]
    BY <1>1, <2>1, PartOf
  <2>3. 0 + 1 = 1 /\ 0 + n = n /\ \A i \in 1 .. n : 0 + i = i
    BY <2>1
  <2> QED
    BY <2>2, <2>3
<1>4. IsPrefix(SubSeq(piece, 1, n), nickname)
  BY <1>2 DEF MatchesName
<1>5. n <= Len(nickname) /\ SubSeq(nickname, 1, n) = SubSeq(piece, 1, n)
  BY <1>3, <1>4 DEF IsPrefix
<1>6. /\ nickname \in Seq(Symbols) /\ Len(nickname) \in Nat
      /\ \A i \in 1 .. Len(nickname) : nickname[i] \in NameSymbols
  BY NicknameSymbols
<1>7. \A i \in 1 .. n : SubSeq(nickname, 1, n)[i] = nickname[i]
  <2>1. n \in Nat /\ 0 + n <= Len(nickname) /\ 0 \in Nat
    BY <1>1, <1>2, <1>5
  <2>2. \A i \in 1 .. n : SubSeq(nickname, 0 + 1, 0 + n)[i] = nickname[0 + i]
    BY <1>6, <2>1, PartOf
  <2>3. 0 + 1 = 1 /\ 0 + n = n /\ \A i \in 1 .. n : 0 + i = i
    BY <2>1
  <2> QED
    BY <2>2, <2>3
<1>8. \A i \in 1 .. n : piece[i] \in NameSymbols
  <2>1. ASSUME NEW i \in 1 .. n PROVE piece[i] \in NameSymbols
    <3>1. piece[i] = nickname[i] /\ i \in 1 .. Len(nickname)
      BY <1>2, <1>3, <1>5, <1>6, <1>7, <2>1
    <3> QED
      BY <1>6, <3>1
  <2> QED
    BY <2>1
<1>9. n < Len(piece)
  BY <1>1, <1>2, <1>8 DEF PieceOK
<1>10. n + 1 \in 1 .. Len(piece) /\ piece[n + 1] = Colon
  BY <1>1, <1>2, <1>9
<1>11. \A i \in 1 .. n : piece[i] \in Letters
  <2> SUFFICES ASSUME NEW i \in 1 .. n PROVE piece[i] \in Letters
    OBVIOUS
  <2>1. piece[i + 1] \in NameSymbols /\ i \in 1 .. Len(piece) /\ i + 1 <= Len(piece)
    <3>1. CASE i = n
      BY <1>2, <1>9, <1>10, <3>1, SymbolKinds
    <3>2. CASE i # n
      BY <1>2, <1>8, <1>9, <3>2
    <3> QED
      BY <3>1, <3>2
  <2>2. piece[i] # Comma
    BY <2>1 DEF PieceOK
  <2>3. piece[i] # Colon /\ piece[i] \in NameSymbols
    BY <1>2, <1>8
  <2> QED
    BY <2>2, <2>3, SymbolKinds
<1>12. PICK p \in 1 .. Len(piece) : p = n + 1 /\ p - 1 = n /\ p \in Nat
  BY <1>1, <1>2, <1>10
<1> QED
  BY <1>1, <1>2, <1>4, <1>10, <1>11, <1>12, Zenon

\* Host and chat are what stands behind that colon, as far as the piece goes.
LEMMA DetailsOf ==
    ASSUME NEW piece \in Seq(Symbols), PieceOK(piece), NEW p \in 1 .. Len(piece), piece[p] = Colon,
           strcspn(piece, Colon) = p - 1, \A i \in 1 .. p - 1 : piece[i] \in Letters
    PROVE  /\ ~LengthWraps(piece)
           /\ hostOf(piece) = IF p < Len(piece) THEN <<piece[p + 1]>> ELSE <<>>
           /\ \/ chatOf(piece) = SomeNumber
              \/ /\ p + 3 <= Len(piece)
                 /\ piece[p + 3] \in Ids /\ chatOf(piece) = piece[p + 3]
           /\ p + 3 = Len(piece) /\ piece[p + 3] \in Ids => chatOf(piece) = piece[p + 3]
           /\ p + 3 <= Len(piece) => ~RunsOff(piece)
<1>1. piece \in Seq(Symbols) /\ Len(piece) \in Nat /\ p \in Nat
  OBVIOUS
<1>2. PICK l \in Nat : l = Len(piece)
  BY <1>1
<1>3. p <= l /\ 1 <= p
  BY <1>2
<1>4. /\ p + 1 <= l => piece[p + 1] \in Hosts
      /\ p + 2 <= l => piece[p + 2] = Comma
  BY <1>2, <1>3 DEF PieceOK
<1>5. \A i \in 1 .. p + 1 : i <= l => piece[i] # Comma
  BY <1>1, <1>2, <1>3, <1>4, SymbolKinds
<1>6. PICK m \in 0 .. l :
         /\ m = strcspn(piece, Comma)
         /\ \A i \in 1 .. m : piece[i] # Comma
         /\ m < l => piece[m + 1] = Comma
  BY <1>1, <1>2, FirstSymbol
<1>7. m = IF p + 2 <= l THEN p + 1 ELSE l
  <2>1. CASE p + 2 <= l
    <3>1. ~(p + 2 <= m)
      BY <1>1, <1>2, <1>4, <1>6, <2>1
    <3>2. ~(m <= p)
      BY <1>1, <1>2, <1>5, <1>6, <2>1
    <3> QED
      BY <1>1, <1>2, <1>6, <2>1, <3>1, <3>2
  <2>2. CASE ~(p + 2 <= l)
    <3>1. ~(m < l)
      BY <1>1, <1>2, <1>5, <1>6, <2>2
    <3> QED
      BY <1>2, <1>6, <2>2, <3>1
  <2> QED
    BY <2>1, <2>2
<1>8. ~LengthWraps(piece)
  BY <1>1, <1>2, <1>3, <1>6, <1>7 DEF LengthWraps
<1>9. hostOf(piece) = SubSeq(piece, p + 1, m)
  BY <1>1, <1>6 DEF hostOf
<1>10. hostOf(piece) = IF p < l THEN <<piece[p + 1]>> ELSE <<>>
  <2>1. CASE p < l
    <3>1. m = p + 1
      BY <1>1, <1>2, <1>7, <2>1
    <3>2. SubSeq(piece, p + 1, p + 1) = <<piece[p + 1]>>
      <4>1. p + 1 \in 1 .. Len(piece)
        BY <1>1, <1>2, <2>1
      <4> QED
        BY <4>1, OneElement
    <3> QED
      BY <1>9, <2>1, <3>1, <3>2
  <2>2. CASE ~(p < l)
    <3>1. m = p
      BY <1>1, <1>2, <1>3, <1>7, <2>2
    <3>2. SubSeq(piece, p + 1, p) = <<>>
      BY <1>1, <1>2
    <3> QED
      BY <1>9, <2>2, <3>1, <3>2
  <2> QED
    BY <2>1, <2>2
<1>11. PICK e \in 0 .. l : /\ e = strcspn(piece, NewLine)
                           /\ \A i \in 1 .. e : piece[i] # NewLine
                           /\ e < l => piece[e + 1] = NewLine
  BY <1>1, <1>2, FirstSymbol
<1> DEFINE digits == SubSeq(piece, m + 2, e)
<1>12. chatOf(piece) = IF Len(digits) = 1 /\ digits[1] \in Ids THEN digits[1] ELSE SomeNumber
  BY <1>6, <1>11 DEF chatOf
<1>13. m + 2 \in Nat /\ e \in Nat
  BY <1>2, <1>6, <1>11
<1>14. Len(digits) = IF m + 2 <= e THEN e - (m + 1) ELSE 0
  BY <1>1, <1>2, <1>11, <1>13
<1>15. ASSUME m + 2 <= e
       PROVE  p + 3 <= l /\ digits[1] = piece[p + 3]
  <2>1. m = p + 1
    BY <1>1, <1>2, <1>7, <1>11, <1>15
  <2>2. digits[1] = piece[m + 2]
    BY <1>1, <1>2, <1>11, <1>13, <1>15
  <2>3. m + 2 = p + 3 /\ p + 3 <= l
    BY <1>1, <1>2, <1>11, <1>15, <2>1
  <2> QED
    BY <2>2, <2>3
<1>16. ASSUME p + 3 = l, piece[p + 3] \in Ids PROVE m + 2 <= e /\ Len(digits) = 1
  <2>1. m = p + 1
    BY <1>1, <1>2, <1>7, <1>16
  <2>2. ~(e < l)
    <3>1. \A i \in 1 .. p + 3 : piece[i] # NewLine
      <4>1. piece[p + 2] = Comma /\ piece[p + 1] \in Hosts
        BY <1>1, <1>2, <1>4, <1>16
      <4>2. Comma # NewLine /\ Colon # NewLine
        BY DEF NewLine, Comma, Colon
      <4>3. piece[p + 3] # NewLine /\ piece[p + 1] # NewLine
            /\ piece[p + 2] # NewLine /\ piece[p] # NewLine
        BY <1>16, <4>1, <4>2, SymbolKinds
      <4>4. \A i \in 1 .. p - 1 : piece[i] # NewLine
        BY SymbolKinds
      <4> QED
        BY <1>1, <4>3, <4>4
    <3> QED
      BY <1>1, <1>2, <1>11, <1>16, <3>1
  <2>3. e = l
    BY <1>2, <1>11, <2>2
  <2>4. m + 2 <= e /\ e - (m + 1) = 1
    BY <1>1, <1>2, <1>16, <2>1, <2>3
  <2> QED
    BY <1>14, <2>4
<1> HIDE DEF digits
<1>17. \/ chatOf(piece) = SomeNumber
       \/ p + 3 <= l /\ piece[p + 3] \in Ids /\ chatOf(piece) = piece[p + 3]
  <2>1. CASE m + 2 <= e
    BY <1>12, <1>15, <2>1
  <2>2. CASE ~(m + 2 <= e)
    BY <1>12, <1>14, <2>2
  <2> QED
    BY <2>1, <2>2
<1>18. p + 3 = l /\ piece[p + 3] \in Ids => chatOf(piece) = piece[p + 3]
  BY <1>12, <1>15, <1>16
<1>19. ASSUME p + 3 <= l PROVE ~RunsOff(piece)
  <2>1. <<piece[p + 1]>> # <<>>
    OBVIOUS
  <2>2. hostOf(piece) # <<>>
    <3>1. p < l
      BY <1>1, <1>2, <1>19
    <3> QED
      BY <1>10, <2>1, <3>1, Zenon
  <2>3. m + 1 < l /\ m \in Nat
    BY <1>1, <1>2, <1>7, <1>19
  <2>4. ~(strcspn(piece, Comma) + 1 >= Len(piece))
    BY <1>2, <1>6, <2>3
  <2> QED
    BY <2>2, <2>4 DEF RunsOff
<1> QED
  BY <1>2, <1>8, <1>10, <1>17, <1>18, <1>19

-----------------------------------------------------------------------------
(* What the lines of the file hold for the search.                          *)

LEMMA Positions ==
    ASSUME NEW S, NEW s \in Seq(S), NEW T, NEW t \in Seq(T)
    PROVE  IsPrefix(s, t) <=> /\ Len(s) <= Len(t)
                              /\ \A i \in 1 .. Len(s) : t[i] = s[i]
<1>1. Len(s) \in Nat /\ Len(t) \in Nat
  OBVIOUS
<1>2. ASSUME Len(s) <= Len(t)
      PROVE  /\ SubSeq(t, 1, Len(s)) \in Seq(T) /\ Len(SubSeq(t, 1, Len(s))) = Len(s)
             /\ \A i \in 1 .. Len(s) : SubSeq(t, 1, Len(s))[i] = t[i]
  <2>1. 0 + 1 = 1 /\ 0 + Len(s) = Len(s) /\ 0 \in Nat /\ \A i \in 1 .. Len(s) : 0 + i = i
    BY <1>1
  <2>2. PICK n \in Nat : n = Len(s) /\ 0 + n <= Len(t)
    BY <1>1, <1>2
  <2>3. /\ SubSeq(t, 0 + 1, 0 + n) \in Seq(T) /\ Len(SubSeq(t, 0 + 1, 0 + n)) = n
        /\ \A i \in 1 .. n : SubSeq(t, 0 + 1, 0 + n)[i] = t[0 + i]
    BY <2>1, <2>2, PartOf
  <2> QED
    BY <2>1, <2>2, <2>3
<1>3. ASSUME NEW u \in Seq(T), Len(u) = Len(s), \A i \in 1 .. Len(s) : u[i] = s[i]
      PROVE  u = s
  BY <1>3
<1>4. ASSUME Len(s) <= Len(t), \A i \in 1 .. Len(s) : t[i] = s[i]
      PROVE  SubSeq(t, 1, Len(s)) = s
  BY <1>2, <1>3, <1>4
<1>5. ASSUME Len(s) <= Len(t), SubSeq(t, 1, Len(s)) = s
      PROVE  \A i \in 1 .. Len(s) : t[i] = s[i]
  BY <1>2, <1>5
<1> QED
  BY <1>4, <1>5 DEF IsPrefix

\* The k-th piece of a line, position by position.
Within(piece, line, o) ==
    /\ piece \in Seq(Symbols)
    /\ Len(piece) \in 1 .. BufLen
    /\ o + Len(piece) <= Len(line)
    /\ Len(piece) < BufLen => o + Len(piece) = Len(line)
    /\ Len(line) <= BufLen => o = 0 /\ Len(piece) = Len(line)
    /\ \A i \in 1 .. Len(piece) : piece[i] = line[o + i]

LEMMA PieceWithin ==
    ASSUME NEW line \in Seq(Symbols), NEW k \in DOMAIN Pieces(line)
    PROVE  \E o \in Nat : Within(Pieces(line)[k], line, o)
<1>1. PICK o \in Nat, n \in 1 .. BufLen :
         /\ o + n <= Len(line)
         /\ n < BufLen => o + n = Len(line)
         /\ Len(line) <= BufLen => o = 0 /\ n = Len(line)
         /\ Pieces(line)[k] = SubSeq(line, o + 1, o + n)
  BY PieceOfLine
<1>2. n \in Nat
  BY BufLenAssumption
<1>3. /\ SubSeq(line, o + 1, o + n) \in Seq(Symbols)
      /\ Len(SubSeq(line, o + 1, o + n)) = n
      /\ \A i \in 1 .. n : SubSeq(line, o + 1, o + n)[i] = line[o + i]
  BY <1>1, <1>2, PartOf
<1> QED
  BY <1>1, <1>3 DEF Within

\* A shipped line.
LEMMA ShippedColon ==
    ASSUME NEW line \in In(ShippedFile)
    PROVE  /\ EntryOf(line) \in PlainRecords
           /\ line \in Seq(Symbols) /\ Len(line) <= BufLen
           /\ \E m \in Nat \ {0} :
                /\ m = Len(EntryOf(line).name)
                /\ Len(line) >= m + 5
                /\ line[Len(line)] = NewLine
                /\ \A i \in 1 .. m : line[i] = EntryOf(line).name[i]
                /\ line[m + 1] = Colon /\ line[m + 2] = EntryOf(line).host
                /\ line[m + 3] = Comma
                /\ line[m + 4] \in {Blank, EntryOf(line).chat}
                /\ \A i \in 1 .. Len(line) : line[i] = Colon => i = m + 1
                /\ \A i \in 1 .. Len(line) : line[i] = Comma => i = m + 3
<1>1. PICK name \in Names, host \in Hosts, id \in Ids, n \in Nat :
         /\ line \in Seq(Symbols) /\ Len(line) = Len(name) + n + 5
         /\ Len(line) <= BufLen
         /\ \A i \in 1 .. Len(name) : line[i] = name[i]
         /\ line[Len(name) + 1] = Colon /\ line[Len(name) + 2] = host
         /\ line[Len(name) + 3] = Comma
         /\ \A i \in Len(name) + 4 .. Len(name) + n + 3 : line[i] = Blank
         /\ line[Len(name) + n + 4] = id /\ line[Len(name) + n + 5] = NewLine
  BY ShippedParts
<1>2. PICK m \in Nat \ {0} : m = Len(name)
  BY NameLetters
<1>3. /\ name \in Seq(Symbols) /\ \A i \in 1 .. m : name[i] \in Letters
  BY <1>2, NameLetters
<1>4. /\ Len(line) = m + n + 5
      /\ \A i \in 1 .. m : line[i] = name[i] /\ line[i] \in Letters
      /\ line[m + 1] = Colon /\ line[m + 2] = host /\ line[m + 3] = Comma
      /\ \A i \in m + 4 .. m + n + 3 : line[i] = Blank
      /\ line[m + n + 4] = id /\ line[m + n + 5] = NewLine
  BY <1>1, <1>2, <1>3
<1>5. \A i \in 1 .. Len(line) : \/ i \in 1 .. m \/ i = m + 1 \/ i = m + 2 \/ i = m + 3
                                \/ i \in m + 4 .. m + n + 3
                                \/ i = m + n + 4 \/ i = m + n + 5
  BY <1>4
<1>6. ASSUME NEW i \in 1 .. Len(line) PROVE /\ line[i] = Colon <=> i = m + 1
                                            /\ line[i] \in Ids <=> i = m + n + 4
                                            /\ line[i] = Comma <=> i = m + 3
  <2>1. CASE i \in 1 .. m
    <3>1. line[i] # Colon /\ line[i] \notin Ids /\ line[i] # Comma
      BY <1>4, <2>1, SymbolKinds
    <3> QED
      BY <2>1, <3>1
  <2>2. CASE i = m + 1
    <3>1. line[i] = Colon /\ line[i] \notin Ids /\ line[i] # Comma
      BY <1>4, <2>2, SymbolKinds
    <3> QED
      BY <2>2, <3>1
  <2>3. CASE i = m + 2
    <3>1. line[i] # Colon /\ line[i] \notin Ids /\ line[i] # Comma
      BY <1>4, <2>3, SymbolKinds
    <3> QED
      BY <2>3, <3>1
  <2>4. CASE i = m + 3
    <3>1. line[i] # Colon /\ line[i] \notin Ids /\ line[i] = Comma
      BY <1>4, <2>4, SymbolKinds
    <3> QED
      BY <2>4, <3>1
  <2>5. CASE i \in m + 4 .. m + n + 3
    <3>1. line[i] # Colon /\ line[i] \notin Ids /\ line[i] # Comma
      BY <1>4, <2>5, SymbolKinds
    <3> QED
      BY <2>5, <3>1
  <2>6. CASE i = m + n + 4
    <3>1. line[i] # Colon /\ line[i] \in Ids /\ line[i] # Comma
      BY <1>4, <2>6, SymbolKinds
    <3> QED
      BY <2>6, <3>1
  <2>7. CASE i = m + n + 5
    <3>1. line[i] # Colon /\ line[i] \notin Ids /\ line[i] # Comma
      BY <1>4, <2>7, SymbolKinds
    <3> QED
      BY <2>7, <3>1
  <2> QED
    BY <1>5, <2>1, <2>2, <2>3, <2>4, <2>5, <2>6, <2>7
<1>7. strcspn(line, Colon) = m
  <2>1. PICK p \in 1 .. Len(line) : p = m + 1 /\ line[p] = Colon
    BY <1>4
  <2>2. \A i \in 1 .. p - 1 : line[i] # Colon
    BY <1>4, <1>6, <2>1
  <2>3. strcspn(line, Colon) = p - 1
    BY <1>1, <2>1, <2>2, SymbolAt
  <2> QED
    BY <2>1, <2>3
<1>8. SubSeq(line, 1, m) = name
  <2>1. IsPrefix(name, line)
    <3>1. Len(name) = m /\ name \in Seq(Symbols) /\ m <= Len(line)
      BY <1>1, <1>2, <1>3, <1>4
    <3>2. \A i \in 1 .. Len(name) : line[i] = name[i]
      BY <1>4, <3>1, Zenon
    <3> QED
      BY <1>1, <3>1, <3>2, Positions
  <2> QED
    BY <1>2, <2>1 DEF IsPrefix
<1>9. line[First({i \in DOMAIN line : line[i] \in Ids})] = id
  <2> DEFINE at == {i \in DOMAIN line : line[i] \in Ids}
  <2>1. m + n + 4 \in 1 .. Len(line) /\ DOMAIN line = 1 .. Len(line)
    <3>1. Len(line) = m + n + 5
      BY <1>4, Zenon
    <3> QED
      BY <1>1, <3>1
  <2>2. at = {m + n + 4}
    BY <1>6, <2>1
  <2>3. at \in SUBSET Nat /\ at # {}
    BY <2>2
  <2> HIDE DEF at
  <2>4. First(at) \in at
    BY <2>3, LeastExists
  <2>5. line[First(at)] = id
    BY <1>4, <2>2, <2>4
  <2> QED
    BY <2>5 DEF at
<1>10. EntryOf(line) = [name |-> name, host |-> host, chat |-> id]
  BY <1>4, <1>7, <1>8, <1>9 DEF EntryOf
<1>11. /\ EntryOf(line).name = name /\ EntryOf(line).host = host /\ EntryOf(line).chat = id
       /\ EntryOf(line) \in PlainRecords
  BY <1>10
<1>12. line[m + 4] \in {Blank, id}
  <2>1. CASE n = 0
    BY <1>4, <2>1
  <2>2. CASE n # 0
    BY <1>4, <2>2
  <2> QED
    BY <2>1, <2>2
<1>13. Len(line) >= m + 5 /\ line[Len(line)] = NewLine
  BY <1>4
<1> QED
  BY <1>1, <1>2, <1>4, <1>6, <1>11, <1>12, <1>13

LEMMA EntriesOf ==
    ASSUME NEW S, NEW w \in Seq(S)
    PROVE  In(w) \subseteq S
<1> SUFFICES ASSUME NEW x \in In(w) PROVE x \in S
  OBVIOUS
<1>1. PICK i \in DOMAIN w : x = w[i]
  BY DEF In
<1> QED
  BY <1>1

LEMMA InAppend ==
    ASSUME NEW S, NEW w \in Seq(S), NEW x \in S
    PROVE  In(Append(w, x)) = In(w) \cup {x}
<1>1. /\ DOMAIN w = 1 .. Len(w) /\ Len(w) \in Nat
      /\ DOMAIN Append(w, x) = 1 .. Len(w) + 1
      /\ \A i \in 1 .. Len(w) : Append(w, x)[i] = w[i]
      /\ Append(w, x)[Len(w) + 1] = x
  OBVIOUS
<1>2. PICK v : v = Append(w, x)
  OBVIOUS
<1>3. PICK l \in Nat : l = Len(w)
  OBVIOUS
<1>4. /\ DOMAIN w = 1 .. l /\ DOMAIN v = 1 .. l + 1
      /\ \A i \in 1 .. l : v[i] = w[i]
      /\ v[l + 1] = x
  BY <1>1, <1>2, <1>3, Zenon
<1>5. In(v) = In(w) \cup {x}
  <2>1. ASSUME NEW y \in In(v) PROVE y \in In(w) \cup {x}
    <3>1. PICK i \in 1 .. l + 1 : y = v[i]
      BY <1>4 DEF In
    <3>2. CASE i = l + 1
      BY <1>4, <3>1, <3>2
    <3>3. CASE i # l + 1
      BY <1>4, <3>1, <3>3 DEF In
    <3> QED
      BY <3>2, <3>3
  <2>2. ASSUME NEW y \in In(w) PROVE y \in In(v)
    BY <1>4 DEF In
  <2>3. x \in In(v)
    <3>1. l + 1 \in 1 .. l + 1
      OBVIOUS
    <3> QED
      BY <1>4, <3>1 DEF In
  <2> QED
    BY <2>1, <2>2, <2>3
<1> QED
  BY <1>2, <1>5

\* What getDetails makes of a piece that matches in a file with the entries known.
Answers(piece, nickname, known, cut) ==
    LET d == Details(piece) IN
    /\ d.result \in {"found", "unclear"}
    /\ d.result = "unclear" => cut
    /\ \/ d.host = NoHost /\ cut
       \/ \E e \in known : /\ e.host = d.host /\ d.chat \in {e.chat, SomeNumber}
                           /\ ~cut => IsPrefix(e.name, nickname)

LEMMA HostFound ==
    ASSUME NEW piece, NEW h \in Hosts, ~LengthWraps(piece), hostOf(piece) = <<h>>
    PROVE  Details(piece) = [result |-> IF RunsOff(piece) THEN "unclear" ELSE "found",
                             host |-> h, chat |-> chatOf(piece)]
<1>1. <<h>>[1] = h
  OBVIOUS
<1>2. hostOf(piece) \in {<<x>> : x \in Hosts} /\ hostOf(piece)[1] = h
  BY <1>1, Zenon
<1> QED
  BY <1>2, Zenon DEF Details

LEMMA NoHostFound ==
    ASSUME NEW piece, ~LengthWraps(piece), hostOf(piece) = <<>>
    PROVE  Details(piece) = [result |-> "unclear", host |-> NoHost, chat |-> chatOf(piece)]
<1>1. \A x : <<>> # <<x>>
  OBVIOUS
<1>2. hostOf(piece) \notin {<<x>> : x \in Hosts}
  BY <1>1, Zenon
<1>3. RunsOff(piece)
  BY DEF RunsOff
<1> QED
  BY <1>2, <1>3, Zenon DEF Details

LEMMA FoundInShipped ==
    ASSUME NEW line \in In(ShippedFile), NEW nickname \in Nicknames,
           NEW k \in Hits(line, nickname)
    PROVE  /\ Answers(Pieces(line)[k], nickname, {EntryOf(line)}, FALSE)
           /\ IsPrefix(EntryOf(line).name, nickname)
<1>1. /\ line \in Seq(Symbols) /\ Len(line) <= BufLen
      /\ EntryOf(line) \in PlainRecords
  BY ShippedColon
<1>2. PICK m \in Nat \ {0} :
         /\ m = Len(EntryOf(line).name)
         /\ Len(line) >= m + 5
         /\ line[Len(line)] = NewLine
         /\ \A i \in 1 .. m : line[i] = EntryOf(line).name[i]
         /\ line[m + 1] = Colon /\ line[m + 2] = EntryOf(line).host
         /\ line[m + 3] = Comma
         /\ line[m + 4] \in {Blank, EntryOf(line).chat}
         /\ \A i \in 1 .. Len(line) : line[i] = Colon => i = m + 1
         /\ \A i \in 1 .. Len(line) : line[i] = Comma => i = m + 3
  BY ShippedColon
<1>3. PICK e \in PlainRecords : e = EntryOf(line)
  BY <1>1
<1>4. k \in DOMAIN Pieces(line) /\ MatchesName(Pieces(line)[k], nickname)
  BY DEF Hits
<1>5. PICK o \in Nat : Within(Pieces(line)[k], line, o)
  BY <1>1, <1>4, PieceWithin
<1>6. PICK piece \in Seq(Symbols) :
         /\ piece = Pieces(line)[k] /\ Len(piece) = Len(line)
         /\ \A i \in 1 .. Len(piece) : piece[i] = line[i]
  BY <1>1, <1>5 DEF Within
<1>7. PICK l \in Nat : l = Len(piece) /\ l = Len(line) /\ l >= m + 5
  BY <1>1, <1>2, <1>6
<1>8. /\ piece[l] = NewLine
      /\ \A i \in 1 .. m : piece[i] = e.name[i]
      /\ piece[m + 1] = Colon /\ piece[m + 2] = e.host /\ piece[m + 3] = Comma
      /\ piece[m + 4] \in {Blank, e.chat}
      /\ \A i \in 1 .. l : piece[i] = Colon => i = m + 1
      /\ \A i \in 1 .. l : piece[i] = Comma => i = m + 3
  <2>1. \A i \in 1 .. l : piece[i] = line[i]
    BY <1>6, <1>7, Zenon
  <2>2. /\ l \in 1 .. l /\ m + 1 \in 1 .. l /\ m + 2 \in 1 .. l
        /\ m + 3 \in 1 .. l /\ m + 4 \in 1 .. l
        /\ \A i \in 1 .. m : i \in 1 .. l
    BY <1>7
  <2> QED
    BY <1>2, <1>3, <1>7, <2>1, <2>2, Zenon
<1>9. PieceOK(piece)
  <2>1. piece[l] \notin NameSymbols /\ l \in 1 .. l
    BY <1>7, <1>8, SymbolKinds
  <2>2. m + 2 <= l /\ m + 3 <= l
    BY <1>7
  <2>3. \A q \in 1 .. l : piece[q] = Colon => piece[q + 1] \in Hosts /\ piece[q + 2] = Comma
    BY <1>3, <1>8
  <2>4. piece[m + 4] \notin NameSymbols
    BY <1>3, <1>8, SymbolKinds
  <2>5. \A q \in 1 .. l : piece[q] = Comma => piece[q + 1] \notin NameSymbols
    <3>1. (m + 3) + 1 = m + 4
      OBVIOUS
    <3> QED
      BY <1>8, <2>4, <3>1
  <2> QED
    BY <1>7, <2>1, <2>3, <2>5 DEF PieceOK
<1>10. PICK p \in 1 .. Len(piece) :
          /\ piece[p] = Colon /\ strcspn(piece, Colon) = p - 1
          /\ \A i \in 1 .. p - 1 : piece[i] \in Letters
          /\ IsPrefix(SubSeq(piece, 1, p - 1), nickname)
  BY <1>4, <1>6, <1>9, ColonFound
<1>11. p = m + 1
  BY <1>7, <1>8, <1>10
<1>12. /\ ~LengthWraps(piece)
       /\ hostOf(piece) = IF p < Len(piece) THEN <<piece[p + 1]>> ELSE <<>>
       /\ \/ chatOf(piece) = SomeNumber
          \/ /\ p + 3 <= Len(piece)
             /\ piece[p + 3] \in Ids /\ chatOf(piece) = piece[p + 3]
       /\ p + 3 <= Len(piece) => ~RunsOff(piece)
  BY <1>9, <1>10, DetailsOf
<1>13. hostOf(piece) = <<e.host>>
  <2>1. p < Len(piece) /\ piece[p + 1] = e.host
    BY <1>7, <1>8, <1>11
  <2> QED
    BY <1>12, <2>1
<1>14. chatOf(piece) = SomeNumber \/ chatOf(piece) = e.chat
  <2>1. CASE piece[p + 3] = Blank
    BY <1>12, <2>1, SymbolKinds
  <2>2. CASE piece[p + 3] = e.chat
    BY <1>12, <2>2
  <2> QED
    BY <1>8, <1>11, <2>1, <2>2
<1>15. Details(piece) = [result |-> "found", host |-> e.host, chat |-> chatOf(piece)]
  <2>1. ~RunsOff(piece) /\ e.host \in Hosts
    BY <1>7, <1>11, <1>12
  <2> QED
    BY <1>12, <1>13, <2>1, HostFound
<1>16. IsPrefix(e.name, nickname)
  <2>1. e.name \in Seq(Symbols) /\ Len(e.name) = m
    BY <1>2, <1>3, NameLetters
  <2>2. IsPrefix(e.name, piece)
    <3>1. Len(e.name) <= Len(piece) /\ \A i \in 1 .. Len(e.name) : piece[i] = e.name[i]
      BY <1>7, <1>8, <2>1
    <3> QED
      BY <2>1, <3>1, Positions
  <2>3. SubSeq(piece, 1, m) = e.name
    BY <2>1, <2>2 DEF IsPrefix
  <2>4. p - 1 = m
    BY <1>2, <1>11
  <2> QED
    BY <1>10, <2>3, <2>4
<1>17. Answers(piece, nickname, {e}, FALSE)
  BY <1>3, <1>14, <1>15, <1>16 DEF Answers
<1> QED
  BY <1>3, <1>6, <1>16, <1>17

LEMMA FoundInOneLine ==
    ASSUME NEW w \in Seq(PlainRecords), w # <<>>,
           NEW line, OneLine(line, w), NEW nickname \in Nicknames,
           NEW k \in Hits(line, nickname)
    PROVE  Answers(Pieces(line)[k], nickname, In(w), Len(line) > BufLen)
<1>1. line \in Seq(Symbols) /\ Len(line) \in Nat /\ line # <<>> /\ line[Len(line)] \in Ids
  <2>1. line \in Seq(Symbols) /\ line # <<>> /\ line[Len(line)] \in Ids
    BY DEF OneLine, Last
  <2> QED
    BY <2>1
<1>2. k \in DOMAIN Pieces(line) /\ MatchesName(Pieces(line)[k], nickname)
  BY DEF Hits
<1>3. PICK o \in Nat : Within(Pieces(line)[k], line, o)
  BY <1>1, <1>2, PieceWithin
<1>4. PICK piece \in Seq(Symbols) : piece = Pieces(line)[k] /\ Within(piece, line, o)
  BY <1>3 DEF Within
<1>5. PICK l \in Nat, n \in Nat : l = Len(line) /\ n = Len(piece)
  BY <1>1
<1>6. PICK b \in Nat \ {0} : b = BufLen
  BY BufLenAssumption
<1>7. /\ n >= 1 /\ n <= b /\ o + n <= l /\ (n < b => o + n = l)
      /\ l <= b => o = 0 /\ n = l
      /\ \A i \in 1 .. n : piece[i] = line[o + i]
  BY <1>4, <1>5, <1>6 DEF Within
<1>8. \A q \in 1 .. l : line[q] = Colon =>
         /\ q + 3 <= l
         /\ \E e \in In(w) : /\ line[q + 1] = e.host
                             /\ line[q + 2] = Comma
                             /\ line[q + 3] = e.chat
  <2>1. DOMAIN line = 1 .. l
    BY <1>1, <1>5
  <2> QED
    BY <1>5, <2>1 DEF OneLine
<1>9. \A e \in In(w) : e \in PlainRecords
  BY EntriesOf
<1>10. PieceOK(piece)
  <2>1. \E i \in 1 .. n : piece[i] \notin NameSymbols
    <3>1. CASE n < b
      <4>1. n \in 1 .. n /\ o + n = l
        BY <1>7, <3>1
      <4>2. piece[n] = line[l]
        BY <1>7, <4>1
      <4>3. piece[n] \notin NameSymbols
        BY <1>1, <1>5, <4>2, SymbolKinds
      <4> QED
        BY <4>1, <4>3
    <3>2. CASE n = b
      <4>1. o + 1 \in 1 .. l /\ o + 1 + b - 1 <= l
        BY <1>7, <3>2
      <4>2. PICK i \in o + 1 .. o + 1 + b - 1 : line[i] \notin NameSymbols
        <5>1. \A q \in DOMAIN line : q + BufLen - 1 <= Len(line) =>
                 \E i \in q .. q + BufLen - 1 : line[i] \notin NameSymbols
          BY <1>1, Zenon DEF OneLine
        <5>2. o + 1 \in DOMAIN line /\ o + 1 + BufLen - 1 <= Len(line)
          BY <1>1, <1>5, <1>6, <4>1
        <5> QED
          BY <1>6, <5>1, <5>2, Zenon
      <4>3. i - o \in 1 .. n /\ o + (i - o) = i
        BY <1>7, <3>2, <4>2
      <4>4. piece[i - o] \notin NameSymbols
        BY <1>7, <4>2, <4>3
      <4> QED
        BY <4>3, <4>4
    <3> QED
      BY <1>7, <3>1, <3>2
  <2>2. ASSUME NEW q \in 1 .. n, piece[q] = Colon
        PROVE  /\ q + 1 <= n => piece[q + 1] \in Hosts
               /\ q + 2 <= n => piece[q + 2] = Comma
    <3>1. line[o + q] = Colon /\ o + q \in 1 .. l
      BY <1>7, <2>2
    <3>2. PICK e \in In(w) : line[o + q + 1] = e.host /\ line[o + q + 2] = Comma
      BY <1>8, <3>1
    <3>3. e.host \in Hosts
      BY <1>9
    <3>4. /\ q + 1 <= n => piece[q + 1] = line[o + q + 1]
          /\ q + 2 <= n => piece[q + 2] = line[o + q + 2]
      BY <1>7
    <3> QED
      BY <3>2, <3>3, <3>4
  <2>3. ASSUME NEW q \in 1 .. n, piece[q] = Comma, q + 1 <= n
        PROVE  piece[q + 1] \notin NameSymbols
    <3>1. line[o + q] = Comma /\ o + q \in DOMAIN line
      BY <1>1, <1>5, <1>7, <2>3
    <3>2. line[o + q + 1] \in Ids
      BY <3>1 DEF OneLine
    <3>3. piece[q + 1] = line[o + q + 1]
      BY <1>7, <2>3
    <3> QED
      BY <3>2, <3>3, SymbolKinds
  <2> QED
    BY <1>5, <2>1, <2>2, <2>3 DEF PieceOK
<1>11. PICK p \in 1 .. Len(piece) :
          /\ piece[p] = Colon /\ strcspn(piece, Colon) = p - 1
          /\ \A i \in 1 .. p - 1 : piece[i] \in Letters
          /\ IsPrefix(SubSeq(piece, 1, p - 1), nickname)
  BY <1>2, <1>4, <1>10, ColonFound
<1>12. /\ ~LengthWraps(piece)
       /\ hostOf(piece) = IF p < Len(piece) THEN <<piece[p + 1]>> ELSE <<>>
       /\ \/ chatOf(piece) = SomeNumber
          \/ /\ p + 3 <= Len(piece)
             /\ piece[p + 3] \in Ids /\ chatOf(piece) = piece[p + 3]
       /\ p + 3 <= Len(piece) => ~RunsOff(piece)
  BY <1>10, <1>11, DetailsOf
<1>13. p \in 1 .. n /\ line[o + p] = Colon /\ o + p \in 1 .. l
  BY <1>5, <1>7, <1>11
<1>14. o + p + 3 <= l
  BY <1>8, <1>13
<1>15. PICK e \in In(w) : /\ line[o + p + 1] = e.host /\ line[o + p + 3] = e.chat
  BY <1>8, <1>13
<1>16. e \in PlainRecords
  BY <1>9
<1>17. chatOf(piece) \in {e.chat, SomeNumber} /\ chatOf(piece) \in Ids \cup {SomeNumber}
  <2>1. CASE p + 3 <= n
    <3>1. piece[p + 3] = line[o + p + 3]
      <4>1. p + 3 \in 1 .. n /\ o + (p + 3) = o + p + 3
        BY <1>13, <2>1
      <4>2. \A i \in 1 .. n : piece[i] = line[o + i]
        BY <1>7, Zenon
      <4>3. piece[p + 3] = line[o + (p + 3)]
        BY <4>1, <4>2, Zenon
      <4> QED
        BY <4>1, <4>3
    <3> QED
      BY <1>12, <1>15, <3>1
  <2>2. CASE ~(p + 3 <= n)
    BY <1>5, <1>12, <2>2
  <2> QED
    BY <2>1, <2>2
<1>18. CASE p = n
  <2>1. l > b
    BY <1>7, <1>14, <1>18
  <2>2. hostOf(piece) = <<>>
    BY <1>5, <1>12, <1>18
  <2>3. Details(piece) = [result |-> "unclear", host |-> NoHost, chat |-> chatOf(piece)]
    BY <1>12, <2>2, NoHostFound
  <2> QED
    BY <1>4, <1>5, <1>6, <1>17, <2>1, <2>3 DEF Answers
<1>19. CASE p < n
  <2>1. piece[p + 1] = line[o + p + 1]
    <3>1. p + 1 \in 1 .. n /\ o + (p + 1) = o + p + 1
      BY <1>13, <1>19
    <3>2. \A i \in 1 .. n : piece[i] = line[o + i]
      BY <1>7, Zenon
    <3>3. piece[p + 1] = line[o + (p + 1)]
      BY <3>1, <3>2, Zenon
    <3> QED
      BY <3>1, <3>3
  <2>2. hostOf(piece) = <<e.host>>
    BY <1>5, <1>12, <1>15, <1>19, <2>1
  <2>3. Details(piece) = [result |-> IF RunsOff(piece) THEN "unclear" ELSE "found",
                          host |-> e.host, chat |-> chatOf(piece)]
    BY <1>12, <1>16, <2>2, HostFound
  <2>4. CASE l > b
    BY <1>4, <1>5, <1>6, <1>16, <1>17, <2>3, <2>4 DEF Answers
  <2>5. CASE ~(l > b)
    <3>1. o = 0 /\ n = l
      BY <1>7, <2>5
    <3>2. PICK f \in PlainRecords : f = w[1] /\ f \in In(w)
      <4>1. 1 \in DOMAIN w
        OBVIOUS
      <4> QED
        BY <1>9, <4>1 DEF In
    <3>3. PICK m \in Nat \ {0} : m = Len(f.name)
      BY NameLetters
    <3>4. /\ WrittenEntry(f) \in Seq(Symbols) /\ Len(WrittenEntry(f)) = m + 4
          /\ \A i \in 1 .. m : WrittenEntry(f)[i] = f.name[i] /\ f.name[i] \in Letters
          /\ WrittenEntry(f)[m + 1] = Colon /\ WrittenEntry(f)[m + 2] = f.host
          /\ WrittenEntry(f)[m + 4] = f.chat
      <4>1. PICK u \in Names, v \in Hosts, x \in Ids : u = f.name /\ v = f.host /\ x = f.chat
        OBVIOUS
      <4>2. \A i \in 1 .. Len(u) : u[i] \in Letters
        BY NameLetters
      <4>3. LET y == Entry(u, v, x) IN
            /\ y \in Seq(Symbols) /\ Len(y) = Len(u) + 4
            /\ \A i \in 1 .. Len(u) : y[i] = u[i]
            /\ y[Len(u) + 1] = Colon /\ y[Len(u) + 2] = v /\ y[Len(u) + 4] = x
        BY EntryParts DEF Nicknames
      <4> QED
        BY <3>3, <4>1, <4>2, <4>3 DEF WrittenEntry
    <3>5. IsPrefix(WrittenEntry(f), line)
      BY <3>2 DEF OneLine
    <3>6. /\ m + 4 <= l
          /\ \A i \in 1 .. m + 4 : line[i] = WrittenEntry(f)[i]
      <4>1. PICK y \in Seq(Symbols) : y = WrittenEntry(f) /\ Len(y) = m + 4
        BY <3>4
      <4>2. Len(y) <= Len(line) /\ \A i \in 1 .. Len(y) : line[i] = y[i]
        BY <1>1, <3>5, <4>1, Positions
      <4> QED
        BY <1>5, <4>1, <4>2
    <3>7. \A i \in 1 .. n : piece[i] = line[i]
      BY <1>7, <3>1
    <3>8. /\ \A i \in 1 .. m : piece[i] = f.name[i] /\ piece[i] \in Letters
          /\ piece[m + 1] = Colon /\ piece[m + 2] = f.host /\ piece[m + 4] = f.chat
      <4>1. m + 4 <= n
        BY <3>1, <3>6
      <4>2. \A i \in 1 .. m + 4 : piece[i] = WrittenEntry(f)[i]
        BY <3>6, <3>7, <4>1
      <4>3. /\ m + 1 \in 1 .. m + 4 /\ m + 2 \in 1 .. m + 4 /\ m + 4 \in 1 .. m + 4
            /\ \A i \in 1 .. m : i \in 1 .. m + 4
        OBVIOUS
      <4> QED
        BY <3>4, <4>2, <4>3
    <3>9. p = m + 1
      <4>1. ~(p <= m)
        BY <1>11, <1>13, <3>8, SymbolKinds
      <4>2. ~(m + 1 < p)
        <5>1. ASSUME m + 1 < p PROVE FALSE
          <6>1. piece[m + 1] \in Letters
            BY <1>11, <1>13, <5>1
          <6> QED
            BY <3>8, <6>1, SymbolKinds
        <5> QED
          BY <5>1
      <4> QED
        BY <1>13, <4>1, <4>2
    <3>10. f.host = e.host /\ f.chat = e.chat
      <4>1. /\ m + 2 \in 1 .. n /\ m + 4 \in 1 .. n
            /\ o + p + 1 = m + 2 /\ o + p + 3 = m + 4
        BY <3>1, <3>6, <3>9
      <4>2. line[m + 2] = e.host /\ line[m + 4] = e.chat
        BY <1>15, <4>1, Zenon
      <4> QED
        BY <3>7, <3>8, <4>1, <4>2, Zenon
    <3>11. IsPrefix(f.name, nickname)
      <4>1. f.name \in Seq(Symbols)
        BY NameLetters
      <4>2. IsPrefix(f.name, piece)
        <5>1. Len(f.name) <= Len(piece) /\ \A i \in 1 .. Len(f.name) : piece[i] = f.name[i]
          BY <1>5, <3>1, <3>3, <3>6, <3>8
        <5> QED
          BY <4>1, <5>1, Positions
      <4>3. SubSeq(piece, 1, m) = f.name
        BY <3>3, <4>2 DEF IsPrefix
      <4>4. p - 1 = m
        BY <3>9
      <4> QED
        BY <1>11, <4>3, <4>4
    <3>12. ~RunsOff(piece)
      BY <1>5, <1>12, <1>14, <3>1
    <3> QED
      BY <1>4, <1>16, <1>17, <2>3, <3>2, <3>10, <3>11, <3>12 DEF Answers
  <2> QED
    BY <2>4, <2>5
<1> QED
  BY <1>13, <1>18, <1>19

\* The search ends at a piece that matches, of the first line that has one.
LEMMA SearchEnds ==
    ASSUME NEW f \in Seq(Seq(Symbols)), NEW nickname
    PROVE  \/ /\ \A i \in DOMAIN f : Hits(f[i], nickname) = {}
              /\ getDetails(f, nickname) = [result |-> "not found"]
           \/ \E i \in DOMAIN f : \E k \in Hits(f[i], nickname) :
                 /\ \A j \in 1 .. i - 1 : Hits(f[j], nickname) = {}
                 /\ k = First(Hits(f[i], nickname))
                 /\ getDetails(f, nickname) = Details(Pieces(f[i])[k])
<1> DEFINE lines == {i \in DOMAIN f : Hits(f[i], nickname) # {}}
<1>1. DOMAIN f = 1 .. Len(f) /\ Len(f) \in Nat
  OBVIOUS
<1>2. CASE lines = {}
  BY <1>2 DEF getDetails
<1>3. CASE lines # {}
  <2>1. getDetails(f, nickname) =
           Details(Pieces(f[First(lines)])[First(Hits(f[First(lines)], nickname))])
    BY <1>3 DEF getDetails
  <2>2. lines \in SUBSET Nat
    BY <1>1
  <2>3. First(lines) \in lines /\ \A j \in lines : First(lines) <= j
    <3> HIDE DEF lines
    <3> QED
      BY <1>3, <2>2, LeastExists
  <2>4. PICK i \in DOMAIN f : /\ i = First(lines) /\ Hits(f[i], nickname) # {}
                              /\ \A j \in lines : i <= j
    BY <2>3
  <2>5. ASSUME NEW j \in 1 .. i - 1 PROVE Hits(f[j], nickname) = {}
    <3>1. j \in DOMAIN f /\ ~(i <= j)
      BY <1>1
    <3> QED
      BY <2>4, <3>1
  <2>6. Hits(f[i], nickname) \in SUBSET Nat
    <3>1. f[i] \in Seq(Symbols)
      BY <1>1
    <3>2. DOMAIN Pieces(f[i]) \in SUBSET Nat
      BY DEF Pieces
    <3> QED
      BY <3>2 DEF Hits
  <2>7. First(Hits(f[i], nickname)) \in Hits(f[i], nickname)
    BY <2>4, <2>6, LeastExists
  <2>8. getDetails(f, nickname) = Details(Pieces(f[i])[First(Hits(f[i], nickname))])
    BY <2>1, <2>4
  <2> QED
    BY <2>5, <2>7, <2>8
<1> QED
  BY <1>2, <1>3

\* What the first lines of a file answer does not depend on the others.
Begins(f, g) == Len(f) <= Len(g) /\ \A i \in 1 .. Len(f) : g[i] = f[i]

Finds(f, nickname) == getDetails(f, nickname).result # "not found"

LEMMA FirstLinesAnswer ==
    ASSUME NEW f \in Seq(Seq(Symbols)), NEW g \in Seq(Seq(Symbols)), NEW nickname,
           Begins(f, g), Finds(f, nickname)
    PROVE  getDetails(g, nickname) = getDetails(f, nickname)
<1>1. /\ DOMAIN f = 1 .. Len(f) /\ Len(f) \in Nat
      /\ DOMAIN g = 1 .. Len(g) /\ Len(g) \in Nat
  OBVIOUS
<1>2. PICK i \in DOMAIN f : \E k \in Hits(f[i], nickname) :
         /\ \A j \in 1 .. i - 1 : Hits(f[j], nickname) = {}
         /\ k = First(Hits(f[i], nickname))
         /\ getDetails(f, nickname) = Details(Pieces(f[i])[k])
  <2>1. [result |-> "not found"].result = "not found"
    OBVIOUS
  <2>2. getDetails(f, nickname) # [result |-> "not found"]
    BY <2>1, Zenon DEF Finds
  <2> QED
    BY <2>2, SearchEnds, Zenon
<1>3. i \in DOMAIN g /\ g[i] = f[i] /\ \A j \in 1 .. i - 1 : g[j] = f[j]
  BY <1>1 DEF Begins
<1>4. Hits(g[i], nickname) # {} /\ \A j \in 1 .. i - 1 : Hits(g[j], nickname) = {}
  BY <1>2, <1>3, Zenon
<1>5. PICK h \in DOMAIN g : \E k \in Hits(g[h], nickname) :
         /\ \A j \in 1 .. h - 1 : Hits(g[j], nickname) = {}
         /\ k = First(Hits(g[h], nickname))
         /\ getDetails(g, nickname) = Details(Pieces(g[h])[k])
  BY <1>3, <1>4, SearchEnds, Zenon
<1>6. Hits(g[h], nickname) # {} /\ \A j \in 1 .. h - 1 : Hits(g[j], nickname) = {}
  BY <1>5, Zenon
<1>7. h = i
  <2>1. PICK m \in Nat, n \in Nat : m = h /\ n = i /\ m >= 1 /\ n >= 1
    BY <1>1, <1>3, <1>5
  <2>2. ASSUME m < n PROVE FALSE
    <3>1. h \in 1 .. i - 1
      BY <2>1, <2>2
    <3> QED
      BY <1>4, <1>6, <3>1, Zenon
  <2>3. ASSUME n < m PROVE FALSE
    <3>1. i \in 1 .. h - 1
      BY <2>1, <2>3
    <3> QED
      BY <1>4, <1>6, <3>1, Zenon
  <2> QED
    BY <2>1, <2>2, <2>3
<1> QED
  BY <1>2, <1>3, <1>5, <1>7, Zenon

-----------------------------------------------------------------------------
(* The line grows.                                                          *)

LEMMA Grown ==
    ASSUME NEW w \in Seq(PlainRecords),
           NEW old \in Seq(Symbols),
           \/ w = <<>> /\ old = <<>>
           \/ w # <<>> /\ OneLine(old, w),
           NEW e \in PlainRecords
    PROVE  OneLine(old \o WrittenEntry(e), Append(w, e))
<1>1. PICK n \in Nat, b \in Nat \ {0} : n = Len(e.name) /\ n + 4 <= b /\ b = BufLen
  <2>1. e.name \in Names /\ e.name \in Nicknames
    BY DEF Nicknames
  <2>2. Len(e.name) \in Nat /\ Len(e.name) + 4 <= BufLen /\ BufLen \in Nat \ {0}
    BY <2>1, NameLetters, BufLenAssumption, Zenon
  <2> QED
    BY <2>2
<1>2. PICK y \in Seq(Symbols) :
         /\ y = WrittenEntry(e) /\ Len(y) = n + 4
         /\ \A i \in 1 .. n : y[i] \in Letters
         /\ y[n + 1] = Colon /\ y[n + 2] = e.host
         /\ y[n + 3] = Comma /\ y[n + 4] = e.chat
  <2>1. PICK u \in Names, v \in Hosts, x \in Ids : u = e.name /\ v = e.host /\ x = e.chat
    OBVIOUS
  <2>2. \A i \in 1 .. Len(u) : u[i] \in Letters
    BY NameLetters
  <2>3. LET z == Entry(u, v, x) IN
        /\ z \in Seq(Symbols) /\ Len(z) = Len(u) + 4
        /\ \A i \in 1 .. Len(u) : z[i] = u[i]
        /\ z[Len(u) + 1] = Colon /\ z[Len(u) + 2] = v
        /\ z[Len(u) + 3] = Comma /\ z[Len(u) + 4] = x
    BY EntryParts DEF Nicknames
  <2> QED
    BY <1>1, <2>1, <2>2, <2>3 DEF WrittenEntry
<1>3. PICK l \in Nat : l = Len(old)
  OBVIOUS
<1>4. /\ old \o y \in Seq(Symbols) /\ Len(old \o y) = Len(old) + Len(y)
      /\ \A i \in 1 .. Len(old) + Len(y) :
            (old \o y)[i] = IF i <= Len(old) THEN old[i] ELSE y[i - Len(old)]
  BY ConcatProperties
<1>5. PICK line \in Seq(Symbols) :
         /\ line = old \o y /\ Len(line) = l + n + 4
         /\ \A i \in 1 .. l : line[i] = old[i]
         /\ \A i \in 1 .. n + 4 : line[l + i] = y[i]
  <2>1. Len(old \o y) = l + n + 4
    BY <1>2, <1>3, <1>4
  <2>2. \A i \in 1 .. l : (old \o y)[i] = old[i]
    BY <1>2, <1>3, <1>4
  <2>3. \A i \in 1 .. n + 4 : (old \o y)[l + i] = y[i]
    BY <1>2, <1>3, <1>4
  <2> QED
    BY <1>4, <2>1, <2>2, <2>3
<1>6. /\ \A i \in 1 .. n : line[l + i] \in Letters
      /\ line[l + n + 1] = Colon /\ line[l + n + 2] = e.host
      /\ line[l + n + 3] = Comma /\ line[l + n + 4] = e.chat
  <2>1. /\ n + 1 \in 1 .. n + 4 /\ n + 2 \in 1 .. n + 4 /\ n + 3 \in 1 .. n + 4
        /\ n + 4 \in 1 .. n + 4 /\ \A i \in 1 .. n : i \in 1 .. n + 4
    OBVIOUS
  <2>2. /\ line[l + (n + 1)] = Colon /\ line[l + (n + 2)] = e.host
        /\ line[l + (n + 3)] = Comma /\ line[l + (n + 4)] = e.chat
        /\ \A i \in 1 .. n : line[l + i] \in Letters
    BY <1>2, <1>5, <2>1
  <2>3. /\ l + (n + 1) = l + n + 1 /\ l + (n + 2) = l + n + 2
        /\ l + (n + 3) = l + n + 3 /\ l + (n + 4) = l + n + 4
    OBVIOUS
  <2> QED
    BY <2>2, <2>3
<1>7. In(Append(w, e)) = In(w) \cup {e}
  <2>1. PICK S : w \in Seq(S) /\ e \in S
    OBVIOUS
  <2> QED
    BY ONLY <2>1, InAppend
<1>8. /\ line \in Seq(Symbols) /\ DOMAIN line = 1 .. l + n + 4 /\ line # <<>>
      /\ line[Len(line)] = e.chat
  BY <1>5, <1>6
<1>9. l = 0 \/ /\ l > 0 /\ w # <<>> /\ OneLine(old, w) /\ DOMAIN old = 1 .. l
               /\ old[l] \in Ids
  <2>1. CASE w = <<>> /\ old = <<>>
    BY <1>3, <2>1
  <2>2. CASE w # <<>> /\ OneLine(old, w)
    <3>1. old # <<>> /\ old[l] \in Ids
      BY <1>3, <2>2 DEF OneLine, Last
    <3> QED
      BY <1>3, <2>2, <3>1
  <2> QED
    BY <2>1, <2>2
<1>10. ASSUME NEW q \in 1 .. l + n + 4, line[q] = Colon
       PROVE  /\ q + 3 <= l + n + 4
              /\ \E x \in In(Append(w, e)) : /\ line[q + 1] = x.host
                                             /\ line[q + 2] = Comma
                                             /\ line[q + 3] = x.chat
  <2>1. CASE q <= l
    <3>1. q \in DOMAIN old /\ old[q] = Colon /\ OneLine(old, w)
      BY <1>5, <1>9, <1>10, <2>1
    <3>2. /\ q + 3 <= Len(old)
          /\ \E x \in In(w) : old[q + 1] = x.host /\ old[q + 2] = Comma /\ old[q + 3] = x.chat
      BY <3>1 DEF OneLine
    <3>3. q + 3 <= l /\ line[q + 1] = old[q + 1] /\ line[q + 2] = old[q + 2]
          /\ line[q + 3] = old[q + 3]
      BY <1>3, <1>5, <3>2
    <3>4. PICK x \in In(Append(w, e)) : /\ old[q + 1] = x.host
                                        /\ old[q + 2] = Comma /\ old[q + 3] = x.chat
      BY <1>7, <3>2, Zenon
    <3>5. line[q + 1] = x.host /\ line[q + 2] = Comma /\ line[q + 3] = x.chat
      BY <3>3, <3>4, Zenon
    <3>6. q + 3 <= l + n + 4
      BY <3>3
    <3> QED
      BY <3>5, <3>6, Zenon
  <2>2. CASE q > l
    <3>1. PICK i \in 1 .. n + 4 : q = l + i
      <4>1. q - l \in 1 .. n + 4 /\ q = l + (q - l)
        BY <2>2
      <4> QED
        BY <4>1
    <3>2. i = n + 1
      <4>1. ~(i <= n)
        BY <1>6, <1>10, <3>1, SymbolKinds
      <4>2. i # n + 2
        <5>1. e.host # Colon
          BY SymbolKinds
        <5>2. l + (n + 2) = l + n + 2
          OBVIOUS
        <5> QED
          BY <1>6, <1>10, <3>1, <5>1, <5>2, Zenon
      <4>3. i # n + 3
        BY <1>6, <1>10, <3>1, SymbolKinds
      <4>4. i # n + 4
        <5>1. e.chat # Colon
          BY SymbolKinds
        <5>2. l + (n + 4) = l + n + 4
          OBVIOUS
        <5> QED
          BY <1>6, <1>10, <3>1, <5>1, <5>2, Zenon
      <4> QED
        BY <4>1, <4>2, <4>3, <4>4
    <3>3. q = l + n + 1 /\ q + 1 = l + n + 2 /\ q + 2 = l + n + 3 /\ q + 3 = l + n + 4
      BY <3>1, <3>2
    <3>4. e \in In(Append(w, e))
      BY <1>7
    <3>5. line[q + 1] = e.host /\ line[q + 2] = Comma /\ line[q + 3] = e.chat
      BY <1>6, <3>3, Zenon
    <3>6. q + 3 <= l + n + 4
      BY <3>3
    <3> QED
      BY <3>4, <3>5, <3>6, Zenon
  <2> QED
    BY <2>1, <2>2
<1>11. ASSUME NEW q \in 1 .. l + n + 4, q + b - 1 <= l + n + 4
       PROVE  \E i \in q .. q + b - 1 : line[i] \notin NameSymbols
  <2>1. CASE q + b - 1 <= l
    <3>1. q \in DOMAIN old /\ OneLine(old, w) /\ q + b - 1 <= Len(old)
      BY <1>1, <1>3, <1>9, <2>1
    <3>2. PICK i \in q .. q + b - 1 : old[i] \notin NameSymbols
      BY <1>1, <3>1 DEF OneLine
    <3>3. line[i] = old[i]
      <4>1. i \in 1 .. l
        BY <1>1, <1>3, <2>1, <3>2
      <4> QED
        BY <1>5, <4>1
    <3> QED
      BY <3>2, <3>3
  <2>2. CASE q <= l /\ l <= q + b - 1
    <3>1. l \in q .. q + b - 1 /\ line[l] = old[l] /\ old[l] \in Ids
      BY <1>5, <1>9, <2>2
    <3>2. line[l] \notin NameSymbols
      BY <3>1, SymbolKinds
    <3> QED
      BY <3>1, <3>2
  <2>3. CASE q > l
    <3>1. l + n + 4 \in q .. q + b - 1
      BY <1>1, <1>11, <2>3
    <3>2. line[l + n + 4] \notin NameSymbols
      BY <1>6, SymbolKinds
    <3> QED
      BY <3>1, <3>2
  <2> QED
    BY <1>1, <2>1, <2>2, <2>3
<1>12. IsPrefix(WrittenEntry(Append(w, e)[1]), line)
  <2>1. CASE w = <<>> /\ old = <<>>
    <3>1. Append(w, e)[1] = e
      BY <2>1
    <3>2. l = 0
      BY <1>3, <2>1
    <3>3. Len(y) <= Len(line) /\ \A i \in 1 .. Len(y) : line[i] = y[i]
      BY <1>2, <1>5, <3>2
    <3>4. IsPrefix(y, line)
      BY <3>3, Positions
    <3> QED
      BY <1>2, <3>1, <3>4
  <2>2. CASE w # <<>> /\ OneLine(old, w)
    <3>1. Append(w, e)[1] = w[1] /\ 1 \in DOMAIN w
      BY <2>2
    <3>2. PICK x \in PlainRecords : x = w[1]
      <4>1. w[1] \in In(w)
        BY <3>1, Zenon DEF In
      <4>2. In(w) \subseteq PlainRecords
        BY EntriesOf, Zenon
      <4> QED
        BY <4>1, <4>2, Zenon
    <3>3. PICK z \in Seq(Symbols) : z = WrittenEntry(x)
      <4>1. PICK u \in Names, v \in Hosts, i \in Ids : u = x.name /\ v = x.host /\ i = x.chat
        OBVIOUS
      <4>2. Entry(u, v, i) \in Seq(Symbols)
        BY EntryParts DEF Nicknames
      <4> QED
        BY <4>1, <4>2 DEF WrittenEntry
    <3>4. IsPrefix(z, old)
      BY <2>2, <3>2, <3>3 DEF OneLine
    <3>5. Len(z) \in Nat /\ Len(z) <= Len(old) /\ \A i \in 1 .. Len(z) : old[i] = z[i]
      BY <3>4, Positions
    <3>6. Len(z) <= Len(line) /\ \A i \in 1 .. Len(z) : line[i] = z[i]
      <4>1. PICK m \in Nat : m = Len(z) /\ m <= l /\ \A i \in 1 .. m : old[i] = z[i]
        BY <1>3, <3>5
      <4>2. m <= Len(line)
        BY <1>5, <4>1
      <4>3. ASSUME NEW i \in 1 .. m PROVE line[i] = z[i]
        <5>1. i \in 1 .. l
          BY <4>1
        <5> QED
          BY <1>5, <4>1, <5>1, Zenon
      <4> QED
        BY <4>1, <4>2, <4>3
    <3>7. IsPrefix(z, line)
      BY <3>6, Positions
    <3> QED
      BY <3>1, <3>2, <3>3, <3>7
  <2> QED
    BY <2>1, <2>2
<1>13. ASSUME NEW q \in 1 .. l + n + 4, line[q] = Comma
       PROVE  q + 1 <= l + n + 4 /\ line[q + 1] \in Ids
  <2>1. CASE q <= l
    <3>1. q \in DOMAIN old /\ old[q] = Comma /\ OneLine(old, w)
      BY <1>5, <1>9, <1>13, <2>1
    <3>2. q + 1 <= Len(old) /\ old[q + 1] \in Ids
      BY <3>1 DEF OneLine
    <3>3. q + 1 <= l /\ line[q + 1] = old[q + 1]
      BY <1>3, <1>5, <3>2
    <3> QED
      BY <3>2, <3>3
  <2>2. CASE q > l
    <3>1. PICK i \in 1 .. n + 4 : q = l + i
      <4>1. q - l \in 1 .. n + 4 /\ q = l + (q - l)
        BY <2>2
      <4> QED
        BY <4>1
    <3>2. i = n + 3
      <4>1. ~(i <= n)
        BY <1>6, <1>13, <3>1, SymbolKinds
      <4>2. i # n + 1
        <5>1. Colon # Comma /\ l + (n + 1) = l + n + 1
          BY SymbolKinds
        <5> QED
          BY <1>6, <1>13, <3>1, <5>1, Zenon
      <4>3. i # n + 2
        <5>1. e.host # Comma
          BY SymbolKinds
        <5>2. l + (n + 2) = l + n + 2
          OBVIOUS
        <5> QED
          BY <1>6, <1>13, <3>1, <5>1, <5>2, Zenon
      <4>4. i # n + 4
        <5>1. e.chat # Comma
          BY SymbolKinds
        <5>2. l + (n + 4) = l + n + 4
          OBVIOUS
        <5> QED
          BY <1>6, <1>13, <3>1, <5>1, <5>2, Zenon
      <4> QED
        BY <4>1, <4>2, <4>3, <4>4
    <3>3. q + 1 = l + n + 4
      BY <3>1, <3>2
    <3>4. e.chat \in Ids /\ q + 1 <= l + n + 4 /\ line[q + 1] = line[l + n + 4]
      BY <3>3
    <3>5. line[l + n + 4] = e.chat
      BY <1>6
    <3> QED
      BY <3>4, <3>5, Zenon
  <2> QED
    BY <2>1, <2>2
<1>14. OneLine(line, Append(w, e))
  <2>1. Last(line) \in Ids
    BY <1>8 DEF Last
  <2>2. Len(line) = l + n + 4 /\ DOMAIN line = 1 .. l + n + 4 /\ BufLen = b
    BY <1>1, <1>5, <1>8, Zenon
  <2>3. \A q \in DOMAIN line : line[q] = Colon =>
           /\ q + 3 <= Len(line)
           /\ \E x \in In(Append(w, e)) : /\ line[q + 1] = x.host
                                          /\ line[q + 2] = Comma
                                          /\ line[q + 3] = x.chat
    BY <1>10, <2>2, Zenon
  <2>4. \A q \in DOMAIN line : line[q] = Comma => q + 1 <= Len(line) /\ line[q + 1] \in Ids
    BY <1>13, <2>2, Zenon
  <2>5. \A q \in DOMAIN line : q + BufLen - 1 <= Len(line) =>
           \E i \in q .. q + BufLen - 1 : line[i] \notin NameSymbols
    BY <1>11, <2>2, Zenon
  <2> QED
    BY <1>8, <1>12, <2>1, <2>3, <2>4, <2>5, Zenon DEF OneLine
<1> QED
  BY <1>2, <1>5, <1>14

LEMMA ShippedEnds ==
    EndsInNewLine(ShippedFile)
<1>1. ShippedFile \in Seq(Seq(Symbols))
  BY ShippedAssumption
<1>2. CASE ShippedFile = <<>>
  BY <1>2 DEF EndsInNewLine
<1>3. CASE ShippedFile # <<>>
  <2>1. Len(ShippedFile) \in DOMAIN ShippedFile
    BY <1>1, <1>3
  <2>2. ShippedFile[Len(ShippedFile)] \in In(ShippedFile)
    BY <2>1 DEF In
  <2>3. Last(Last(ShippedFile)) = NewLine
    BY <2>2, ShippedColon DEF Last
  <2> QED
    BY <2>3 DEF EndsInNewLine
<1> QED
  BY <1>2, <1>3

ReplaceLast(f, y) == [f EXCEPT ![Len(f)] = y]

LEMMA LastReplaced ==
    ASSUME NEW S, NEW s \in Seq(S), NEW x \in S, NEW y \in S
    PROVE  ReplaceLast(Append(s, x), y) = Append(s, y)
<1> SUFFICES ASSUME NEW n, n = Len(s), NEW f, f = Append(s, x)
             PROVE  [f EXCEPT ![n + 1] = y] = Append(s, y)
  <2>1. PICK f : f = Append(s, x)
    OBVIOUS
  <2>2. Len(f) = Len(s) + 1
    BY <2>1
  <2>3. ReplaceLast(f, y) = Append(s, y)
    BY <2>1, <2>2 DEF ReplaceLast
  <2> QED
    BY <2>1, <2>3
<1>1. n \in Nat
  OBVIOUS
<1>2. /\ f \in Seq(S) /\ Len(f) = n + 1
      /\ \A i \in 1 .. n : f[i] = s[i]
      /\ f \in [1 .. n + 1 -> S]
  <2>1. /\ f \in Seq(S) /\ Len(f) = n + 1
        /\ \A i \in 1 .. n : f[i] = s[i]
    OBVIOUS
  <2>2. f \in [1 .. Len(f) -> S]
    BY ONLY <2>1, LenProperties
  <2> QED
    BY <2>1, <2>2, Zenon
<1>3. PICK u \in Seq(S) : u = Append(s, y)
  <2>1. Append(s, y) \in Seq(S)
    OBVIOUS
  <2> QED
    BY <2>1, Zenon
<1>4. /\ Len(u) = n + 1 /\ u[n + 1] = y
      /\ \A i \in 1 .. n : u[i] = s[i]
  BY <1>3
<1>5. PICK v : v = [f EXCEPT ![n + 1] = y]
  OBVIOUS
<1>6. v \in Seq(S) /\ Len(v) = n + 1
  BY <1>1, <1>2, <1>5
<1>7. \A i \in 1 .. n + 1 : v[i] = u[i]
  <2>1. v[n + 1] = y /\ \A i \in 1 .. n : v[i] = f[i]
    BY ONLY <1>1, <1>2, <1>5
  <2>2. \A i \in 1 .. n + 1 : i \in 1 .. n \/ i = n + 1
    BY <1>1
  <2> QED
    BY ONLY <1>2, <1>4, <2>1, <2>2
<1>8. v = u
  BY <1>1, <1>4, <1>6, <1>7
<1> QED
  BY <1>3, <1>5, <1>8

LEMMA AllIn ==
    ASSUME NEW S, NEW T, NEW w \in Seq(S), \A x \in In(w) : x \in T
    PROVE  w \in Seq(T)
<1>1. \A i \in 1 .. Len(w) : w[i] \in T
  BY DEF In
<1> QED
  BY <1>1

\* An entry goes on a line of its own only when it is the first.
LEMMA WhereEntryGoes ==
    ASSUME Inv, NEW e \in Records
    PROVE  \E line : /\ cacheNew(file, e.host, e.chat, e.name) = Append(ShippedFile, line)
                     /\ line \in Seq(Symbols) /\ line # <<>> /\ Last(line) \in Ids
                     /\ (\A x \in In(Append(written, e)) : x.name \in Names) =>
                           OneLine(line, Append(written, e))
<1>1. ShippedFile \in Seq(Seq(Symbols))
  BY ShippedAssumption
<1>2. written \in Seq(Records)
  BY DEF Inv
<1>3. /\ WrittenEntry(e) \in Seq(Symbols) /\ WrittenEntry(e) # <<>>
      /\ Last(WrittenEntry(e)) \in Ids
  <2>1. PICK u \in Nicknames, v \in Hosts, x \in Ids : u = e.name /\ v = e.host /\ x = e.chat
    OBVIOUS
  <2>2. PICK y \in Seq(Symbols) : y = Entry(u, v, x) /\ Len(y) = Len(u) + 4
                                 /\ y[Len(u) + 4] = x /\ Len(u) \in Nat
    BY EntryParts, NicknameSymbols
  <2>3. y # <<>> /\ y[Len(y)] = x
    BY <2>2
  <2> QED
    BY <2>1, <2>2, <2>3 DEF WrittenEntry, Last
<1>4. ASSUME \A x \in In(Append(written, e)) : x.name \in Names
      PROVE  PlainWritten /\ written \in Seq(PlainRecords) /\ e \in PlainRecords
  <2>1. In(Append(written, e)) = In(written) \cup {e}
    <3>1. PICK S : written \in Seq(S) /\ e \in S
      BY <1>2
    <3> QED
      BY ONLY <3>1, InAppend
  <2>2. PlainWritten /\ e.name \in Names
    BY <1>4, <2>1 DEF PlainWritten
  <2>3. \A x \in In(written) : x \in PlainRecords
    <3>1. In(written) \subseteq Records
      BY <1>2, EntriesOf
    <3> QED
      BY <2>2, <3>1 DEF PlainWritten
  <2> QED
    BY <1>2, <2>2, <2>3, AllIn
<1>5. CASE written = <<>>
  <2>1. file = ShippedFile
    BY <1>5 DEF Inv
  <2>2. cacheNew(file, e.host, e.chat, e.name) = Append(ShippedFile, WrittenEntry(e))
    BY <2>1, ShippedEnds DEF cacheNew, WrittenEntry
  <2>3. PICK none \in Seq(Symbols) : none = <<>>
    <3>1. <<>> \in Seq(Symbols)
      OBVIOUS
    <3> QED
      BY <3>1, Zenon
  <2>4. ASSUME \A x \in In(Append(written, e)) : x.name \in Names
        PROVE  OneLine(none \o WrittenEntry(e), Append(written, e))
    BY <1>4, <1>5, <2>3, <2>4, Grown
  <2>5. none \o WrittenEntry(e) = WrittenEntry(e)
    BY <1>3, <2>3
  <2> QED
    BY <1>3, <2>2, <2>4, <2>5
<1>6. CASE written # <<>>
  <2>1. PICK old : file = Append(ShippedFile, old) /\ GrownLine(old)
    BY <1>6 DEF Inv
  <2>2. old \in Seq(Symbols) /\ old[Len(old)] \in Ids
    BY <2>1 DEF GrownLine, Last
  <2>3. PICK n \in Nat : n = Len(ShippedFile)
    BY <1>1
  <2>4. Len(file) = n + 1 /\ file[n + 1] = old /\ file # <<>>
    BY <1>1, <2>1, <2>2, <2>3
  <2>5. ~EndsInNewLine(file)
    BY <2>2, <2>4, SymbolKinds DEF EndsInNewLine, Last
  <2>6. cacheNew(file, e.host, e.chat, e.name) =
           [file EXCEPT ![n + 1] = old \o WrittenEntry(e)]
    BY <2>4, <2>5 DEF cacheNew, WrittenEntry
  <2>7. PICK line \in Seq(Symbols) :
           line = old \o WrittenEntry(e) /\ line # <<>> /\ Last(line) \in Ids
    <3>1. ASSUME NEW y \in Seq(Symbols), y # <<>>, Last(y) \in Ids
          PROVE  old \o y \in Seq(Symbols) /\ old \o y # <<>> /\ Last(old \o y) \in Ids
      <4>1. /\ old \o y \in Seq(Symbols) /\ Len(old \o y) = Len(old) + Len(y)
            /\ \A i \in 1 .. Len(old) + Len(y) :
                  (old \o y)[i] = IF i <= Len(old) THEN old[i] ELSE y[i - Len(old)]
        BY <2>2, ConcatProperties
      <4>2. Len(y) \in Nat \ {0} /\ Len(old) \in Nat
        BY <2>2, <3>1
      <4>3. (old \o y)[Len(old \o y)] = y[Len(y)]
        BY <4>1, <4>2
      <4> QED
        BY <3>1, <4>1, <4>2, <4>3 DEF Last
    <3> QED
      BY <1>3, <3>1, Zenon
  <2>8. [file EXCEPT ![n + 1] = line] = Append(ShippedFile, line)
    <3>1. PICK S : ShippedFile \in Seq(S) /\ old \in S /\ line \in S
      BY <1>1, <2>2
    <3> QED
      <4>1. ReplaceLast(Append(ShippedFile, old), line) = Append(ShippedFile, line)
        BY <3>1, LastReplaced
      <4>2. file = Append(ShippedFile, old) /\ n + 1 = Len(file)
        BY <2>1, <2>3
      <4>3. ReplaceLast(file, line) = Append(ShippedFile, line)
        BY <4>1, <4>2, Zenon
      <4> QED
        BY <4>2, <4>3 DEF ReplaceLast
  <2>9. ASSUME \A x \in In(Append(written, e)) : x.name \in Names
        PROVE  OneLine(line, Append(written, e))
    <3>1. OneLine(old, written)
      BY <1>4, <2>1, <2>9 DEF GrownLine
    <3> QED
      BY <1>4, <1>6, <2>2, <2>7, <2>9, <3>1, Grown
  <2> QED
    BY <2>6, <2>7, <2>8, <2>9
<1> QED
  BY <1>5, <1>6

LEMMA InvInit == Init => Inv
<1>1. <<>> \in Seq(Records)
  OBVIOUS
<1> QED
  BY <1>1 DEF Init, Inv

LEMMA InvStep == Inv /\ [RunClient]_vars => Inv'
<1> SUFFICES ASSUME Inv, [RunClient]_vars PROVE Inv'
  OBVIOUS
<1>1. CASE UNCHANGED <<file, written>>
  BY <1>1 DEF Inv, GrownLine, PlainWritten
<1>2. ASSUME NEW conAt \in Hosts, NEW chat \in Ids, NEW name \in Nicknames,
             ConnectNamed(conAt, chat, name)
      PROVE  Inv'
  <2>1. PICK e \in Records :
           e = [name |-> name, host |-> conAt, chat |-> chat]
    OBVIOUS
  <2>2. /\ file' = cacheNew(file, e.host, e.chat, e.name)
        /\ written' = Append(written, e)
    BY <1>2, <2>1 DEF ConnectNamed
  <2>3. \E line : file' = Append(ShippedFile, line) /\ GrownLine(line)'
    BY <2>2, WhereEntryGoes DEF GrownLine, PlainWritten
  <2>4. written \in Seq(Records)
    BY DEF Inv
  <2>5. written' \in Seq(Records) /\ written' # <<>>
    BY <2>2, <2>4
  <2> QED
    BY <2>3, <2>5 DEF Inv
<1>3. CASE UNCHANGED vars
  BY <1>1, <1>3 DEF vars
<1> QED
  BY <1>1, <1>2, <1>3 DEF RunClient, Refuse, ConnectTo, ConnectUnnamed

LEMMA FileOfLines ==
    ASSUME Inv
    PROVE  /\ file \in Seq(Seq(Symbols))
           /\ Begins(ShippedFile, file)
           /\ \A i \in DOMAIN file : i <= Len(ShippedFile) => file[i] \in In(ShippedFile)
           /\ \A i \in DOMAIN file : i > Len(ShippedFile) =>
                 written # <<>> /\ GrownLine(file[i])
           /\ \A i \in 1 .. Len(file) - 1 : i <= Len(ShippedFile)
<1>1. ShippedFile \in Seq(Seq(Symbols))
  BY ShippedAssumption
<1>2. PICK n \in Nat : n = Len(ShippedFile) /\ DOMAIN ShippedFile = 1 .. n
  BY <1>1
<1>3. CASE file = ShippedFile
  <2>1. \A i \in DOMAIN file : file[i] \in In(ShippedFile)
    BY <1>3 DEF In
  <2> QED
    BY <1>1, <1>2, <1>3, <2>1 DEF Begins
<1>4. CASE written # <<>> /\ \E line : /\ file = Append(ShippedFile, line)
                                       /\ GrownLine(line)
  <2>1. PICK line \in Seq(Symbols) : /\ file = Append(ShippedFile, line)
                                     /\ GrownLine(line)
    BY <1>4 DEF GrownLine
  <2>2. /\ file \in Seq(Seq(Symbols)) /\ Len(file) = n + 1 /\ DOMAIN file = 1 .. n + 1
        /\ \A i \in 1 .. n : file[i] = ShippedFile[i]
        /\ file[n + 1] = line
    BY <1>1, <1>2, <2>1
  <2>3. \A i \in 1 .. n : file[i] \in In(ShippedFile)
    BY <1>2, <2>2 DEF In
  <2>4. Begins(ShippedFile, file)
    BY <1>2, <2>2 DEF Begins
  <2>5. \A i \in DOMAIN file : i > n => i = n + 1
    BY <2>2
  <2>6. \A i \in 1 .. Len(file) - 1 : i <= n
    BY <2>2
  <2>7. \A i \in DOMAIN file : i <= n => i \in 1 .. n
    BY <2>2
  <2> QED
    BY <1>2, <1>4, <2>1, <2>2, <2>3, <2>4, <2>5, <2>6, <2>7
<1> QED
  BY <1>3, <1>4 DEF Inv

-----------------------------------------------------------------------------
(* What the invariant means for a search.                                   *)

\* The outcomes of -conTo that ConnectsToCached allows.
Proper(found, nickname) ==
    /\ found.result \in {"found", "unclear"}
    /\ found.result = "unclear" => ~LinesFit
    /\ \/ found.host = NoHost /\ ~LinesFit
       \/ \E e \in Known : /\ e.host = found.host
                           /\ found.chat \in {e.chat, SomeNumber}
                           /\ LinesFit => IsPrefix(e.name, nickname)

LEMMA AnswersProper ==
    ASSUME NEW piece, NEW nickname, NEW known, NEW cut,
           Answers(piece, nickname, known, cut), known \subseteq Known, LinesFit => ~cut
    PROVE  Proper(Details(piece), nickname)
  BY Zenon DEF Answers, Proper

\* A search either ends without a result or, with plain names in the cache, with a
\* proper one.
LEMMA SearchAnswers ==
    ASSUME Inv, PlainWritten, NEW nickname \in Nicknames
    PROVE  \/ getDetails(file, nickname) = [result |-> "not found"]
           \/ Proper(getDetails(file, nickname), nickname)
<1>1. file \in Seq(Seq(Symbols))
  BY FileOfLines
<1>2. SUFFICES ASSUME NEW i \in DOMAIN file, NEW k \in Hits(file[i], nickname)
               PROVE  Proper(Details(Pieces(file[i])[k]), nickname)
  <2>1. \/ getDetails(file, nickname) = [result |-> "not found"]
        \/ \E i \in DOMAIN file : \E k \in Hits(file[i], nickname) :
              getDetails(file, nickname) = Details(Pieces(file[i])[k])
    BY <1>1, SearchEnds
  <2> QED
    BY <2>1
<1>3. i \in Nat /\ Len(ShippedFile) \in Nat
  BY <1>1, ShippedAssumption
<1>4. CASE i <= Len(ShippedFile)
  <2>1. file[i] \in In(ShippedFile)
    BY <1>4, FileOfLines
  <2>2. EntryOf(file[i]) \in Known
    BY <2>1 DEF Known, Shipped
  <2>3. Answers(Pieces(file[i])[k], nickname, {EntryOf(file[i])}, FALSE)
    BY <1>2, <2>1, FoundInShipped
  <2>4. {EntryOf(file[i])} \subseteq Known /\ (LinesFit => ~FALSE)
    BY <2>2
  <2> QED
    BY <2>3, <2>4, AnswersProper, Zenon
<1>5. CASE i > Len(ShippedFile)
  <2>1. written # <<>> /\ OneLine(file[i], written)
    BY <1>5, FileOfLines DEF GrownLine
  <2>2. PICK line \in Seq(Symbols) : line = file[i]
    BY <2>1 DEF OneLine
  <2>3. Answers(Pieces(line)[k], nickname, In(written), Len(line) > BufLen)
    <3>1. In(written) \subseteq Records
      BY EntriesOf DEF Inv
    <3>2. \A x \in In(written) : x \in PlainRecords
      BY <3>1 DEF PlainWritten
    <3>3. written \in Seq(PlainRecords)
      BY <3>2, AllIn DEF Inv
    <3> QED
      BY <1>2, <2>1, <2>2, <3>3, FoundInOneLine
  <2>4. In(written) \subseteq Known
    BY DEF Known
  <2>5. LinesFit => ~(Len(line) > BufLen)
    <3>1. line \in In(file)
      BY <2>2 DEF In
    <3>2. LinesFit => Len(line) <= BufLen
      BY <3>1 DEF LinesFit
    <3>3. Len(line) \in Nat /\ BufLen \in Nat
      BY <2>2, BufLenAssumption
    <3> QED
      BY <3>2, <3>3
  <2> QED
    <3>1. Proper(Details(Pieces(line)[k]), nickname)
      BY <2>3, <2>4, <2>5, Zenon DEF Answers, Proper
    <3> QED
      BY <2>2, <3>1
<1> QED
  BY <1>3, <1>4, <1>5

-----------------------------------------------------------------------------
(* The theorems.                                                            *)

\* The invariant holds for every run of the client on the same file.
THEOREM InvHolds == Spec => []Inv
  BY InvInit, InvStep, PTL DEF Spec

\* -conTo of a name that is found on a complete line gives the same host and
\* chat for ever, whatever -name adds to the file (cacheNew, getDetails).
THEOREM LinesStayHolds == Spec => []LinesStay
<1>1. Inv => LinesStay
  <2> SUFFICES ASSUME Inv, NEW n \in Nicknames, getDetails(ShippedFile, n).result = "found"
               PROVE  getDetails(file, n) = getDetails(ShippedFile, n)
    BY Zenon DEF LinesStay
  <2>1. Finds(ShippedFile, n)
    BY DEF Finds
  <2>2. file \in Seq(Seq(Symbols)) /\ Begins(ShippedFile, file)
    BY FileOfLines
  <2>3. ShippedFile \in Seq(Seq(Symbols))
    BY ShippedAssumption
  <2> QED
    BY <2>1, <2>2, <2>3, FirstLinesAnswer, Zenon
<1> QED
  BY <1>1, InvHolds, PTL

\* While all cached nicknames are plain, -conTo never makes a chat up: what it
\* takes for a host begins with one that was shipped or written, and the id is
\* that entry's or computed from more than an id; while no line is cut, the
\* entry's name begins the nickname, and no length wraps (getDetails, RunClient).
THEOREM ConnectsToCachedHolds == Spec => []ConnectsToCached
<1>1. Init => ConnectsToCached
  BY DEF Init, ConnectsToCached
<1>2. Inv /\ ConnectsToCached /\ [RunClient]_vars => ConnectsToCached'
  <2> SUFFICES ASSUME Inv, ConnectsToCached, [RunClient]_vars
               PROVE  ConnectsToCached'
    OBVIOUS
  <2>1. ASSUME Refused PROVE ConnectsToCached'
    BY <2>1 DEF Refused, ConnectsToCached
  <2>2. ASSUME NEW conTo \in Nicknames, ConnectTo(conTo) PROVE ConnectsToCached'
    <3>1. PICK cached : cached = getDetails(file, conTo)
      OBVIOUS
    <3>2. UNCHANGED <<file, written>>
      BY <2>2 DEF ConnectTo
    <3>3. (LinesFit' <=> LinesFit) /\ Known' = Known /\ (PlainWritten' <=> PlainWritten)
      BY <3>2 DEF LinesFit, Known, PlainWritten
    <3>4. CASE cached = [result |-> "not found"]
      <4>1. cached.result = "not found"
        BY <3>4
      <4>2. Refused
        BY <2>2, <3>1, <4>1 DEF ConnectTo
      <4> QED
        BY <2>1, <4>2
    <3>5. CASE PlainWritten /\ Proper(cached, conTo)
      <4>1. \/ cached.result = "unclear" /\ outcome' = [status |-> "undefined"]
            \/ \E ended \in BOOLEAN : Connects(conTo, cached.host, cached.chat, ended)
        BY <2>2, <3>1, <3>5 DEF ConnectTo, Proper
      <4>2. CASE cached.result = "unclear" /\ outcome' = [status |-> "undefined"]
        <5>1. ~LinesFit' /\ outcome'.status = "undefined"
          BY <3>3, <3>5, <4>2 DEF Proper
        <5> QED
          BY <5>1 DEF ConnectsToCached
      <4>3. CASE \E ended \in BOOLEAN : Connects(conTo, cached.host, cached.chat, ended)
        <5>1. /\ outcome'.status = "connects" /\ outcome'.asked = conTo
              /\ outcome'.host = cached.host /\ outcome'.chat = cached.chat
          BY <4>3 DEF Connects
        <5>2. \/ outcome'.host = NoHost /\ ~LinesFit'
              \/ \E e \in Known' : /\ e.host = outcome'.host
                                   /\ outcome'.chat \in {e.chat, SomeNumber}
                                   /\ LinesFit' => IsPrefix(e.name, outcome'.asked)
          BY <3>3, <3>5, <5>1, Zenon DEF Proper
        <5> QED
          BY <5>1, <5>2 DEF ConnectsToCached
      <4> QED
        BY <4>1, <4>2, <4>3
    <3>6. CASE ~PlainWritten
      BY <3>3, <3>6 DEF ConnectsToCached
    <3> QED
      BY <3>1, <3>4, <3>5, <3>6, SearchAnswers
  <2>3. ASSUME NEW host, NEW chat, NEW ended, Connects(NoName, host, chat, ended)
        PROVE  ConnectsToCached'
    BY <2>3 DEF Connects, ConnectsToCached
  <2>4. CASE UNCHANGED vars
    BY <2>4, Zenon DEF vars, ConnectsToCached, LinesFit, Known, PlainWritten
  <2> QED
    BY <2>1, <2>2, <2>3, <2>4 DEF RunClient, Refuse, ConnectUnnamed, ConnectNamed
<1> QED
  BY <1>1, <1>2, InvHolds, PTL DEF Spec

LEMMA DetailsTyped ==
    ASSUME NEW piece, Details(piece).result \in {"found", "unclear"}
    PROVE  /\ Details(piece).host \in Hosts \cup {NoHost}
           /\ Details(piece).chat \in Ids \cup {SomeNumber}
<1>1. [result |-> "undefined"].result = "undefined"
  OBVIOUS
<1>2. Details(piece) # [result |-> "undefined"]
  BY <1>1, Zenon
<1>3. PICK h \in Hosts \cup {NoHost} :
         h = IF hostOf(piece) \in {<<x>> : x \in Hosts} THEN hostOf(piece)[1] ELSE NoHost
  <2>1. \A x : <<x>>[1] = x
    OBVIOUS
  <2> QED
    BY <2>1, Zenon
<1>4. chatOf(piece) \in Ids \cup {SomeNumber}
  BY DEF chatOf
<1>5. Details(piece) = [result |-> IF RunsOff(piece) THEN "unclear" ELSE "found",
                        host |-> h, chat |-> chatOf(piece)]
  BY <1>2, <1>3, Zenon DEF Details
<1>6. Details(piece).host = h /\ Details(piece).chat = chatOf(piece)
  BY <1>5
<1> QED
  BY <1>4, <1>6

\* The file stays lines of symbols, complete but for the last; what is written
\* is what was asked for, with any nickname.
THEOREM TypeCorrect == Spec => []TypeOK
<1> DEFINE Outcomes == [status : {"none", "refused", "undefined"}] \cup
                       [status : {"connects"}, asked : Nicknames \cup {NoName},
                        host : Hosts \cup {NoHost}, chat : Ids \cup {SomeNumber},
                        ended : BOOLEAN]
           OutcomeOK == outcome \in Outcomes
<1>1. Inv /\ OutcomeOK => TypeOK
  <2> SUFFICES ASSUME Inv, OutcomeOK PROVE TypeOK
    OBVIOUS
  <2>1. file \in Seq(Seq(Symbols)) /\ written \in Seq(Records)
    BY FileOfLines DEF Inv
  <2>2. ASSUME NEW i \in 1 .. Len(file) - 1 PROVE Last(file[i]) = NewLine
    <3>1. i \in DOMAIN file /\ i <= Len(ShippedFile)
      BY <2>1, FileOfLines
    <3>2. file[i] \in In(ShippedFile)
      BY <3>1, FileOfLines
    <3> QED
      BY <3>2, ShippedColon DEF Last
  <2> QED
    BY <2>1, <2>2 DEF TypeOK
<1>2. Init => OutcomeOK
  BY DEF Init
<1>3. Inv /\ OutcomeOK /\ [RunClient]_vars => OutcomeOK'
  <2> SUFFICES ASSUME Inv, OutcomeOK, [RunClient]_vars PROVE OutcomeOK'
    OBVIOUS
  <2>1. ASSUME Refused PROVE OutcomeOK'
    BY <2>1 DEF Refused
  <2>2. ASSUME NEW asked \in Nicknames \cup {NoName}, NEW host \in Hosts \cup {NoHost},
               NEW chat \in Ids \cup {SomeNumber}, NEW ended \in BOOLEAN,
               Connects(asked, host, chat, ended)
        PROVE  OutcomeOK'
    BY <2>2 DEF Connects
  <2>3. ASSUME NEW conTo \in Nicknames, ConnectTo(conTo) PROVE OutcomeOK'
    <3>1. PICK cached : cached = getDetails(file, conTo)
      OBVIOUS
    <3>2. \/ cached.result = "not found" /\ Refused
          \/ /\ cached.result \in {"undefined", "unclear"}
             /\ outcome' = [status |-> "undefined"]
          \/ /\ cached.result \in {"found", "unclear"}
             /\ \E ended \in BOOLEAN : Connects(conTo, cached.host, cached.chat, ended)
      BY <2>3, <3>1 DEF ConnectTo
    <3>3. ASSUME cached.result \in {"found", "unclear"}
          PROVE  cached.host \in Hosts \cup {NoHost} /\ cached.chat \in Ids \cup {SomeNumber}
      <4>1. cached # [result |-> "not found"]
        <5>1. [result |-> "not found"].result = "not found"
          OBVIOUS
        <5>2. "not found" \notin {"found", "unclear"}
          OBVIOUS
        <5> QED
          BY <3>3, <5>1, <5>2, Zenon
      <4>2. \E piece : cached = Details(piece)
        <5>1. file \in Seq(Seq(Symbols))
          BY FileOfLines
        <5> QED
          BY <3>1, <4>1, <5>1, SearchEnds, Zenon
      <4>3. PICK piece : cached = Details(piece)
        BY <4>2, Zenon
      <4>4. Details(piece).result \in {"found", "unclear"}
        BY <3>3, <4>3, Zenon
      <4>5. /\ Details(piece).host \in Hosts \cup {NoHost}
            /\ Details(piece).chat \in Ids \cup {SomeNumber}
        BY <4>4, DetailsTyped
      <4> QED
        BY <4>3, <4>5
    <3>4. [status |-> "undefined"] \in Outcomes
      OBVIOUS
    <3>5. CASE cached.result = "not found" /\ Refused
      BY <2>1, <3>5
    <3>6. CASE outcome' = [status |-> "undefined"]
      BY <3>4, <3>6
    <3>7. CASE /\ cached.result \in {"found", "unclear"}
               /\ \E ended \in BOOLEAN : Connects(conTo, cached.host, cached.chat, ended)
      <4>1. PICK ended \in BOOLEAN : Connects(conTo, cached.host, cached.chat, ended)
        BY <3>7
      <4>2. PICK h \in Hosts \cup {NoHost}, c \in Ids \cup {SomeNumber} :
               h = cached.host /\ c = cached.chat
        BY <3>3, <3>7, Zenon
      <4>3. Connects(conTo, h, c, ended)
        BY <4>1, <4>2, Zenon
      <4> QED
        BY <2>2, <4>3
    <3> QED
      BY <3>2, <3>5, <3>6, <3>7, Zenon
  <2>4. CASE UNCHANGED vars
    BY <2>4 DEF vars
  <2>5. ASSUME NEW conAt \in Hosts, NEW chat \in Ids PROVE
           \/ ConnectUnnamed(conAt, chat)
           \/ \E name \in Nicknames : ConnectNamed(conAt, chat, name)
           => OutcomeOK'
    <3>1. ConnectUnnamed(conAt, chat) => Connects(NoName, conAt, SomeNumber, TRUE)
      BY DEF ConnectUnnamed
    <3>2. (\E name \in Nicknames : ConnectNamed(conAt, chat, name))
             => Connects(NoName, conAt, chat, TRUE)
      BY DEF ConnectNamed
    <3> QED
      BY <2>2, <3>1, <3>2
  <2> QED
    BY <2>1, <2>3, <2>4, <2>5 DEF RunClient, Refuse
<1>4. Spec => []OutcomeOK
  BY <1>2, <1>3, InvHolds, PTL DEF Spec
<1> QED
  BY <1>1, <1>4, InvHolds, PTL

\* The name of an entry that has a line to itself ends the search on that line.
LEMMA FoundAlone ==
    ASSUME NEW line \in Seq(Symbols), NEW name \in Names, NEW host \in Hosts, NEW id \in Ids,
           line = Entry(name, host, id)
    PROVE  /\ Hits(line, name) # {}
           /\ \A k \in Hits(line, name) :
                 Details(Pieces(line)[k]) = [result |-> "found", host |-> host, chat |-> id]
<1>1. PICK p \in Nat : p = Len(name) + 1 /\ p >= 1
  BY NameLetters
<1>2. /\ Len(line) = p + 3
      /\ \A i \in 1 .. p - 1 : line[i] = name[i]
      /\ line[p] = Colon /\ line[p + 1] = host /\ line[p + 2] = Comma /\ line[p + 3] = id
  BY <1>1, EntryParts, NameLetters DEF Nicknames
<1>3. \A i \in 1 .. p - 1 : line[i] \in Letters
  BY <1>1, <1>2, NameLetters
<1>4. strcspn(line, Colon) = p - 1
  <2>1. \A i \in 1 .. p - 1 : line[i] # Colon
    BY <1>3, SymbolKinds
  <2>2. p \in 1 .. Len(line)
    BY <1>1, <1>2
  <2> QED
    BY <1>2, <2>1, <2>2, SymbolAt
<1>5. SubSeq(line, 1, p - 1) = name
  <2>1. PICK s \in Seq(Symbols) : /\ s = SubSeq(line, 1, p - 1) /\ Len(s) = p - 1
                                  /\ \A i \in 1 .. p - 1 : s[i] = line[i]
    <3>1. /\ SubSeq(line, 0 + 1, 0 + (p - 1)) \in Seq(Symbols)
          /\ Len(SubSeq(line, 0 + 1, 0 + (p - 1))) = p - 1
          /\ \A i \in 1 .. p - 1 : SubSeq(line, 0 + 1, 0 + (p - 1))[i] = line[0 + i]
      <4>1. 0 \in Nat /\ p - 1 \in Nat /\ 0 + (p - 1) <= Len(line)
        BY <1>1, <1>2
      <4> QED
        BY <4>1, PartOf
    <3>2. 0 + 1 = 1 /\ 0 + (p - 1) = p - 1 /\ \A i \in 1 .. p - 1 : 0 + i = i
      BY <1>1
    <3> QED
      BY <3>1, <3>2, Zenon
  <2>2. name \in Seq(Symbols) /\ Len(name) = p - 1
    BY <1>1, NameLetters
  <2>3. \A i \in 1 .. p - 1 : s[i] = name[i]
    BY <1>2, <2>1
  <2>4. s = name
    BY <2>1, <2>2, <2>3
  <2> QED
    BY <2>1, <2>4
<1>6. MatchesName(line, name)
  <2>1. IsPrefix(name, name)
    BY NameLetters, Positions
  <2> QED
    BY <1>4, <1>5, <2>1, Zenon DEF MatchesName
<1>7. \A k \in DOMAIN Pieces(line) : Pieces(line)[k] = line
  <2> SUFFICES ASSUME NEW k \in DOMAIN Pieces(line) PROVE Pieces(line)[k] = line
    OBVIOUS
  <2>1. Len(line) <= BufLen
    <3>1. name \in Nicknames
      BY DEF Nicknames
    <3>2. Len(name) + 4 <= BufLen /\ BufLen \in Nat
      BY <3>1, BufLenAssumption
    <3> QED
      BY <1>1, <1>2, <3>2
  <2>2. PICK o \in Nat : Within(Pieces(line)[k], line, o)
    BY PieceWithin
  <2>3. PICK piece \in Seq(Symbols) : piece = Pieces(line)[k]
    BY <2>2 DEF Within
  <2>4. o = 0 /\ Len(piece) = Len(line) /\ \A i \in 1 .. Len(piece) : piece[i] = line[o + i]
    BY <2>1, <2>2, <2>3, Zenon DEF Within
  <2>5. \A i \in 1 .. Len(line) : piece[i] = line[i]
    BY <2>4
  <2>6. piece = line
    BY <2>4, <2>5
  <2> QED
    BY <2>3, <2>6
<1>8. DOMAIN Pieces(line) # {}
  <2>1. PICK b \in Nat \ {0} : b = BufLen
    BY BufLenAssumption
  <2>2. Len(line) \in Nat \ {0}
    BY <1>2
  <2>3. 1 \in 1 .. (Len(line) + b - 1) \div b
    BY <2>1, <2>2
  <2> QED
    BY <2>1, <2>3 DEF Pieces
<1>9. PieceOK(line)
  <2>1. /\ line[p + 1] \notin NameSymbols /\ p + 1 \in 1 .. Len(line)
        /\ line[p + 3] \notin NameSymbols
    BY <1>1, <1>2, SymbolKinds
  <2>2. ASSUME NEW q \in 1 .. Len(line), line[q] = Colon PROVE q = p
    <3>1. q \notin 1 .. p - 1
      BY <1>3, <2>2, SymbolKinds
    <3>2. q # p + 1 /\ q # p + 2 /\ q # p + 3
      BY <1>2, <2>2, SymbolKinds
    <3> QED
      BY <1>1, <1>2, <3>1, <3>2
  <2>3. ASSUME NEW q \in 1 .. Len(line), line[q] = Comma PROVE q = p + 2
    <3>1. q \notin 1 .. p - 1
      BY <1>3, <2>3, SymbolKinds
    <3>2. q # p /\ q # p + 1 /\ q # p + 3
      BY <1>2, <2>3, SymbolKinds
    <3> QED
      BY <1>1, <1>2, <3>1, <3>2
  <2>4. (p + 2) + 1 = p + 3
    BY <1>1
  <2> QED
    BY <1>1, <1>2, <2>1, <2>2, <2>3, <2>4 DEF PieceOK
<1>10. Details(line) = [result |-> "found", host |-> host, chat |-> id]
  <2>1. p \in 1 .. Len(line) /\ p < Len(line) /\ p + 3 = Len(line)
    BY <1>1, <1>2
  <2>2. /\ ~LengthWraps(line) /\ hostOf(line) = <<host>>
        /\ chatOf(line) = id /\ ~RunsOff(line)
    BY <1>2, <1>3, <1>4, <1>9, <2>1, DetailsOf
  <2> QED
    BY <2>2, HostFound
<1> QED
  BY <1>6, <1>7, <1>8, <1>10, Zenon DEF Hits

LEMMA LastIn ==
    ASSUME NEW S, NEW s \in Seq(S), s # <<>>
    PROVE  Last(s) \in S /\ Last(s) \in In(s)
<1>1. Len(s) \in DOMAIN s /\ s[Len(s)] \in S
  OBVIOUS
<1> QED
  BY <1>1 DEF Last, In

\* While all cached nicknames are plain, an entry that gets a line to itself is
\* found under its name, with its host and its chat, unless an older name begins
\* this one (cacheNew, getDetails).
THEOREM AloneIsFoundHolds == Spec => []AloneIsFound
<1>1. Inv => AloneIsFound
  <2> SUFFICES ASSUME Inv, PlainWritten, written # <<>>,
                      NEW e, e = Last(written),
                      Last(file) = Entry(e.name, e.host, e.chat),
                      \A s \in Shipped : ~IsPrefix(s.name, e.name)
               PROVE  getDetails(file, e.name) =
                         [result |-> "found", host |-> e.host, chat |-> e.chat]
    BY Zenon DEF AloneIsFound
  <2>1. e \in PlainRecords
    <3>1. PICK S : S = Records /\ written \in Seq(S)
      BY DEF Inv
    <3>2. Last(written) \in S /\ Last(written) \in In(written)
      BY <3>1, LastIn, Zenon
    <3> QED
      BY <3>1, <3>2 DEF PlainWritten
  <2>2. PICK line \in Seq(Symbols) : file = Append(ShippedFile, line)
    BY DEF Inv, GrownLine
  <2>3. ShippedFile \in Seq(Seq(Symbols))
    BY ShippedAssumption
  <2>4. PICK n \in Nat : n = Len(ShippedFile)
    BY <2>3
  <2>5. /\ file \in Seq(Seq(Symbols)) /\ Len(file) = n + 1
        /\ DOMAIN file = 1 .. n + 1 /\ file[n + 1] = line
    BY <2>2, <2>3, <2>4
  <2>6. line = Entry(e.name, e.host, e.chat)
    BY <2>5 DEF Last
  <2>7. PICK name \in Names, host \in Hosts, chat \in Ids :
           name = e.name /\ host = e.host /\ chat = e.chat
    BY <2>1
  <2>8. /\ Hits(line, name) # {}
        /\ \A k \in Hits(line, name) :
              Details(Pieces(line)[k]) = [result |-> "found", host |-> host, chat |-> chat]
    BY <2>6, <2>7, FoundAlone
  <2>9. ASSUME NEW i \in DOMAIN file, i <= n PROVE Hits(file[i], name) = {}
    <3>1. file[i] \in In(ShippedFile)
      BY <2>4, <2>9, FileOfLines
    <3>2. EntryOf(file[i]) \in Shipped
      BY <3>1 DEF Shipped
    <3>3. ~IsPrefix(EntryOf(file[i]).name, name)
      BY <2>7, <3>2
    <3> QED
      BY <3>1, <3>3, FoundInShipped DEF Nicknames
  <2>10. PICK i \in DOMAIN file : \E k \in Hits(file[i], name) :
            getDetails(file, name) = Details(Pieces(file[i])[k])
    <3>1. n + 1 \in DOMAIN file /\ Hits(file[n + 1], name) # {}
      BY <2>5, <2>8
    <3> QED
      BY <2>5, <3>1, SearchEnds
  <2>11. i = n + 1
    <3>1. ~(i <= n)
      BY <2>9, <2>10
    <3> QED
      BY <2>5, <3>1
  <2> QED
    BY <2>5, <2>7, <2>8, <2>10, <2>11
<1> QED
  BY <1>1, InvHolds, PTL
=============================================================================
