----------------------------- MODULE ChatCache -----------------------------
(***************************************************************************)
(* The client's cache of chats (OriginalLinuxCode/chatCache.c) and the     *)
(* options of RunClient that fill and ask it (QMSP_Runner.c): one step is  *)
(* one start of the client on the same file, conDir/conmem.log.            *)
(*                                                                         *)
(* An entry is "name: host, id".  The file is a sequence of lines, a line  *)
(* a sequence of symbols: the letters of a name, one symbol for a host,    *)
(* one for an id, ":" for colon and blank, "," for comma and blank, Blank  *)
(* and NewLine.  A line without NewLine can only be the last.  A nickname  *)
(* may have colons and commas of its own, which nothing tells from those   *)
(* behind it.                                                              *)
(*                                                                         *)
(* Definitions named <definition>_<Fault> are faulty variants of the       *)
(* definition that follows them; no specification uses them.               *)
(***************************************************************************)
EXTENDS Naturals, Sequences

CONSTANTS
    Names,       \* plain nicknames, as sequences of letters
    MarkedNames, \* nicknames with a colon or a comma in them
    Hosts,       \* hosts a chat may be on
    Ids,         \* chat ids
    ShippedFile, \* the lines of the file as the repository has it
    BufLen,      \* symbols one fgets reads at most
    MaxEntries   \* bound of the model: entries that are ever written

Colon   == ":"
Comma   == ","
Blank   == "blank"
NewLine == "newline"
Marks   == {Colon, Comma, Blank, NewLine}
In(s)   == {s[i] : i \in DOMAIN s}
Nicknames   == Names \cup MarkedNames
Letters     == UNION {In(n) : n \in Nicknames} \ {Colon, Comma}
NameSymbols == Letters \cup {Colon, Comma}
Symbols     == Letters \cup Hosts \cup Ids \cup Marks

\* A line of the file as it is shipped: an entry, perhaps with more blanks.
IsShippedLine(line) ==
    \E name \in Names, host \in Hosts, id \in Ids, n \in 0 .. Len(line) :
        line = name \o <<Colon, host, Comma>> \o [k \in 1 .. n |-> Blank] \o <<id, NewLine>>

ASSUME SymbolsAssumption ==
    /\ Names \subseteq Seq(Letters) \ {<<>>}
    /\ MarkedNames \subseteq Seq(NameSymbols) \ {<<>>}
    /\ Letters \cap (Hosts \cup Ids \cup Marks) = {}
    /\ Hosts \cap Ids = {} /\ (Hosts \cup Ids) \cap Marks = {}
ASSUME ShippedAssumption ==
    /\ ShippedFile \in Seq(Seq(Symbols))
    /\ \A line \in In(ShippedFile) : IsShippedLine(line) /\ Len(line) <= BufLen
\* An entry fits the buffer cacheNew formats it into, which is as long as the one
\* of fgets.
ASSUME BufLenAssumption ==
    /\ BufLen \in Nat \ {0}
    /\ \A name \in Nicknames : Len(name) + 4 <= BufLen

VARIABLES
    file,    \* the lines of conmem.log
    written, \* the entries cacheNew was asked to write, in order
    outcome  \* what the last start of the client came to

vars == <<file, written, outcome>>

-----------------------------------------------------------------------------
(* cacheNew and getDetails.                                                 *)

\* The last element of a sequence, the least of a set of positions.
Last(s)  == s[Len(s)]
First(S) == CHOOSE i \in S : \A j \in S : i <= j

Entry(name, host, id) == name \o <<Colon, host, Comma, id>>

EndsInNewLine(f) == f = <<>> \/ Last(Last(f)) = NewLine

\* Fault: the file is opened for writing, not for appending.
cacheNew_Overwrites(f, host, id, name) == <<Entry(name, host, id)>>

\* The file with an entry appended: no newline is written before or after it.
cacheNew(f, host, id, name) ==
    IF EndsInNewLine(f) THEN Append(f, Entry(name, host, id))
    ELSE [f EXCEPT ![Len(f)] = @ \o Entry(name, host, id)]

\* What the calls of fgets return for a line: pieces of at most BufLen symbols.
Pieces(line) ==
    [k \in 1 .. (Len(line) + BufLen - 1) \div BufLen |->
        SubSeq(line, (k - 1) * BufLen + 1,
               IF k * BufLen < Len(line) THEN k * BufLen ELSE Len(line))]

\* strcspn: the number of symbols of s before the first c.
strcspn(s, c) == LET at == {i \in DOMAIN s : s[i] = c}
                 IN  IF at = {} THEN Len(s) ELSE First(at) - 1

IsPrefix(s, t) == Len(s) <= Len(t) /\ SubSeq(t, 1, Len(s)) = s

\* Fault: strncmp compares the length of the nickname, not of the cached name.
MatchesName_Prefix(piece, nickname) == IsPrefix(nickname, piece)

\* The condition that ends the search: the symbols before the colon begin the
\* nickname that is looked for.
MatchesName(piece, nickname) ==
    IsPrefix(SubSeq(piece, 1, strcspn(piece, Colon)), nickname)

\* A number that the program computes from other characters than one id, or
\* that it does not assign.
SomeNumber == "some number"
NoHost     == "no host"

\* Fault: the id is the last symbol of the line.
chatOf_Last(piece) ==
    LET at == {i \in DOMAIN piece : piece[i] \in Ids}
    IN  IF at = {} THEN SomeNumber
        ELSE piece[CHOOSE i \in at : \A j \in at : i >= j]

\* Fault: the first character behind the comma is the id.
chatOf_First(piece) ==
    LET digits == SubSeq(piece, strcspn(piece, Comma) + 2, Len(piece))
    IN  IF digits = <<>> THEN SomeNumber ELSE digits[1]

\* The digits from the comma to the end of the line are the id; blanks and the
\* letters of an entry on the same line are taken for digits, too.
chatOf(piece) ==
    LET digits == SubSeq(piece, strcspn(piece, Comma) + 2, strcspn(piece, NewLine))
    IN  IF Len(digits) = 1 /\ digits[1] \in Ids THEN digits[1] ELSE SomeNumber

\* The symbols between colon and comma, which are copied.
hostOf(piece) == SubSeq(piece, strcspn(piece, Colon) + 2, strcspn(piece, Comma))

\* The length given to malloc and strncpy is computed without a sign: it wraps
\* where the first comma stands before the first colon.
LengthWraps(piece) == strcspn(piece, Comma) <= strcspn(piece, Colon)

\* It also does where the comma, or the end of what fgets has read, is right
\* behind the colon; and the number is read from beyond that end where there is
\* nothing behind the comma.
RunsOff(piece) == hostOf(piece) = <<>> \/ strcspn(piece, Comma) + 1 >= Len(piece)

\* What a piece that matches says.
Details(piece) ==
    IF LengthWraps(piece) THEN [result |-> "undefined"]
    ELSE [result |-> IF RunsOff(piece) THEN "unclear" ELSE "found",
          host   |-> IF hostOf(piece) \in {<<h>> : h \in Hosts}
                     THEN hostOf(piece)[1] ELSE NoHost,
          chat   |-> chatOf(piece)]

\* The first piece that matches is taken.
Hits(line, nickname) ==
    {k \in DOMAIN Pieces(line) : MatchesName(Pieces(line)[k], nickname)}

getDetails(f, nickname) ==
    LET lines == {i \in DOMAIN f : Hits(f[i], nickname) # {}}
        line  == f[First(lines)]
    IN  IF lines = {} THEN [result |-> "not found"]
        ELSE Details(Pieces(line)[First(Hits(line, nickname))])

-----------------------------------------------------------------------------
(* RunClient.                                                           *)

None   == "none"
NoName == <<>>   \* when no cached chat was asked for

Init ==
    /\ file = ShippedFile
    /\ written = <<>>
    /\ outcome = [status |-> "none"]

Refused == outcome' = [status |-> "refused"]

\* ConnectionStart is called with a string that begins with host; ended tells
\* whether that is all of it.
Connects(asked, host, chat, ended) ==
    outcome' = [status |-> "connects", asked |-> asked, host |-> host, chat |-> chat,
                ended |-> ended]

\* The options that are refused: no user id or one of 2^62 or more, not exactly
\* one of -conAt and -conTo, -conAt without -chat.
Refuse(userID, given) ==
    /\ \/ userID \in {None, "too large"}
       \/ given \cap {"conAt", "conTo"} \in {{}, {"conAt", "conTo"}}
       \/ "conAt" \in given /\ "chat" \notin given
    /\ Refused
    /\ UNCHANGED <<file, written>>

\* -conTo.  A chat that is not found has no host, and ConnectionStart fails.  The
\* copy of a host has no terminator, and malloc leaves any byte behind it.
ConnectTo(conTo) ==
    /\ LET cached == getDetails(file, conTo) IN
       \/ cached.result = "not found" /\ Refused
       \/ /\ cached.result \in {"undefined", "unclear"}
          /\ outcome' = [status |-> "undefined"]
       \/ /\ cached.result \in {"found", "unclear"}
          /\ \E ended \in BOOLEAN : Connects(conTo, cached.host, cached.chat, ended)
    /\ UNCHANGED <<file, written>>

\* -conAt and -chat without -name: only the branch with a name assigns cid.
ConnectUnnamed(conAt, chat) ==
    /\ Connects(NoName, conAt, SomeNumber, TRUE)
    /\ UNCHANGED <<file, written>>

\* -conAt, -chat and -name.
ConnectNamed(conAt, chat, name) ==
    /\ Len(written) < MaxEntries
    /\ Connects(NoName, conAt, chat, TRUE)
    /\ file' = cacheNew(file, conAt, chat, name)
    /\ written' = Append(written, [name |-> name, host |-> conAt, chat |-> chat])

RunClient ==
    \/ \E userID \in {None, "good", "too large"},
          given \in SUBSET {"conAt", "conTo", "chat", "name"} : Refuse(userID, given)
    \/ \E conTo \in Nicknames : ConnectTo(conTo)
    \/ \E conAt \in Hosts, chat \in Ids :
          \/ ConnectUnnamed(conAt, chat)
          \/ \E name \in Nicknames : ConnectNamed(conAt, chat, name)

Spec == Init /\ [][RunClient]_vars

-----------------------------------------------------------------------------
(* Properties.                                                              *)

EntryOf(line) ==
    [name |-> SubSeq(line, 1, strcspn(line, Colon)),
     host |-> line[strcspn(line, Colon) + 2],
     chat |-> line[First({i \in DOMAIN line : line[i] \in Ids})]]

Shipped == {EntryOf(line) : line \in In(ShippedFile)}
Known   == Shipped \cup In(written)

LinesFit == \A line \in In(file) : Len(line) <= BufLen

\* The file is lines of symbols, complete but for the last; what was written is
\* what was asked for.
TypeOK ==
    /\ \A i \in 1 .. Len(file) - 1 : Last(file[i]) = NewLine
    /\ file \in Seq(Seq(Symbols))
    /\ written \in Seq([name : Nicknames, host : Hosts, chat : Ids])
    /\ outcome \in [status : {"none", "refused", "undefined"}] \cup
                  [status : {"connects"}, asked : Nicknames \cup {NoName},
                   host : Hosts \cup {NoHost}, chat : Ids \cup {SomeNumber},
                   ended : BOOLEAN]

\* No nickname with a colon or a comma was ever given to a chat.
PlainWritten == \A e \in In(written) : e.name \in Names

\* -conTo never makes a chat up, while all cached nicknames are plain: whatever
\* entries are run together on the last line and wherever fgets cuts it, the
\* string that is taken for the host begins with a host somebody cached, and the
\* id is that entry's own or computed from more than an id.  As long as no line
\* is cut, the entry's name begins the nickname that was asked for, whatever
\* that is, and neither the length of the host wraps nor is anything read beyond
\* the end (getDetails).
ConnectsToCached ==
    PlainWritten =>
        /\ outcome.status = "undefined" => ~LinesFit
        /\ outcome.status = "connects" /\ outcome.asked # NoName =>
              \/ outcome.host = NoHost /\ ~LinesFit
              \/ \E e \in Known :
                    /\ e.host = outcome.host
                    /\ outcome.chat \in {e.chat, SomeNumber}
                    /\ LinesFit => IsPrefix(e.name, outcome.asked)

\* While all cached nicknames are plain, an entry that gets a line to itself is
\* found under its name, with its host and its chat, unless an older name begins
\* this one (cacheNew, getDetails).
AloneIsFound ==
    PlainWritten /\ written # <<>> =>
        LET e == Last(written) IN
        /\ Last(file) = Entry(e.name, e.host, e.chat)
        /\ LinesFit
        /\ \A s \in Shipped : ~IsPrefix(s.name, e.name)
        => getDetails(file, e.name) = [result |-> "found", host |-> e.host, chat |-> e.chat]

\* What is found on a complete line is found for ever, and unchanged, whatever
\* is cached later, the same name with another host included (cacheNew): the
\* complete lines are the shipped ones.
LinesStay ==
    \A n \in Nicknames :
        LET shipped == getDetails(ShippedFile, n)
        IN  shipped.result = "found" => getDetails(file, n) = shipped
=============================================================================
