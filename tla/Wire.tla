-------------------------------- MODULE Wire --------------------------------
(***************************************************************************)
(* The wire format of OriginalLinuxCode: variable-length integers          *)
(* (VariableLengthInt.c), headers (Messages.c), frames (Frames.c) and the  *)
(* packing of a message (MessageReader.c), followed by the steps in which  *)
(* unpackMessage and the loop of extractFrames take the bytes apart.       *)
(*                                                                         *)
(* A byte has Base values: 256 in the program, fewer in a check, so that   *)
(* every width of an integer occurs with small numbers.  Only the stub,    *)
(* which is made of bit fields, is always an octet.  Integers are packed   *)
(* most significant byte first (the program swaps where the machine's      *)
(* order differs).                                                         *)
(*                                                                         *)
(* Definitions named <definition>_<Fault> are faulty variants of the       *)
(* definition that follows them; no specification uses them.               *)
(***************************************************************************)
EXTENDS Naturals, Sequences

CONSTANTS
    Base,     \* values of a byte
    Messages, \* messages that are packed: [head |-> ..., frames |-> ...]
    Beyond    \* what may lie in memory behind a received buffer

ASSUME BaseAssumption == Base \in Nat /\ Base >= 16 /\ Base % 4 = 0

\* The values of a byte without its two top bits.
Quarter == Base \div 4

\* v shifted to the right by k bytes.
Shifted(v) == LET s[k \in 0 .. 7] == IF k = 0 THEN v ELSE s[k - 1] \div Base IN s

\* The n lowest bytes of v, the most significant one first.
Bytes(v, n) == [i \in 1 .. n |-> Shifted(v)[n - i] % Base]

\* The value of the n bytes of b from cell i on, the first one counting as top.
Value(b, i, n, top) ==
    LET v[k \in 0 .. n - 1] == IF k = 0 THEN top ELSE v[k - 1] * Base + b[i + k]
    IN  v[n - 1]

-----------------------------------------------------------------------------
(* Variable-length integers.  A logarithmic one has the logarithm of its    *)
(* size in the two top bits of its first byte, a direct one has its size    *)
(* elsewhere.                                                               *)

getSizeOfLVIToPack(v) ==
    IF v < Quarter THEN 1
    ELSE IF v < Quarter * Base THEN 2
    ELSE IF v < Quarter * Base * Base * Base THEN 4 ELSE 8

getSizeOfDVIToPack(v) ==
    IF v < Base THEN 1
    ELSE IF v < Base * Base THEN 2
    ELSE IF v < Base * Base * Base THEN 3 ELSE 4

\* The integers that have a packed form: 62 bits, or four bytes.
FitsLVI(v) == Shifted(v)[7] < Quarter
FitsDVI(v) == Shifted(v)[3] < Base

SizeCode(n) == CHOOSE k \in 0 .. 3 : 2 ^ k = n

packLogVarInt(v) ==
    LET n == getSizeOfLVIToPack(v)
    IN  [Bytes(v, n) EXCEPT ![1] = @ + SizeCode(n) * Quarter]

\* Value and number of bytes read of the integer at cell i.
LogVarIntSize(b, i) == 2 ^ (b[i] \div Quarter)
unpackLogVarInt(b, i) == Value(b, i, LogVarIntSize(b, i), b[i] % Quarter)

packDirVarInt(v, n) == Bytes(v, n)

\* Fault: the loop over the bytes stops one too early.
unpackDirVarInt_OneShort(b, i, n) == Value(b, i, IF n = 1 THEN 1 ELSE n - 1, b[i])

unpackDirVarInt(b, i, n) == Value(b, i, n, b[i])

-----------------------------------------------------------------------------
(* Headers.                                                                 *)

constructDataMessageHeader(chat, source, number) ==
    [class |-> 0, control |-> 0, numLen |-> getSizeOfDVIToPack(number) - 1,
     chatLen |-> getSizeOfDVIToPack(chat) - 1, data |-> 0,
     version |-> 0, chat |-> chat, source |-> source, number |-> number]

constructControlMessageHeader(control, version, chat, source, number, data) ==
    [class |-> 1, control |-> control % 4, numLen |-> getSizeOfDVIToPack(number) - 1,
     chatLen |-> getSizeOfDVIToPack(chat) - 1, data |-> IF data THEN 1 ELSE 0,
     version |-> version, chat |-> chat, source |-> source, number |-> number]

\* The bit fields of the stub, as they are sent.
SerializeMessageStub(h) ==
    h.class * 128 + h.control * 32 + h.numLen * 8 + h.chatLen * 2 + h.data

\* Version numbers take four bytes and only control messages have one.
VersionSize(class) == IF class = 1 THEN 4 ELSE 0

getSerializedSizeOfHeader(h) ==
    1 + VersionSize(h.class) + (h.chatLen + 1) + (h.numLen + 1) + getSizeOfLVIToPack(h.source)

SerializeHeader(h) ==
    <<SerializeMessageStub(h)>> \o Bytes(h.version, VersionSize(h.class))
        \o packDirVarInt(h.chat, h.chatLen + 1)
        \o packLogVarInt(h.source)
        \o packDirVarInt(h.number, h.numLen + 1)

\* rebuildMessageStub and the two rebuild...Message functions.
rebuildHeader(b) ==
    LET stub    == b[1]
        class   == stub \div 128
        numLen  == (stub \div 8) % 4
        chatLen == (stub \div 2) % 4
        atChat  == 2 + VersionSize(class)
        atSrc   == atChat + chatLen + 1
        source  == unpackLogVarInt(b, atSrc)
        atNum   == atSrc + getSizeOfLVIToPack(source)
    IN  [class |-> class, control |-> (stub \div 32) % 4, numLen |-> numLen,
         chatLen |-> chatLen, data |-> stub % 2,
         version |-> IF class = 1 THEN Value(b, 2, 4, b[2]) ELSE 0,
         chat    |-> unpackDirVarInt(b, atChat, chatLen + 1),
         source  |-> source,
         number  |-> unpackDirVarInt(b, atNum, numLen + 1)]

-----------------------------------------------------------------------------
(* Frames: transit metadata (type 0), plaintext that ends with a zero byte  *)
(* (type 2) or has its length in front (type 3).  Post metadata (type 1) is *)
(* not written: its cases fall through to those of plaintext.  The types    *)
(* above 3 have no packed form, and no caller packs them.                   *)

TransitMetadata(id, total, specific) ==
    [type |-> 0, id |-> id, total |-> total, specific |-> specific]
Plaintext(type, text) == [type |-> type, text |-> text]

\* Fault: the terminator is not counted.
getSerializedSizeOfPTF_NoTerminator(f) ==
    IF f.type % 2 = 1 THEN Len(f.text) + getSizeOfLVIToPack(Len(f.text)) + 1
                      ELSE 1 + Len(f.text)

getSerializedSizeOfPTF(f) ==
    IF f.type % 2 = 1 THEN Len(f.text) + getSizeOfLVIToPack(Len(f.text)) + 1
                      ELSE 1 + Len(f.text) + 1

getSerializedSizeOfFrame(f) ==
    CASE f.type = 0 -> 1 + 4 + getSizeOfLVIToPack(f.total) + getSizeOfLVIToPack(f.specific)
      [] f.type \in {1, 2, 3} -> getSerializedSizeOfPTF(f)

SerializeTMDInto(f) ==
    packLogVarInt(f.type) \o Bytes(f.id, 4) \o packLogVarInt(f.total) \o packLogVarInt(f.specific)

SerializePTFInto(f) ==
    packLogVarInt(f.type) \o
        (IF f.type % 2 = 1 THEN packLogVarInt(Len(f.text)) \o f.text ELSE f.text \o <<0>>)

SerializeFrameInto(f) ==
    CASE f.type = 0 -> SerializeTMDInto(f)
      [] f.type \in {1, 2, 3} -> SerializePTFInto(f)

\* PackMessage: the buffer is sized first and filled afterwards.
PackedSize(m) ==
    LET n[k \in 0 .. Len(m.frames)] ==
          IF k = 0 THEN getSerializedSizeOfHeader(m.head)
          ELSE n[k - 1] + getSerializedSizeOfFrame(m.frames[k])
    IN  n[Len(m.frames)]

\* What is written when the header and k frames are.
Packed(m) ==
    LET b[k \in 0 .. Len(m.frames)] ==
          IF k = 0 THEN SerializeHeader(m.head)
          ELSE b[k - 1] \o SerializeFrameInto(m.frames[k])
    IN  b

PackMessage(m) == Packed(m)[Len(m.frames)]

-----------------------------------------------------------------------------
(* The messages that are packed.                                            *)

\* A header as the two functions above construct it.
IsHeader(h) ==
    /\ h \in [class : 0 .. 1, control : 0 .. 3, numLen : 0 .. 3, chatLen : 0 .. 3, data : 0 .. 1,
              version : Nat, chat : Nat, source : Nat, number : Nat]
    /\ h.numLen = getSizeOfDVIToPack(h.number) - 1
    /\ h.chatLen = getSizeOfDVIToPack(h.chat) - 1
    /\ h.class = 0 => h.version = 0
    /\ FitsDVI(h.version) /\ FitsDVI(h.chat) /\ FitsDVI(h.number) /\ FitsLVI(h.source)

Frame == [type : {0}, id : Nat, total : Nat, specific : Nat] \cup
         [type : 1 .. 3, text : Seq(0 .. Base - 1)]

\* A text whose length is not packed is a string: it has no zero byte.
IsFrame(f) ==
    IF f.type = 0 THEN FitsDVI(f.id) /\ FitsLVI(f.total) /\ FitsLVI(f.specific)
    ELSE /\ FitsLVI(Len(f.text))
         /\ f.type = 2 => \A i \in 1 .. Len(f.text) : f.text[i] # 0

ASSUME MessagesAssumption ==
    \A m \in Messages : /\ IsHeader(m.head)
                        /\ m.frames \in Seq(Frame)
                        /\ \A i \in 1 .. Len(m.frames) : IsFrame(m.frames[i])
ASSUME BeyondAssumption == Beyond \subseteq Seq(Nat)

-----------------------------------------------------------------------------
VARIABLES
    sent,    \* the message that was packed
    bytes,   \* the buffer unpackMessage is given
    beyond,  \* what lies in memory behind it
    phase,   \* "header", "frames" or "done"
    head,    \* the header as rebuilt
    start,   \* the cell of the first frame (the pointer bytes of extractFrames)
    curLoc,  \* the cell at which the next frame is taken to begin
    lastEnd, \* the last cell of the frame before
    frames,  \* the frames extracted
    reach    \* the highest cell read

vars == <<sent, bytes, beyond, phase, head, start, curLoc, lastEnd, frames, reach>>

memory == bytes \o beyond

NoHead == [class |-> 0]

Init ==
    /\ sent \in Messages
    /\ bytes = PackMessage(sent)
    /\ beyond \in Beyond
    /\ phase = "header"
    /\ head = NoHead
    /\ start = 1 /\ curLoc = 1 /\ lastEnd = 1
    /\ frames = <<>>
    /\ reach = 0

Highest(i) == IF i > reach THEN i ELSE reach

\* unpackMessage: the header, whose size is recomputed from its values.
unpackHeader ==
    /\ phase = "header"
    /\ phase' = "frames"
    /\ head' = rebuildHeader(memory)
    /\ start' = getSerializedSizeOfHeader(head') + 1
    /\ curLoc' = start' /\ lastEnd' = start'
    /\ reach' = Highest(start' - 1)
    /\ UNCHANGED <<sent, bytes, beyond, frames>>

\* Fault: the loop runs to the last byte.
MoreFrames_ToTheEnd == lastEnd - start < Len(bytes) - (start - 1)

\* The condition of the loop of extractFrames.
MoreFrames == lastEnd - start + 2 < Len(bytes) - (start - 1)

frameType == unpackLogVarInt(memory, curLoc)

\* Fault: the end of the frame is not reported.
unpackTransitMetadata_NoEnd ==
    /\ phase = "frames" /\ MoreFrames
    /\ frameType = 0
    /\ LET atTotal    == curLoc + 5
           total      == unpackLogVarInt(memory, atTotal)
           atSpecific == atTotal + getSizeOfLVIToPack(total)
           specific   == unpackLogVarInt(memory, atSpecific)
       IN  frames' = <<TransitMetadata(Value(memory, curLoc + 1, 4, memory[curLoc + 1]), total, specific)>>
    /\ curLoc' = lastEnd + 1
    /\ UNCHANGED <<sent, bytes, beyond, phase, head, start, lastEnd, reach>>

unpackTransitMetadata ==
    /\ phase = "frames" /\ MoreFrames
    /\ frameType = 0
    /\ LET atTotal    == curLoc + 5
           total      == unpackLogVarInt(memory, atTotal)
           atSpecific == atTotal + getSizeOfLVIToPack(total)
           specific   == unpackLogVarInt(memory, atSpecific)
       IN  /\ frames' = Append(frames, TransitMetadata(
                   Value(memory, curLoc + 1, 4, memory[curLoc + 1]), total, specific))
           /\ lastEnd' = atSpecific + getSizeOfLVIToPack(specific) - 1
    /\ curLoc' = lastEnd' + 1
    /\ reach' = Highest(lastEnd')
    /\ UNCHANGED <<sent, bytes, beyond, phase, head, start>>

\* Bytes from cell i to the next zero.
countUntilTerminator(i) ==
    CHOOSE n \in 0 .. Len(memory) :
        /\ memory[i + n] = 0
        /\ \A k \in i .. i + n - 1 : memory[k] # 0

\* First cell and length of the text of the plaintext frame at curLoc, and the
\* last cell that is read to find them.
TextFirst  == IF frameType = 2 THEN curLoc + 1
              ELSE curLoc + 1 + getSizeOfLVIToPack(unpackLogVarInt(memory, curLoc + 1))
TextLength == IF frameType = 2 THEN countUntilTerminator(TextFirst)
              ELSE unpackLogVarInt(memory, curLoc + 1)
TextRead   == IF frameType = 2 THEN TextFirst + TextLength ELSE TextFirst + TextLength - 1

\* Fault: the end of the frame is taken to be the byte after it.
unpackPlaintext_EndAfter ==
    /\ phase = "frames" /\ MoreFrames
    /\ frameType \in {2, 3}
    /\ frames' = Append(frames, Plaintext(frameType,
                       SubSeq(memory, TextFirst, TextFirst + TextLength - 1)))
    /\ lastEnd' = TextFirst + TextLength
    /\ curLoc' = lastEnd' + 1
    /\ reach' = Highest(TextRead)
    /\ UNCHANGED <<sent, bytes, beyond, phase, head, start>>

\* The terminator of a type 2 text does not belong to the frame.
unpackPlaintext ==
    /\ phase = "frames" /\ MoreFrames
    /\ frameType \in {2, 3}
    /\ frames' = Append(frames, Plaintext(frameType,
                       SubSeq(memory, TextFirst, TextFirst + TextLength - 1)))
    /\ lastEnd' = TextFirst + TextLength - 1
    /\ curLoc' = lastEnd' + 1
    /\ reach' = Highest(TextRead)
    /\ UNCHANGED <<sent, bytes, beyond, phase, head, start>>

\* Every other type: the new slot of the list is not assigned and lastEnd
\* stays.  A row of such slots is kept as one: the loop may make them for ever.
Unset == [unset |-> TRUE]

unknownFrame ==
    /\ phase = "frames" /\ MoreFrames
    /\ frameType \notin {0, 2, 3}
    /\ frames' = IF frames # <<>> /\ frames[Len(frames)] = Unset THEN frames ELSE Append(frames, Unset)
    /\ curLoc' = lastEnd + 1
    /\ reach' = Highest(curLoc + LogVarIntSize(memory, curLoc) - 1)
    /\ UNCHANGED <<sent, bytes, beyond, phase, head, start, lastEnd>>

extracted ==
    /\ phase = "frames" /\ ~MoreFrames
    /\ phase' = "done"
    /\ UNCHANGED <<sent, bytes, beyond, head, start, curLoc, lastEnd, frames, reach>>

-----------------------------------------------------------------------------
Next ==
    unpackHeader \/ unpackTransitMetadata \/ unpackPlaintext \/ unknownFrame \/ extracted

Spec == Init /\ [][Next]_vars

\* The thread that unpacks runs.
FairSpec == Spec /\ WF_vars(Next)

-----------------------------------------------------------------------------
\* The messages the program packs: of types extractFrames knows, with a text
\* without length only at the end, and more than two bytes of frames (every
\* caller starts with transit metadata).  Without these conditions the message
\* is not understood: see the lists of MCWire.
Extractable ==
    LET n == Len(sent.frames) IN
    /\ \A i \in 1 .. n : sent.frames[i].type # 1
    /\ \A i \in 1 .. n - 1 : sent.frames[i].type # 2
    /\ PackedSize(sent) > getSerializedSizeOfHeader(sent.head) + 2

\* The pointers stay in the buffer: a frame ends where its bytes end.
TypeOK ==
    /\ phase \in {"header", "frames", "done"}
    /\ start \in 1 .. Len(bytes) + 1
    /\ lastEnd \in 1 .. Len(bytes)
    /\ curLoc \in 1 .. Len(bytes) + 1
    /\ phase = "header" <=> head = NoHead

\* PackMessage allocates what it writes, not a byte more or less: the sizes are
\* computed by other functions than the bytes (MessageReader.c:18-34), and
\* RunClient gives the same sum to StreamSend (QMSP_Runner.c:868-893).
BufferFilled == Len(bytes) = PackedSize(sent)

\* Unpacking reads nothing behind the buffer, although no reader of a frame
\* looks at the byteCount it is given (Frames.c:7-19, 22, 93, 148).
ReadsInside == reach <= Len(bytes)

\* A message of this program is unpacked to what was packed: the same header,
\* the same frames in the same order, none invented and none lost, over every
\* width of every integer (MessageReader.c:40-67).
RoundTrip == phase = "done" /\ Extractable => head = sent.head /\ frames = sent.frames

\* The loop ends for every message of this program.
UnpackingEnds == Extractable ~> phase = "done"
=============================================================================
