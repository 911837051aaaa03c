------------------------------ MODULE Delivery ------------------------------
(***************************************************************************)
(* From the stream to the chat: the RECEIVE event of a server's stream     *)
(* (QMSP_Runner.c), unpackMessage as in Wire, and what applyMessage        *)
(* (MessageReader.c) hands to the chat store.                              *)
(*                                                                         *)
(* The peer has sent a row of messages on one stream.  A stream has no     *)
(* message boundaries: a buffer of an event may hold one message or        *)
(* several, and the code takes each buffer for one.  Buffers that end in   *)
(* the middle of a message are left out: the code then reads what lies     *)
(* behind the buffer, which no model of the stream determines.             *)
(*                                                                         *)
(* In this module sent of Wire is the message the buffer at hand begins    *)
(* with.  The chat store is module ChatStore; here a call of addNewPost    *)
(* is an element of posts.                                                 *)
(*                                                                         *)
(* Definitions named <definition>_<Fault> are faulty variants of the       *)
(* definition that follows them; no specification uses them.               *)
(***************************************************************************)
EXTENDS Wire

CONSTANTS
    Streams,  \* rows of messages a peer may send on a stream
    Leftover, \* what may lie in memory behind the text of a frame
    ChunkLen  \* the buffer through which addNewPost writes a text, 1024

\* What applyMessage takes every message for: one with two frames, transit
\* metadata and a text, and, if it is a control message, with the data flag.
IsPost(m) ==
    /\ m.head.class = m.head.data
    /\ Len(m.frames) = 2
    /\ m.frames[1].type = 0
    /\ m.frames[2].type \in {2, 3}

ASSUME StreamsAssumption == Streams \subseteq Seq({m \in Messages : IsPost(m)})
ASSUME LeftoverAssumption == Leftover \subseteq Seq(Nat)
ASSUME ChunkAssumption == ChunkLen \in Nat \ {0, 1}

VARIABLES
    stream,  \* the messages the peer sent
    rest,    \* those that no event has indicated yet
    serving, \* whether a buffer is being unpacked and applied
    joined,  \* whether some buffer has held more than one message
    posts    \* the calls of addNewPost

dvars == <<stream, rest, serving, joined, posts>>

DeliveryInit ==
    /\ stream \in Streams
    /\ rest = stream
    /\ serving = FALSE
    /\ joined = FALSE
    /\ posts = <<>>
    /\ sent = Head(stream)
    /\ bytes = <<>> /\ beyond \in Beyond
    /\ phase = "done" /\ head = NoHead
    /\ start = 1 /\ curLoc = 1 /\ lastEnd = 1
    /\ frames = <<>> /\ reach = 0

-----------------------------------------------------------------------------
\* The bytes of the first n of the messages to come.
Bundle(n) ==
    LET b[k \in 0 .. n] == IF k = 0 THEN <<>> ELSE b[k - 1] \o PackMessage(rest[k]) IN b[n]

\* The next buffer of a RECEIVE event.
Receive(n) ==
    /\ ~serving
    /\ serving' = TRUE
    /\ sent' = Head(rest)
    /\ bytes' = Bundle(n)
    /\ rest' = SubSeq(rest, n + 1, Len(rest))
    /\ joined' = (joined \/ n > 1)
    /\ phase' = "header" /\ head' = NoHead
    /\ start' = 1 /\ curLoc' = 1 /\ lastEnd' = 1
    /\ frames' = <<>> /\ reach' = 0
    /\ UNCHANGED <<stream, posts, beyond>>

\* The frame at curLoc ends within the memory of the model.  Where it does not,
\* which happens only in a joined buffer, the behaviour of the program is
\* undefined and the model stops.
FrameInMemory ==
    /\ curLoc + 21 <= Len(memory) \* the longest transit metadata
    /\ frameType = 2 => \E i \in curLoc + 1 .. Len(memory) : memory[i] = 0
    /\ frameType = 3 => TextFirst + TextLength <= Len(memory)

UnpackStep ==
    /\ serving
    /\ phase = "frames" /\ MoreFrames => FrameInMemory
    /\ Next
    /\ UNCHANGED dvars

\* A user's id in words of four bytes.
HighWord(v) == Shifted(v)[4]
LowWord(v) == v - HighWord(v) * Base * Base * Base * Base

\* The header as it lies in memory behind the stub, in words of four bytes, the
\* lower word of the user's id first; the structure is packed.
HeaderWords(h) ==
    IF h.class = 0 THEN <<h.chat, LowWord(h.source), HighWord(h.source), h.number>>
                   ELSE <<h.version, h.chat, LowWord(h.source), HighWord(h.source), h.number>>

\* Fault: every header is read as a data header.
idsOf_DataOnly(h) ==
    LET w == HeaderWords(h) IN [chat |-> w[1], user |-> <<w[2], w[3]>>]

\* Chat and user as applyMessage finds them.  The test `*stb >> 7' is meant for
\* the class; in the bit fields of a little-endian machine the top bit is the
\* data flag, and this is what decides where the ids are read.
idsOf(h) ==
    LET w == HeaderWords(h)
        i == IF h.data = 0 THEN 1 ELSE 2
    IN  [chat |-> w[i], user |-> <<w[i + 1], w[i + 2]>>]

\* What strlen counts of s.
UpToZero(s) ==
    SubSeq(s, 1, CHOOSE n \in 0 .. Len(s) : /\ n = Len(s) \/ s[n + 1] = 0
                                           /\ \A i \in 1 .. n : s[i] # 0)

\* Fault: the writing ends with the first chunk.
written_OneChunk(text) == SubSeq(text, 1, IF Len(text) < ChunkLen THEN Len(text) ELSE ChunkLen - 1)

\* addNewPost writes a text in chunks.  snprintf keeps one character of each
\* for the terminator, and the next chunk begins behind the one that is lost.
written(text) ==
    LET chunks == (Len(text) + ChunkLen - 1) \div ChunkLen
        w[k \in 0 .. chunks] ==
          IF k = 0 THEN <<>>
          ELSE w[k - 1] \o SubSeq(text, (k - 1) * ChunkLen + 1,
                                  IF k * ChunkLen <= Len(text) THEN k * ChunkLen - 1 ELSE Len(text))
    IN  w[chunks]

\* The second frame is taken for the text.  unpackPlaintext copies no
\* terminator, so the string goes on into what lies behind it, up to a zero.
applyMessage ==
    /\ serving /\ phase = "done"
    /\ serving' = FALSE
    /\ \E left \in Leftover :
         posts' = Append(posts, [chat |-> idsOf(head).chat, user |-> idsOf(head).user,
                                 text |-> written(UpToZero(frames[2].text \o left))])
    /\ UNCHANGED <<stream, rest, joined, vars>>

-----------------------------------------------------------------------------
DeliveryNext ==
    \/ \E n \in 1 .. Len(rest) : Receive(n)
    \/ UnpackStep
    \/ applyMessage

DeliverySpec == DeliveryInit /\ [][DeliveryNext]_<<vars, dvars>>

\* The worker that serves the stream runs.
DeliveryFairSpec ==
    DeliverySpec /\ WF_<<vars, dvars>>(UnpackStep) /\ WF_<<vars, dvars>>(applyMessage)

-----------------------------------------------------------------------------
(* Properties.                                                              *)

\* What is stored of text t is t, in order and without repetition, but for
\* every ChunkLen-th character.
Keeps(stored, t) ==
    /\ Len(stored) = Len(t) - Len(t) \div ChunkLen
    /\ \A i \in 1 .. Len(stored) : stored[i] = t[i + (i - 1) \div (ChunkLen - 1)]

\* Post p is what message m asks for, with what was left behind its text.
IsPostOf(p, m) ==
    /\ p.chat = m.head.chat
    /\ p.user = <<LowWord(m.head.source), HighWord(m.head.source)>>
    /\ \E left \in Leftover : Keeps(p.text, UpToZero(m.frames[2].text \o left))

\* However the events cut the stream into whole messages, what is posted was
\* sent: in the order of the stream, none twice, each in its sender's name to
\* the chat it names, even where the extraction runs on into the next message
\* (ServerStreamCallback, applyMessage).
PostedInOrder ==
    \E at \in [DOMAIN posts -> DOMAIN stream] :
        /\ \A i, j \in DOMAIN posts : i < j => at[i] < at[j]
        /\ \A i \in DOMAIN posts : IsPostOf(posts[i], stream[at[i]])

\* A message that has a buffer of its own is posted: whatever its class, its
\* widths and its kind of text, the worker neither drops it nor hangs on it.
\* In a joined buffer no more than the first is posted, if anything.
ApartAllPosted == rest = <<>> /\ ~joined ~> Len(posts) = Len(stream)
=============================================================================
