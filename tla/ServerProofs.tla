---------------------------- MODULE ServerProofs ----------------------------
(***************************************************************************)
(* The safety properties of the server, for any number of connections and  *)
(* of streams and messages on each.                                        *)
(***************************************************************************)
EXTENDS Server, TLAPS

\* The handles of main at each of its places.
Handles ==
    /\ main = "load" => configuration = "none"
    /\ main \in {"open", "start", "wait", "stop"} => configuration = "open"
    /\ main \in {"registration", "exit"} => configuration # "open"
    /\ main \in {"load", "open", "config", "registration", "exit"} =>
          listener \in {"none", "closed"}
    /\ main = "start" => listener = "open"
    /\ main = "wait" => listener = "started"
    /\ main = "stop" => listener \in {"open", "started"}

\* A connection handle is open exactly while msquic has the connection, and
\* messages are applied only while it is connected.
ConnectionLife ==
    \A c \in Conns :
        /\ conn[c] = "open" <=> link[c] \in {"handshake", "connected", "shutting"}
        /\ worker[c] > 0 => link[c] = "connected"

\* A stream handle is open exactly while msquic has the stream; a reply is
\* made once, when the peer is done, and is msquic's until it is freed.
StreamLife ==
    \A s \in Streams :
        /\ strm[s] = "open" <=> Live(s)
        /\ Live(s) => link[Of(s)] \in {"connected", "shutting"}
        /\ owed[s] => Live(s)
        /\ owed[s] <=> reply[s] = "allocated"
        /\ recv[s] \in {"none", "open"} => reply[s] = "none"

Inv == TypeOK /\ Handles /\ ConnectionLife /\ StreamLife /\ NoMisuse /\ CleanExit /\ NoHalfOpenStream

LEMMA InitInv == Init => Inv
  BY MessagesAssumption
  DEF Init, Inv, TypeOK, Handles, ConnectionLife, StreamLife, NoMisuse, CleanExit,
      NoHalfOpenStream, Live, Streams

\* A step of main, or Enter: the objects of peers are untouched.
LEMMA MainStep == Inv /\ (Main \/ Enter) => Inv'
<1> SUFFICES ASSUME Inv, Main \/ Enter PROVE Inv'
  OBVIOUS
<1> USE DEF Inv, connVars, strmVars
<1>1. UNCHANGED <<link, conn, worker, recv, send, unread, strm, reply, owed>>
  BY DEF Main, Enter, ServerLoadConfiguration, ListenerOpen, ListenerStart, ListenerClose,
         ConfigurationClose, RegistrationClose
<1>2. Handles'
  BY DEF Main, Enter, ServerLoadConfiguration, ListenerOpen, ListenerStart, ListenerClose,
         ConfigurationClose, RegistrationClose, Handles, TypeOK
<1>3. NoMisuse'
  BY DEF Main, Enter, ServerLoadConfiguration, ListenerOpen, ListenerStart, ListenerClose,
         ConfigurationClose, RegistrationClose, Handles, NoMisuse, Using
<1>4. TypeOK'
  <2>1. /\ main' \in {"load", "open", "start", "wait", "stop", "config", "registration", "exit"}
        /\ configuration' \in {"none", "open", "closed"}
        /\ listener' \in {"none", "open", "started", "closed"}
    BY DEF Main, Enter, ServerLoadConfiguration, ListenerOpen, ListenerStart, ListenerClose,
           ConfigurationClose, RegistrationClose, TypeOK
  <2> QED
    BY <1>1, <1>3, <2>1 DEF TypeOK, NoMisuse
<1>5. ConnectionLife' /\ StreamLife' /\ NoHalfOpenStream'
  BY <1>1 DEF ConnectionLife, StreamLife, NoHalfOpenStream, Live
<1>6. CleanExit'
  <2> SUFFICES ASSUME main' = "exit" PROVE CleanExit'
    BY DEF CleanExit
  <2>1. RegistrationClose
    BY DEF Main, Enter, ServerLoadConfiguration, ListenerOpen, ListenerStart, ListenerClose,
           ConfigurationClose, RegistrationClose
  <2>2. \A c \in Conns : worker'[c] = 0 /\ conn'[c] # "open"
    BY <1>1, <2>1 DEF RegistrationClose, ConnectionLife, TypeOK
  <2>3. \A s \in Streams : strm'[s] # "open" /\ reply'[s] # "allocated"
    BY <1>1, <2>1 DEF RegistrationClose, StreamLife, TypeOK
  <2>4. {configuration', listener'} \cap {"open", "started"} = {}
    BY <2>1 DEF RegistrationClose, Handles, TypeOK
  <2> QED
    BY <2>2, <2>3, <2>4 DEF CleanExit
<1> QED
  BY <1>2, <1>3, <1>4, <1>5, <1>6

\* While a peer can do anything main has not returned: what it might use is
\* then closed.
LEMMA NotExited ==
    ASSUME Inv, main = "exit"
    PROVE  /\ listener # "started"
           /\ \A c \in Conns : link[c] \notin {"handshake", "connected", "shutting"} /\ worker[c] = 0
           /\ \A s \in Streams : ~Live(s)
  BY DEF Inv, CleanExit, ConnectionLife, StreamLife

\* A callback of the listener or of a connection, or a message applied.
LEMMA ConnectionStep ==
    ASSUME Inv, NEW c \in Conns, OfConnection(c) \/ applyMessage(c)
    PROVE  Inv'
<1> USE DEF Inv, mainVars, connVars, strmVars
<1> DEFINE Steps == NewConnection(c) \/ Connected(c) \/ ShutdownInitiated(c)
                       \/ ConnectionShutdownComplete(c) \/ applyMessage(c)
<1>1. Steps
  BY DEF OfConnection
<1>2. /\ UNCHANGED <<main, configuration, listener, recv, send, unread, strm, reply, owed>>
  BY <1>1 DEF NewConnection, Connected, ShutdownInitiated, ConnectionShutdownComplete, applyMessage
<1>3. main # "exit"
  BY <1>1, NotExited
  DEF NewConnection, Connected, ShutdownInitiated, ConnectionShutdownComplete, applyMessage, TypeOK
<1>4. NoMisuse'
  BY <1>1 DEF NewConnection, Connected, ShutdownInitiated, ConnectionShutdownComplete, applyMessage,
              NoMisuse, Using, Handles, ConnectionLife, TypeOK
<1>5. TypeOK'
  <2>1. /\ link' \in [Conns -> {"none", "refused", "handshake", "connected", "shutting", "complete"}]
        /\ conn' \in [Conns -> {"none", "open", "closed"}]
    BY <1>1 DEF NewConnection, Connected, ShutdownInitiated, ConnectionShutdownComplete, applyMessage, TypeOK
  <2>2. CASE applyMessage(c)
    <3>1. worker[c] - 1 \in 0 .. MaxMessages
      BY <2>2, MessagesAssumption DEF applyMessage, TypeOK
    <3>2. worker' \in [Conns -> 0 .. MaxMessages]
      BY <2>2, <3>1 DEF applyMessage, TypeOK
    <3> QED
      BY <1>2, <1>4, <2>1, <3>2 DEF TypeOK, NoMisuse
  <2>3. CASE ~applyMessage(c)
    <3>1. UNCHANGED worker
      BY <1>1, <2>3 DEF NewConnection, Connected, ShutdownInitiated, ConnectionShutdownComplete
    <3> QED
      BY <1>2, <1>4, <2>1, <3>1 DEF TypeOK, NoMisuse
  <2> QED
    BY <2>2, <2>3
<1>6. ConnectionLife'
  <2>1. CASE NewConnection(c)
    BY <2>1 DEF NewConnection, ConnectionLife, TypeOK
  <2>2. CASE Connected(c)
    BY <2>2 DEF Connected, ConnectionLife, TypeOK
  <2>3. CASE ShutdownInitiated(c)
    BY <2>3 DEF ShutdownInitiated, ConnectionLife, TypeOK
  <2>4. CASE ConnectionShutdownComplete(c)
    BY <2>4 DEF ConnectionShutdownComplete, ConnectionLife, TypeOK
  <2>5. CASE applyMessage(c)
    BY <2>5, MessagesAssumption DEF applyMessage, ConnectionLife, TypeOK, connVars
  <2> QED
    BY <1>1, <2>1, <2>2, <2>3, <2>4, <2>5
<1>7. StreamLife'
  <2> SUFFICES ASSUME NEW s \in Streams, Live(s) PROVE link'[Of(s)] \in {"connected", "shutting"}
    BY <1>2 DEF StreamLife, Live
  <2>1. link[Of(s)] \in {"connected", "shutting"}
    BY DEF StreamLife
  <2>2. s = <<Of(s), s[2]>> /\ Of(s) \in Conns /\ s[2] \in PeerStreams
    BY DEF Streams, Of
  <2>3. CASE Of(s) # c
    BY <1>1, <2>1, <2>2, <2>3
    DEF NewConnection, Connected, ShutdownInitiated, ConnectionShutdownComplete, applyMessage, TypeOK, connVars
  <2>4. CASE Of(s) = c
    <3>1. ~ConnectionShutdownComplete(c)
      BY <2>2, <2>4 DEF ConnectionShutdownComplete
    <3> QED
      BY <1>1, <2>1, <2>2, <2>4, <3>1
      DEF NewConnection, Connected, ShutdownInitiated, applyMessage, TypeOK, connVars
  <2> QED
    BY <2>3, <2>4
<1>8. Handles' /\ NoHalfOpenStream' /\ CleanExit'
  BY <1>2, <1>3 DEF Handles, NoHalfOpenStream, CleanExit
<1> QED
  BY <1>4, <1>5, <1>6, <1>7, <1>8

-----------------------------------------------------------------------------
\* The parts of the invariant that speak of one stream.
StreamOK(s) ==
    /\ recv[s] \in {"none", "open", "fin", "aborted", "ended"}
    /\ send[s] \in {"none", "open", "fin", "acked", "reset", "ended"}
    /\ unread[s] \in 0 .. MaxMessages
    /\ strm[s] \in {"none", "open", "closed"}
    /\ reply[s] \in {"none", "allocated", "freed"}
    /\ owed[s] \in BOOLEAN
    /\ strm[s] = "open" <=> Live(s)
    /\ Live(s) => link[Of(s)] \in {"connected", "shutting"}
    /\ owed[s] => Live(s)
    /\ owed[s] <=> reply[s] = "allocated"
    /\ recv[s] \in {"none", "open"} => reply[s] = "none"
    /\ recv[s] \in {"fin", "aborted"} => send[s] # "open"

\* A callback of a stream keeps its part (ServerStreamCallback, and
\* PEER_STREAM_STARTED of ServerConnectionCallback).
LEMMA StreamCallback ==
    ASSUME Inv, NEW s \in Streams, OfStream(s)
    PROVE  StreamOK(s)' /\ NoMisuse'
<1> USE DEF StreamOK, Live, connVars
<1>1. StreamOK(s) /\ NoMisuse
  BY DEF Inv, TypeOK, StreamLife, NoHalfOpenStream
<1>2. s \in DOMAIN recv /\ s \in DOMAIN send /\ s \in DOMAIN unread
      /\ s \in DOMAIN strm /\ s \in DOMAIN reply /\ s \in DOMAIN owed
  BY DEF Inv, TypeOK
<1>3. CASE PeerStreamStarted(s)
  BY <1>1, <1>2, <1>3, MessagesAssumption DEF PeerStreamStarted, NoMisuse
<1>4. CASE Receive(s)
  <2>1. PICK n \in 1 .. unread[s] : unread' = [unread EXCEPT ![s] = @ - n]
    BY <1>4 DEF Receive
  <2>2. unread'[s] \in 0 .. MaxMessages
    BY <1>1, <1>2, <2>1, MessagesAssumption
  <2> QED
    BY <1>1, <1>4, <2>2 DEF Receive, NoMisuse
<1>5. CASE PeerSendShutdown(s)
  BY <1>1, <1>2, <1>5, MessagesAssumption
  DEF PeerSendShutdown, ServerSend, Abort, Callback, Using, NoMisuse
<1>6. CASE PeerSendAborted(s)
  BY <1>1, <1>2, <1>6, MessagesAssumption
  DEF PeerSendAborted, Abort, Callback, Using, NoMisuse
<1>7. CASE PeerReceiveAborted(s)
  BY <1>1, <1>2, <1>7 DEF PeerReceiveAborted, NoMisuse
<1>8. CASE SendComplete(s)
  BY <1>1, <1>2, <1>8 DEF SendComplete, Callback, NoMisuse
<1>9. CASE StreamShutdownComplete(s)
  BY <1>1, <1>2, <1>9 DEF StreamShutdownComplete, Callback, Using, NoMisuse
<1> QED
  BY <1>3, <1>4, <1>5, <1>6, <1>7, <1>8, <1>9 DEF OfStream

\* It leaves the other streams and all connections alone, but for the worker
\* that a RECEIVE sets to work.
LEMMA StreamFrame ==
    ASSUME Inv, NEW s \in Streams, OfStream(s)
    PROVE  /\ UNCHANGED <<main, configuration, listener, link, conn>>
           /\ \A r \in Streams \ {s} :
                 UNCHANGED <<recv[r], send[r], unread[r], strm[r], reply[r], owed[r]>>
           /\ \A f \in {recv, send, unread, strm, reply, owed} : DOMAIN f = Streams
           /\ \A f \in {recv', send', unread', strm', reply', owed'} :
                 DOMAIN f = Streams /\ f = [r \in Streams |-> f[r]]
  BY DEF Inv, OfStream, PeerStreamStarted, Receive, PeerSendShutdown, PeerSendAborted,
         PeerReceiveAborted, SendComplete, StreamShutdownComplete, ServerSend, Abort, TypeOK,
         mainVars, connVars

LEMMA WorkerStep ==
    ASSUME Inv, NEW s \in Streams, OfStream(s)
    PROVE  /\ worker' \in [Conns -> 0 .. MaxMessages]
           /\ \A c \in Conns : worker'[c] > 0 => link[c] = "connected"
<1> USE DEF Inv
<1>1. Of(s) \in Conns
  BY DEF Streams, Of
<1>2. CASE Receive(s)
  <2>1. PICK n \in 1 .. unread[s] : worker' = [worker EXCEPT ![Of(s)] = n]
    BY <1>2 DEF Receive
  <2>2. n \in 0 .. MaxMessages
    BY <2>1, MessagesAssumption DEF TypeOK
  <2> QED
    BY <1>1, <1>2, <2>1, <2>2 DEF Receive, TypeOK, ConnectionLife
<1>3. CASE ~Receive(s)
  <2>1. UNCHANGED worker
    BY <1>3 DEF OfStream, PeerStreamStarted, PeerSendShutdown, PeerSendAborted,
                PeerReceiveAborted, SendComplete, StreamShutdownComplete
  <2> QED
    BY <2>1 DEF TypeOK, ConnectionLife
<1> QED
  BY <1>2, <1>3

LEMMA StreamStep ==
    ASSUME Inv, NEW s \in Streams, OfStream(s)
    PROVE  Inv'
<1>1. main # "exit"
  <2>1. Of(s) \in Conns
    BY DEF Streams, Of
  <2> QED
    BY <2>1, NotExited
    DEF OfStream, PeerStreamStarted, Receive, PeerSendShutdown, PeerSendAborted,
        PeerReceiveAborted, SendComplete, StreamShutdownComplete, Callback
<1>2. \A r \in Streams : StreamOK(r)'
  <2> SUFFICES ASSUME NEW r \in Streams, r # s PROVE StreamOK(r)'
    BY StreamCallback
  <2>1. StreamOK(r)
    BY DEF Inv, StreamOK, TypeOK, StreamLife, NoHalfOpenStream
  <2> QED
    BY <2>1, StreamFrame DEF StreamOK, Live
<1>3. TypeOK'
  <2>1. /\ recv' \in [Streams -> {"none", "open", "fin", "aborted", "ended"}]
        /\ send' \in [Streams -> {"none", "open", "fin", "acked", "reset", "ended"}]
        /\ unread' \in [Streams -> 0 .. MaxMessages]
    BY <1>2, StreamFrame DEF StreamOK
  <2>2. /\ strm' \in [Streams -> {"none", "open", "closed"}]
        /\ reply' \in [Streams -> {"none", "allocated", "freed"}]
        /\ owed' \in [Streams -> BOOLEAN]
    BY <1>2, StreamFrame DEF StreamOK
  <2> QED
    BY <2>1, <2>2, StreamFrame, StreamCallback, WorkerStep DEF Inv, TypeOK, NoMisuse
<1>4. ConnectionLife'
  BY StreamFrame, WorkerStep DEF Inv, ConnectionLife
<1>5. StreamLife' /\ NoHalfOpenStream'
  BY <1>2 DEF StreamLife, NoHalfOpenStream, StreamOK
<1>6. Handles' /\ CleanExit'
  BY <1>1, StreamFrame DEF Inv, Handles, CleanExit
<1> QED
  BY <1>3, <1>4, <1>5, <1>6, StreamCallback DEF Inv

-----------------------------------------------------------------------------
LEMMA InvInductive == Inv /\ [Next]_vars => Inv'
<1> SUFFICES ASSUME Inv, [Next]_vars PROVE Inv'
  OBVIOUS
<1>1. CASE UNCHANGED vars
  BY <1>1
  DEF vars, mainVars, connVars, strmVars, Inv, TypeOK, Handles, ConnectionLife, StreamLife,
      NoMisuse, CleanExit, NoHalfOpenStream, Live
<1>2. CASE Next
  BY <1>2, MainStep, ConnectionStep, StreamStep DEF Next
<1> QED
  BY <1>1, <1>2

LEMMA InvHolds == Spec => []Inv
  BY InitInv, InvInductive, PTL DEF Spec

\* The states of the server's objects, for all its callbacks.
THEOREM TypeCorrect == Spec => []TypeOK
<1>1. Inv => TypeOK
  BY DEF Inv
<1> QED
  BY <1>1, InvHolds, PTL

\* No handle is used before it is open or after it was closed, and no reply is
\* freed twice, whatever order peers, workers and Enter take.
THEOREM NoMisuseHolds == Spec => []NoMisuse
<1>1. Inv => NoMisuse
  BY DEF Inv
<1> QED
  BY <1>1, InvHolds, PTL

\* main returns when every handle is closed, every reply freed and no message
\* half applied (RegistrationClose and the callbacks it waits for).
THEOREM CleanExitHolds == Spec => []CleanExit
<1>1. Inv => CleanExit
  BY DEF Inv
<1> QED
  BY <1>1, InvHolds, PTL

\* A stream the peer is done with is ended by the server too (ServerSend and
\* PEER_SEND_ABORTED).
THEOREM NoHalfOpenStreamHolds == Spec => []NoHalfOpenStream
<1>1. Inv => NoHalfOpenStream
  BY DEF Inv
<1> QED
  BY <1>1, InvHolds, PTL
=============================================================================
