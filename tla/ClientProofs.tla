---------------------------- MODULE ClientProofs ----------------------------
(***************************************************************************)
(* The client releases its stream and its buffer once, and main returns    *)
(* with nothing left.  Client has no constants: the theorems say, without  *)
(* enumerating states, why this does not depend on the order of the        *)
(* callbacks.                                                              *)
(***************************************************************************)
EXTENDS Client, TLAPS

\* The connection: a handle is open while msquic has the connection, and the
\* callback that closes it runs when msquic is done with it.
ConnectionLife ==
    /\ main \in {"load", "open"} => conn = "none"
    /\ main \in {"arguments", "connect"} => conn = "open" /\ link = "none"
    /\ conn = "none" => link = "none" /\ main \in {"load", "open", "config", "registration", "exit"}
    /\ link \in {"handshake", "connected", "shutting"} => conn = "open"
    /\ worker = "close" => link = "complete"
    /\ main \in {"load", "registration", "exit"} => configuration # "open"

\* The stream and its buffer: who has to release them at each moment.
StreamLife ==
    /\ link \in {"none", "handshake"} => flow = "none"
    /\ link = "complete" => flow \in {"none", "ended"}
    /\ flow = "none" <=> strm = "none"
    /\ strm = "open" <=> flow = "started"
    /\ flow = "none" => buffer = "none"
    /\ buffer = "allocated" <=> owed

Inv == TypeOK /\ ConnectionLife /\ StreamLife /\ StreamAndBufferOnce /\ CleanExit

LEMMA InitInv == Init => Inv
  BY DEF Init, Inv, TypeOK, ConnectionLife, StreamLife, StreamAndBufferOnce, CleanExit

\* A step of main: stream and buffer are untouched, and RegistrationClose
\* waits for them.
LEMMA MainStep == Inv /\ (Main \/ ReadLine) => Inv'
<1> SUFFICES ASSUME Inv, Main \/ ReadLine PROVE Inv'
  OBVIOUS
<1> USE DEF Inv, connVars, strmVars
<1>1. CASE ClientLoadConfiguration
  BY <1>1 DEF ClientLoadConfiguration, TypeOK, ConnectionLife, StreamLife, StreamAndBufferOnce, CleanExit
<1>2. CASE ConnectionOpen
  BY <1>2 DEF ConnectionOpen, TypeOK, ConnectionLife, StreamLife, StreamAndBufferOnce, CleanExit
<1>3. CASE GetArguments
  BY <1>3 DEF GetArguments, TypeOK, ConnectionLife, StreamLife, StreamAndBufferOnce, CleanExit
<1>4. CASE ConnectionStart
  BY <1>4 DEF ConnectionStart, TypeOK, ConnectionLife, StreamLife, StreamAndBufferOnce, CleanExit
<1>5. CASE ReadLine
  BY <1>5 DEF ReadLine, TypeOK, ConnectionLife, StreamLife, StreamAndBufferOnce, CleanExit
<1>6. CASE SendLine
  BY <1>6 DEF SendLine, TypeOK, ConnectionLife, StreamLife, StreamAndBufferOnce, CleanExit
<1>7. CASE LogOut
  BY <1>7 DEF LogOut, Using, TypeOK, ConnectionLife, StreamLife, StreamAndBufferOnce, CleanExit
<1>8. CASE BeginConnectionClose
  <2>1. /\ main = "error" /\ main' = "closing" /\ closing' = TRUE
        /\ UNCHANGED <<configuration, conn, worker, strm, flow, buffer, owed>>
        /\ undefined' \subseteq undefined \cup {"Connection"}
    BY <1>8 DEF BeginConnectionClose, Using
  <2>2. /\ link = "none" => link' = "complete"
        /\ link \in {"handshake", "connected"} => link' = "shutting"
        /\ link \in {"shutting", "complete"} => link' = link
        /\ link \in {"none", "handshake", "connected", "shutting", "complete"}
    BY <1>8 DEF BeginConnectionClose, TypeOK
  <2>3. TypeOK' /\ StreamAndBufferOnce'
    BY <2>1, <2>2 DEF TypeOK, StreamAndBufferOnce
  <2>4. ConnectionLife'
    BY <2>1, <2>2 DEF ConnectionLife
  <2>5. StreamLife'
    BY <2>1, <2>2 DEF StreamLife
  <2> QED
    BY <2>1, <2>3, <2>4, <2>5 DEF CleanExit
<1>9. CASE EndConnectionClose
  BY <1>9 DEF EndConnectionClose, Using, TypeOK, ConnectionLife, StreamLife, StreamAndBufferOnce, CleanExit
<1>10. CASE ConfigurationClose
  BY <1>10 DEF ConfigurationClose, TypeOK, ConnectionLife, StreamLife, StreamAndBufferOnce, CleanExit
<1>11. CASE RegistrationClose
  BY <1>11 DEF RegistrationClose, TypeOK, ConnectionLife, StreamLife, StreamAndBufferOnce, CleanExit
<1> QED
  BY <1>1, <1>2, <1>3, <1>4, <1>5, <1>6, <1>7, <1>8, <1>9, <1>10, <1>11 DEF Main

\* A callback, whichever step of ClientSend fails.
LEMMA CallbackStep == Inv /\ (Worker \/ Connected \/ ShutdownInitiated) => Inv'
<1> SUFFICES ASSUME Inv, Worker \/ Connected \/ ShutdownInitiated PROVE Inv'
  OBVIOUS
<1> USE DEF Inv, connVars, strmVars
<1>1. CASE Connected
  <2>1. /\ link = "handshake" /\ conn = "open" /\ flow = "none" /\ strm = "none"
        /\ buffer = "none" /\ owed = FALSE
    BY <1>1 DEF Connected, ConnectionLife, StreamLife, TypeOK
  <2>2. /\ UNCHANGED <<main, configuration, conn, closing, worker, undefined>>
        /\ link' \in {"connected", "shutting"}
    BY <1>1, <2>1 DEF Connected, ClientSend, GiveUp, Using
  <2>3. \/ strm' = "none" /\ flow' = "none" /\ buffer' = "none" /\ owed' = FALSE
        \/ /\ strm' = "closed" /\ flow' \in {"dropped", "ended"}
           /\ buffer' = "none" /\ owed' = FALSE
        \/ /\ strm' = "open" /\ flow' = "started"
           /\ buffer' \in {"none", "freed"} /\ owed' = FALSE
        \/ strm' = "open" /\ flow' = "started" /\ buffer' = "allocated" /\ owed' = TRUE
    BY <1>1, <2>1 DEF Connected, ClientSend
  <2>4. /\ strm' \in {"none", "open", "closed"}
        /\ flow' \in {"none", "started", "dropped", "ended"}
        /\ buffer' \in {"none", "allocated", "freed"}
        /\ owed' \in BOOLEAN /\ (owed' => buffer' = "allocated" /\ strm' = "open")
    BY <2>3
  <2>5. TypeOK' /\ StreamAndBufferOnce'
    BY <2>2, <2>4 DEF TypeOK, StreamAndBufferOnce
  <2>6. ConnectionLife' /\ StreamLife'
    BY <2>1, <2>2, <2>3 DEF ConnectionLife, StreamLife
  <2>7. CleanExit'
    BY <2>1, <2>2 DEF CleanExit
  <2> QED
    BY <2>5, <2>6, <2>7
<1>2. CASE ShutdownInitiated
  BY <1>2 DEF ShutdownInitiated, TypeOK, ConnectionLife, StreamLife, StreamAndBufferOnce, CleanExit
<1>3. CASE SendComplete
  BY <1>3 DEF SendComplete, TypeOK, ConnectionLife, StreamLife, StreamAndBufferOnce, CleanExit
<1>4. CASE StreamShutdownComplete
  BY <1>4 DEF StreamShutdownComplete, Using, TypeOK, ConnectionLife, StreamLife,
              StreamAndBufferOnce, CleanExit
<1>5. CASE ConnectionShutdownComplete
  BY <1>5 DEF ConnectionShutdownComplete, TypeOK, ConnectionLife, StreamLife,
              StreamAndBufferOnce, CleanExit
<1>6. CASE CallbackClosesConnection
  BY <1>6 DEF CallbackClosesConnection, Using, TypeOK, ConnectionLife, StreamLife,
              StreamAndBufferOnce, CleanExit
<1> QED
  BY <1>1, <1>2, <1>3, <1>4, <1>5, <1>6 DEF Worker

LEMMA InvHolds == Spec => []Inv
<1>1. Inv /\ [Next]_vars => Inv'
  <2> SUFFICES ASSUME Inv, [Next]_vars PROVE Inv'
    OBVIOUS
  <2>1. CASE UNCHANGED vars
    BY <2>1 DEF vars, connVars, strmVars, Inv, TypeOK, ConnectionLife, StreamLife,
                StreamAndBufferOnce, CleanExit
  <2>2. CASE Next
    BY <2>2, MainStep, CallbackStep DEF Next
  <2> QED
    BY <2>1, <2>2
<1> QED
  BY <1>1, InitInv, PTL DEF Spec

\* The states of the client's objects; a buffer is held only for a stream that
\* is still open (ClientSend).
THEOREM TypeCorrect == Spec => []TypeOK
<1>1. Inv => TypeOK
  BY DEF Inv
<1> QED
  BY <1>1, InvHolds, PTL

\* Whichever step of ClientSend fails and however the connection ends, the
\* stream is closed once and the buffer freed once (ClientSend and
\* ClientStreamCallback).
THEOREM ReleasedOnce == Spec => []StreamAndBufferOnce
<1>1. Inv => StreamAndBufferOnce
  BY DEF Inv
<1> QED
  BY <1>1, InvHolds, PTL

\* main returns with every handle closed and the buffer freed
\* (RegistrationClose).
THEOREM CleanExitHolds == Spec => []CleanExit
<1>1. Inv => CleanExit
  BY DEF Inv
<1> QED
  BY <1>1, InvHolds, PTL
=============================================================================
