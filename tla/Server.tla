------------------------------- MODULE Server -------------------------------
(***************************************************************************)
(* The QUIC server of OriginalLinuxCode/QMSP_Runner.c: the thread of       *)
(* main/RunServer, which waits for Enter and then takes everything down,   *)
(* and the callbacks msquic makes for the listener, for connections and    *)
(* for streams.  msquic runs the callbacks of one connection one after     *)
(* another and those of different connections in parallel; it is modelled  *)
(* from what the callbacks rely on.  The work inside RECEIVE, applyMessage,*)
(* is the subject of ChatStore; here it only takes time.                   *)
(*                                                                         *)
(* A handle is "none", "open" or "closed"; passing a handle that is not    *)
(* open to msquic, or freeing a reply that is not msquic's to return, is   *)
(* recorded in misused.                                                    *)
(*                                                                         *)
(* Definitions named <definition>_<Fault> are faulty variants of the       *)
(* definition that follows them; no specification uses them.               *)
(***************************************************************************)
EXTENDS Naturals

CONSTANTS
    Conns,       \* connections peers may open
    PeerStreams, \* streams a peer may open on its connection, one at a time
    MaxMessages  \* bound: buffers of messages a peer sends on one stream

ASSUME MessagesAssumption == MaxMessages \in Nat

VARIABLES
    main,          \* where the thread of main is
    configuration, \* the handle Configuration
    listener,      \* the handle Listener, "started" once it accepts
    link,          \* what msquic knows of a connection
    conn,          \* the connection handles
    worker,        \* messages the RECEIVE callback of a connection still has to apply
    recv, send,    \* the two directions of a stream
    unread,        \* buffers of a stream not yet received
    strm,          \* the stream handles
    reply,         \* the send buffer ServerSend allocates for a stream
    owed,          \* msquic holds that buffer and will return it
    misused        \* kinds of objects used or released when they must not be

mainVars == <<main, configuration, listener>>
connVars == <<link, conn>>
strmVars == <<recv, send, unread, strm, reply, owed>>
vars == <<mainVars, connVars, worker, strmVars, misused>>

Streams == Conns \X PeerStreams
Of(s)   == s[1]

\* The kinds of misuse an API call on a handle commits.
Using(kind, handle) == IF handle \in {"open", "started"} THEN {} ELSE {kind}

Init ==
    /\ main = "load"
    /\ configuration = "none"
    /\ listener = "none"
    /\ link = [c \in Conns |-> "none"]
    /\ conn = [c \in Conns |-> "none"]
    /\ worker = [c \in Conns |-> 0]
    /\ recv = [s \in Streams |-> "none"]
    /\ send = [s \in Streams |-> "none"]
    /\ unread = [s \in Streams |-> 0]
    /\ strm = [s \in Streams |-> "none"]
    /\ reply = [s \in Streams |-> "none"]
    /\ owed = [s \in Streams |-> FALSE]
    /\ misused = {}

-----------------------------------------------------------------------------
(* The thread of main.                                                      *)

\* ServerLoadConfiguration: both of its calls may fail, the second one leaves
\* an open Configuration behind.
ServerLoadConfiguration ==
    /\ main = "load"
    /\ \/ /\ main' = "open"
          /\ configuration' = "open"
       \/ /\ main' = "config"
          /\ configuration' \in {"none", "open"}
    /\ UNCHANGED <<listener, connVars, worker, strmVars, misused>>

ListenerOpen ==
    /\ main = "open"
    /\ \/ main' = "start" /\ listener' = "open"
       \/ main' = "config" /\ UNCHANGED listener
    /\ UNCHANGED <<configuration, connVars, worker, strmVars, misused>>

ListenerStart ==
    /\ main = "start"
    /\ \/ main' = "wait" /\ listener' = "started"
       \/ main' = "stop" /\ UNCHANGED listener
    /\ misused' = misused \cup Using("Listener", listener)
    /\ UNCHANGED <<configuration, connVars, worker, strmVars>>

Enter ==
    /\ main = "wait"
    /\ main' = "stop"
    /\ UNCHANGED <<configuration, listener, connVars, worker, strmVars, misused>>

\* Error: of RunServer.  No listener callback runs once the call has returned.
ListenerClose ==
    /\ main = "stop"
    /\ main' = "config"
    /\ listener' = "closed"
    /\ misused' = misused \cup Using("Listener", listener)
    /\ UNCHANGED <<configuration, connVars, worker, strmVars>>

\* Fault: the process exits without waiting for the registration.
ConfigurationClose_Exits ==
    /\ main = "config"
    /\ main' = "exit"
    /\ configuration' = IF configuration = "none" THEN "none" ELSE "closed"
    /\ UNCHANGED <<listener, connVars, worker, strmVars, misused>>

ConfigurationClose ==
    /\ main = "config"
    /\ main' = "registration"
    /\ configuration' = IF configuration = "none" THEN "none" ELSE "closed"
    /\ UNCHANGED <<listener, connVars, worker, strmVars, misused>>

\* RegistrationClose blocks until its connections and their streams are
\* closed; MsQuicClose and the return of main follow.
RegistrationClose ==
    /\ main = "registration"
    /\ \A c \in Conns : conn[c] # "open"
    /\ \A s \in Streams : strm[s] # "open"
    /\ main' = "exit"
    /\ UNCHANGED <<configuration, listener, connVars, worker, strmVars, misused>>

-----------------------------------------------------------------------------
(* ServerListenerCallback and ServerConnectionCallback.                     *)

\* NEW_CONNECTION: a connection that gets no configuration is refused and
\* remains msquic's.
NewConnection(c) ==
    /\ listener = "started"
    /\ link[c] = "none"
    /\ \/ /\ link' = [link EXCEPT ![c] = "handshake"]
          /\ conn' = [conn EXCEPT ![c] = "open"]
       \/ /\ link' = [link EXCEPT ![c] = "refused"]
          /\ UNCHANGED conn
    /\ misused' = misused \cup Using("Configuration", configuration)
    /\ UNCHANGED <<mainVars, worker, strmVars>>

\* CONNECTED: the callback sends a resumption ticket.
Connected(c) ==
    /\ link[c] = "handshake"
    /\ link' = [link EXCEPT ![c] = "connected"]
    /\ misused' = misused \cup Using("Connection", conn[c])
    /\ UNCHANGED <<mainVars, conn, worker, strmVars>>

\* SHUTDOWN_INITIATED_BY_PEER and _BY_TRANSPORT (the idle timeout among
\* others): the callback does nothing.
ShutdownInitiated(c) ==
    /\ link[c] \in {"handshake", "connected"}
    /\ worker[c] = 0
    /\ link' = [link EXCEPT ![c] = "shutting"]
    /\ UNCHANGED <<mainVars, conn, worker, strmVars, misused>>

Live(s) == recv[s] \notin {"none", "ended"}

\* Fault: the connection handle is not closed.
ConnectionShutdownComplete_NotClosed(c) ==
    /\ link[c] = "shutting"
    /\ worker[c] = 0
    /\ \A i \in PeerStreams : ~Live(<<c, i>>)
    /\ link' = [link EXCEPT ![c] = "complete"]
    /\ UNCHANGED <<mainVars, conn, worker, strmVars, misused>>

\* SHUTDOWN_COMPLETE, after that of every stream: ConnectionClose.
ConnectionShutdownComplete(c) ==
    /\ link[c] = "shutting"
    /\ worker[c] = 0
    /\ \A i \in PeerStreams : ~Live(<<c, i>>)
    /\ link' = [link EXCEPT ![c] = "complete"]
    /\ conn' = [conn EXCEPT ![c] = "closed"]
    /\ misused' = misused \cup Using("Connection", conn[c])
    /\ UNCHANGED <<mainVars, worker, strmVars>>

\* PEER_STREAM_STARTED: the configuration lets the peer have one stream at a
\* time (PeerBidiStreamCount); the next one may start when it is done with.
PeerStreamStarted(s) ==
    /\ link[Of(s)] = "connected"
    /\ worker[Of(s)] = 0
    /\ recv[s] = "none"
    /\ \A i \in PeerStreams : ~Live(<<Of(s), i>>)
    /\ recv' = [recv EXCEPT ![s] = "open"]
    /\ send' = [send EXCEPT ![s] = "open"]
    /\ strm' = [strm EXCEPT ![s] = "open"]
    /\ \E n \in 0 .. MaxMessages : unread' = [unread EXCEPT ![s] = n]
    /\ UNCHANGED <<mainVars, connVars, worker, reply, owed, misused>>

-----------------------------------------------------------------------------
(* ServerStreamCallback.                                                    *)

\* The state in which msquic may call back for a stream.
Callback(s) == strm[s] # "none" /\ Live(s) /\ worker[Of(s)] = 0

\* Fault: the loop over the buffers of an event runs once too often.
Receive_OneTooMany(s) ==
    /\ Callback(s)
    /\ link[Of(s)] = "connected"
    /\ recv[s] = "open"
    /\ \E n \in 1 .. unread[s] :
          /\ unread' = [unread EXCEPT ![s] = @ - n]
          /\ worker' = [worker EXCEPT ![Of(s)] = n + 1]
    /\ UNCHANGED <<mainVars, connVars, recv, send, strm, reply, owed, misused>>

\* RECEIVE: one event brings some of the buffers ...
Receive(s) ==
    /\ Callback(s)
    /\ link[Of(s)] = "connected"
    /\ recv[s] = "open"
    /\ \E n \in 1 .. unread[s] :
          /\ unread' = [unread EXCEPT ![s] = @ - n]
          /\ worker' = [worker EXCEPT ![Of(s)] = n]
    /\ UNCHANGED <<mainVars, connVars, recv, send, strm, reply, owed, misused>>

\* ... each of which is unpacked and applied before the callback returns.
applyMessage(c) ==
    /\ worker[c] > 0
    /\ worker' = [worker EXCEPT ![c] = @ - 1]
    /\ UNCHANGED <<mainVars, connVars, strmVars, misused>>

\* StreamShutdown(ABORT): both directions end.
Abort(s) ==
    /\ recv' = [recv EXCEPT ![s] = "aborted"]
    /\ send' = [send EXCEPT ![s] = "reset"]
    /\ unread' = [unread EXCEPT ![s] = 0]

\* Fault: the buffer is freed whether or not StreamSend took it.
ServerSend_FreesAlways(s) ==
    /\ reply' = [reply EXCEPT ![s] = "freed"]
    /\ \/ /\ send[s] = "open"
          /\ send' = [send EXCEPT ![s] = "fin"]
          /\ recv' = [recv EXCEPT ![s] = "fin"]
          /\ owed' = [owed EXCEPT ![s] = TRUE]
          /\ UNCHANGED unread
       \/ Abort(s) /\ UNCHANGED owed

\* ServerSend: the allocation fails, or StreamSend takes the buffer and ends
\* the direction with it (FIN), or StreamSend fails - as it does when the
\* direction has been reset - and the buffer is freed at once.
ServerSend(s) ==
    \/ /\ Abort(s)
       /\ UNCHANGED <<reply, owed>>
    \/ /\ send[s] = "open"
       /\ send' = [send EXCEPT ![s] = "fin"]
       /\ recv' = [recv EXCEPT ![s] = "fin"]
       /\ reply' = [reply EXCEPT ![s] = "allocated"]
       /\ owed' = [owed EXCEPT ![s] = TRUE]
       /\ UNCHANGED unread
    \/ /\ Abort(s)
       /\ reply' = [reply EXCEPT ![s] = "freed"]
       /\ UNCHANGED owed

\* PEER_SEND_SHUTDOWN: everything the peer sent has been received.
PeerSendShutdown(s) ==
    /\ Callback(s)
    /\ link[Of(s)] = "connected"
    /\ recv[s] = "open"
    /\ unread[s] = 0
    /\ ServerSend(s)
    /\ misused' = misused \cup Using("Stream", strm[s])
    /\ UNCHANGED <<mainVars, connVars, worker, strm>>

\* Fault: an abort by the peer is only reported.
PeerSendAborted_OnlyReported(s) ==
    /\ Callback(s)
    /\ link[Of(s)] = "connected"
    /\ recv[s] = "open"
    /\ recv' = [recv EXCEPT ![s] = "aborted"]
    /\ UNCHANGED <<mainVars, connVars, worker, send, unread, strm, reply, owed, misused>>

\* PEER_SEND_ABORTED.
PeerSendAborted(s) ==
    /\ Callback(s)
    /\ link[Of(s)] = "connected"
    /\ recv[s] = "open"
    /\ Abort(s)
    /\ misused' = misused \cup Using("Stream", strm[s])
    /\ UNCHANGED <<mainVars, connVars, worker, strm, reply, owed>>

\* PEER_RECEIVE_ABORTED: msquic resets the sending direction; the callback
\* has no case for it.
PeerReceiveAborted(s) ==
    /\ Callback(s)
    /\ link[Of(s)] = "connected"
    /\ send[s] \in {"open", "fin"}
    /\ send' = [send EXCEPT ![s] = "reset"]
    /\ UNCHANGED <<mainVars, connVars, worker, recv, unread, strm, reply, owed, misused>>

\* SEND_COMPLETE, once for every successful StreamSend - acknowledged, or
\* given up with the direction or the connection: free the buffer.
SendComplete(s) ==
    /\ Callback(s)
    /\ owed[s]
    /\ owed' = [owed EXCEPT ![s] = FALSE]
    /\ send' = [send EXCEPT ![s] = IF @ = "fin" THEN "acked" ELSE @]
    /\ reply' = [reply EXCEPT ![s] = "freed"]
    /\ misused' = misused \cup (IF reply[s] = "allocated" THEN {} ELSE {"Reply"})
    /\ UNCHANGED <<mainVars, connVars, worker, recv, unread, strm>>

\* SHUTDOWN_COMPLETE, when both directions are over and nothing is owed, or
\* the connection is going down: StreamClose.
StreamShutdownComplete(s) ==
    /\ Callback(s)
    /\ ~owed[s]
    /\ \/ link[Of(s)] = "shutting"
       \/ recv[s] # "open" /\ send[s] \in {"acked", "reset"}
    /\ recv' = [recv EXCEPT ![s] = "ended"]
    /\ send' = [send EXCEPT ![s] = "ended"]
    /\ strm' = [strm EXCEPT ![s] = "closed"]
    /\ misused' = misused \cup Using("Stream", strm[s])
    /\ UNCHANGED <<mainVars, connVars, worker, unread, reply, owed>>

-----------------------------------------------------------------------------
Main ==
    \/ ServerLoadConfiguration \/ ListenerOpen \/ ListenerStart
    \/ ListenerClose \/ ConfigurationClose \/ RegistrationClose

OfConnection(c) ==
    NewConnection(c) \/ Connected(c) \/ ShutdownInitiated(c) \/ ConnectionShutdownComplete(c)

OfStream(s) ==
    \/ PeerStreamStarted(s) \/ Receive(s) \/ PeerSendShutdown(s)
    \/ PeerSendAborted(s) \/ PeerReceiveAborted(s)
    \/ SendComplete(s) \/ StreamShutdownComplete(s)

Next ==
    \/ Main
    \/ Enter
    \/ \E c \in Conns : OfConnection(c) \/ applyMessage(c)
    \/ \E s \in Streams : OfStream(s)

Spec == Init /\ [][Next]_vars

\* main runs; calls of applyMessage return (CallsEnd of ChatStore, for the
\* messages it names); msquic completes what it has begun; a connection ends
\* at the latest when its peer has fallen silent for IdleTimeoutMs.
FairSpec ==
    /\ Spec
    /\ WF_vars(Main)
    /\ \A c \in Conns : /\ WF_vars(applyMessage(c))
                        /\ WF_vars(ShutdownInitiated(c))
                        /\ WF_vars(ConnectionShutdownComplete(c))
    /\ \A s \in Streams : /\ WF_vars(SendComplete(s))
                          /\ WF_vars(StreamShutdownComplete(s))

-----------------------------------------------------------------------------
\* The states of the server's objects.
TypeOK ==
    /\ main \in {"load", "open", "start", "wait", "stop", "config", "registration", "exit"}
    /\ configuration \in {"none", "open", "closed"}
    /\ listener \in {"none", "open", "started", "closed"}
    /\ link \in [Conns -> {"none", "refused", "handshake", "connected", "shutting", "complete"}]
    /\ conn \in [Conns -> {"none", "open", "closed"}]
    /\ worker \in [Conns -> 0 .. MaxMessages]
    /\ recv \in [Streams -> {"none", "open", "fin", "aborted", "ended"}]
    /\ send \in [Streams -> {"none", "open", "fin", "acked", "reset", "ended"}]
    /\ unread \in [Streams -> 0 .. MaxMessages]
    /\ strm \in [Streams -> {"none", "open", "closed"}]
    /\ reply \in [Streams -> {"none", "allocated", "freed"}]
    /\ owed \in [Streams -> BOOLEAN]
    /\ misused \subseteq {"Configuration", "Listener", "Connection", "Stream", "Reply"}

\* Whatever order peers, msquic's workers and Enter take, the server passes no
\* handle to msquic before it is open or after it was closed, and frees every
\* reply at most once: the closes in SHUTDOWN_COMPLETE (QMSP_Runner.c:184,
\* 238), the frees at 125 and 149, and the order of the closes of main against
\* ServerListenerCallback, which uses Configuration.
NoMisuse == misused = {}

\* When main has returned from RegistrationClose, no message is left half
\* applied by a worker, no handle open and no reply allocated: pressing Enter
\* cannot cut an addNewUser in two (QMSP_Runner.c:957-966).
CleanExit ==
    main = "exit" =>
        /\ \A c \in Conns : worker[c] = 0 /\ conn[c] # "open"
        /\ \A s \in Streams : strm[s] # "open" /\ reply[s] # "allocated"
        /\ {configuration, listener} \cap {"open", "started"} = {}

\* Once the peer has finished or given up its direction of a stream, the
\* server has ended the other one or asked for that, so the stream is released
\* and the peer may start its next one without waiting for the idle timeout
\* (QMSP_Runner.c:169, 176, 126).
NoHalfOpenStream ==
    \A s \in Streams : recv[s] \in {"fin", "aborted"} => send[s] # "open"

\* After Enter the program ends: every connection, stream and callback that
\* RegistrationClose waits for is done with at last.
Exits == main = "stop" ~> main = "exit"
=============================================================================
