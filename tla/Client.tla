------------------------------- MODULE Client -------------------------------
(***************************************************************************)
(* The QUIC client of OriginalLinuxCode/QMSP_Runner.c: the thread of       *)
(* main/RunClient, which reads lines from the user, and the msquic worker  *)
(* that runs the callbacks of its one connection and of the stream that    *)
(* ClientSend opens.  Both use the connection handle, without a lock.      *)
(*                                                                         *)
(* A handle is "none", "open" or "closed".  Using or closing a closed      *)
(* handle, freeing a buffer twice and writing through an unset pointer are *)
(* undefined: the model records the object in undefined and, from then on, *)
(* takes no step (any outcome of the build is possible).                   *)
(*                                                                         *)
(* Definitions named <definition>_<Fault> are faulty variants of the       *)
(* definition that follows them; no specification uses them.               *)
(***************************************************************************)
EXTENDS Naturals

VARIABLES
    main,          \* where the thread of main is
    configuration, \* the handle Configuration
    conn,          \* the handle Connection
    link,          \* what msquic knows of the connection
    closing,       \* main is inside ConnectionClose
    worker,        \* "idle", or inside a SHUTDOWN_COMPLETE that found no close in progress
    strm,          \* the stream handle of ClientSend
    flow,          \* what msquic knows of that stream
    buffer,        \* the send buffer of ClientSend
    owed,          \* msquic holds that buffer and will return it
    undefined      \* objects used in an undefined way

connVars == <<conn, link, closing, worker>>
strmVars == <<strm, flow, buffer, owed>>
vars == <<main, configuration, connVars, strmVars, undefined>>

Init ==
    /\ main = "load"
    /\ configuration = "none"
    /\ conn = "none"
    /\ link = "none"
    /\ closing = FALSE
    /\ worker = "idle"
    /\ strm = "none"
    /\ flow = "none"
    /\ buffer = "none"
    /\ owed = FALSE
    /\ undefined = {}

\* The program has a meaning so far.
Defined == undefined = {}

\* The objects a use of the handle misuses.
Using(object, handle) == IF handle = "open" THEN {} ELSE {object}

-----------------------------------------------------------------------------
(* RunClient and the end of main.                                           *)

\* ClientLoadConfiguration: its second call may fail and leave an open handle.
ClientLoadConfiguration ==
    /\ Defined
    /\ main = "load"
    /\ \/ main' = "open" /\ configuration' = "open"
       \/ main' = "config" /\ configuration' \in {"none", "open"}
    /\ UNCHANGED <<connVars, strmVars, undefined>>

ConnectionOpen ==
    /\ Defined
    /\ main = "open"
    /\ \/ main' = "arguments" /\ conn' = "open"
       \/ main' = "config" /\ UNCHANGED conn
    /\ UNCHANGED <<configuration, link, closing, worker, strmVars, undefined>>

\* UserID, conAt or conTo, chat: a missing or bad one leads to Error with a
\* failed Status.
GetArguments ==
    /\ Defined
    /\ main = "arguments"
    /\ main' \in {"connect", "error"}
    /\ UNCHANGED <<configuration, connVars, strmVars, undefined>>

\* ConnectionStart only begins the handshake.
ConnectionStart ==
    /\ Defined
    /\ main = "connect"
    /\ \/ main' = "input" /\ link' = "handshake"
       \/ main' = "error" /\ UNCHANGED link
    /\ UNCHANGED <<configuration, conn, closing, worker, strmVars, undefined>>

\* fgets and the test of the line.  strcmp is zero only for "logout" at the
\* end of the input, without a newline; every other line leaves the loop.
ReadLine ==
    /\ Defined
    /\ main = "input"
    /\ main' \in {"send", "logout"}
    /\ UNCHANGED <<configuration, connVars, strmVars, undefined>>

\* The rest of the loop builds a message and writes it to *SendBuffer, a
\* pointer that is never set.
SendLine ==
    /\ Defined
    /\ main = "send"
    /\ undefined' = undefined \cup {"SendBuffer"}
    /\ UNCHANGED <<main, configuration, connVars, strmVars>>

\* StreamSend on the handle of a connection is refused.
LogOut ==
    /\ Defined
    /\ main = "logout"
    /\ main' = "error"
    /\ undefined' = undefined \cup Using("Connection", conn)
    /\ UNCHANGED <<configuration, connVars, strmVars>>

\* Error: with a failed Status: ConnectionClose, which tells msquic that the
\* handle is being closed ...
BeginConnectionClose ==
    /\ Defined
    /\ main = "error"
    /\ undefined' = undefined \cup Using("Connection", conn)
    /\ main' = "closing"
    /\ closing' = TRUE
    /\ link' = CASE link = "none"                       -> "complete"
                 [] link \in {"handshake", "connected"} -> "shutting"
                 [] OTHER                               -> link
    /\ UNCHANGED <<configuration, conn, worker, strmVars>>

\* ... and returns when the worker has gone through the shutdown.
EndConnectionClose ==
    /\ Defined
    /\ main = "closing"
    /\ link = "complete"
    /\ worker = "idle"
    /\ main' = "config"
    /\ conn' = "closed"
    /\ undefined' = undefined \cup Using("Connection", conn)
    /\ UNCHANGED <<configuration, link, closing, worker, strmVars>>

ConfigurationClose ==
    /\ Defined
    /\ main = "config"
    /\ main' = "registration"
    /\ configuration' = IF configuration = "none" THEN "none" ELSE "closed"
    /\ UNCHANGED <<connVars, strmVars, undefined>>

\* RegistrationClose blocks until connection and stream are closed.
RegistrationClose ==
    /\ Defined
    /\ main = "registration"
    /\ "open" \notin {conn, strm}
    /\ main' = "exit"
    /\ UNCHANGED <<configuration, connVars, strmVars, undefined>>

-----------------------------------------------------------------------------
(* ClientConnectionCallback and ClientSend.                                 *)

\* ConnectionShutdown, called when a step of ClientSend fails.
GiveUp == link' = "shutting"

\* Fault: a buffer StreamSend does not take is left to SEND_COMPLETE.
ClientSend_NotFreed ==
    \/ GiveUp /\ UNCHANGED strmVars
    \/ GiveUp /\ strm' = "closed" /\ flow' \in {"dropped", "ended"} /\ UNCHANGED <<buffer, owed>>
    \/ GiveUp /\ strm' = "open" /\ flow' = "started" /\ UNCHANGED <<buffer, owed>>
    \/ GiveUp /\ strm' = "open" /\ flow' = "started" /\ buffer' = "allocated" /\ UNCHANGED owed
    \/ /\ link' = "connected"
       /\ strm' = "open" /\ flow' = "started" /\ buffer' = "allocated" /\ owed' = TRUE

\* Fault: the buffer is freed although msquic has taken it.
ClientSend_FreesAlways ==
    \/ GiveUp /\ UNCHANGED strmVars
    \/ GiveUp /\ strm' = "closed" /\ flow' \in {"dropped", "ended"} /\ UNCHANGED <<buffer, owed>>
    \/ GiveUp /\ strm' = "open" /\ flow' = "started" /\ UNCHANGED <<buffer, owed>>
    \/ GiveUp /\ strm' = "open" /\ flow' = "started" /\ buffer' = "freed" /\ UNCHANGED owed
    \/ /\ link' = "connected"
       /\ strm' = "open" /\ flow' = "started" /\ buffer' = "freed" /\ owed' = TRUE

\* ClientSend: StreamOpen fails; StreamStart fails and the stream is closed
\* (msquic may still report its end); malloc fails; StreamSend fails and the
\* buffer is freed; or msquic has the buffer.
ClientSend ==
    \/ GiveUp /\ UNCHANGED strmVars
    \/ GiveUp /\ strm' = "closed" /\ flow' \in {"dropped", "ended"} /\ UNCHANGED <<buffer, owed>>
    \/ GiveUp /\ strm' = "open" /\ flow' = "started" /\ UNCHANGED <<buffer, owed>>
    \/ GiveUp /\ strm' = "open" /\ flow' = "started" /\ buffer' = "freed" /\ UNCHANGED owed
    \/ /\ link' = "connected"
       /\ strm' = "open" /\ flow' = "started" /\ buffer' = "allocated" /\ owed' = TRUE

\* CONNECTED: ClientSend, on the worker.
Connected ==
    /\ Defined
    /\ link = "handshake"
    /\ ClientSend
    /\ undefined' = undefined \cup Using("Connection", conn)
    /\ UNCHANGED <<main, configuration, conn, closing, worker>>

\* SHUTDOWN_INITIATED_BY_TRANSPORT (no server, idle timeout) or _BY_PEER (the
\* server has ended): only reported.
ShutdownInitiated ==
    /\ Defined
    /\ link \in {"handshake", "connected"}
    /\ link' = "shutting"
    /\ UNCHANGED <<main, configuration, conn, closing, worker, strmVars, undefined>>

\* SHUTDOWN_COMPLETE of the connection, after that of the stream.  msquic tells
\* the callback whether a close is in progress at this moment ...
ConnectionShutdownComplete ==
    /\ Defined
    /\ link = "shutting"
    /\ worker = "idle"
    /\ flow \in {"none", "ended"}
    /\ link' = "complete"
    /\ worker' = IF closing THEN "idle" ELSE "close"
    /\ UNCHANGED <<main, configuration, conn, closing, strmVars, undefined>>

\* ... and if none is, the callback closes the handle.
CallbackClosesConnection ==
    /\ Defined
    /\ worker = "close"
    /\ worker' = "idle"
    /\ conn' = "closed"
    /\ undefined' = undefined \cup Using("Connection", conn)
    /\ UNCHANGED <<main, configuration, link, closing, strmVars>>

-----------------------------------------------------------------------------
(* ClientStreamCallback.                                                    *)

\* SEND_COMPLETE: free the buffer.
SendComplete ==
    /\ Defined
    /\ owed
    /\ link \in {"connected", "shutting"}
    /\ owed' = FALSE
    /\ buffer' = "freed"
    /\ undefined' = undefined \cup (IF buffer = "allocated" THEN {} ELSE {"Buffer"})
    /\ UNCHANGED <<main, configuration, connVars, strm, flow>>

\* Fault: the stream is closed whether or not its owner has closed it already.
StreamShutdownComplete_Unconditional ==
    /\ Defined
    /\ flow \in {"started", "dropped"}
    /\ ~owed
    /\ link \in {"connected", "shutting"}
    /\ flow' = "ended"
    /\ strm' = "closed"
    /\ undefined' = undefined \cup Using("Stream", strm)
    /\ UNCHANGED <<main, configuration, connVars, buffer, owed>>

\* Fault: the end of the stream is only reported.
StreamShutdownComplete_OnlyReported ==
    /\ Defined
    /\ flow \in {"started", "dropped"}
    /\ ~owed
    /\ link \in {"connected", "shutting"}
    /\ flow' = "ended"
    /\ UNCHANGED <<main, configuration, connVars, strm, buffer, owed, undefined>>

\* SHUTDOWN_COMPLETE of the stream - the server has answered or aborted it, or
\* the connection is going down: StreamClose, unless msquic says that the
\* owner has closed the handle already.
StreamShutdownComplete ==
    /\ Defined
    /\ flow \in {"started", "dropped"}
    /\ ~owed
    /\ link \in {"connected", "shutting"}
    /\ flow' = "ended"
    /\ \/ strm = "closed" /\ UNCHANGED <<strm, undefined>>
       \/ /\ strm # "closed"
          /\ strm' = "closed"
          /\ undefined' = undefined \cup Using("Stream", strm)
    /\ UNCHANGED <<main, configuration, connVars, buffer, owed>>

-----------------------------------------------------------------------------
Main ==
    \/ ClientLoadConfiguration \/ ConnectionOpen \/ GetArguments \/ ConnectionStart
    \/ SendLine \/ LogOut \/ BeginConnectionClose \/ EndConnectionClose
    \/ ConfigurationClose \/ RegistrationClose

Worker ==
    \/ SendComplete \/ StreamShutdownComplete
    \/ ConnectionShutdownComplete \/ CallbackClosesConnection

Next == Main \/ ReadLine \/ Worker \/ Connected \/ ShutdownInitiated

Spec == Init /\ [][Next]_vars

\* main runs, and msquic completes what it has begun.  Nothing is assumed of
\* the user, of the server or of the network.
FairSpec ==
    /\ Spec
    /\ WF_vars(Main)
    /\ WF_vars(SendComplete)
    /\ WF_vars(StreamShutdownComplete)
    /\ WF_vars(ConnectionShutdownComplete)
    /\ WF_vars(CallbackClosesConnection)

-----------------------------------------------------------------------------
\* The states of the client's objects; what msquic holds is allocated, and it
\* holds a buffer only for a stream that is still open.
TypeOK ==
    /\ main \in {"load", "open", "arguments", "connect", "input", "send", "logout",
                "error", "closing", "config", "registration", "exit"}
    /\ configuration \in {"none", "open", "closed"}
    /\ conn \in {"none", "open", "closed"}
    /\ link \in {"none", "handshake", "connected", "shutting", "complete"}
    /\ closing \in BOOLEAN
    /\ worker \in {"idle", "close"}
    /\ strm \in {"none", "open", "closed"}
    /\ flow \in {"none", "started", "dropped", "ended"}
    /\ buffer \in {"none", "allocated", "freed"}
    /\ owed \in BOOLEAN /\ (owed => buffer = "allocated" /\ strm = "open")
    /\ undefined \subseteq {"Connection", "Stream", "Buffer", "SendBuffer"}

\* Whichever step of ClientSend fails and however the connection ends, the
\* stream is closed once and the buffer freed once (QMSP_Runner.c:484, 506-508,
\* 541, 571): the worker alone handles both.
StreamAndBufferOnce == undefined \cap {"Stream", "Buffer"} = {}

\* main returns only when both handles are closed and the buffer is freed,
\* also when ClientSend failed half way (QMSP_Runner.c:915, 962).
CleanExit ==
    main = "exit" => "open" \notin {configuration, conn, strm} /\ buffer # "allocated"

\* Once the user's line has been read the program ends (or has left the
\* language): RegistrationClose does not wait for a stream nobody closes.
Ends == main = "logout" ~> (main = "exit" \/ ~Defined)

\* The connection is closed by main or by the callback, never by both, and not
\* used once it is closed: the test of AppCloseInProgress (QMSP_Runner.c:621-629,
\* "ready to be safely cleaned up").
ConnectionClosedOnce == "Connection" \notin undefined
=============================================================================
