-------------------------- MODULE WebSocketServer --------------------------
(***************************************************************************)
(* The server: the thread that accepts connections and hands them to the   *)
(* application, and stop(), which closes the listening socket, wakes the   *)
(* thread up and joins it.  stop() may be called by two threads of the     *)
(* application and, from the client callback, by the thread itself.        *)
(***************************************************************************)
EXTENDS Integers, FiniteSets

CONSTANTS Callers,   \* threads of the application that call stop()
          NConn      \* connections that come in

ASSUME NConnIsNatural == NConn \in Nat
ASSUME ServerIsNoCaller == "server" \notin Callers

VARIABLES
    spc,        \* where the server thread is: runLoop() and accept()
    listening,  \* mSock of the TcpServer is valid
    intr,       \* the interrupter is signalled
    onClient,   \* clientCallback is set
    backlog,    \* connections of the listening socket
    arrived, accepted, dropped,   \* connections: in all, handed over, closed
    mStopped,
    stopper     \* where the calls of stop() are

srvVars == <<spc, listening, intr, onClient, backlog, arrived, accepted, dropped, mStopped, stopper>>

SrvInit ==
    /\ spc = "prepare" /\ listening = TRUE /\ intr = FALSE /\ onClient = FALSE
    /\ backlog = 0 /\ arrived = 0 /\ accepted = 0 /\ dropped = 0 /\ mStopped = FALSE
    /\ stopper = [c \in Callers \cup {"server"} |-> "none"]

-----------------------------------------------------------------------------
(* The server thread *)

\* The head of the loop of accept(), under the mutex of the socket.
Prepare ==
    /\ spc = "prepare" /\ spc' = IF listening THEN "poll" ELSE "ended"
    /\ UNCHANGED <<listening, intr, onClient, backlog, arrived, accepted, dropped, mStopped, stopper>>

\* poll() returns for a connection or for the interrupter.
PollReturns ==
    /\ spc = "poll" /\ (backlog > 0 \/ intr) /\ spc' = "check"
    /\ UNCHANGED <<listening, intr, onClient, backlog, arrived, accepted, dropped, mStopped, stopper>>

\* The rest of the loop, under the mutex again: accept() gives a connection, or
\* the connection is gone or cannot be used, or it fails and ends the server.
Accept ==
    /\ spc = "check"
    /\ IF ~listening THEN spc' = "ended" /\ UNCHANGED <<intr, backlog, dropped>>
       ELSE /\ intr' = FALSE
            /\ IF backlog = 0 THEN spc' = "prepare" /\ UNCHANGED <<backlog, dropped>>
               ELSE \/ spc' = "client" /\ backlog' = backlog - 1 /\ UNCHANGED dropped
                    \/ spc' = "prepare" /\ backlog' = backlog - 1 /\ dropped' = dropped + 1
                    \/ spc' = "failed" /\ UNCHANGED <<backlog, dropped>>
    /\ UNCHANGED <<listening, onClient, arrived, accepted, mStopped, stopper>>

\* runLoop(): without a callback the connection is dropped; the callback may stop
\* the server.
Client ==
    /\ spc = "client"
    /\ IF ~onClient THEN spc' = "prepare" /\ dropped' = dropped + 1 /\ UNCHANGED <<accepted, mStopped, stopper>>
       ELSE /\ accepted' = accepted + 1 /\ UNCHANGED dropped
            /\ \/ spc' = "prepare" /\ UNCHANGED <<mStopped, stopper>>
               \/ /\ stopper.server = "none" /\ spc' = "callback" /\ mStopped' = TRUE
                  /\ stopper' = [stopper EXCEPT !.server = IF mStopped THEN "returned" ELSE "close"]
    /\ UNCHANGED <<listening, intr, onClient, backlog, arrived>>

\* The callback is over: stop() returned, or join() of the own thread threw.
CallbackReturns ==
    /\ spc = "callback" /\ stopper.server \in {"returned", "threw"} /\ spc' = "prepare"
    /\ UNCHANGED <<listening, intr, onClient, backlog, arrived, accepted, dropped, mStopped, stopper>>

-----------------------------------------------------------------------------
(* stop() *)

StopCall(c) ==
    /\ stopper[c] = "none" /\ mStopped' = TRUE
    /\ stopper' = [stopper EXCEPT ![c] = IF mStopped THEN "returned" ELSE "close"]
    /\ UNCHANGED <<spc, listening, intr, onClient, backlog, arrived, accepted, dropped>>

Mut_CloseSilent(c) ==
    /\ stopper[c] = "close" /\ listening' = FALSE
    /\ dropped' = dropped + backlog /\ backlog' = 0
    /\ stopper' = [stopper EXCEPT ![c] = "join"]
    /\ UNCHANGED <<spc, intr, onClient, arrived, accepted, mStopped>>

\* TcpServer::close(): the kernel drops the backlog with the socket.
CloseSocket(c) ==
    /\ stopper[c] = "close" /\ listening' = FALSE /\ intr' = TRUE
    /\ dropped' = dropped + backlog /\ backlog' = 0
    /\ stopper' = [stopper EXCEPT ![c] = "join"]
    /\ UNCHANGED <<spc, onClient, arrived, accepted, mStopped>>

Join(c) ==
    /\ stopper[c] = "join"
    /\ IF c = "server" THEN stopper' = [stopper EXCEPT ![c] = "threw"]
       ELSE spc \in {"ended", "failed"} /\ stopper' = [stopper EXCEPT ![c] = "joined"]
    /\ UNCHANGED <<spc, listening, intr, onClient, backlog, arrived, accepted, dropped, mStopped>>

-----------------------------------------------------------------------------
OnClient ==
    /\ ~onClient /\ onClient' = TRUE
    /\ UNCHANGED <<spc, listening, intr, backlog, arrived, accepted, dropped, mStopped, stopper>>

ClientArrives ==
    /\ listening /\ arrived < NConn /\ arrived' = arrived + 1 /\ backlog' = backlog + 1
    /\ UNCHANGED <<spc, listening, intr, onClient, accepted, dropped, mStopped, stopper>>

Server == Prepare \/ PollReturns \/ Accept \/ Client \/ CallbackReturns
Stopping(c) == CloseSocket(c) \/ Join(c)

SrvNext ==
    \/ Server \/ OnClient \/ ClientArrives
    \/ \E c \in Callers : StopCall(c)
    \/ \E c \in DOMAIN stopper : Stopping(c)

\* The server thread runs, and so does a call of stop() once it is made.
SrvSpec == /\ SrvInit /\ [][SrvNext]_srvVars /\ WF_srvVars(Server)
           /\ \A c \in Callers \cup {"server"} : WF_srvVars(Stopping(c))

-----------------------------------------------------------------------------
\* Whoever stopped the server by joining its thread will see no callback after:
\* the thread is over.  (A second stop() returns at once, while it may still run.)
JoinedIsOver == \A c \in Callers : stopper[c] \in {"joined", "returned"} =>
    \/ spc \in {"ended", "failed"}
    \/ \E d \in DOMAIN stopper \ {c} : stopper[d] \in {"close", "join", "threw"}

\* Every connection is handed to the application once, or closed, or waits.
ConnectionsAccounted ==
    arrived = accepted + dropped + backlog + (IF spc = "client" THEN 1 ELSE 0)

\* A call of stop() ends, whatever the server thread is doing: the interrupter
\* wakes it up.
StopReturns == \A c \in Callers : stopper[c] = "close" ~> stopper[c] = "joined"

\* A connection does not wait for ever, unless an error of accept() has ended the
\* thread with the socket still listening.
BacklogServed == backlog > 0 ~> (backlog = 0 \/ spc = "failed")
=============================================================================
