----------------------------- MODULE MCWebSocket -----------------------------
(* WebSocket and WebSocketServer for TLC, in one run: a behaviour is one of the *)
(* part that the initial state chooses.                                        *)
EXTENDS WebSocket, WebSocketServer

VARIABLE part

allVars == <<part, vars, srvVars>>

Socket(proxy, secure, passive) == [proxy |-> proxy, secure |-> secure, passive |-> passive, opens |-> 1]
MCConfigs == {Socket(TRUE, FALSE, FALSE), Socket(FALSE, TRUE, FALSE), Socket(FALSE, FALSE, TRUE)}

AllInit ==
    /\ part \in {"socket", "server"} /\ Init /\ SrvInit
    /\ part = "server" => config.passive

Ws(A) == part = "socket" /\ A /\ UNCHANGED <<part, srvVars>>
Srv(A) == part = "server" /\ A /\ UNCHANGED <<part, vars>>

AllNext == Ws(Next) \/ Srv(SrvNext)

\* The fairness of the two specifications: one part runs, so that what is fair in
\* each can share a formula.
AllSpec ==
    /\ AllInit /\ [][AllNext]_allVars
    /\ WF_allVars(Ws(Run("app")) \/ Srv(Server))
    /\ WF_allVars(Ws(TimerThread) \/ Srv(Stopping("server")))
    /\ WF_allVars(Ws(Run("poll")) \/ Srv(Stopping("a")))
    /\ WF_allVars(Ws(Run("pool")) \/ Srv(Stopping("b")))
    /\ WF_allVars(Ws(~revived /\ Closer))

\* Threads that open, connect, close and stop at once: a WebSocket that is closed
\* keeps and leaks no transport and is reported once, one that is open has one, and a
\* server that is stopped has no thread and no connection unaccounted for.
WebSocketsInv ==
    /\ ClosedHasNothing
    /\ OpenHasTransport
    /\ ClosedOnce
    /\ NoLeak
    /\ JoinedIsOver
    /\ ConnectionsAccounted

\* Connecting, closing and stopping end, and clients are served.
WebSocketProgress == ConnectingEnds /\ ClosingEnds /\ StopReturns /\ BacklogServed
=============================================================================
