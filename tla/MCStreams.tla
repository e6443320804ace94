------------------------------ MODULE MCStreams ------------------------------
(* TcpTransport, TlsTransport and WsTransport for TLC, in one run: a behaviour  *)
(* is one of the part that the initial state chooses.                          *)
EXTENDS TcpTransport, TlsTransport, WsTransport

VARIABLE part

allVars == <<part, vars, tlsVars, wsVars>>

AllInit ==
    /\ part \in {"tcp", "tls", "ws"} /\ Init /\ TlsInit /\ WsInit
    /\ part # "tls" => backend = "openssl"
    /\ part # "ws" => stream[2] = <<"http", "ok">>

Tcp(A) == part = "tcp" /\ A /\ UNCHANGED <<part, tlsVars, wsVars>>
Tls(A) == part = "tls" /\ A /\ UNCHANGED <<part, vars, wsVars>>
Ws(A) == part = "ws" /\ A /\ UNCHANGED <<part, vars, tlsVars>>

AllNext == Tcp(Next) \/ Tls(TlsNext) \/ Ws(WsNext)

\* The fairness of the three specifications: one part runs, so that what is fair
\* in each can share a formula.
AllSpec ==
    /\ AllInit /\ [][AllNext]_allVars
    /\ WF_allVars(Tcp(~overlap /\ Worker) \/ Tls(TlsLibrary) \/ Ws(CloseTimeout))
    /\ WF_allVars(Tcp(~overlap /\ App)) /\ WF_allVars(Tcp(~overlap /\ Poll)) /\ WF_allVars(Tcp(~overlap /\ Kernel))

\* Queues are flushed, attempts to connect come to a result, and closing and
\* stopping end.
StreamsProgress == QueueFlushed /\ ConnectSettles /\ StopEnds /\ CloseEnds
=============================================================================
