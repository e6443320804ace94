------------------------------- MODULE MCCApi -------------------------------
(* CApi and GlobalInit for TLC, in one run: a behaviour is one of the part     *)
(* that the initial state chooses.                                            *)
EXTENDS GlobalInit, CApi

VARIABLE part

allVars == <<part, vars, cVars>>

AllInit ==
    /\ part \in {"api", "init"} /\ Init /\ CInit
    /\ part = "init" => topic = "receive"

Api(A) == part = "api" /\ A /\ UNCHANGED <<part, vars>>
Global(A) == part = "init" /\ A /\ UNCHANGED <<part, cVars>>

AllNext == Api(CNext) \/ Global(Next)

\* What is fair in one part shares a formula with what is fair in the other.
AllSpec ==
    /\ AllInit /\ [][AllNext]_allVars
    /\ WF_allVars(Api(Callback) \/ Global(CleanupReturns))
    /\ WF_allVars(Api(\E t \in Threads : Call(t)))
    /\ \A p \in Payloads : WF_allVars(Global(CleanupThread(p)))

\* rtcCleanup returns, in the tables of the C API and in Init::cleanup(), unless
\* it destroys an object with the mutex that a callback waits for.
CleanupsEnd == CleanupTerminates /\ CleanupEnds
=============================================================================
