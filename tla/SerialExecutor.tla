--------------------------- MODULE SerialExecutor ---------------------------
(***************************************************************************)
(* What src/src/impl/processor.hpp promises: "Processed tasks in order".   *)
(* Each processor executes its jobs one at a time, in the order in which   *)
(* they were enqueued; different processors are independent.               *)
(***************************************************************************)
EXTENDS Sequences

CONSTANTS Processors, Jobs, NoJob

VARIABLES
    queue,    \* queue[p]: the jobs enqueued on p and not started, oldest first
    active    \* active[p]: the job p executes

execVars == <<queue, active>>

ExecTypeOK ==
    /\ queue \in [Processors -> Seq(Jobs)]
    /\ active \in [Processors -> Jobs \union {NoJob}]

ExecInit ==
    /\ queue = [p \in Processors |-> <<>>]
    /\ active = [p \in Processors |-> NoJob]

ExecSubmit(p, j) ==
    /\ queue' = [queue EXCEPT ![p] = Append(@, j)]
    /\ UNCHANGED active

ExecStart(p) ==
    /\ active[p] = NoJob
    /\ queue[p] # <<>>
    /\ active' = [active EXCEPT ![p] = Head(queue[p])]
    /\ queue' = [queue EXCEPT ![p] = Tail(@)]

ExecFinish(p) ==
    /\ active[p] # NoJob
    /\ active' = [active EXCEPT ![p] = NoJob]
    /\ UNCHANGED queue

ExecNext ==
    \E p \in Processors :
        \/ \E j \in Jobs : ExecSubmit(p, j)
        \/ ExecStart(p)
        \/ ExecFinish(p)

ExecSpec == ExecInit /\ [][ExecNext]_execVars
=============================================================================
