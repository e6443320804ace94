------------------------------ MODULE TaskPool ------------------------------
(***************************************************************************)
(* What src/src/impl/threadpool.hpp promises to its users: a task that was *)
(* enqueued is run at most once per submission, tasks may run at the same  *)
(* time and in any order, and pending tasks are only thrown away while no  *)
(* task is running.  ThreadPool implements this; Processor relies on it.   *)
(***************************************************************************)
CONSTANT Tasks

VARIABLES pending, running

poolVars == <<pending, running>>

PoolTypeOK == pending \subseteq Tasks /\ running \subseteq Tasks

PoolInit == pending = {} /\ running = {}

Submit(t) ==
    /\ t \notin pending \union running
    /\ pending' = pending \union {t}
    /\ UNCHANGED running

Start(t) ==
    /\ t \in pending
    /\ pending' = pending \ {t}
    /\ running' = running \union {t}

Finish(t) ==
    /\ t \in running
    /\ running' = running \ {t}
    /\ UNCHANGED pending

DropAll ==
    /\ running = {}
    /\ pending' = {}
    /\ UNCHANGED running

PoolNext ==
    \/ \E t \in Tasks : Submit(t) \/ Start(t) \/ Finish(t)
    \/ DropAll

PoolSpec == PoolInit /\ [][PoolNext]_poolVars
=============================================================================
