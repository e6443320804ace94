----------------------------- MODULE Processor -----------------------------
(***************************************************************************)
(* The processors of src/src/impl/processor.{hpp,cpp}.  A PeerConnection,  *)
(* an SctpTransport and the TearDownProcessor each run their callbacks and *)
(* deferred work through one: enqueue() hands a job to the thread pool if  *)
(* none of this processor is there, and queues it otherwise; the guard     *)
(* around every job hands over the next one when the job returns.          *)
(*                                                                         *)
(* The pool is seen through TaskPool: the jobs of all processors compete   *)
(* for its workers, which may start them in any order.  A job is identified *)
(* with the closure that wraps it and may be enqueued again once it has    *)
(* been executed.  An action is one critical section of Processor::mMutex  *)
(* (which encloses the pool's) or one step of the pool.                    *)
(***************************************************************************)
EXTENDS Naturals, Sequences

CONSTANTS
    Processors,
    Jobs,
    NoJob,
    Owner(_)    \* the processor a job is enqueued on

ASSUME OwnerAssumption == \A j \in Jobs : Owner(j) \in Processors
ASSUME NoJobAssumption == NoJob \notin Jobs

VARIABLES
    mTasks,     \* mTasks[p]: Processor::mTasks
    mPending,   \* mPending[p]: Processor::mPending
    pending,    \* the jobs queued in the thread pool
    running,    \* the closures a worker has taken and not yet destroyed
    returned,   \* those among them whose body returned, guard still to run
    chained,    \* those whose guard has run: only their destruction is left
    joiner      \* joiner[p]: the thread in Processor::join

vars == <<mTasks, mPending, pending, running, returned, chained, joiner>>

Pool == INSTANCE TaskPool WITH Tasks <- Jobs

JoinerStates == {"none", "check", "blocked", "done"}

TypeOK ==
    /\ mTasks \in [Processors -> Seq(Jobs)]
    /\ mPending \in [Processors -> BOOLEAN]
    /\ pending \subseteq Jobs
    /\ running \subseteq Jobs
    /\ returned \subseteq running
    /\ chained \subseteq running
    /\ joiner \in [Processors -> JoinerStates]

Init ==
    /\ mTasks = [p \in Processors |-> <<>>]
    /\ mPending = [p \in Processors |-> FALSE]
    /\ Pool!PoolInit
    /\ returned = {}
    /\ chained = {}
    /\ joiner = [p \in Processors |-> "none"]

-----------------------------------------------------------------------------

Queued(j) == \E i \in 1 .. Len(mTasks[Owner(j)]) : mTasks[Owner(j)][i] = j

(* The closure j does not exist yet, or was executed and destroyed.          *)
Idle(j) == j \notin pending \union running /\ ~Queued(j)

Mut_EnqueueAlways(j) ==
    /\ Idle(j)
    /\ Pool!Submit(j)
    /\ mPending' = [mPending EXCEPT ![Owner(j)] = TRUE]
    /\ UNCHANGED <<mTasks, returned, chained, joiner>>

(* Processor::enqueue.                                                       *)
Enqueue(j) ==
    /\ Idle(j)
    /\ \/ /\ ~mPending[Owner(j)]
          /\ Pool!Submit(j)
          /\ mPending' = [mPending EXCEPT ![Owner(j)] = TRUE]
          /\ UNCHANGED mTasks
       \/ /\ mPending[Owner(j)]
          /\ mTasks' = [mTasks EXCEPT ![Owner(j)] = Append(@, j)]
          /\ UNCHANGED <<mPending, pending, running>>
    /\ UNCHANGED <<returned, chained, joiner>>

(* A worker of the pool takes the closure and calls it.                      *)
Start(j) ==
    /\ Pool!Start(j)
    /\ UNCHANGED <<mTasks, mPending, returned, chained, joiner>>

(* bound() returns or throws; the guard has not run yet.                     *)
BodyReturns(j) ==
    /\ j \in running \ (returned \union chained)
    /\ returned' = returned \union {j}
    /\ UNCHANGED <<mTasks, mPending, pending, running, chained, joiner>>

Mut_ScheduleLast(j) ==
    LET p == Owner(j) IN
    /\ j \in returned
    /\ returned' = returned \ {j}
    /\ chained' = chained \union {j}
    /\ \/ /\ mTasks[p] # <<>>
          /\ Pool!Submit(mTasks[p][Len(mTasks[p])])
          /\ mTasks' = [mTasks EXCEPT ![p] = SubSeq(@, 1, Len(@) - 1)]
          /\ UNCHANGED <<mPending, joiner>>
       \/ /\ mTasks[p] = <<>>
          /\ mPending' = [mPending EXCEPT ![p] = FALSE]
          /\ joiner' = [joiner EXCEPT ![p] = IF @ = "blocked" THEN "check" ELSE @]
          /\ UNCHANGED <<mTasks, pending, running>>

Mut_ScheduleKeepsPending(j) ==
    LET p == Owner(j) IN
    /\ j \in returned
    /\ returned' = returned \ {j}
    /\ chained' = chained \union {j}
    /\ \/ /\ mTasks[p] # <<>>
          /\ Pool!Submit(Head(mTasks[p]))
          /\ mTasks' = [mTasks EXCEPT ![p] = Tail(@)]
          /\ UNCHANGED <<mPending, joiner>>
       \/ /\ mTasks[p] = <<>>
          /\ joiner' = [joiner EXCEPT ![p] = IF @ = "blocked" THEN "check" ELSE @]
          /\ UNCHANGED <<mPending, mTasks, pending, running>>

(* Processor::schedule, called by the guard of job j on the worker's thread: *)
(* the next job goes to the pool, or the processor becomes idle and whoever  *)
(* waits in join() is notified.                                              *)
Schedule(j) ==
    LET p == Owner(j) IN
    /\ j \in returned
    /\ returned' = returned \ {j}
    /\ chained' = chained \union {j}
    /\ \/ /\ mTasks[p] # <<>>
          /\ Pool!Submit(Head(mTasks[p]))
          /\ mTasks' = [mTasks EXCEPT ![p] = Tail(@)]
          /\ UNCHANGED <<mPending, joiner>>
       \/ /\ mTasks[p] = <<>>
          /\ mPending' = [mPending EXCEPT ![p] = FALSE]
          /\ joiner' = [joiner EXCEPT ![p] = IF @ = "blocked" THEN "check" ELSE @]
          /\ UNCHANGED <<mTasks, pending, running>>

(* ThreadPool::runOne destroys the closure, and what it kept alive, after    *)
(* the guard has run.                                                        *)
Destroy(j) ==
    /\ j \in chained
    /\ Pool!Finish(j)
    /\ chained' = chained \ {j}
    /\ UNCHANGED <<mTasks, mPending, returned, joiner>>

(* Processor::join, called by the destructor of the owner: on any thread but *)
(* one that executes the body of a job of p (that thread would wait for      *)
(* itself); a worker that destroys a closure may run it.                     *)
JoinCall(p) ==
    /\ joiner[p] \in {"none", "done"}
    /\ joiner' = [joiner EXCEPT ![p] = "check"]
    /\ UNCHANGED <<mTasks, mPending, pending, running, returned, chained>>

(* The predicate of mCondition.wait, evaluated under mMutex.                 *)
JoinCheck(p) ==
    /\ joiner[p] = "check"
    /\ joiner' = [joiner EXCEPT ![p] = IF ~mPending[p] /\ mTasks[p] = <<>>
                                       THEN "done" ELSE "blocked"]
    /\ UNCHANGED <<mTasks, mPending, pending, running, returned, chained>>

JoinSpuriousWakeup(p) ==
    /\ joiner[p] = "blocked"
    /\ joiner' = [joiner EXCEPT ![p] = "check"]
    /\ UNCHANGED <<mTasks, mPending, pending, running, returned, chained>>

(* What the pool and its workers do with j: one of these at a time.          *)
JobStep(j) == Start(j) \/ BodyReturns(j) \/ Schedule(j) \/ Destroy(j)

Next ==
    \/ \E j \in Jobs : Enqueue(j) \/ Start(j) \/ BodyReturns(j) \/ Schedule(j) \/ Destroy(j)
    \/ \E p \in Processors : JoinCall(p) \/ JoinCheck(p) \/ JoinSpuriousWakeup(p)

(* The pool runs every task it is given (ThreadPool!DueTaskTaken), jobs      *)
(* return, and a thread in join() that is not blocked goes on.  Nobody has   *)
(* to enqueue or join, and no wakeup without a notification has to come.     *)
Fairness ==
    /\ \A j \in Jobs : WF_vars(JobStep(j))
    /\ \A p \in Processors : WF_vars(JoinCheck(p))

Spec == Init /\ [][Next]_vars /\ Fairness

-----------------------------------------------------------------------------

(* The jobs the pool holds or executes, up to the end of their guard.        *)
InPool == (pending \union running) \ chained

(* mPending is "true iff a task is pending in the thread pool": the pool     *)
(* never holds two jobs of one processor, and holds one exactly while        *)
(* mPending is set, although enqueue() and schedule() run on different       *)
(* threads.  Jobs wait in mTasks only behind one in the pool.                *)
OneInPool ==
    /\ \A j, k \in InPool : Owner(j) = Owner(k) => j = k
    /\ pending \intersect running = {}
    /\ returned \intersect chained = {}
    /\ \A p \in Processors : mPending[p] <=> \E j \in InPool : Owner(j) = p
    /\ \A p \in Processors : ~mPending[p] => mTasks[p] = <<>>

(* Every queued job waits at its own processor, once, and not in the pool.   *)
QueuesDisjoint ==
    \A p \in Processors :
        /\ \A i, k \in 1 .. Len(mTasks[p]) : mTasks[p][i] = mTasks[p][k] => i = k
        /\ \A i \in 1 .. Len(mTasks[p]) :
              Owner(mTasks[p][i]) = p /\ mTasks[p][i] \notin pending \union running

(* A thread blocked in join() has something to wait for, and somebody left   *)
(* to notify it: its wakeup is not lost.                                     *)
JoinerNotified ==
    \A p \in Processors : joiner[p] = "blocked" => mPending[p]

(* The inductive invariant of the processors.                                *)
ProcessorInv == TypeOK /\ OneInPool /\ QueuesDisjoint /\ JoinerNotified

(* The jobs of p in execution order: the one in the pool, then the queue.    *)
Backlog(p) ==
    LET next == {j \in pending : Owner(j) = p}
    IN  (IF next = {} THEN <<>> ELSE <<CHOOSE j \in next : TRUE>>) \o mTasks[p]

ActiveJob(p) ==
    LET executing == {j \in running \ (returned \union chained) : Owner(j) = p}
    IN  IF executing = {} THEN NoJob ELSE CHOOSE j \in executing : TRUE

(* Processors implement serial execution in the order of enqueue().          *)
Serial == INSTANCE SerialExecutor WITH
    queue <- [p \in Processors |-> Backlog(p)],
    active <- [p \in Processors |-> ActiveJob(p)]

ImplementsSerialExecutor == Serial!ExecSpec

(* Processors use the pool as TaskPool allows: no closure is submitted twice.*)
UsesTaskPool == Pool!PoolSpec

(* Every enqueued job is executed.                                           *)
JobExecuted == \A j \in Jobs : (j \in pending \/ Queued(j)) ~> j \in returned

(* join() returns, unless the processor never runs out of jobs.              *)
JoinTerminates ==
    \A p \in Processors : []<>mPending[p] \/ []<>(joiner[p] \in {"none", "done"})

\* Jobs are executed and the destructor of the owner ends.
ProcessorProgress == JobExecuted /\ JoinTerminates
=============================================================================
