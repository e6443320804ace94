----------------------------- MODULE ThreadPool -----------------------------
(***************************************************************************)
(* The thread pool of src/src/impl/threadpool.{hpp,cpp}: workers that take *)
(* tasks from a priority queue ordered by due time, wait on one condition  *)
(* variable when none is due, and a join() that waits on another until no  *)
(* worker is busy.                                                         *)
(*                                                                         *)
(* An action is one critical section of mMutex, or one access to an atomic *)
(* outside of it.  A waiting thread that was notified, whose wait timed    *)
(* out or that woke up spuriously is "woken": it has left the wait set but *)
(* not yet taken mMutex again, and everybody else may run before it does.  *)
(***************************************************************************)
EXTENDS Integers, FiniteSets

CONSTANTS
    Workers,    \* the threads spawn() starts
    Tasks,      \* each is scheduled at most once
    NoTask,     \* a worker has nothing to run
    ClockBound  \* the clock stops here: bounds the run, not the code

ASSUME WorkersAssumption == IsFiniteSet(Workers) /\ Workers # {}
ASSUME NoTaskAssumption == NoTask \notin Tasks
ASSUME ClockAssumption == ClockBound \in Nat

Never == ClockBound + 1     \* the deadline of a wait without a timeout

VARIABLES
    mTasks,       \* the tasks in the priority queue
    time,         \* time[t]: Task::time
    scheduled,    \* the tasks that were given to schedule() so far
    now,          \* clock::now()
    mBusyWorkers, \* ThreadPool::mBusyWorkers
    mJoining,     \* ThreadPool::mJoining
    worker,       \* worker[w]: where thread w is
    current,      \* current[w]: the task w runs
    until,        \* until[w]: the deadline w waits for
    joiner        \* where the thread in join() and clear() is

queueVars == <<mTasks, time, scheduled>>
workerVars == <<worker, current, until>>
vars == <<mTasks, time, scheduled, now, mBusyWorkers, mJoining, worker, current, until, joiner>>

WorkerStates ==
    {"none",     \* not in mWorkers
     "spawned",  \* the thread exists and has not counted itself busy
     "ready",    \* about to enter dequeue()
     "waiting",  \* in mTasksCondition.wait or wait_until
     "woken",    \* left the wait, needs mMutex
     "running",  \* executes current[w]
     "leaving",  \* dequeue() returned null
     "exited"}   \* the thread function returned

JoinerStates ==
    {"idle",
     "check",     \* in join(), about to test mBusyWorkers == 0
     "blocked",   \* in mWaitingCondition.wait
     "joining",   \* set mJoining, joins the threads
     "clearing"}  \* in clear()

TypeOK ==
    /\ mTasks \subseteq Tasks
    /\ time \in [Tasks -> 0 .. ClockBound]
    /\ scheduled \subseteq Tasks
    /\ now \in 0 .. ClockBound
    /\ mBusyWorkers \in Int
    /\ mJoining \in BOOLEAN
    /\ worker \in [Workers -> WorkerStates]
    /\ current \in [Workers -> Tasks \union {NoTask}]
    /\ until \in [Workers -> 0 .. Never]
    /\ joiner \in JoinerStates

Init ==
    /\ mTasks = {}
    /\ time = [t \in Tasks |-> 0]
    /\ scheduled = {}
    /\ now = 0
    /\ mBusyWorkers = 0
    /\ mJoining = FALSE
    /\ worker = [w \in Workers |-> "none"]
    /\ current = [w \in Workers |-> NoTask]
    /\ until = [w \in Workers |-> Never]
    /\ joiner = "idle"

-----------------------------------------------------------------------------

Waiting == {w \in Workers : worker[w] = "waiting"}

(* Task t may be mTasks.top(): the order of equal times is not specified.    *)
IsTop(t) == t \in mTasks /\ \A u \in mTasks : time[t] <= time[u]

Due(t) == t \in mTasks /\ time[t] <= now

Mut_ScheduleNoNotify(t, when) ==
    /\ t \notin scheduled
    /\ scheduled' = scheduled \union {t}
    /\ mTasks' = mTasks \union {t}
    /\ time' = [time EXCEPT ![t] = when]
    /\ UNCHANGED <<now, mBusyWorkers, mJoining, workerVars, joiner>>

(* ThreadPool::schedule(time, f) and, with when = now, enqueue(f): pushes    *)
(* the task and notifies one of the waiting workers, if there is any.        *)
Schedule(t, when) ==
    /\ t \notin scheduled
    /\ scheduled' = scheduled \union {t}
    /\ mTasks' = mTasks \union {t}
    /\ time' = [time EXCEPT ![t] = when]
    /\ \/ /\ Waiting = {}
          /\ UNCHANGED worker
       \/ \E w \in Waiting : worker' = [worker EXCEPT ![w] = "woken"]
    /\ UNCHANGED <<now, mBusyWorkers, mJoining, current, until, joiner>>

(* ThreadPool::spawn, called by Init::doInit, never during join().           *)
Spawn ==
    /\ joiner = "idle"
    /\ \A w \in Workers : worker[w] = "none"
    /\ worker' = [w \in Workers |-> "spawned"]
    /\ UNCHANGED <<queueVars, now, mBusyWorkers, mJoining, current, until, joiner>>

(* ThreadPool::run up to the loop: ++mBusyWorkers, without mMutex.           *)
RunBegin(w) ==
    /\ worker[w] = "spawned"
    /\ worker' = [worker EXCEPT ![w] = "ready"]
    /\ mBusyWorkers' = mBusyWorkers + 1
    /\ UNCHANGED <<queueVars, now, mJoining, current, until, joiner>>

(* The value of mBusyWorkers once w holds mMutex again: the scope guard of   *)
(* the wait counts w back in.                                                *)
BusyWith(w) == mBusyWorkers + (IF worker[w] = "woken" THEN 1 ELSE 0)

Mut_DequeueTaskNoPop(w, t) ==
    /\ worker[w] \in {"ready", "woken"}
    /\ ~mJoining
    /\ IsTop(t) /\ Due(t)
    /\ mBusyWorkers' = BusyWith(w)
    /\ worker' = [worker EXCEPT ![w] = "running"]
    /\ current' = [current EXCEPT ![w] = t]
    /\ UNCHANGED <<queueVars, now, mJoining, until, joiner>>

(* One pass of the loop of ThreadPool::dequeue, under mMutex.                *)
DequeueTask(w, t) ==
    /\ worker[w] \in {"ready", "woken"}
    /\ ~mJoining
    /\ IsTop(t) /\ Due(t)
    /\ mTasks' = mTasks \ {t}
    /\ mBusyWorkers' = BusyWith(w)
    /\ worker' = [worker EXCEPT ![w] = "running"]
    /\ current' = [current EXCEPT ![w] = t]
    /\ UNCHANGED <<time, scheduled, now, mJoining, until, joiner>>

Mut_DequeueWaitNoDeadline(w) ==
    /\ worker[w] \in {"ready", "woken"}
    /\ ~mJoining
    /\ \A t \in mTasks : ~Due(t)
    /\ mBusyWorkers' = BusyWith(w) - 1
    /\ worker' = [worker EXCEPT ![w] = "waiting"]
    /\ until' = [until EXCEPT ![w] = Never]
    /\ joiner' = IF joiner = "blocked" THEN "check" ELSE joiner
    /\ UNCHANGED <<queueVars, now, mJoining, current>>

DequeueWait(w) ==
    /\ worker[w] \in {"ready", "woken"}
    /\ ~mJoining
    /\ \A t \in mTasks : ~Due(t)
    /\ mBusyWorkers' = BusyWith(w) - 1
    /\ worker' = [worker EXCEPT ![w] = "waiting"]
    /\ \/ /\ mTasks = {}
          /\ until' = [until EXCEPT ![w] = Never]
       \/ \E t \in mTasks : IsTop(t) /\ until' = [until EXCEPT ![w] = time[t]]
    /\ joiner' = IF joiner = "blocked" THEN "check" ELSE joiner
    /\ UNCHANGED <<queueVars, now, mJoining, current>>

DequeueNull(w) ==
    /\ worker[w] \in {"ready", "woken"}
    /\ mJoining
    /\ mBusyWorkers' = BusyWith(w)
    /\ worker' = [worker EXCEPT ![w] = "leaving"]
    /\ UNCHANGED <<queueVars, now, mJoining, current, until, joiner>>

(* wait_until reaches its deadline, or a wait wakes up for no reason.        *)
WaitTimeout(w) ==
    /\ worker[w] = "waiting"
    /\ until[w] <= now
    /\ worker' = [worker EXCEPT ![w] = "woken"]
    /\ UNCHANGED <<queueVars, now, mBusyWorkers, mJoining, current, until, joiner>>

SpuriousWakeup(w) ==
    /\ worker[w] = "waiting"
    /\ until[w] > now
    /\ worker' = [worker EXCEPT ![w] = "woken"]
    /\ UNCHANGED <<queueVars, now, mBusyWorkers, mJoining, current, until, joiner>>

(* ThreadPool::runOne: the task returns or throws into its future.           *)
TaskReturns(w) ==
    /\ worker[w] = "running"
    /\ worker' = [worker EXCEPT ![w] = "ready"]
    /\ current' = [current EXCEPT ![w] = NoTask]
    /\ UNCHANGED <<queueVars, now, mBusyWorkers, mJoining, until, joiner>>

(* ThreadPool::run after the loop: --mBusyWorkers, without mMutex.           *)
RunEnd(w) ==
    /\ worker[w] = "leaving"
    /\ worker' = [worker EXCEPT ![w] = "exited"]
    /\ mBusyWorkers' = mBusyWorkers - 1
    /\ UNCHANGED <<queueVars, now, mJoining, current, until, joiner>>

-----------------------------------------------------------------------------

(* ThreadPool::join is called, by Init::doCleanup.                           *)
JoinCall ==
    /\ joiner = "idle"
    /\ \A w \in Workers : worker[w] # "none"
    /\ joiner' = "check"
    /\ UNCHANGED <<queueVars, now, mBusyWorkers, mJoining, workerVars>>

(* The predicate of mWaitingCondition.wait is false: release mMutex, block.  *)
JoinBlock ==
    /\ joiner = "check"
    /\ mBusyWorkers # 0
    /\ joiner' = "blocked"
    /\ UNCHANGED <<queueVars, now, mBusyWorkers, mJoining, workerVars>>

JoinSpuriousWakeup ==
    /\ joiner = "blocked"
    /\ joiner' = "check"
    /\ UNCHANGED <<queueVars, now, mBusyWorkers, mJoining, workerVars>>

(* The predicate holds: mJoining = true and notify_all, under mMutex.        *)
JoinBegin ==
    /\ joiner = "check"
    /\ mBusyWorkers = 0
    /\ mJoining' = TRUE
    /\ worker' = [w \in Workers |-> IF w \in Waiting THEN "woken" ELSE worker[w]]
    /\ joiner' = "joining"
    /\ UNCHANGED <<queueVars, now, mBusyWorkers, current, until>>

(* All threads were joined: mWorkers.clear() and mJoining = false.           *)
JoinEnd ==
    /\ joiner = "joining"
    /\ \A w \in Workers : worker[w] = "exited"
    /\ worker' = [w \in Workers |-> "none"]
    /\ mJoining' = FALSE
    /\ joiner' = "clearing"
    /\ UNCHANGED <<queueVars, now, mBusyWorkers, current, until>>

(* ThreadPool::clear.                                                        *)
Clear ==
    /\ joiner = "clearing"
    /\ mTasks' = {}
    /\ joiner' = "idle"
    /\ UNCHANGED <<time, scheduled, now, mBusyWorkers, mJoining, workerVars>>

Tick ==
    /\ now < ClockBound
    /\ now' = now + 1
    /\ UNCHANGED <<queueVars, mBusyWorkers, mJoining, workerVars, joiner>>

-----------------------------------------------------------------------------

Dequeue(w) == (\E t \in Tasks : DequeueTask(w, t)) \/ DequeueWait(w) \/ DequeueNull(w)

WorkerStep(w) == RunBegin(w) \/ Dequeue(w) \/ WaitTimeout(w) \/ TaskReturns(w) \/ RunEnd(w)

JoinerStep == JoinBlock \/ JoinBegin \/ JoinEnd \/ Clear

Next ==
    \/ \E t \in Tasks : \E when \in now .. ClockBound : Schedule(t, when)
    \/ Spawn
    \/ \E w \in Workers : WorkerStep(w) \/ SpuriousWakeup(w)
    \/ JoinCall
    \/ JoinSpuriousWakeup
    \/ JoinerStep
    \/ Tick

(* A thread that can run does, tasks return, and time passes.  Nobody has to *)
(* schedule, spawn or join, and a wakeup without a notification may not come.*)
Fairness ==
    /\ \A w \in Workers : WF_vars(WorkerStep(w))
    /\ WF_vars(JoinerStep)
    /\ WF_vars(Tick)

Spec == Init /\ [][Next]_vars /\ Fairness

-----------------------------------------------------------------------------

Busy == {w \in Workers : worker[w] \in {"ready", "running", "leaving"}}

(* The atomic counter join() waits on is the number of threads that are in   *)
(* run() and not waiting, although half of its updates are made without      *)
(* mMutex and half with it.                                                  *)
BusyCount == mBusyWorkers = Cardinality(Busy)

(* Workers and tasks agree: a worker is running exactly while it has a task, *)
(* no two have the same one, and no task is queued and run at once.          *)
Ownership ==
    /\ \A w \in Workers : (worker[w] = "running") <=> (current[w] # NoTask)
    /\ \A w, v \in Workers : current[w] = current[v] /\ current[w] # NoTask => w = v
    /\ \A w \in Workers : current[w] \notin mTasks
    /\ \A w \in Workers : current[w] # NoTask => current[w] \in scheduled
    /\ mTasks \subseteq scheduled

(* Once join() has seen no busy worker, no task is run until the pool is     *)
(* spawned again: clear() only destroys tasks nobody executes.               *)
JoinQuiet ==
    /\ mJoining <=> joiner = "joining"
    /\ joiner \in {"joining", "clearing"} => \A w \in Workers : worker[w] # "running"
    /\ joiner = "clearing" => \A w \in Workers : worker[w] = "none"
    /\ \A w \in Workers : worker[w] \in {"leaving", "exited"} => joiner = "joining"
    /\ joiner = "joining" => \A w \in Workers : worker[w] # "waiting"

Awake(w) == worker[w] \notin {"none", "waiting", "exited"}

(* No wakeup is lost: when tasks are queued and the pool is up, a worker is  *)
(* awake or one waits with a deadline no later than the first of them.       *)
NoLostWakeup ==
    \/ mTasks = {}
    \/ \A w \in Workers : worker[w] \in {"none", "exited"}
    \/ \E w \in Workers : Awake(w)
    \/ \E w \in Waiting : \A t \in mTasks : until[w] <= time[t]

(* The workers exist all together or not at all.                             *)
AllOrNone ==
    \/ \A w \in Workers : worker[w] = "none"
    \/ \A w \in Workers : worker[w] # "none"

(* The inductive invariant of the pool.                                      *)
PoolInv == TypeOK /\ BusyCount /\ Ownership /\ JoinQuiet /\ AllOrNone /\ NoLostWakeup

(* A due task leaves the queue: a worker takes it, or join() and clear() do. *)
DueTaskTaken ==
    \A t \in Tasks : Due(t) /\ (\E w \in Workers : worker[w] # "none") ~> ~Due(t)

(* join() and clear() return, unless tasks keep coming due: the joiner's     *)
(* notification is not lost.                                                 *)
JoinTerminates ==
    []<>(\E t \in Tasks : Due(t)) \/ []<>(joiner = "idle")

(* The pool implements what its users rely on.                               *)
Abstract == INSTANCE TaskPool WITH
    pending <- mTasks,
    running <- {current[w] : w \in {v \in Workers : worker[v] = "running"}}

ImplementsTaskPool == Abstract!PoolSpec

\* No wakeup of schedule() or of join() is lost.
PoolProgress == DueTaskTaken /\ JoinTerminates
=============================================================================
