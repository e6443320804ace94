--------------------------- MODULE ThreadPoolProofs ---------------------------
(***************************************************************************)
(* Proofs about ThreadPool for any finite set of workers, any tasks and    *)
(* any length of the run: the inductive invariant PoolInv, with the busy   *)
(* counter and the absence of lost wakeups, and the implementation of      *)
(* TaskPool.                                                               *)
(***************************************************************************)
EXTENDS ThreadPool, FiniteSetTheorems, TLAPS

LEMMA InitPool == Init => PoolInv
<1> SUFFICES ASSUME Init
             PROVE  PoolInv
  OBVIOUS
<1>1. Busy = {}
  BY DEF Init, Busy
<1>2. BusyCount
  BY <1>1, FS_EmptySet DEF Init, BusyCount
<1>3. TypeOK
  <2>1. 0 \in 0 .. ClockBound /\ Never \in 0 .. Never
    BY ClockAssumption DEF Never
  <2>2. "none" \in WorkerStates /\ "idle" \in JoinerStates
    BY DEF WorkerStates, JoinerStates
  <2>3. /\ mTasks \subseteq Tasks
        /\ scheduled \subseteq Tasks
        /\ mJoining \in BOOLEAN
    BY DEF Init
  <2>4. /\ now \in 0 .. ClockBound
        /\ mBusyWorkers \in Int
        /\ joiner \in JoinerStates
    BY <2>1, <2>2 DEF Init
  <2>5. time \in [Tasks -> 0 .. ClockBound]
    BY <2>1 DEF Init
  <2>6. worker \in [Workers -> WorkerStates]
    BY <2>2 DEF Init
  <2>7. current \in [Workers -> Tasks \union {NoTask}]
    BY DEF Init
  <2>8. until \in [Workers -> 0 .. Never]
    BY <2>1 DEF Init
  <2> QED
    BY <2>3, <2>4, <2>5, <2>6, <2>7, <2>8 DEF TypeOK
<1>4. Ownership
  BY NoTaskAssumption DEF Init, Ownership
<1>5. JoinQuiet /\ AllOrNone /\ NoLostWakeup
  BY DEF Init, JoinQuiet, AllOrNone, NoLostWakeup
<1> QED
  BY <1>2, <1>3, <1>4, <1>5 DEF PoolInv

-----------------------------------------------------------------------------
(* The type invariant.                                                       *)
LEMMA TypeStep == PoolInv /\ [Next]_vars => TypeOK'
<1> SUFFICES ASSUME PoolInv, [Next]_vars
             PROVE  TypeOK'
  OBVIOUS
<1> USE ClockAssumption, NoTaskAssumption
     DEF PoolInv, TypeOK, WorkerStates, JoinerStates, Never
<1>1. ASSUME NEW t \in Tasks, NEW when \in now .. ClockBound, Schedule(t, when)
      PROVE  TypeOK'
  BY <1>1 DEF Schedule, Waiting
<1>2. CASE Spawn
  BY <1>2 DEF Spawn, queueVars
<1>3. ASSUME NEW w \in Workers, WorkerStep(w) \/ SpuriousWakeup(w)
      PROVE  TypeOK'
  <2>1. CASE RunBegin(w)
    BY <2>1 DEF RunBegin, queueVars
  <2>2. ASSUME NEW t \in Tasks, DequeueTask(w, t)
        PROVE  TypeOK'
    BY <2>2 DEF DequeueTask, BusyWith
  <2>3. CASE DequeueWait(w)
    BY <2>3 DEF DequeueWait, BusyWith, queueVars
  <2>4. CASE DequeueNull(w)
    BY <2>4 DEF DequeueNull, BusyWith, queueVars
  <2>5. CASE WaitTimeout(w) \/ SpuriousWakeup(w)
    BY <2>5 DEF WaitTimeout, SpuriousWakeup, queueVars
  <2>6. CASE TaskReturns(w)
    BY <2>6 DEF TaskReturns, queueVars
  <2>7. CASE RunEnd(w)
    BY <2>7 DEF RunEnd, queueVars
  <2> QED
    BY <1>3, <2>1, <2>2, <2>3, <2>4, <2>5, <2>6, <2>7 DEF WorkerStep, Dequeue
<1>4. CASE JoinCall \/ JoinBlock \/ JoinSpuriousWakeup
  BY <1>4 DEF JoinCall, JoinBlock, JoinSpuriousWakeup, queueVars, workerVars
<1>5. CASE JoinBegin \/ JoinEnd
  BY <1>5 DEF JoinBegin, JoinEnd, queueVars
<1>6. CASE Clear
  BY <1>6 DEF Clear, workerVars
<1>7. CASE Tick
  BY <1>7 DEF Tick, queueVars, workerVars
<1>8. CASE UNCHANGED vars
  BY <1>8 DEF vars
<1> QED
  BY <1>1, <1>2, <1>3, <1>4, <1>5, <1>6, <1>7, <1>8 DEF Next, JoinerStep

(* No task is run twice or lost between the queue and a worker.              *)
LEMMA OwnershipStep == PoolInv /\ [Next]_vars => Ownership'
<1> SUFFICES ASSUME PoolInv, [Next]_vars
             PROVE  Ownership'
  OBVIOUS
<1> USE NoTaskAssumption DEF PoolInv, TypeOK, Ownership
<1>1. ASSUME NEW t \in Tasks, NEW when \in now .. ClockBound, Schedule(t, when)
      PROVE  Ownership'
  BY <1>1 DEF Schedule, Waiting
<1>2. CASE Spawn
  BY <1>2 DEF Spawn, queueVars
<1>3. ASSUME NEW w \in Workers, WorkerStep(w) \/ SpuriousWakeup(w)
      PROVE  Ownership'
  <2>1. CASE RunBegin(w)
    BY <2>1 DEF RunBegin, queueVars
  <2>2. ASSUME NEW t \in Tasks, DequeueTask(w, t)
        PROVE  Ownership'
    BY <2>2 DEF DequeueTask, IsTop
  <2>3. CASE DequeueWait(w)
    BY <2>3 DEF DequeueWait, queueVars
  <2>4. CASE DequeueNull(w)
    BY <2>4 DEF DequeueNull, queueVars
  <2>5. CASE WaitTimeout(w) \/ SpuriousWakeup(w)
    BY <2>5 DEF WaitTimeout, SpuriousWakeup, queueVars
  <2>6. CASE TaskReturns(w)
    BY <2>6 DEF TaskReturns, queueVars
  <2>7. CASE RunEnd(w)
    BY <2>7 DEF RunEnd, queueVars
  <2> QED
    BY <1>3, <2>1, <2>2, <2>3, <2>4, <2>5, <2>6, <2>7 DEF WorkerStep, Dequeue
<1>4. CASE JoinCall \/ JoinBlock \/ JoinSpuriousWakeup
  BY <1>4 DEF JoinCall, JoinBlock, JoinSpuriousWakeup, queueVars, workerVars
<1>5. CASE JoinBegin \/ JoinEnd
  BY <1>5 DEF JoinBegin, JoinEnd, queueVars, Waiting
<1>6. CASE Clear
  BY <1>6 DEF Clear, workerVars
<1>7. CASE Tick
  BY <1>7 DEF Tick, queueVars, workerVars
<1>8. CASE UNCHANGED vars
  BY <1>8 DEF vars
<1> QED
  BY <1>1, <1>2, <1>3, <1>4, <1>5, <1>6, <1>7, <1>8 DEF Next, JoinerStep

(* While mBusyWorkers is 0 nobody is between two waits: the busy set is      *)
(* finite, so the counter being 0 means that it is empty.                    *)
LEMMA BusyZero ==
  ASSUME PoolInv, mBusyWorkers = 0
  PROVE  Busy = {}
<1>1. IsFiniteSet(Busy)
  BY WorkersAssumption, FS_Subset DEF Busy
<1> QED
  BY <1>1, FS_EmptySet DEF PoolInv, BusyCount

(* join() stops the workers while none of them runs a task, and the workers  *)
(* come and go together.                                                     *)
LEMMA JoinQuietStep == PoolInv /\ [Next]_vars => JoinQuiet' /\ AllOrNone'
<1> SUFFICES ASSUME PoolInv, [Next]_vars
             PROVE  JoinQuiet' /\ AllOrNone'
  OBVIOUS
<1> USE DEF PoolInv, TypeOK, JoinQuiet, AllOrNone
<1>1. ASSUME NEW t \in Tasks, NEW when \in now .. ClockBound, Schedule(t, when)
      PROVE  JoinQuiet' /\ AllOrNone'
  BY <1>1 DEF Schedule, Waiting
<1>2. CASE Spawn
  BY <1>2 DEF Spawn, queueVars
<1>3. ASSUME NEW w \in Workers, WorkerStep(w) \/ SpuriousWakeup(w)
      PROVE  JoinQuiet' /\ AllOrNone'
  <2>1. CASE RunBegin(w)
    BY <2>1 DEF RunBegin, queueVars
  <2>2. ASSUME NEW t \in Tasks, DequeueTask(w, t)
        PROVE  JoinQuiet' /\ AllOrNone'
    BY <2>2 DEF DequeueTask
  <2>3. CASE DequeueWait(w)
    BY <2>3 DEF DequeueWait, queueVars
  <2>4. CASE DequeueNull(w)
    BY <2>4 DEF DequeueNull, queueVars
  <2>5. CASE WaitTimeout(w) \/ SpuriousWakeup(w)
    BY <2>5 DEF WaitTimeout, SpuriousWakeup, queueVars
  <2>6. CASE TaskReturns(w)
    BY <2>6 DEF TaskReturns, queueVars
  <2>7. CASE RunEnd(w)
    BY <2>7 DEF RunEnd, queueVars
  <2> QED
    BY <1>3, <2>1, <2>2, <2>3, <2>4, <2>5, <2>6, <2>7 DEF WorkerStep, Dequeue
<1>4. CASE JoinCall \/ JoinBlock \/ JoinSpuriousWakeup
  BY <1>4 DEF JoinCall, JoinBlock, JoinSpuriousWakeup, queueVars, workerVars
<1>5. CASE JoinBegin
  <2>1. \A w \in Workers : worker[w] \notin {"ready", "running", "leaving"}
    BY <1>5, BusyZero DEF JoinBegin, Busy
  <2> QED
    BY <1>5, <2>1 DEF JoinBegin, Waiting
<1>6. CASE JoinEnd
  BY <1>6 DEF JoinEnd
<1>7. CASE Clear
  BY <1>7 DEF Clear, workerVars
<1>8. CASE Tick
  BY <1>8 DEF Tick, workerVars
<1>9. CASE UNCHANGED vars
  BY <1>9 DEF vars
<1> QED
  BY <1>1, <1>2, <1>3, <1>4, <1>5, <1>6, <1>7, <1>8, <1>9 DEF Next, JoinerStep

(* The counter is the size of the busy set after every step: a worker enters *)
(* the set where it is counted in and leaves it where it is counted out.     *)
LEMMA BusyCountStep == PoolInv /\ [Next]_vars => BusyCount'
<1> SUFFICES ASSUME PoolInv, [Next]_vars
             PROVE  BusyCount'
  OBVIOUS
<1> USE DEF PoolInv, TypeOK
<1>0. IsFiniteSet(Busy) /\ Cardinality(Busy) \in Nat
  BY WorkersAssumption, FS_Subset, FS_CardinalityType DEF Busy
<1>in. ASSUME NEW w \in Workers, worker[w] \in {"spawned", "woken"}, w \in Busy',
              Busy' \ {w} = Busy \ {w}, mBusyWorkers' = mBusyWorkers + 1
       PROVE  BusyCount'
  <2>1. Busy' = Busy \union {w} /\ w \notin Busy
    BY <1>in DEF Busy
  <2>2. Cardinality(Busy \union {w}) = Cardinality(Busy) + 1
    BY <1>0, <2>1, FS_AddElement
  <2> QED
    BY <1>in, <2>1, <2>2 DEF BusyCount
<1>out. ASSUME NEW w \in Workers, w \in Busy, w \notin Busy',
               Busy' \ {w} = Busy \ {w}, mBusyWorkers' = mBusyWorkers - 1
        PROVE  BusyCount'
  <2>1. Busy' = Busy \ {w}
    BY <1>out
  <2>2. Cardinality(Busy \ {w}) = Cardinality(Busy) - 1
    BY <1>0, <1>out, FS_RemoveElement
  <2> QED
    BY <1>out, <2>1, <2>2 DEF BusyCount
<1>same. ASSUME Busy' = Busy, mBusyWorkers' = mBusyWorkers
         PROVE  BusyCount'
  BY <1>same DEF BusyCount
<1>1. ASSUME NEW t \in Tasks, NEW when \in now .. ClockBound, Schedule(t, when)
      PROVE  BusyCount'
  <2>1. Busy' = Busy
    BY <1>1 DEF Schedule, Waiting, Busy
  <2> QED
    BY <1>1, <2>1, <1>same DEF Schedule
<1>2. CASE Spawn
  <2>1. Busy' = Busy
    BY <1>2 DEF Spawn, Busy
  <2> QED
    BY <1>2, <2>1, <1>same DEF Spawn
<1>3. ASSUME NEW w \in Workers, WorkerStep(w) \/ SpuriousWakeup(w)
      PROVE  BusyCount'
  <2>1. CASE RunBegin(w)
    <3>1. w \in Busy' /\ Busy' \ {w} = Busy \ {w}
      BY <2>1 DEF RunBegin, Busy
    <3> QED
      BY <2>1, <3>1, <1>in DEF RunBegin
  <2>2. ASSUME worker[w] \in {"ready", "woken"}, mBusyWorkers' = BusyWith(w),
               NEW s \in {"running", "leaving"}, worker' = [worker EXCEPT ![w] = s]
        PROVE  BusyCount'
    <3>1. w \in Busy' /\ Busy' \ {w} = Busy \ {w}
      BY <2>2 DEF Busy
    <3>2. CASE worker[w] = "woken"
      BY <2>2, <3>1, <3>2, <1>in DEF BusyWith
    <3>3. CASE worker[w] = "ready"
      <4>1. w \in Busy
        BY <3>3 DEF Busy
      <4> QED
        BY <2>2, <3>1, <3>3, <4>1, <1>same DEF BusyWith
    <3> QED
      BY <2>2, <3>2, <3>3
  <2>3. ASSUME NEW t \in Tasks, DequeueTask(w, t)
        PROVE  BusyCount'
    BY <2>2, <2>3 DEF DequeueTask
  <2>4. CASE DequeueNull(w)
    BY <2>2, <2>4 DEF DequeueNull
  <2>5. CASE DequeueWait(w)
    <3>1. w \notin Busy' /\ Busy' \ {w} = Busy \ {w}
      BY <2>5 DEF DequeueWait, Busy
    <3>2. CASE worker[w] = "woken"
      <4>1. w \notin Busy
        BY <3>2 DEF Busy
      <4>2. mBusyWorkers' = mBusyWorkers
        BY <2>5, <3>2 DEF DequeueWait, BusyWith
      <4>3. Busy' = Busy
        BY <3>1, <4>1
      <4> QED
        BY <4>2, <4>3, <1>same
    <3>3. CASE worker[w] = "ready"
      <4>1. w \in Busy
        BY <3>3 DEF Busy
      <4>2. mBusyWorkers' = mBusyWorkers - 1
        BY <2>5, <3>3 DEF DequeueWait, BusyWith
      <4> QED
        BY <3>1, <4>1, <4>2, <1>out
    <3> QED
      BY <2>5, <3>2, <3>3 DEF DequeueWait
  <2>6. CASE WaitTimeout(w) \/ SpuriousWakeup(w) \/ TaskReturns(w)
    <3>1. Busy' = Busy
      BY <2>6 DEF WaitTimeout, SpuriousWakeup, TaskReturns, Busy
    <3> QED
      BY <2>6, <3>1, <1>same DEF WaitTimeout, SpuriousWakeup, TaskReturns
  <2>7. CASE RunEnd(w)
    <3>1. w \in Busy /\ w \notin Busy' /\ Busy' \ {w} = Busy \ {w}
      BY <2>7 DEF RunEnd, Busy
    <3> QED
      BY <2>7, <3>1, <1>out DEF RunEnd
  <2> QED
    BY <1>3, <2>1, <2>3, <2>4, <2>5, <2>6, <2>7 DEF WorkerStep, Dequeue
<1>4. CASE JoinCall \/ JoinBlock \/ JoinSpuriousWakeup \/ Clear \/ Tick \/ UNCHANGED vars
  <2>1. worker' = worker /\ mBusyWorkers' = mBusyWorkers
    BY <1>4 DEF JoinCall, JoinBlock, JoinSpuriousWakeup, Clear, Tick, vars, workerVars
  <2> QED
    BY <2>1, <1>same DEF Busy
<1>5. CASE JoinBegin \/ JoinEnd
  <2>1. Busy' = Busy
    BY <1>5 DEF JoinBegin, JoinEnd, Waiting, Busy
  <2> QED
    BY <1>5, <2>1, <1>same DEF JoinBegin, JoinEnd
<1> QED
  BY <1>1, <1>2, <1>3, <1>4, <1>5 DEF Next, JoinerStep

(* A queued task always has a worker that is awake or will be in time.       *)
LEMMA NoLostWakeupStep == PoolInv /\ [Next]_vars => NoLostWakeup'
<1> SUFFICES ASSUME PoolInv, [Next]_vars
             PROVE  NoLostWakeup'
  OBVIOUS
<1> USE ClockAssumption
     DEF PoolInv, TypeOK, AllOrNone, NoLostWakeup, Waiting, Awake, WorkerStates, Never
<1>1. ASSUME NEW t \in Tasks, NEW when \in now .. ClockBound, Schedule(t, when)
      PROVE  NoLostWakeup'
  BY <1>1 DEF Schedule
<1>2. CASE Spawn
  BY <1>2 DEF Spawn, queueVars
<1>3. ASSUME NEW w \in Workers, WorkerStep(w) \/ SpuriousWakeup(w)
      PROVE  NoLostWakeup'
  <2>1. CASE RunBegin(w)
    BY <2>1 DEF RunBegin, queueVars
  <2>2. ASSUME NEW t \in Tasks, DequeueTask(w, t)
        PROVE  NoLostWakeup'
    BY <2>2 DEF DequeueTask
  <2>3. CASE DequeueWait(w)
    BY <2>3 DEF DequeueWait, queueVars, IsTop
  <2>4. CASE DequeueNull(w)
    BY <2>4 DEF DequeueNull, queueVars
  <2>5. CASE WaitTimeout(w) \/ SpuriousWakeup(w)
    BY <2>5 DEF WaitTimeout, SpuriousWakeup, queueVars
  <2>6. CASE TaskReturns(w)
    BY <2>6 DEF TaskReturns, queueVars
  <2>7. CASE RunEnd(w)
    BY <2>7 DEF RunEnd, queueVars, JoinQuiet
  <2> QED
    BY <1>3, <2>1, <2>2, <2>3, <2>4, <2>5, <2>6, <2>7 DEF WorkerStep, Dequeue
<1>4. CASE JoinCall \/ JoinBlock \/ JoinSpuriousWakeup
  BY <1>4 DEF JoinCall, JoinBlock, JoinSpuriousWakeup, queueVars, workerVars
<1>5. CASE JoinBegin \/ JoinEnd
  BY <1>5 DEF JoinBegin, JoinEnd, queueVars
<1>6. CASE Clear
  BY <1>6 DEF Clear, workerVars
<1>7. CASE Tick
  BY <1>7 DEF Tick, queueVars, workerVars
<1>8. CASE UNCHANGED vars
  BY <1>8 DEF vars
<1> QED
  BY <1>1, <1>2, <1>3, <1>4, <1>5, <1>6, <1>7, <1>8 DEF Next, JoinerStep

-----------------------------------------------------------------------------

(* The pool's invariant: counter, ownership, quiet join, no lost wakeup.     *)
THEOREM PoolCorrect == Spec => []PoolInv
<1>1. PoolInv /\ [Next]_vars => PoolInv'
  BY TypeStep, OwnershipStep, JoinQuietStep, BusyCountStep, NoLostWakeupStep DEF PoolInv
<1> QED
  BY InitPool, <1>1, PTL DEF Spec

(* Every behaviour of the pool is one of TaskPool: a task is run at most     *)
(* once, and tasks are dropped only while none runs.                         *)
THEOREM PoolImplementsTaskPool == Spec => ImplementsTaskPool
<1> DEFINE RunningTasks == {current[w] : w \in {v \in Workers : worker[v] = "running"}}
<1>1. Init => Abstract!PoolInit
  BY DEF Init, Abstract!PoolInit
<1>2. PoolInv /\ PoolInv' /\ [Next]_vars => [Abstract!PoolNext]_(Abstract!poolVars)
  <2> SUFFICES ASSUME PoolInv, PoolInv', [Next]_vars
               PROVE  Abstract!PoolNext \/ (mTasks' = mTasks /\ RunningTasks' = RunningTasks)
    BY DEF Abstract!poolVars
  <2> USE NoTaskAssumption DEF PoolInv, TypeOK, Ownership
  <2>1. ASSUME NEW t \in Tasks, NEW when \in now .. ClockBound, Schedule(t, when)
        PROVE  Abstract!Submit(t)
    BY <2>1 DEF Schedule, Waiting, Abstract!Submit
  <2>2. ASSUME NEW w \in Workers, NEW t \in Tasks, DequeueTask(w, t)
        PROVE  Abstract!Start(t)
    <3>1. RunningTasks' = RunningTasks \union {t}
      BY <2>2 DEF DequeueTask
    <3> QED
      BY <2>2, <3>1 DEF DequeueTask, IsTop, Abstract!Start
  <2>3. ASSUME NEW w \in Workers, TaskReturns(w), NEW t \in Tasks, t = current[w]
        PROVE  Abstract!Finish(t)
    <3>1. t \in RunningTasks /\ RunningTasks' = RunningTasks \ {t}
      BY <2>3 DEF TaskReturns
    <3> QED
      BY <2>3, <3>1 DEF TaskReturns, queueVars, Abstract!Finish
  <2>4. ASSUME NEW w \in Workers,
               \/ RunBegin(w) \/ DequeueWait(w) \/ DequeueNull(w) \/ WaitTimeout(w)
               \/ SpuriousWakeup(w) \/ RunEnd(w)
        PROVE  mTasks' = mTasks /\ RunningTasks' = RunningTasks
    BY <2>4 DEF RunBegin, DequeueWait, DequeueNull, WaitTimeout, SpuriousWakeup, RunEnd,
                queueVars
  <2>5. CASE Spawn \/ JoinBegin \/ JoinEnd
    <3>1. mTasks' = mTasks /\ RunningTasks' = RunningTasks
      BY <2>5 DEF Spawn, JoinBegin, JoinEnd, Waiting, queueVars
    <3> QED
      BY <3>1
  <2>6. CASE JoinCall \/ JoinBlock \/ JoinSpuriousWakeup \/ Tick \/ UNCHANGED vars
    BY <2>6 DEF JoinCall, JoinBlock, JoinSpuriousWakeup, Tick, vars, queueVars, workerVars
  <2>7. CASE Clear
    <3>1. Abstract!DropAll
      BY <2>7 DEF Clear, workerVars, JoinQuiet, Abstract!DropAll
    <3> QED
      BY <3>1 DEF Abstract!PoolNext
  <2> HIDE DEF RunningTasks
  <2>8. ASSUME NEW w \in Workers, WorkerStep(w) \/ SpuriousWakeup(w)
        PROVE  Abstract!PoolNext \/ (mTasks' = mTasks /\ RunningTasks' = RunningTasks)
    <3>1. ASSUME NEW t \in Tasks, DequeueTask(w, t)
          PROVE  Abstract!PoolNext
      BY <2>2, <3>1 DEF Abstract!PoolNext
    <3>2. CASE TaskReturns(w)
      <4>1. current[w] \in Tasks
        BY <3>2 DEF TaskReturns
      <4>2. PICK t \in Tasks : t = current[w]
        BY <4>1
      <4>3. Abstract!Finish(t)
        BY <2>3, <3>2, <4>2
      <4> QED
        BY <4>3 DEF Abstract!PoolNext
    <3> QED
      BY <2>4, <2>8, <3>1, <3>2 DEF WorkerStep, Dequeue
  <2>9. ASSUME NEW t \in Tasks, NEW when \in now .. ClockBound, Schedule(t, when)
        PROVE  Abstract!PoolNext
    BY <2>1, <2>9 DEF Abstract!PoolNext
  <2> QED
    BY <2>5, <2>6, <2>7, <2>8, <2>9 DEF Next, JoinerStep
<1> QED
  BY PoolCorrect, <1>1, <1>2, PTL DEF Spec, ImplementsTaskPool, Abstract!PoolSpec
=============================================================================
