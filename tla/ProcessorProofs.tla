--------------------------- MODULE ProcessorProofs ---------------------------
(***************************************************************************)
(* Proofs about Processor for any number of processors and jobs: the       *)
(* inductive invariant, the legal use of the pool, and serial execution in *)
(* the order of enqueue().                                                 *)
(***************************************************************************)
EXTENDS Processor, SequenceTheorems, TLAPS

LEMMA InitProcessor == Init => ProcessorInv
BY DEF Init, Pool!PoolInit, ProcessorInv, TypeOK, OneInPool, InPool, QueuesDisjoint,
       JoinerNotified, JoinerStates

(* enqueue(): an idle processor hands the job to the pool, a pending one     *)
(* appends it behind the others.                                             *)
LEMMA EnqueueStep ==
  ASSUME ProcessorInv, NEW j \in Jobs, Enqueue(j)
  PROVE  ProcessorInv'
<1> DEFINE p == Owner(j)
<1>0. p \in Processors /\ j \notin pending \union running /\ ~Queued(j)
  BY OwnerAssumption DEF Enqueue, Idle
<1>1. CASE ~mPending[p]
  <2>1. /\ pending' = pending \union {j}
        /\ mPending' = [mPending EXCEPT ![p] = TRUE]
        /\ UNCHANGED <<mTasks, running, returned, chained, joiner>>
    BY <1>1 DEF Enqueue, Pool!Submit
  <2>2. TypeOK'
    BY <1>0, <2>1 DEF ProcessorInv, TypeOK
  <2>3. OneInPool'
    BY <1>0, <1>1, <2>1 DEF ProcessorInv, TypeOK, OneInPool, InPool
  <2>4. QueuesDisjoint'
    BY <1>0, <1>1, <2>1 DEF ProcessorInv, TypeOK, OneInPool, QueuesDisjoint, Queued
  <2>5. JoinerNotified'
    BY <1>0, <2>1 DEF ProcessorInv, TypeOK, JoinerNotified
  <2> QED
    BY <2>2, <2>3, <2>4, <2>5 DEF ProcessorInv
<1>2. CASE mPending[p]
  <2>1. /\ mTasks' = [mTasks EXCEPT ![p] = Append(mTasks[p], j)]
        /\ UNCHANGED <<mPending, pending, running, returned, chained, joiner>>
    BY <1>2 DEF Enqueue
  <2>2. TypeOK'
    BY <1>0, <2>1 DEF ProcessorInv, TypeOK
  <2>3. OneInPool' /\ JoinerNotified'
    BY <1>0, <1>2, <2>1 DEF ProcessorInv, TypeOK, OneInPool, InPool, JoinerNotified
  <2>4. QueuesDisjoint'
    <3> SUFFICES ASSUME NEW q \in Processors
                 PROVE  /\ \A i, k \in 1 .. Len(mTasks'[q]) :
                              mTasks'[q][i] = mTasks'[q][k] => i = k
                        /\ \A i \in 1 .. Len(mTasks'[q]) :
                              /\ Owner(mTasks'[q][i]) = q
                              /\ mTasks'[q][i] \notin pending \union running
      BY <2>1 DEF QueuesDisjoint
    <3>1. CASE q # p
      BY <1>0, <2>1, <3>1 DEF ProcessorInv, TypeOK, QueuesDisjoint
    <3>2. CASE q = p
      <4>1. mTasks[p] \in Seq(Jobs) /\ mTasks'[q] = Append(mTasks[p], j)
        BY <1>0, <2>1, <3>2 DEF ProcessorInv, TypeOK
      <4>2. \A i \in 1 .. Len(mTasks[p]) : mTasks[p][i] # j
        BY <1>0 DEF Queued
      <4> QED
        BY <1>0, <3>2, <4>1, <4>2 DEF ProcessorInv, QueuesDisjoint
    <3> QED
      BY <3>1, <3>2
  <2> QED
    BY <2>2, <2>3, <2>4 DEF ProcessorInv
<1> QED
  BY <1>1, <1>2

(* schedule(): the next job takes the place of the one that returned, or the *)
(* processor becomes idle.                                                   *)
LEMMA ScheduleStep ==
  ASSUME ProcessorInv, NEW j \in Jobs, Schedule(j)
  PROVE  ProcessorInv'
<1> DEFINE p == Owner(j)
<1>0. /\ p \in Processors
      /\ j \in returned /\ j \in running /\ j \in InPool /\ mPending[p]
      /\ mTasks[p] \in Seq(Jobs)
      /\ returned' = returned \ {j}
      /\ chained' = chained \union {j}
  BY OwnerAssumption DEF Schedule, ProcessorInv, TypeOK, OneInPool, InPool
<1>1. CASE mTasks[p] # <<>>
  <2> DEFINE n == Head(mTasks[p])
  <2>1. /\ pending' = pending \union {n}
        /\ mTasks' = [mTasks EXCEPT ![p] = Tail(mTasks[p])]
        /\ UNCHANGED <<mPending, running, joiner>>
    BY <1>1 DEF Schedule, Pool!Submit
  <2>2. n \in Jobs /\ Owner(n) = p /\ n \notin pending \union running
    BY <1>0, <1>1 DEF ProcessorInv, QueuesDisjoint
  <2>3. TypeOK'
    BY <1>0, <1>1, <2>1, <2>2 DEF ProcessorInv, TypeOK
  <2>4. OneInPool'
    <3>1. InPool' = (InPool \ {j}) \union {n}
      BY <1>0, <2>1, <2>2 DEF InPool, ProcessorInv, TypeOK, OneInPool
    <3>2. \A k \in InPool \ {j} : Owner(k) # p
      BY <1>0 DEF ProcessorInv, OneInPool
    <3>3. \A k, l \in InPool' : Owner(k) = Owner(l) => k = l
      BY <2>2, <3>1, <3>2 DEF ProcessorInv, OneInPool
    <3>4. \A q \in Processors : mPending'[q] <=> \E k \in InPool' : Owner(k) = q
      BY <1>0, <2>1, <2>2, <3>1, <3>2 DEF ProcessorInv, OneInPool
    <3>5. pending' \intersect running' = {} /\ returned' \intersect chained' = {}
      BY <1>0, <2>1, <2>2 DEF ProcessorInv, OneInPool
    <3>6. \A q \in Processors : ~mPending'[q] => mTasks'[q] = <<>>
      BY <1>0, <2>1 DEF ProcessorInv, TypeOK, OneInPool
    <3> QED
      BY <3>3, <3>4, <3>5, <3>6 DEF OneInPool
  <2>5. QueuesDisjoint'
    <3> SUFFICES ASSUME NEW q \in Processors
                 PROVE  /\ \A i, k \in 1 .. Len(mTasks'[q]) :
                              mTasks'[q][i] = mTasks'[q][k] => i = k
                        /\ \A i \in 1 .. Len(mTasks'[q]) :
                              /\ Owner(mTasks'[q][i]) = q
                              /\ mTasks'[q][i] \notin pending' \union running'
      BY DEF QueuesDisjoint
    <3>1. CASE q # p
      BY <1>0, <2>1, <2>2, <3>1 DEF ProcessorInv, TypeOK, QueuesDisjoint
    <3>2. CASE q = p
      <4>1. mTasks'[q] = Tail(mTasks[p])
        BY <1>0, <2>1, <3>2 DEF ProcessorInv, TypeOK
      <4>2. /\ Len(Tail(mTasks[p])) = Len(mTasks[p]) - 1
            /\ \A i \in 1 .. Len(Tail(mTasks[p])) :
                  /\ i + 1 \in 1 .. Len(mTasks[p])
                  /\ Tail(mTasks[p])[i] = mTasks[p][i + 1]
                  /\ Tail(mTasks[p])[i] # n
        <5>1. Len(mTasks[p]) \in Nat /\ Len(mTasks[p]) > 0 /\ n = mTasks[p][1]
          BY <1>0, <1>1
        <5>2. /\ Len(Tail(mTasks[p])) = Len(mTasks[p]) - 1
              /\ \A i \in 1 .. Len(Tail(mTasks[p])) : Tail(mTasks[p])[i] = mTasks[p][i + 1]
          BY <1>0, <1>1, <5>1
        <5>3. \A i \in 1 .. Len(Tail(mTasks[p])) :
                 i + 1 \in 1 .. Len(mTasks[p]) /\ i + 1 # 1 /\ 1 \in 1 .. Len(mTasks[p])
          BY <5>1, <5>2
        <5>4. \A i, k \in 1 .. Len(mTasks[p]) : mTasks[p][i] = mTasks[p][k] => i = k
          BY <1>0 DEF ProcessorInv, QueuesDisjoint
        <5> QED
          BY <5>1, <5>2, <5>3, <5>4
      <4>3. /\ \A i, k \in 1 .. Len(mTasks[p]) : mTasks[p][i] = mTasks[p][k] => i = k
            /\ \A i \in 1 .. Len(mTasks[p]) :
                  Owner(mTasks[p][i]) = p /\ mTasks[p][i] \notin pending \union running
        BY <1>0 DEF ProcessorInv, QueuesDisjoint
      <4>4. \A i, k \in 1 .. Len(mTasks'[q]) : mTasks'[q][i] = mTasks'[q][k] => i = k
        <5> SUFFICES ASSUME NEW i \in 1 .. Len(mTasks'[q]), NEW k \in 1 .. Len(mTasks'[q]),
                            mTasks'[q][i] = mTasks'[q][k]
                     PROVE  i = k
          OBVIOUS
        <5>1. i + 1 = k + 1
          BY <4>1, <4>2, <4>3
        <5> QED
          BY <1>0, <4>1, <4>2, <5>1
      <4>5. \A i \in 1 .. Len(mTasks'[q]) :
               Owner(mTasks'[q][i]) = q /\ mTasks'[q][i] \notin pending' \union running'
        <5> SUFFICES ASSUME NEW i \in 1 .. Len(mTasks'[q])
                     PROVE  /\ Owner(mTasks'[q][i]) = q
                            /\ mTasks'[q][i] \notin pending' \union running'
          OBVIOUS
        <5>1. /\ i + 1 \in 1 .. Len(mTasks[p])
              /\ mTasks'[q][i] = mTasks[p][i + 1]
              /\ mTasks'[q][i] # n
          BY <4>1, <4>2
        <5>2. Owner(mTasks[p][i + 1]) = p /\ mTasks[p][i + 1] \notin pending \union running
          BY <4>3, <5>1
        <5> QED
          BY <2>1, <3>2, <5>1, <5>2
      <4> QED
        BY <4>4, <4>5
    <3> QED
      BY <3>1, <3>2
  <2>6. JoinerNotified'
    BY <2>1 DEF ProcessorInv, JoinerNotified
  <2> QED
    BY <2>3, <2>4, <2>5, <2>6 DEF ProcessorInv
<1>2. CASE mTasks[p] = <<>>
  <2>1. /\ mPending' = [mPending EXCEPT ![p] = FALSE]
        /\ joiner' = [joiner EXCEPT ![p] = IF @ = "blocked" THEN "check" ELSE @]
        /\ UNCHANGED <<mTasks, pending, running>>
    BY <1>2 DEF Schedule
  <2>2. TypeOK'
    BY <1>0, <2>1 DEF ProcessorInv, TypeOK, JoinerStates
  <2>3. OneInPool'
    <3>1. InPool' = InPool \ {j}
      BY <1>0, <2>1 DEF InPool
    <3>2. \A k \in InPool \ {j} : Owner(k) # p
      BY <1>0 DEF ProcessorInv, OneInPool
    <3> QED
      BY <1>0, <1>2, <2>1, <3>1, <3>2 DEF ProcessorInv, TypeOK, OneInPool
  <2>4. QueuesDisjoint'
    BY <2>1 DEF ProcessorInv, QueuesDisjoint
  <2>5. JoinerNotified'
    BY <1>0, <2>1 DEF ProcessorInv, TypeOK, JoinerNotified
  <2> QED
    BY <2>2, <2>3, <2>4, <2>5 DEF ProcessorInv
<1> QED
  BY <1>1, <1>2

(* Every step of the processors, the pool and the joiners.                   *)
LEMMA NextProcessor == ProcessorInv /\ [Next]_vars => ProcessorInv'
<1> SUFFICES ASSUME ProcessorInv, [Next]_vars
             PROVE  ProcessorInv'
  OBVIOUS
<1>1. ASSUME NEW j \in Jobs, Start(j)
      PROVE  ProcessorInv'
  BY <1>1 DEF Start, Pool!Start, ProcessorInv, TypeOK, OneInPool, InPool, QueuesDisjoint,
              JoinerNotified
<1>2. ASSUME NEW j \in Jobs, BodyReturns(j)
      PROVE  ProcessorInv'
  BY <1>2 DEF BodyReturns, ProcessorInv, TypeOK, OneInPool, InPool, QueuesDisjoint,
              JoinerNotified
<1>3. ASSUME NEW j \in Jobs, Destroy(j)
      PROVE  ProcessorInv'
  BY <1>3 DEF Destroy, Pool!Finish, ProcessorInv, TypeOK, OneInPool, InPool, QueuesDisjoint,
              JoinerNotified
<1>4. ASSUME NEW p \in Processors, JoinCall(p) \/ JoinCheck(p) \/ JoinSpuriousWakeup(p)
      PROVE  ProcessorInv'
  <2>1. UNCHANGED <<mTasks, mPending, pending, running, returned, chained>>
    BY <1>4 DEF JoinCall, JoinCheck, JoinSpuriousWakeup
  <2>2. OneInPool' /\ QueuesDisjoint'
    BY <2>1 DEF ProcessorInv, OneInPool, InPool, QueuesDisjoint
  <2>3. TypeOK'
    BY <1>4, <2>1 DEF JoinCall, JoinCheck, JoinSpuriousWakeup, ProcessorInv, TypeOK,
                      JoinerStates
  <2>4. JoinerNotified'
    <3>1. CASE joiner' = [joiner EXCEPT ![p] = "blocked"] /\ mPending[p]
      BY <2>1, <3>1 DEF ProcessorInv, TypeOK, JoinerNotified
    <3>2. ASSUME NEW s \in {"check", "done"}, joiner' = [joiner EXCEPT ![p] = s]
          PROVE  JoinerNotified'
      BY <2>1, <3>2 DEF ProcessorInv, TypeOK, JoinerNotified
    <3>3. JoinCheck(p) => \/ joiner' = [joiner EXCEPT ![p] = "blocked"] /\ mPending[p]
                          \/ joiner' = [joiner EXCEPT ![p] = "done"]
      <4>1. ~mPending[p] => mTasks[p] = <<>>
        BY DEF ProcessorInv, OneInPool
      <4> QED
        BY <4>1 DEF JoinCheck
    <3> QED
      BY <1>4, <3>1, <3>2, <3>3 DEF JoinCall, JoinSpuriousWakeup
  <2> QED
    BY <2>2, <2>3, <2>4 DEF ProcessorInv
<1>5. CASE UNCHANGED vars
  BY <1>5 DEF vars, ProcessorInv, TypeOK, OneInPool, InPool, QueuesDisjoint, JoinerNotified
<1> QED
  BY <1>1, <1>2, <1>3, <1>4, <1>5, EnqueueStep, ScheduleStep DEF Next

-----------------------------------------------------------------------------

(* mPending, the queue, the pool and the joiner of every processor agree.    *)
THEOREM ProcessorCorrect == Spec => []ProcessorInv
BY InitProcessor, NextProcessor, PTL DEF Spec

(* No closure is submitted while the pool still has it.                      *)
THEOREM ProcessorUsesTaskPool == Spec => UsesTaskPool
<1>1. Init => Pool!PoolInit
  BY DEF Init
<1>2. ProcessorInv /\ [Next]_vars => [Pool!PoolNext]_(Pool!poolVars)
  <2> SUFFICES ASSUME ProcessorInv, [Next]_vars
               PROVE  Pool!PoolNext \/ (pending' = pending /\ running' = running)
    BY DEF Pool!poolVars
  <2>1. ASSUME NEW j \in Jobs, Enqueue(j)
        PROVE  Pool!Submit(j) \/ (pending' = pending /\ running' = running)
    BY <2>1 DEF Enqueue
  <2>2. ASSUME NEW j \in Jobs, Schedule(j)
        PROVE  \/ \E k \in Jobs : Pool!Submit(k)
               \/ pending' = pending /\ running' = running
    <3>1. mTasks[Owner(j)] \in Seq(Jobs)
      BY OwnerAssumption DEF ProcessorInv, TypeOK
    <3>2. mTasks[Owner(j)] # <<>> => Head(mTasks[Owner(j)]) \in Jobs
      BY <3>1
    <3> QED
      BY <2>2, <3>2 DEF Schedule
  <2>3. ASSUME NEW p \in Processors, JoinCall(p) \/ JoinCheck(p) \/ JoinSpuriousWakeup(p)
        PROVE  pending' = pending /\ running' = running
    BY <2>3 DEF JoinCall, JoinCheck, JoinSpuriousWakeup
  <2>4. ASSUME NEW j \in Jobs, BodyReturns(j)
        PROVE  pending' = pending /\ running' = running
    BY <2>4 DEF BodyReturns
  <2>5. ASSUME NEW j \in Jobs, Start(j) \/ Destroy(j)
        PROVE  Pool!Start(j) \/ Pool!Finish(j)
    BY <2>5 DEF Start, Destroy
  <2>6. UNCHANGED vars => pending' = pending /\ running' = running
    BY DEF vars
  <2> QED
    BY <2>1, <2>2, <2>3, <2>4, <2>5, <2>6 DEF Next, Pool!PoolNext
<1> QED
  BY ProcessorCorrect, <1>1, <1>2, PTL DEF Spec, UsesTaskPool, Pool!PoolSpec

-----------------------------------------------------------------------------

(* The refinement mapping in the terms of the invariant: since the pool has  *)
(* at most one job of a processor, the backlog is that job, if it has not    *)
(* started, followed by the queue, and the active job is that job, if it     *)
(* has started.                                                              *)
BacklogShape ==
    \A p \in Processors :
        /\ \A j \in pending : Owner(j) = p => Backlog(p) = <<j>> \o mTasks[p]
        /\ (\A j \in pending : Owner(j) # p) => Backlog(p) = mTasks[p]

ActiveShape ==
    \A p \in Processors :
        /\ \A j \in running \ (returned \union chained) : Owner(j) = p => ActiveJob(p) = j
        /\ (\A j \in running \ (returned \union chained) : Owner(j) # p) => ActiveJob(p) = NoJob

LEMMA MappingShape == ProcessorInv => BacklogShape /\ ActiveShape
<1> SUFFICES ASSUME ProcessorInv, NEW p \in Processors
             PROVE  /\ \A j \in pending : Owner(j) = p => Backlog(p) = <<j>> \o mTasks[p]
                    /\ (\A j \in pending : Owner(j) # p) => Backlog(p) = mTasks[p]
                    /\ \A j \in running \ (returned \union chained) :
                          Owner(j) = p => ActiveJob(p) = j
                    /\ (\A j \in running \ (returned \union chained) : Owner(j) # p)
                          => ActiveJob(p) = NoJob
  BY DEF BacklogShape, ActiveShape
<1> DEFINE next == {j \in pending : Owner(j) = p}
           executing == {j \in running \ (returned \union chained) : Owner(j) = p}
<1>0. mTasks[p] \in Seq(Jobs)
  BY DEF ProcessorInv, TypeOK
<1>1. ASSUME NEW j \in pending, Owner(j) = p
      PROVE  Backlog(p) = <<j>> \o mTasks[p]
  <2>1. next = {j}
    BY <1>1 DEF ProcessorInv, TypeOK, OneInPool, InPool
  <2>2. next # {} /\ (CHOOSE k \in next : TRUE) = j
    BY <2>1
  <2> QED
    BY <2>2 DEF Backlog
<1>2. ASSUME \A j \in pending : Owner(j) # p
      PROVE  Backlog(p) = mTasks[p]
  <2>1. next = {}
    BY <1>2
  <2>2. Backlog(p) = <<>> \o mTasks[p]
    BY <2>1 DEF Backlog
  <2> QED
    BY <1>0, <2>2
<1>3. ASSUME NEW j \in running \ (returned \union chained), Owner(j) = p
      PROVE  ActiveJob(p) = j
  <2>1. executing = {j}
    BY <1>3 DEF ProcessorInv, TypeOK, OneInPool, InPool
  <2>2. executing # {} /\ (CHOOSE k \in executing : TRUE) = j
    BY <2>1
  <2> QED
    BY <2>2 DEF ActiveJob
<1>4. ASSUME \A j \in running \ (returned \union chained) : Owner(j) # p
      PROVE  ActiveJob(p) = NoJob
  <2>1. executing = {}
    BY <1>4
  <2> QED
    BY <2>1 DEF ActiveJob
<1> QED
  BY <1>1, <1>2, <1>3, <1>4

(* Processors execute their jobs one at a time and in the order of           *)
(* enqueue(), although the pool runs them on any worker.                     *)
THEOREM ProcessorImplementsSerialExecutor == Spec => ImplementsSerialExecutor
<1> DEFINE Q == [p \in Processors |-> Backlog(p)]
           A == [p \in Processors |-> ActiveJob(p)]
<1>1. Init => Serial!ExecInit
  <2> SUFFICES ASSUME Init
               PROVE  Q = [p \in Processors |-> <<>>] /\ A = [p \in Processors |-> NoJob]
    BY DEF Serial!ExecInit
  <2>1. BacklogShape /\ ActiveShape
    BY InitProcessor, MappingShape
  <2> QED
    BY <2>1 DEF Init, Pool!PoolInit, BacklogShape, ActiveShape
<1>2. ProcessorInv /\ ProcessorInv' /\ [Next]_vars => [Serial!ExecNext]_(Serial!execVars)
  <2> SUFFICES ASSUME ProcessorInv, ProcessorInv', [Next]_vars
               PROVE  Serial!ExecNext \/ (Q' = Q /\ A' = A)
    BY DEF Serial!execVars
  <2>0. BacklogShape /\ ActiveShape
    BY MappingShape
  <2>0p. BacklogShape' /\ ActiveShape'
    BY MappingShape, PTL
  <2> HIDE DEF Q, A
  <2>t. \A p \in Processors : mTasks[p] \in Seq(Jobs) /\ mTasks'[p] \in Seq(Jobs)
    BY DEF ProcessorInv, TypeOK
  <2>b. ASSUME NEW q \in Processors, mTasks'[q] = mTasks[q],
               \A k \in Jobs : Owner(k) = q => (k \in pending' <=> k \in pending)
        PROVE  Backlog(q)' = Backlog(q)
    <3>1. pending \subseteq Jobs /\ pending' \subseteq Jobs
      BY DEF ProcessorInv, TypeOK
    <3> QED
      BY <2>0, <2>0p, <2>b, <3>1 DEF BacklogShape
  <2>a. ASSUME NEW q \in Processors,
               \A k \in Jobs : Owner(k) = q =>
                  (k \in running' \ (returned' \union chained')
                     <=> k \in running \ (returned \union chained))
        PROVE  ActiveJob(q)' = ActiveJob(q)
    <3>1. running \subseteq Jobs /\ running' \subseteq Jobs
      BY DEF ProcessorInv, TypeOK
    <3> QED
      BY <2>0, <2>0p, <2>a, <3>1 DEF ActiveShape
  <2>1. ASSUME NEW j \in Jobs, Enqueue(j)
        PROVE  Serial!ExecSubmit(Owner(j), j)
    <3> DEFINE p == Owner(j)
    <3>0. p \in Processors
      BY OwnerAssumption
    <3>1. Backlog(p)' = Append(Backlog(p), j)
      <4>1. CASE ~mPending[p]
        <5>1. pending' = pending \union {j} /\ mTasks' = mTasks
          BY <2>1, <4>1 DEF Enqueue, Pool!Submit
        <5>2. mTasks[p] = <<>> /\ \A k \in pending : Owner(k) # p
          BY <3>0, <4>1 DEF ProcessorInv, TypeOK, OneInPool, InPool
        <5>3. Backlog(p) = <<>>
          BY <2>0, <3>0, <5>2 DEF BacklogShape
        <5>4. Backlog(p)' = <<j>> \o mTasks'[p]
          BY <2>0p, <3>0, <5>1 DEF BacklogShape
        <5>5. <<j>> \o <<>> = Append(<<>>, j)
          OBVIOUS
        <5> QED
          BY <5>1, <5>2, <5>3, <5>4, <5>5
      <4>2. CASE mPending[p]
        <5>1. pending' = pending /\ mTasks'[p] = Append(mTasks[p], j)
          BY <2>1, <3>0, <4>2 DEF Enqueue, ProcessorInv, TypeOK
        <5>2. ASSUME NEW k \in pending, Owner(k) = p
              PROVE  Backlog(p)' = Append(Backlog(p), j)
          <6>1. Backlog(p) = <<k>> \o mTasks[p]
            BY <2>0, <3>0, <5>2 DEF BacklogShape
          <6>2. Backlog(p)' = <<k>> \o Append(mTasks[p], j)
            BY <2>0p, <3>0, <5>1, <5>2 DEF BacklogShape
          <6>3. k \in Jobs
            BY DEF ProcessorInv, TypeOK
          <6> QED
            BY <2>t, <3>0, <6>1, <6>2, <6>3
        <5>3. CASE \A k \in pending : Owner(k) # p
          BY <2>0, <2>0p, <3>0, <5>1, <5>3 DEF BacklogShape
        <5> QED
          BY <5>2, <5>3
      <4> QED
        BY <4>1, <4>2
    <3>2. \A q \in Processors : q # p => Backlog(q)' = Backlog(q)
      <4> SUFFICES ASSUME NEW q \in Processors, q # p
                   PROVE  Backlog(q)' = Backlog(q)
        OBVIOUS
      <4>1. mTasks'[q] = mTasks[q]
        BY <2>1, <3>0 DEF Enqueue, ProcessorInv, TypeOK
      <4>2. pending' = pending \/ pending' = pending \union {j}
        BY <2>1 DEF Enqueue, Pool!Submit
      <4> QED
        BY <2>b, <4>1, <4>2
    <3>3. \A q \in Processors : ActiveJob(q)' = ActiveJob(q)
      <4>1. UNCHANGED <<running, returned, chained>>
        BY <2>1 DEF Enqueue, Pool!Submit
      <4> QED
        BY <2>a, <4>1
    <3> QED
      BY <3>0, <3>1, <3>2, <3>3 DEF Serial!ExecSubmit
  <2>2. ASSUME NEW j \in Jobs, Start(j)
        PROVE  Serial!ExecStart(Owner(j))
    <3> DEFINE p == Owner(j)
    <3>0. /\ p \in Processors
          /\ j \in pending
          /\ pending' = pending \ {j}
          /\ running' = running \union {j}
          /\ UNCHANGED <<mTasks, returned, chained>>
      BY <2>2, OwnerAssumption DEF Start, Pool!Start
    <3>1. \A k \in (pending \union running) \ chained : Owner(k) = p => k = j
      BY <3>0 DEF ProcessorInv, TypeOK, OneInPool, InPool
    <3>2. j \notin running
      BY <3>0 DEF ProcessorInv, OneInPool
    <3>3. Backlog(p) = <<j>> \o mTasks[p] /\ Backlog(p)' = mTasks[p]
      <4>1. \A k \in pending' : Owner(k) # p
        BY <3>0, <3>1 DEF ProcessorInv, TypeOK, OneInPool
      <4>2. Backlog(p)' = mTasks'[p]
        BY <2>0p, <3>0, <4>1 DEF BacklogShape
      <4>3. Backlog(p) = <<j>> \o mTasks[p]
        BY <2>0, <3>0 DEF BacklogShape
      <4> QED
        BY <3>0, <4>2, <4>3
    <3>4. ActiveJob(p) = NoJob
      BY <2>0, <3>0, <3>1, <3>2 DEF ActiveShape
    <3>5. ActiveJob(p)' = j
      <4>1. j \in running' \ (returned' \union chained')
        BY <3>0, <3>2 DEF ProcessorInv, TypeOK
      <4> QED
        BY <2>0p, <3>0, <4>1 DEF ActiveShape
    <3>6. \A q \in Processors : q # p =>
             Backlog(q)' = Backlog(q) /\ ActiveJob(q)' = ActiveJob(q)
      <4> SUFFICES ASSUME NEW q \in Processors, q # p
                   PROVE  Backlog(q)' = Backlog(q) /\ ActiveJob(q)' = ActiveJob(q)
        OBVIOUS
      <4>1. Backlog(q)' = Backlog(q)
        BY <2>0, <2>0p, <3>0 DEF BacklogShape
      <4>2. ActiveJob(q)' = ActiveJob(q)
        BY <2>0, <2>0p, <3>0 DEF ActiveShape
      <4> QED
        BY <4>1, <4>2
    <3>7. /\ Backlog(p) # <<>>
          /\ Head(Backlog(p)) = j
          /\ Tail(Backlog(p)) = mTasks[p]
      BY <2>t, <3>0, <3>3
    <3> QED
      BY <3>0, <3>3, <3>4, <3>5, <3>6, <3>7 DEF Serial!ExecStart
  <2>3. ASSUME NEW j \in Jobs, BodyReturns(j)
        PROVE  Serial!ExecFinish(Owner(j))
    <3> DEFINE p == Owner(j)
    <3>0. /\ p \in Processors
          /\ j \in running \ (returned \union chained)
          /\ returned' = returned \union {j}
          /\ UNCHANGED <<mTasks, pending, running, chained>>
      BY <2>3, OwnerAssumption DEF BodyReturns
    <3>1. ActiveJob(p) = j /\ j # NoJob
      BY <2>0, <3>0, NoJobAssumption DEF ActiveShape
    <3>2. ActiveJob(p)' = NoJob
      <4>1. \A k \in running' \ (returned' \union chained') : Owner(k) # p
        BY <3>0 DEF ProcessorInv, OneInPool, InPool
      <4> QED
        BY <2>0p, <3>0, <4>1 DEF ActiveShape
    <3>3. \A q \in Processors : q # p => ActiveJob(q)' = ActiveJob(q)
      BY <2>0, <2>0p, <3>0 DEF ActiveShape
    <3>4. \A q \in Processors : Backlog(q)' = Backlog(q)
      BY <3>0 DEF Backlog
    <3> QED
      BY <3>0, <3>1, <3>2, <3>3, <3>4 DEF Serial!ExecFinish
  <2>4. ASSUME NEW j \in Jobs, Schedule(j)
        PROVE  Q' = Q /\ A' = A
    <3> DEFINE p == Owner(j)
    <3>0. /\ p \in Processors
          /\ j \in returned
          /\ returned' = returned \ {j}
          /\ chained' = chained \union {j}
          /\ running' = running
      BY <2>4, OwnerAssumption DEF Schedule, Pool!Submit
    <3>1. \A q \in Processors : ActiveJob(q)' = ActiveJob(q)
      <4>1. running' \ (returned' \union chained') = running \ (returned \union chained)
        BY <3>0
      <4> QED
        BY <2>a, <4>1
    <3>2. \A k \in pending : Owner(k) # p
      BY <3>0 DEF ProcessorInv, TypeOK, OneInPool, InPool
    <3>3. Backlog(p)' = Backlog(p)
      <4>1. CASE mTasks[p] # <<>>
        <5>1. /\ pending' = pending \union {Head(mTasks[p])}
              /\ mTasks'[p] = Tail(mTasks[p])
          BY <2>4, <3>0, <4>1 DEF Schedule, Pool!Submit, ProcessorInv, TypeOK
        <5>2. Owner(Head(mTasks[p])) = p
          BY <2>t, <3>0, <4>1 DEF ProcessorInv, QueuesDisjoint
        <5>3. Backlog(p)' = <<Head(mTasks[p])>> \o Tail(mTasks[p])
          BY <2>0p, <3>0, <5>1, <5>2 DEF BacklogShape
        <5>4. Backlog(p) = mTasks[p]
          BY <2>0, <3>0, <3>2 DEF BacklogShape
        <5>5. <<Head(mTasks[p])>> \o Tail(mTasks[p]) = mTasks[p]
          BY <2>t, <3>0, <4>1
        <5> QED
          BY <5>3, <5>4, <5>5
      <4>2. CASE mTasks[p] = <<>>
        <5>1. pending' = pending /\ mTasks' = mTasks
          BY <2>4, <4>2 DEF Schedule
        <5> QED
          BY <5>1 DEF Backlog
      <4> QED
        BY <4>1, <4>2
    <3>4. \A q \in Processors : q # p => Backlog(q)' = Backlog(q)
      <4> SUFFICES ASSUME NEW q \in Processors, q # p
                   PROVE  Backlog(q)' = Backlog(q)
        OBVIOUS
      <4>1. mTasks'[q] = mTasks[q]
        BY <2>4, <3>0 DEF Schedule, ProcessorInv, TypeOK
      <4>2. \A k \in Jobs : Owner(k) = q => (k \in pending' <=> k \in pending)
        <5>1. CASE mTasks[p] # <<>>
          <6>1. pending' = pending \union {Head(mTasks[p])}
            BY <2>4, <5>1 DEF Schedule, Pool!Submit
          <6>2. Owner(Head(mTasks[p])) = p
            BY <2>t, <3>0, <5>1 DEF ProcessorInv, QueuesDisjoint
          <6> QED
            BY <6>1, <6>2
        <5>2. CASE mTasks[p] = <<>>
          BY <2>4, <5>2 DEF Schedule
        <5> QED
          BY <5>1, <5>2
      <4>3. pending \subseteq Jobs /\ pending' \subseteq Jobs
        BY DEF ProcessorInv, TypeOK
      <4> QED
        BY <2>0, <2>0p, <4>1, <4>2, <4>3 DEF BacklogShape
    <3> QED
      BY <3>1, <3>3, <3>4 DEF Q, A
  <2>5. ASSUME NEW j \in Jobs, Destroy(j)
        PROVE  Q' = Q /\ A' = A
    <3>1. mTasks' = mTasks /\ pending' = pending /\ returned' = returned
      BY <2>5 DEF Destroy, Pool!Finish
    <3>2. running' \ (returned' \union chained') = running \ (returned \union chained)
      BY <2>5 DEF Destroy, Pool!Finish
    <3>3. \A q \in Processors : Backlog(q)' = Backlog(q) /\ ActiveJob(q)' = ActiveJob(q)
      BY <2>a, <2>b, <3>1, <3>2
    <3> QED
      BY <3>3 DEF Q, A
  <2>6. ASSUME NEW p \in Processors, JoinCall(p) \/ JoinCheck(p) \/ JoinSpuriousWakeup(p)
        PROVE  Q' = Q /\ A' = A
    <3>1. UNCHANGED <<mTasks, pending, running, returned, chained>>
      BY <2>6 DEF JoinCall, JoinCheck, JoinSpuriousWakeup
    <3>2. \A q \in Processors : Backlog(q)' = Backlog(q) /\ ActiveJob(q)' = ActiveJob(q)
      BY <2>a, <2>b, <3>1
    <3> QED
      BY <3>2 DEF Q, A
  <2>7. CASE UNCHANGED vars
    <3>1. \A q \in Processors : Backlog(q)' = Backlog(q) /\ ActiveJob(q)' = ActiveJob(q)
      BY <2>7, <2>a, <2>b DEF vars
    <3> QED
      BY <3>1 DEF Q, A
  <2>8. ASSUME NEW j \in Jobs, Enqueue(j) \/ Start(j) \/ BodyReturns(j)
        PROVE  Serial!ExecNext
    <3>1. PICK p \in Processors : p = Owner(j)
      BY OwnerAssumption
    <3>2. CASE Enqueue(j)
      <4>1. Serial!ExecSubmit(p, j)
        BY <2>1, <3>1, <3>2
      <4> QED
        BY <4>1 DEF Serial!ExecNext
    <3>3. CASE Start(j)
      <4>1. Serial!ExecStart(p)
        BY <2>2, <3>1, <3>3
      <4> QED
        BY <4>1 DEF Serial!ExecNext
    <3>4. CASE BodyReturns(j)
      <4>1. Serial!ExecFinish(p)
        BY <2>3, <3>1, <3>4
      <4> QED
        BY <4>1 DEF Serial!ExecNext
    <3> QED
      BY <2>8, <3>2, <3>3, <3>4
  <2> QED
    BY <2>4, <2>5, <2>6, <2>7, <2>8 DEF Next
<1> QED
  BY ProcessorCorrect, <1>1, <1>2, PTL DEF Spec, ImplementsSerialExecutor, Serial!ExecSpec
=============================================================================
