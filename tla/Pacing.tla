------------------------------- MODULE Pacing -------------------------------
(***************************************************************************)
(* src/src/pacinghandler.cpp: outgoing packets wait in mRtpBuffer for a    *)
(* task of the thread pool, which runs mSendInterval after schedule() and  *)
(* sends as long as its budget is positive.  mMutex makes outgoing() and   *)
(* the task atomic.  Budgets are counted in units of which one packet has  *)
(* up to MaxSize and an interval grants MaxBudget.                         *)
(***************************************************************************)
EXTENDS Integers, Sequences

CONSTANTS
    MaxSize,        \* the size of the largest packet
    MaxBudget,      \* mSendInterval * mBytesPerSecond
    MaxPaced,       \* bounds the packets given to outgoing()
    MaxPaceTasks    \* bounds the tasks that calls of outgoing() pile up

ASSUME MaxSizeAssumption == MaxSize \in Nat \ {0}
ASSUME MaxBudgetAssumption == MaxBudget \in Nat \ {0}
ASSUME PacingBounds == MaxPaced \in Nat /\ MaxPaceTasks \in Nat

VARIABLES
    paceBuffer,     \* the packets that wait
    mBudget,
    mHaveScheduled,
    paceTasks,      \* tasks of this handler in the thread pool
    pacedOut,       \* packets given to send(), in order
    pacedIn         \* packets given to outgoing() so far

pacingVars == <<paceBuffer, mBudget, mHaveScheduled, paceTasks, pacedOut, pacedIn>>

PacedPacket == [id : 1 .. MaxPaced, size : 1 .. MaxSize]

PacingInit ==
    /\ paceBuffer = <<>>
    /\ mBudget = 0
    /\ mHaveScheduled = FALSE
    /\ paceTasks = 0
    /\ pacedOut = <<>>
    /\ pacedIn = 0

(* schedule(), with n tasks left in the pool: the flag is set, and a task is *)
(* given to the pool if the flag was set before.                             *)
paceSchedule(flag, n) ==
    /\ mHaveScheduled' = TRUE
    /\ paceTasks' = IF flag THEN n + 1 ELSE n

(* outgoing() of k packets, or none if an earlier handler took them all.     *)
PaceOutgoing(k) ==
    /\ pacedIn + k <= MaxPaced
    /\ paceTasks < MaxPaceTasks
    /\ \E sizes \in [1 .. k -> 1 .. MaxSize] :
          paceBuffer' = paceBuffer \o [i \in 1 .. k |-> [id |-> pacedIn + i, size |-> sizes[i]]]
    /\ pacedIn' = pacedIn + k
    /\ paceSchedule(mHaveScheduled, paceTasks)
    /\ UNCHANGED <<mBudget, pacedOut>>

(* The budget of a run that begins after a time which grants that much.      *)
NewBudget(granted) ==
    IF mBudget + granted > MaxBudget THEN MaxBudget ELSE mBudget + granted

(* What is left of a budget once the first k packets were sent.                  *)
Left(budget, k) ==
    LET left[i \in 0 .. k] == IF i = 0 THEN budget ELSE left[i - 1] - paceBuffer[i].size
    IN  left[k]

(* The loop sends k packets: it had budget before each, and not for another. *)
SendsUpTo(budget, k) ==
    /\ \A i \in 0 .. k - 1 : Left(budget, i) > 0
    /\ k < Len(paceBuffer) => Left(budget, k) <= 0

(* The task.                                                                 *)
PaceTask(granted) ==
    /\ paceTasks > 0
    /\ \E k \in 0 .. Len(paceBuffer) :
          /\ SendsUpTo(NewBudget(granted), k)
          /\ mBudget' = Left(NewBudget(granted), k)
          /\ pacedOut' = pacedOut \o SubSeq(paceBuffer, 1, k)
          /\ paceBuffer' = SubSeq(paceBuffer, k + 1, Len(paceBuffer))
    /\ \/ paceBuffer' # <<>> /\ paceSchedule(FALSE, paceTasks - 1)
       \/ paceBuffer' = <<>> /\ mHaveScheduled' = FALSE /\ paceTasks' = paceTasks - 1
    /\ UNCHANGED pacedIn

(* One interval after schedule() there is some budget, more if it ran late.  *)
PaceTaskRuns == \E granted \in 0 .. MaxBudget + 1 : PaceTask(granted)

PacingNext == PaceTaskRuns \/ \E k \in 0 .. MaxPaced : PaceOutgoing(k)

(* The pool runs its tasks, not too early every time.                        *)
PacingSpec == PacingInit /\ [][PacingNext]_pacingVars /\ WF_pacingVars(PaceTaskRuns) /\ SF_pacingVars(PaceTask(MaxBudget))

-----------------------------------------------------------------------------

(* A burst is bounded: the budget never exceeds one interval's, and a run    *)
(* exceeds it by less than one packet, which the next runs pay back.         *)
BudgetBounded ==
    /\ mBudget \in 1 - MaxSize .. MaxBudget
    /\ paceTasks \in Nat

(* Packets leave in the order of outgoing(), none lost and none twice,       *)
(* however the tasks of several calls interleave with more calls.            *)
PacketOrder ==
    LET all == pacedOut \o paceBuffer
    IN  /\ all \in Seq(PacedPacket)
        /\ Len(all) = pacedIn
        /\ \A i \in 1 .. pacedIn : all[i].id = i

(* Packets are delivered on an interval: what waits is sent in the end.          *)
PacketsSent == paceBuffer # <<>> ~> paceBuffer = <<>>
=============================================================================
