------------------------ MODULE SctpTransportProofs ------------------------
(***************************************************************************)
(* Proofs about SctpTransport for any streams, threads, window and number  *)
(* of messages: amounts and counters are exact, the order of the calls is  *)
(* kept, the shutdown comes last, and no flush is lost; and about the data *)
(* channels on top of it (DataChannels).                                   *)
(***************************************************************************)
EXTENDS SctpTransport, DataChannels, FiniteSetTheorems, WellFoundedInduction, SequenceTheorems, TLAPS

-----------------------------------------------------------------------------
(* Counting in sequences.                                                    *)

(* How many of the first k elements of q are in T.                           *)
Occ(q, k, T) == Cardinality({i \in 1 .. k : q[i] \in T})

(* A number of elements is a natural number, zero only without elements.     *)
LEMMA OccType ==
  ASSUME NEW q, NEW k \in Nat, NEW T
  PROVE  /\ IsFiniteSet({i \in 1 .. k : q[i] \in T})
         /\ Occ(q, k, T) \in Nat
         /\ Occ(q, k, T) <= k
         /\ Occ(q, k, T) = 0 <=> \A i \in 1 .. k : q[i] \notin T
<1> DEFINE R == {i \in 1 .. k : q[i] \in T}
<1>1. IsFiniteSet(1 .. k) /\ Cardinality(1 .. k) = k
  BY FS_Interval
<1>2. R \in SUBSET (1 .. k)
  OBVIOUS
<1>3. IsFiniteSet(R) /\ Cardinality(R) <= Cardinality(1 .. k)
  BY <1>1, <1>2, FS_Subset
<1>4. Cardinality(R) \in Nat
  BY <1>3, FS_CardinalityType
<1>5. Cardinality(R) = 0 <=> R = {}
  BY <1>3, FS_EmptySet
<1> QED
  BY <1>1, <1>3, <1>4, <1>5 DEF Occ

(* One more element.                                                         *)
LEMMA OccStep ==
  ASSUME NEW q, NEW k \in Nat, NEW T
  PROVE  Occ(q, k + 1, T) = Occ(q, k, T) + (IF q[k + 1] \in T THEN 1 ELSE 0)
<1> DEFINE R(n) == {i \in 1 .. n : q[i] \in T}
<1>1. IsFiniteSet(R(k)) /\ Cardinality(R(k)) \in Nat
  BY OccType DEF Occ
<1>2. k + 1 \notin R(k)
  OBVIOUS
<1>3. CASE q[k + 1] \in T
  <2>1. R(k + 1) = R(k) \cup {k + 1}
    BY <1>3
  <2> QED
    BY <1>1, <1>2, <1>3, <2>1, FS_AddElement DEF Occ
<1>4. CASE q[k + 1] \notin T
  <2>1. R(k + 1) = R(k)
    BY <1>4
  <2> QED
    BY <1>1, <1>4, <2>1 DEF Occ
<1> QED
  BY <1>3, <1>4

(* Sequences that agree on their first elements.                             *)
LEMMA OccSame ==
  ASSUME NEW q, NEW r, NEW k \in Nat, NEW T, \A i \in 1 .. k : q[i] \in T <=> r[i] \in T
  PROVE  Occ(q, k, T) = Occ(r, k, T)
<1>1. {i \in 1 .. k : q[i] \in T} = {i \in 1 .. k : r[i] \in T}
  OBVIOUS
<1> QED
  BY <1>1 DEF Occ

(* An element appended.                                                      *)
LEMMA OccAppend ==
  ASSUME NEW S, NEW q \in Seq(S), NEW e \in S, NEW T
  PROVE  Occ(Append(q, e), Len(Append(q, e)), T) = Occ(q, Len(q), T) + (IF e \in T THEN 1 ELSE 0)
<1> DEFINE r == Append(q, e)
<1>1. Len(q) \in Nat /\ Len(r) = Len(q) + 1 /\ r[Len(q) + 1] = e
  OBVIOUS
<1>2. \A i \in 1 .. Len(q) : r[i] = q[i]
  OBVIOUS
<1>3. Occ(r, Len(q), T) = Occ(q, Len(q), T)
  <2>1. \A i \in 1 .. Len(q) : r[i] \in T <=> q[i] \in T
    BY <1>2
  <2> HIDE DEF r
  <2> QED
    BY <1>1, <2>1, OccSame
<1>4. Occ(r, Len(q) + 1, T) = Occ(r, Len(q), T) + (IF r[Len(q) + 1] \in T THEN 1 ELSE 0)
  <2> HIDE DEF r
  <2> QED
    BY <1>1, OccStep
<1> QED
  BY <1>1, <1>3, <1>4

(* What stands before a place and what stands behind it.                     *)
LEMMA OccSplit ==
  ASSUME NEW S, NEW q \in Seq(S), NEW k \in 0 .. Len(q), NEW T
  PROVE  LET r == SubSeq(q, k + 1, Len(q))
         IN  Occ(q, Len(q), T) = Occ(q, k, T) + Occ(r, Len(r), T)
<1> DEFINE r == SubSeq(q, k + 1, Len(q))
           A == {i \in 1 .. k : q[i] \in T}
           B == {i \in k + 1 .. Len(q) : q[i] \in T}
           C == {i \in 1 .. Len(r) : r[i] \in T}
           f == [i \in C |-> i + k]
<1>1. Len(q) \in Nat /\ Len(r) = Len(q) - k /\ \A i \in 1 .. Len(r) : r[i] = q[k + i]
  OBVIOUS
<1>2. IsFiniteSet(A) /\ IsFiniteSet(C) /\ Cardinality(A) = Occ(q, k, T) /\ Cardinality(C) = Occ(r, Len(r), T)
  <2> HIDE DEF r
  <2>1. k \in Nat /\ Len(r) \in Nat
    BY <1>1
  <2>2. IsFiniteSet(A) /\ IsFiniteSet(C)
    BY <2>1, OccType
  <2> QED
    BY <2>2 DEF Occ
<1>3. ExistsBijection(C, B)
  <2> HIDE DEF r
  <2>1. f \in [C -> B]
    BY <1>1
  <2>2. \A i, j \in C : f[i] = f[j] => i = j
    BY <1>1
  <2>3. \A b \in B : \E i \in C : f[i] = b
    <3> SUFFICES ASSUME NEW b \in B PROVE \E i \in C : f[i] = b
      OBVIOUS
    <3>1. b - k \in C /\ f[b - k] = b
      BY <1>1
    <3> QED
      BY <3>1
  <2>4. f \in Bijection(C, B)
    <3> HIDE DEF f, B, C
    <3> QED
      BY <2>1, <2>2, <2>3 DEF Bijection, Injection, IsInjective, Surjection
  <2> QED
    BY <2>4 DEF ExistsBijection
<1>4. IsFiniteSet(B) /\ Cardinality(B) = Cardinality(C)
  BY <1>2, <1>3, FS_Bijection
<1>5. A \cup B = {i \in 1 .. Len(q) : q[i] \in T} /\ A \cap B = {}
  BY <1>1
<1>6. Cardinality(A \cup B) = Cardinality(A) + Cardinality(B)
  <2> HIDE DEF A, B, C
  <2>1. Cardinality(A \cup B) = Cardinality(A) + Cardinality(B) - Cardinality(A \cap B)
    BY <1>2, <1>4, FS_Union
  <2>2. Cardinality(A \cap B) = 0 /\ Cardinality(A) \in Nat /\ Cardinality(B) \in Nat
    BY <1>2, <1>4, <1>5, FS_EmptySet, FS_CardinalityType
  <2> QED
    BY <2>1, <2>2
<1> QED
  BY <1>2, <1>4, <1>5, <1>6 DEF Occ

(* The first element taken away.                                             *)
LEMMA OccTail ==
  ASSUME NEW S, NEW q \in Seq(S), q # <<>>, NEW T
  PROVE  /\ Occ(Tail(q), Len(Tail(q)), T) \in Nat
         /\ Occ(q, Len(q), T) = Occ(Tail(q), Len(Tail(q)), T) + (IF Head(q) \in T THEN 1 ELSE 0)
<1>1. Tail(q) = SubSeq(q, 2, Len(q)) /\ 1 \in 0 .. Len(q) /\ Head(q) = q[1] /\ Len(Tail(q)) \in Nat
  OBVIOUS
<1>2. Occ(q, 0, T) = 0
  <2>1. \A i \in 1 .. 0 : q[i] \notin T
    OBVIOUS
  <2> QED
    BY <2>1, OccType
<1>3. Occ(q, 1, T) = IF Head(q) \in T THEN 1 ELSE 0
  <2>1. Occ(q, 0 + 1, T) = Occ(q, 0, T) + (IF q[0 + 1] \in T THEN 1 ELSE 0)
    BY OccStep
  <2> QED
    BY <1>1, <1>2, <2>1
<1>4. Occ(q, Len(q), T) = Occ(q, 1, T) + Occ(Tail(q), Len(Tail(q)), T)
  <2>1. SubSeq(q, 1 + 1, Len(q)) = Tail(q)
    BY <1>1
  <2> QED
    BY <1>1, <2>1, OccSplit
<1>5. Occ(Tail(q), Len(Tail(q)), T) \in Nat
  BY <1>1, OccType
<1> QED
  BY <1>3, <1>4, <1>5

-----------------------------------------------------------------------------
(* The inductive invariant.                                                  *)

(* The job that runs is the first of the queue.                              *)
RecvAtHead == receiving # "no" => jobs # <<>> /\ Head(jobs) = "doRecv"

StoppedByClose == mStopping <=> closer # "idle"

(* Messages are numbered by the calls.                                       *)
Numbered ==
    /\ lastSent <= count
    /\ \A k \in 1 .. Len(mSendQueue) : mSendQueue[k].id <= count

(* Nothing has come from usrsctp as long as there was no association.        *)
BeforeUp ==
    assoc = "none" =>
        /\ state # "Connected" /\ unacked = 0
        /\ inbox = <<>> /\ receiving = "no"
        /\ mPendingFlushCount = 0 /\ mPendingRecvCount = 0
        /\ \A u \in Upcallers : upcall[u] = "idle"

(* The association comes up once.                                            *)
UpOnce ==
    /\ \A i, j \in 1 .. Len(inbox) : inbox[i] = "CommUp" /\ inbox[j] = "CommUp" => i = j
    /\ receiving = "CommUp" => \A i \in 1 .. Len(inbox) : inbox[i] # "CommUp"

(* The transport is going to be connected.                                   *)
UpAhead ==
    \/ receiving = "CommUp"
    \/ /\ state \notin {"Disconnected", "Failed"}
       /\ \E i \in 1 .. Len(inbox) : inbox[i] = "CommUp"

NotYetConnected == UpAhead => state # "Connected" /\ unacked = 0

(* A flush that the upcall enqueued does not run before the doRecv() which   *)
(* connects the transport: who flushes has seen the receiving to be ahead,   *)
(* and jobs are executed in order.                                           *)
FlushAfterRecv ==
    UpAhead =>
        /\ \A u \in Upcallers : upcall[u] \in {"write", "flush"} =>
               receiving # "no" \/ mPendingRecvCount > 0
        /\ \A j \in 1 .. Len(jobs) : jobs[j] = "doFlush" =>
               \E i \in 1 .. j - 1 : jobs[i] = "doRecv"

Awake == \E u \in Upcallers : upcall[u] # "idle"

(* The upcall for the new association brings a flush.                        *)
FlushFollows ==
    UpAhead => Awake \/ \E j \in 1 .. Len(jobs) : jobs[j] = "doFlush"

(* Whether trySendQueue() would get rid of a message.                        *)
CanSend == mSendQueue # <<>> /\ (mSendQueue[1].kind # "Data" \/ Room > 0)

(* A message that can be sent has a flush in the queue, or a thread in the   *)
(* upcall that will find room in the buffer of usrsctp.                      *)
FlushScheduled ==
    state = "Connected" /\ CanSend =>
        \/ \E i \in 1 .. Len(jobs) : jobs[i] \in {"doFlush", "flush"}
        \/ Awake /\ unacked < Window

(* Amounts are exact if nobody sends once close() was called: the queue      *)
(* ignores such a message, but its size is counted.                          *)
AmountInv == ~LateSends => BufferedAmountExact

QueueInv == Numbered /\ SendOrder /\ ShutdownAfterDrain /\ StoppedByClose /\ AmountInv

UpInv == BeforeUp /\ UpOnce /\ NotYetConnected /\ FlushAfterRecv /\ FlushFollows /\ FlushScheduled

SctpIInv == TypeOK /\ CountersMatchJobs /\ RecvAtHead /\ QueueInv /\ UpInv

-----------------------------------------------------------------------------
(* The queue.                                                                *)

DataOf(s) == {m \in Message : m.stream = s /\ m.kind = "Data"}
DataMessages == {m \in Message : m.kind = "Data"}

LEMMA DataInIsOcc ==
  ASSUME NEW q \in Seq(Message), NEW k \in 0 .. Len(q)
  PROVE  DataIn(q, k) = Occ(q, k, DataMessages)
<1>1. {i \in 1 .. k : q[i].kind = "Data"} = {i \in 1 .. k : q[i] \in DataMessages}
  BY DEF DataMessages
<1> QED
  BY <1>1 DEF DataIn, Occ

LEMMA QueuedIsOcc ==
  ASSUME NEW q \in Seq(Message), NEW k \in 0 .. Len(q), NEW s
  PROVE  Cardinality({i \in 1 .. k : q[i].stream = s /\ q[i].kind = "Data"}) = Occ(q, k, DataOf(s))
<1>1. {i \in 1 .. k : q[i].stream = s /\ q[i].kind = "Data"} = {i \in 1 .. k : q[i] \in DataOf(s)}
  BY DEF DataOf
<1> QED
  BY <1>1 DEF Occ

LEMMA RoomType ==
  ASSUME TypeOK
  PROVE  /\ Room \in Nat /\ unacked + Room <= Window
         /\ ~Refusing => Room = Window - unacked
         /\ Refusing => Room = 0
BY WindowAssumption DEF TypeOK, Room

(* A set of numbers up to n has a largest one: the one whose successors are  *)
(* a minimal set.                                                            *)
LEMMA Largest ==
  ASSUME NEW n \in Nat, NEW K \in SUBSET (0 .. n), K # {}
  PROVE  \E k \in K : \A j \in K : j <= k
<1> DEFINE U(k) == k + 1 .. n
           T == {U(k) : k \in K}
           R == StrictSubsetOrdering(Nat)
<1>1. T # {}
  OBVIOUS
<1>2. T \subseteq FiniteSubsetsOf(Nat)
  <2> SUFFICES ASSUME NEW k \in K PROVE U(k) \in FiniteSubsetsOf(Nat)
    OBVIOUS
  <2>1. U(k) \in SUBSET Nat /\ IsFiniteSet(U(k))
    BY FS_Interval
  <2> QED
    BY <2>1 DEF FiniteSubsetsOf
<1>3. IsWellFoundedOn(R, FiniteSubsetsOf(Nat))
  BY FS_StrictSubsetOrderingWellFounded
<1>4. PICK x \in T : \A y \in T : ~(<<y, x>> \in R)
  <2> HIDE DEF T, R
  <2> QED
    BY <1>1, <1>2, <1>3, WFMin
<1>5. PICK k \in K : x = U(k)
  OBVIOUS
<1>6. ASSUME NEW j \in K, ~(j <= k) PROVE FALSE
  <2>1. U(j) \in SUBSET Nat /\ U(k) \in SUBSET Nat
    OBVIOUS
  <2>2. U(j) \subseteq U(k) /\ j \in U(k) /\ j \notin U(j)
    BY <1>6
  <2>3. <<U(j), U(k)>> \in R
    <3> HIDE DEF U
    <3> QED
      BY <2>1, <2>2 DEF StrictSubsetOrdering
  <2> QED
    BY <1>4, <1>5, <2>3
<1> QED
  BY <1>6

(* trySendQueue() stops at the end or before a data message without room.    *)
LEMMA SendableFacts ==
  ASSUME TypeOK
  PROVE  /\ Sendable \in 0 .. Len(mSendQueue)
         /\ DataIn(mSendQueue, Sendable) \in Nat
         /\ DataIn(mSendQueue, Sendable) <= Room
         /\ state = "Connected" /\ Sendable < Len(mSendQueue) =>
                DataIn(mSendQueue, Sendable + 1) > Room
         /\ state # "Connected" => Sendable = 0 /\ DataIn(mSendQueue, Sendable) = 0
<1> DEFINE q == mSendQueue
           D(k) == Occ(q, k, DataMessages)
<1>1. q \in Seq(Message) /\ Len(q) \in Nat /\ Room \in Nat
  BY RoomType DEF TypeOK
<1>2. \A k \in 0 .. Len(q) : DataIn(q, k) = D(k) /\ D(k) \in Nat
  <2> SUFFICES ASSUME NEW k \in 0 .. Len(q) PROVE DataIn(q, k) = D(k) /\ D(k) \in Nat
    OBVIOUS
  <2>1. k \in Nat
    BY <1>1
  <2> HIDE DEF q
  <2> QED
    BY <1>1, <2>1, DataInIsOcc, OccType
<1>3. D(0) = 0
  <2>1. 0 \in Nat /\ \A i \in 1 .. 0 : q[i] \notin DataMessages
    OBVIOUS
  <2> QED
    BY <2>1, OccType
<1>4. CASE state = "Connected"
  <2> DEFINE K == {k \in 0 .. Len(q) : D(k) <= Room}
  <2>1. 0 \in K
    BY <1>1, <1>3
  <2>2. PICK k \in K : \A j \in K : j <= k
    BY <1>1, <2>1, Largest
  <2>3. k < Len(q) => D(k + 1) > Room
    <3> SUFFICES ASSUME k < Len(q), ~(D(k + 1) > Room) PROVE FALSE
      OBVIOUS
    <3>1. k + 1 \in 0 .. Len(q)
      BY <1>1
    <3>2. D(k + 1) \in Nat
      BY <1>2, <3>1
    <3>3. k + 1 \in K
      BY <1>1, <3>1, <3>2
    <3> QED
      BY <2>2, <3>3
  <2>4. \E n \in 0 .. Len(q) : /\ DataIn(q, n) <= Room
                               /\ n < Len(q) => DataIn(q, n + 1) > Room
    <3>1. k \in 0 .. Len(q) /\ DataIn(q, k) <= Room
      BY <1>2
    <3>2. k < Len(q) => DataIn(q, k + 1) > Room
      BY <1>1, <1>2, <2>3
    <3> QED
      BY <3>1, <3>2
  <2>5. /\ Sendable \in 0 .. Len(q)
        /\ DataIn(q, Sendable) <= Room
        /\ Sendable < Len(q) => DataIn(q, Sendable + 1) > Room
    BY <1>4, <2>4 DEF Sendable
  <2> QED
    BY <1>2, <1>4, <2>5
<1>5. CASE state # "Connected"
  BY <1>1, <1>2, <1>3, <1>5 DEF Sendable
<1> QED
  BY <1>4, <1>5

Rest == SubSeq(mSendQueue, Sendable + 1, Len(mSendQueue))

(* What is left when trySendQueue() has sent what it can: the amounts of the *)
(* rest, in order, and no room for its first message.                        *)
LEMMA RestOfQueue ==
  ASSUME TypeOK, Numbered, SendOrder
  PROVE  /\ Rest \in Seq(Message) /\ Len(Rest) = Len(mSendQueue) - Sendable
         /\ Rest = <<>> <=> Drained
         /\ LastAfter(Sendable) \in 0 .. MaxMessages /\ LastAfter(Sendable) <= count
         /\ \A k \in 1 .. Len(Rest) : /\ Rest[k].id <= count
                                   /\ LastAfter(Sendable) < Rest[k].id
                                   /\ \A i \in 1 .. k - 1 : Rest[i].id < Rest[k].id
         /\ unacked + DataIn(mSendQueue, Sendable) \in 0 .. Window
         /\ AmountAfter(Sendable) \in [Streams -> Nat]
         /\ BufferedAmountExact =>
                \A s \in Streams : AmountAfter(Sendable)[s] = Occ(Rest, Len(Rest), DataOf(s))
         /\ state = "Connected" /\ Rest # <<>> =>
                Rest[1].kind = "Data" /\ DataIn(mSendQueue, Sendable) = Room
<1> DEFINE q == mSendQueue
           D(k) == Occ(q, k, DataMessages)
           n == Sendable
           r == Rest
<1>1. q \in Seq(Message) /\ Len(q) \in Nat /\ Room \in Nat /\ unacked + Room <= Window
      /\ unacked \in 0 .. Window
  BY RoomType DEF TypeOK
<1>2. n \in 0 .. Len(q) /\ DataIn(q, n) \in Nat /\ DataIn(q, n) <= Room
      /\ (state = "Connected" /\ n < Len(q) => DataIn(q, n + 1) > Room)
  BY SendableFacts
<1> HIDE DEF n
<1>3. /\ r \in Seq(Message) /\ Len(r) = Len(q) - n
      /\ \A k \in 1 .. Len(r) : r[k] = q[n + k]
  BY <1>1, <1>2 DEF Rest, n
<1>4. r = <<>> <=> Drained
  <2>1. r = <<>> <=> Len(r) = 0
    BY <1>3, EmptySeq
  <2>2. Len(r) = 0 <=> n = Len(q)
    BY <1>1, <1>2, <1>3
  <2> QED
    BY <2>1, <2>2 DEF Drained, n
<1>5. \A k \in 1 .. Len(q) : /\ q[k].id \in 1 .. MaxMessages /\ q[k].id <= count
                             /\ lastSent < q[k].id
                             /\ \A i \in 1 .. k - 1 : q[i].id < q[k].id
  <2>1. \A k \in 1 .. Len(q) : q[k] \in Message
    BY <1>1
  <2> QED
    BY <2>1 DEF Numbered, SendOrder, Message
<1>6. LastAfter(n) \in 0 .. MaxMessages /\ LastAfter(n) <= count
  BY <1>1, <1>2, <1>5, MaxMessagesAssumption DEF LastAfter, TypeOK, Numbered
<1>7. \A k \in 1 .. Len(r) : /\ r[k].id <= count
                             /\ LastAfter(n) < r[k].id
                             /\ \A i \in 1 .. k - 1 : r[i].id < r[k].id
  <2> SUFFICES ASSUME NEW k \in 1 .. Len(r)
               PROVE  /\ r[k].id <= count
                      /\ LastAfter(n) < r[k].id
                      /\ \A i \in 1 .. k - 1 : r[i].id < r[k].id
    OBVIOUS
  <2>1. n + k \in 1 .. Len(q) /\ r[k] = q[n + k]
    <3>1. k <= Len(q) - n /\ k >= 1 /\ k \in Nat /\ n \in Nat
      BY <1>1, <1>2, <1>3
    <3> QED
      BY <1>1, <1>3, <3>1
  <2>2. \A i \in 1 .. k - 1 : n + i \in 1 .. n + k - 1 /\ r[i] = q[n + i]
    BY <1>1, <1>2, <1>3
  <2>3. n # 0 => n \in 1 .. n + k - 1
    BY <1>1, <1>2
  <2> DEFINE m == n + k
  <2>0. \A i \in 1 .. m - 1 : q[i].id < q[m].id
    <3>1. m \in 1 .. Len(q)
      BY <2>1
    <3> HIDE DEF m
    <3> QED
      BY <1>5, <3>1
  <2>4. LastAfter(n) < r[k].id
    <3>1. CASE n = 0
      BY <1>5, <2>1, <3>1 DEF LastAfter
    <3>2. CASE n # 0
      BY <1>1, <1>2, <2>0, <2>1, <2>3, <3>2 DEF LastAfter
    <3> QED
      BY <3>1, <3>2
  <2>5. \A i \in 1 .. k - 1 : r[i].id < r[k].id
    <3> SUFFICES ASSUME NEW i \in 1 .. k - 1 PROVE r[i].id < r[k].id
      OBVIOUS
    <3>1. n + i \in 1 .. m - 1
      BY <1>1, <1>2
    <3>2. r[i] = q[n + i]
      BY <1>1, <1>2, <1>3
    <3>3. q[n + i].id < q[m].id
      BY <2>0, <3>1
    <3> QED
      BY <2>1, <3>2, <3>3
  <2> QED
    BY <1>5, <2>1, <2>4, <2>5
<1>8. unacked + DataIn(q, n) \in 0 .. Window
  BY <1>1, <1>2, WindowAssumption
<1>9. \A s \in Streams :
         /\ Occ(q, n, DataOf(s)) \in Nat
         /\ Occ(q, Len(q), DataOf(s)) = Occ(q, n, DataOf(s)) + Occ(r, Len(r), DataOf(s))
         /\ Occ(r, Len(r), DataOf(s)) \in Nat
         /\ AmountAfter(n)[s] = IF Occ(q, n, DataOf(s)) >= mBufferedAmount[s] THEN 0
                                ELSE mBufferedAmount[s] - Occ(q, n, DataOf(s))
         /\ Queued(s) = Occ(q, Len(q), DataOf(s))
  <2> SUFFICES ASSUME NEW s \in Streams
               PROVE  /\ Occ(q, n, DataOf(s)) \in Nat
                      /\ Occ(q, Len(q), DataOf(s)) = Occ(q, n, DataOf(s)) + Occ(r, Len(r), DataOf(s))
                      /\ Occ(r, Len(r), DataOf(s)) \in Nat
                      /\ AmountAfter(n)[s] = IF Occ(q, n, DataOf(s)) >= mBufferedAmount[s] THEN 0
                                             ELSE mBufferedAmount[s] - Occ(q, n, DataOf(s))
                      /\ Queued(s) = Occ(q, Len(q), DataOf(s))
    OBVIOUS
  <2>1. n \in Nat /\ Len(r) \in Nat /\ Len(q) \in 0 .. Len(q)
    BY <1>1, <1>2, <1>3
  <2>2. Occ(q, n, DataOf(s)) \in Nat /\ Occ(r, Len(r), DataOf(s)) \in Nat
    BY <2>1, OccType
  <2>3. Occ(q, Len(q), DataOf(s)) = Occ(q, n, DataOf(s)) + Occ(r, Len(r), DataOf(s))
    BY <1>1, <1>2, OccSplit DEF Rest, n
  <2>4. Cardinality({i \in 1 .. n : q[i].stream = s /\ q[i].kind = "Data"}) = Occ(q, n, DataOf(s))
    BY <1>1, <1>2, QueuedIsOcc
  <2>5. Queued(s) = Occ(q, Len(q), DataOf(s))
    BY <1>1, <2>1, QueuedIsOcc DEF Queued
  <2>6. AmountAfter(n)[s] = IF Occ(q, n, DataOf(s)) >= mBufferedAmount[s] THEN 0
                            ELSE mBufferedAmount[s] - Occ(q, n, DataOf(s))
    BY <2>4 DEF AmountAfter
  <2> QED
    BY <2>2, <2>3, <2>5, <2>6
<1>10. AmountAfter(n) \in [Streams -> Nat]
  <2>1. \A s \in Streams : AmountAfter(n)[s] \in Nat
    BY <1>9 DEF TypeOK
  <2>2. AmountAfter(n) = [s \in Streams |-> AmountAfter(n)[s]]
    BY DEF AmountAfter
  <2> QED
    BY <2>1, <2>2
<1>11. BufferedAmountExact =>
          \A s \in Streams : AmountAfter(n)[s] = Occ(r, Len(r), DataOf(s))
  <2> SUFFICES ASSUME BufferedAmountExact, NEW s \in Streams
               PROVE  AmountAfter(n)[s] = Occ(r, Len(r), DataOf(s))
    OBVIOUS
  <2>1. mBufferedAmount[s] = Occ(q, Len(q), DataOf(s))
    BY <1>9 DEF BufferedAmountExact
  <2>2. /\ Occ(q, n, DataOf(s)) \in Nat /\ Occ(r, Len(r), DataOf(s)) \in Nat
        /\ mBufferedAmount[s] = Occ(q, n, DataOf(s)) + Occ(r, Len(r), DataOf(s))
        /\ AmountAfter(n)[s] = IF Occ(q, n, DataOf(s)) >= mBufferedAmount[s] THEN 0
                               ELSE mBufferedAmount[s] - Occ(q, n, DataOf(s))
    BY <1>9, <2>1
  <2>3. \A a, b, x : a \in Nat /\ b \in Nat /\ x = a + b => (IF a >= x THEN 0 ELSE x - a) = b
    OBVIOUS
  <2> QED
    BY <2>2, <2>3
<1>12. ASSUME state = "Connected", r # <<>>
       PROVE  r[1].kind = "Data" /\ DataIn(q, n) = Room
  <2>1. n < Len(q) /\ n \in Nat /\ n + 1 \in 0 .. Len(q)
    BY <1>1, <1>2, <1>3, <1>4, <1>12 DEF Drained, n
  <2>2. DataIn(q, n) = D(n) /\ DataIn(q, n + 1) = D(n + 1)
    BY <1>1, <1>2, <2>1, DataInIsOcc
  <2>3. D(n + 1) = D(n) + (IF q[n + 1] \in DataMessages THEN 1 ELSE 0)
    <3> HIDE DEF q
    <3> QED
      BY <2>1, OccStep
  <2>4. D(n + 1) > Room /\ D(n) <= Room /\ D(n) \in Nat
    BY <1>2, <1>12, <2>1, <2>2
  <2>5. q[n + 1] \in DataMessages /\ D(n) = Room
    BY <1>1, <2>3, <2>4
  <2>6. r[1] = q[n + 1]
    BY <1>1, <1>2, <1>3, <2>1
  <2> QED
    BY <2>2, <2>5, <2>6 DEF DataMessages
<1> QED
  BY <1>3, <1>4, <1>6, <1>7, <1>8, <1>10, <1>11, <1>12 DEF n

(* The queue after a step that leaves r in it with these amounts.            *)
LEMMA AmountsOf ==
  ASSUME NEW r, r \in Seq(Message), mSendQueue' = r,
         \A s \in Streams : mBufferedAmount'[s] = Occ(r, Len(r), DataOf(s))
  PROVE  BufferedAmountExact'
<1> SUFFICES ASSUME NEW s \in Streams PROVE mBufferedAmount'[s] = Queued(s)'
  BY DEF BufferedAmountExact
<1>1. Len(r) \in 0 .. Len(r)
  OBVIOUS
<1>2. Queued(s)' = Cardinality({i \in 1 .. Len(r) : r[i].stream = s /\ r[i].kind = "Data"})
  BY DEF Queued
<1> QED
  BY <1>1, <1>2, QueuedIsOcc

SendTypeOK ==
    /\ mSendQueue \in Seq(Message)
    /\ mSendShutdown \in BOOLEAN
    /\ mBufferedAmount \in [Streams -> Nat]
    /\ unacked \in 0 .. Window
    /\ lastSent \in 0 .. MaxMessages

(* trySendQueue() keeps the queue in order, and leaves nothing in it that    *)
(* could be sent at once.                                                    *)
LEMMA TrySendQueueStep ==
  ASSUME TypeOK, QueueInv, trySendQueue, UNCHANGED <<mStopping, closer, assoc>>,
         count' \in {count, count + 1}
  PROVE  /\ SendTypeOK'
         /\ state' \in {state, "Disconnected"}
         /\ QueueInv'
         /\ state = "Connected" => ~CanSend'
         /\ state # "Connected" => unacked' = unacked
<1>1. TypeOK /\ Numbered /\ SendOrder /\ ShutdownAfterDrain /\ StoppedByClose /\ AmountInv
      /\ count \in Nat /\ mSendShutdown \in BOOLEAN /\ mStopping \in BOOLEAN
  BY DEF QueueInv, TypeOK
<1>2. /\ mSendQueue' = Rest
      /\ lastSent' = LastAfter(Sendable)
      /\ unacked' = unacked + DataIn(mSendQueue, Sendable)
      /\ mBufferedAmount' = AmountAfter(Sendable)
      /\ mSendShutdown' = (mSendShutdown \/ (Drained /\ mStopping))
      /\ state' = state \/ state' = "Disconnected"
  BY DEF trySendQueue, Rest
<1>3. /\ Rest \in Seq(Message) /\ Len(Rest) = Len(mSendQueue) - Sendable
      /\ Rest = <<>> <=> Drained
      /\ LastAfter(Sendable) \in 0 .. MaxMessages /\ LastAfter(Sendable) <= count
      /\ \A k \in 1 .. Len(Rest) : /\ Rest[k].id <= count
                                   /\ LastAfter(Sendable) < Rest[k].id
                                   /\ \A i \in 1 .. k - 1 : Rest[i].id < Rest[k].id
      /\ unacked + DataIn(mSendQueue, Sendable) \in 0 .. Window
      /\ AmountAfter(Sendable) \in [Streams -> Nat]
      /\ BufferedAmountExact =>
             \A s \in Streams : AmountAfter(Sendable)[s] = Occ(Rest, Len(Rest), DataOf(s))
      /\ state = "Connected" /\ Rest # <<>> =>
             Rest[1].kind = "Data" /\ DataIn(mSendQueue, Sendable) = Room
  BY <1>1, RestOfQueue
<1>4. SendTypeOK'
  <2>1. mSendShutdown' \in BOOLEAN
    BY <1>2
  <2> QED
    BY <1>2, <1>3, <2>1 DEF SendTypeOK
<1>5. Numbered'
  <2>1. \A k \in 1 .. Len(Rest) : Rest[k] \in Message
    BY <1>3
  <2>2. \A k \in 1 .. Len(Rest) : Rest[k].id \in Nat
    BY <2>1, MaxMessagesAssumption DEF Message
  <2> QED
    BY <1>1, <1>2, <1>3, <2>2 DEF Numbered
<1>6. SendOrder'
  BY <1>2, <1>3 DEF SendOrder
<1>7. ShutdownAfterDrain'
  <2> SUFFICES ASSUME mSendShutdown' PROVE mStopping /\ Rest = <<>>
    BY <1>2 DEF ShutdownAfterDrain
  <2>1. CASE mSendShutdown
    <3>1. mStopping /\ mSendQueue = <<>>
      BY <1>1, <2>1 DEF ShutdownAfterDrain
    <3>2. Sendable = 0
      BY <1>1, <3>1, SendableFacts
    <3> QED
      BY <1>3, <3>1, <3>2 DEF Drained
  <2>2. CASE ~mSendShutdown
    BY <1>2, <1>3, <2>2
  <2> QED
    BY <2>1, <2>2
<1>8. StoppedByClose'
  BY <1>1 DEF StoppedByClose
<1>9. AmountInv'
  <2> SUFFICES ASSUME ~LateSends PROVE BufferedAmountExact'
    BY DEF AmountInv
  <2>1. \A s \in Streams : mBufferedAmount'[s] = Occ(Rest, Len(Rest), DataOf(s))
    BY <1>1, <1>2, <1>3 DEF AmountInv
  <2> QED
    BY <1>2, <1>3, <2>1, AmountsOf
<1>10. ASSUME state = "Connected" PROVE ~CanSend'
  <2> SUFFICES ASSUME Rest # <<>> PROVE Rest[1].kind = "Data" /\ ~(Room' > 0)
    BY <1>2 DEF CanSend
  <2>1. Rest[1].kind = "Data" /\ DataIn(mSendQueue, Sendable) = Room
    BY <1>3, <1>10
  <2>2. mSendShutdown' = mSendShutdown
    BY <1>1, <1>2, <1>3
  <2>3. Refusing' = Refusing
    BY <2>2 DEF Refusing
  <2>4. CASE Refusing
    BY <2>1, <2>3, <2>4 DEF Room
  <2>5. CASE ~Refusing
    BY <1>1, <1>2, <2>1, <2>3, <2>5, RoomType, WindowAssumption DEF Room, TypeOK
  <2> QED
    BY <2>1, <2>4, <2>5
<1>11. state # "Connected" => unacked' = unacked
  BY <1>1, <1>2, SendableFacts DEF TypeOK
<1> QED
  BY <1>2, <1>4, <1>5, <1>6, <1>7, <1>8, <1>9, <1>10, <1>11 DEF QueueInv

(* A step that leaves the queue alone; if it ends the association, no more   *)
(* can be sent than before.                                                  *)
LEMMA QueueUnchanged ==
  ASSUME TypeOK, QueueInv, UNCHANGED <<sendVars, mStopping, count>>,
         closer' # "idle" <=> closer # "idle"
  PROVE  /\ SendTypeOK'
         /\ QueueInv'
         /\ assoc' \in {assoc, "down"} /\ CanSend' => CanSend
<1>1. UNCHANGED <<mSendQueue, mSendShutdown, mBufferedAmount, unacked, lastSent, mStopping, count>>
  BY DEF sendVars
<1>2. SendTypeOK'
  BY <1>1 DEF TypeOK, SendTypeOK
<1>3. Numbered' /\ SendOrder' /\ ShutdownAfterDrain' /\ StoppedByClose'
  BY <1>1 DEF QueueInv, Numbered, SendOrder, ShutdownAfterDrain, StoppedByClose
<1>4. AmountInv'
  BY <1>1 DEF QueueInv, AmountInv, BufferedAmountExact, Queued
<1>5. assoc' \in {assoc, "down"} /\ CanSend' => CanSend
  BY <1>1 DEF CanSend, Room, Refusing
<1> QED
  BY <1>2, <1>3, <1>4, <1>5 DEF QueueInv

-----------------------------------------------------------------------------
(* The jobs.                                                                 *)

JobNames == {"doRecv", "doFlush", "flush"}
JobCount(q, x) == Cardinality({i \in 1 .. Len(q) : q[i] = x})

LEMMA JobCountIsOcc ==
  ASSUME NEW q, NEW x
  PROVE  JobCount(q, x) = Occ(q, Len(q), {x})
<1>1. {i \in 1 .. Len(q) : q[i] = x} = {i \in 1 .. Len(q) : q[i] \in {x}}
  OBVIOUS
<1> QED
  BY <1>1 DEF JobCount, Occ

LEMMA JobCountPositive ==
  ASSUME NEW q \in Seq(JobNames), NEW x
  PROVE  /\ JobCount(q, x) \in Nat
         /\ JobCount(q, x) > 0 <=> \E i \in 1 .. Len(q) : q[i] = x
<1>1. Len(q) \in Nat
  OBVIOUS
<1>2. Occ(q, Len(q), {x}) \in Nat /\ (Occ(q, Len(q), {x}) = 0 <=> \A i \in 1 .. Len(q) : q[i] \notin {x})
  BY <1>1, OccType
<1> QED
  BY <1>2, JobCountIsOcc

LEMMA JobCountAppend ==
  ASSUME NEW q \in Seq(JobNames), NEW j \in JobNames, NEW x
  PROVE  JobCount(Append(q, j), x) = JobCount(q, x) + (IF j = x THEN 1 ELSE 0)
<1>1. Occ(Append(q, j), Len(Append(q, j)), {x}) = Occ(q, Len(q), {x}) + (IF j \in {x} THEN 1 ELSE 0)
  BY OccAppend
<1> QED
  BY <1>1, JobCountIsOcc

LEMMA JobCountTail ==
  ASSUME NEW q \in Seq(JobNames), q # <<>>, NEW x
  PROVE  JobCount(q, x) = JobCount(Tail(q), x) + (IF Head(q) = x THEN 1 ELSE 0)
<1>1. Occ(q, Len(q), {x}) = Occ(Tail(q), Len(Tail(q)), {x}) + (IF Head(q) \in {x} THEN 1 ELSE 0)
  BY OccTail
<1> QED
  BY <1>1, JobCountIsOcc

LEMMA CountersAre ==
  CountersMatchJobs <=>
    /\ TypeOK
    /\ mPendingFlushCount = JobCount(jobs, "doFlush")
    /\ mPendingRecvCount + (IF receiving = "no" THEN 0 ELSE 1) = JobCount(jobs, "doRecv")
BY DEF CountersMatchJobs, JobCount

(* What the counters say of the queue.                                       *)
LEMMA CountersMean ==
  ASSUME CountersMatchJobs
  PROVE  /\ mPendingFlushCount > 0 <=> \E i \in 1 .. Len(jobs) : jobs[i] = "doFlush"
         /\ mPendingRecvCount > 0 => \E i \in 1 .. Len(jobs) : jobs[i] = "doRecv"
<1>1. jobs \in Seq(JobNames) /\ mPendingFlushCount \in Nat /\ mPendingRecvCount \in Nat
  BY DEF CountersMatchJobs, TypeOK, JobNames
<1> QED
  BY <1>1, CountersAre, JobCountPositive

(* Jobs are queued behind the others and taken from the front.               *)
LEMMA JobsAppended ==
  ASSUME jobs \in Seq(JobNames), NEW j \in JobNames, jobs' = Append(jobs, j)
  PROVE  /\ jobs' \in Seq(JobNames) /\ jobs' # <<>> /\ Len(jobs') = Len(jobs) + 1
         /\ jobs # <<>> => Head(jobs') = Head(jobs)
         /\ \A i \in 1 .. Len(jobs) : jobs'[i] = jobs[i]
         /\ jobs'[Len(jobs) + 1] = j
         /\ \A x : JobCount(jobs', x) = JobCount(jobs, x) + (IF j = x THEN 1 ELSE 0)
<1>1. \A x : JobCount(jobs', x) = JobCount(jobs, x) + (IF j = x THEN 1 ELSE 0)
  BY JobCountAppend
<1> QED
  BY <1>1

LEMMA JobsTaken ==
  ASSUME jobs \in Seq(JobNames), jobs # <<>>, jobs' = Tail(jobs)
  PROVE  /\ jobs' \in Seq(JobNames) /\ Len(jobs') = Len(jobs) - 1 /\ Len(jobs) \in Nat
         /\ jobs[1] = Head(jobs)
         /\ \A i \in 1 .. Len(jobs') : jobs'[i] = jobs[i + 1]
         /\ \A i \in 2 .. Len(jobs) : jobs[i] = jobs'[i - 1]
         /\ \A x : JobCount(jobs, x) = JobCount(jobs', x) + (IF Head(jobs) = x THEN 1 ELSE 0)
         /\ \A x : JobCount(jobs', x) \in Nat
<1>1. \A x : JobCount(jobs, x) = JobCount(jobs', x) + (IF Head(jobs) = x THEN 1 ELSE 0)
  BY JobCountTail
<1>2. jobs' \in Seq(JobNames)
  OBVIOUS
<1>3. \A x : JobCount(jobs', x) \in Nat
  BY <1>2, JobCountPositive
<1> QED
  BY <1>1, <1>2, <1>3

-----------------------------------------------------------------------------
(* The steps.                                                                *)

LEMMA InitSctp == Init => SctpIInv
<1> SUFFICES ASSUME Init PROVE SctpIInv
  OBVIOUS
<1>1. TypeOK
  <2>1. 0 \in Nat /\ 0 \in 0 .. Window /\ 0 \in 0 .. MaxMessages
    BY WindowAssumption, MaxMessagesAssumption
  <2>2. mSendQueue \in Seq(Message) /\ jobs \in Seq({"doRecv", "doFlush", "flush"})
        /\ inbox \in Seq(Notifications)
    BY DEF Init
  <2>3. mBufferedAmount \in [Streams -> Nat]
    BY <2>1 DEF Init
  <2>4. upcall \in [Upcallers -> {"idle", "event", "recv", "write", "flush"}]
    BY DEF Init
  <2> QED
    BY <2>1, <2>2, <2>3, <2>4 DEF Init, TypeOK, States
<1>2. jobs \in Seq(JobNames) /\ Len(jobs) = 0
  BY DEF Init
<1>3. CountersMatchJobs
  <2>1. \A x : JobCount(jobs, x) \in Nat /\ ~(JobCount(jobs, x) > 0)
    <3>1. 1 .. Len(jobs) = {}
      BY <1>2
    <3> QED
      BY <1>2, <3>1, JobCountPositive
  <2> QED
    BY <1>1, <2>1, CountersAre DEF Init
<1>4. RecvAtHead
  BY DEF Init, RecvAtHead
<1>5. BufferedAmountExact
  <2>1. mSendQueue \in Seq(Message) /\ Len(mSendQueue) = 0
    BY DEF Init
  <2>2. \A s \in Streams : {i \in 1 .. Len(mSendQueue) : mSendQueue[i].stream = s /\ mSendQueue[i].kind = "Data"} = {}
    BY <2>1
  <2>3. \A s \in Streams : Queued(s) = 0
    BY <2>2, FS_EmptySet DEF Queued
  <2> QED
    BY <2>3 DEF Init, BufferedAmountExact
<1>6. QueueInv
  BY <1>5 DEF Init, QueueInv, Numbered, SendOrder, ShutdownAfterDrain, StoppedByClose, AmountInv
<1>7. UpInv
  BY DEF Init, UpInv, BeforeUp, UpOnce, NotYetConnected, FlushAfterRecv, FlushFollows, UpAhead,
         FlushScheduled
<1> QED
  BY <1>1, <1>3, <1>4, <1>6, <1>7 DEF SctpIInv

(* While connected nothing brings the transport up any more.                 *)
LEMMA ConnectedOnce ==
  ASSUME SctpIInv, state = "Connected"
  PROVE  /\ assoc # "none" /\ receiving # "CommUp"
         /\ \A i \in 1 .. Len(inbox) : inbox[i] # "CommUp"
BY DEF SctpIInv, UpInv, BeforeUp, NotYetConnected, UpAhead

(* trySendQueue() while connected, by a call, a job or a notification.       *)
LEMMA UpInvAfterFlush ==
  ASSUME SctpIInv, state = "Connected", state' \in {state, "Disconnected"},
         state' = "Connected" => ~CanSend',
         UNCHANGED <<assoc, inbox>>, receiving' # "CommUp"
  PROVE  UpInv'
<1>1. /\ assoc' # "none"
      /\ \A i \in 1 .. Len(inbox') : inbox'[i] # "CommUp"
  BY ConnectedOnce
<1>2. ~UpAhead'
  BY <1>1 DEF UpAhead
<1> QED
  BY <1>1, <1>2 DEF UpInv, BeforeUp, UpOnce, NotYetConnected, FlushAfterRecv, FlushFollows, FlushScheduled

LEMMA SendStep ==
  ASSUME SctpIInv, NEW s \in Streams, Send(s)
  PROVE  SctpIInv'
<1> DEFINE m == NewMessage(s, "Data")
<1>1. /\ TypeOK /\ QueueInv /\ Numbered /\ SendOrder /\ ShutdownAfterDrain /\ StoppedByClose /\ AmountInv
      /\ state = "Connected" /\ (closer # "idle" => LateSends)
      /\ count < MaxMessages /\ count' = count + 1 /\ count \in 0 .. MaxMessages
      /\ UNCHANGED <<mStopping, mPendingRecvCount, mPendingFlushCount, jobs, receiving, closer,
                     upcall, assoc, inbox>>
  BY DEF SctpIInv, QueueInv, TypeOK, Send
<1>2. m \in Message /\ m.id = count + 1 /\ m.kind = "Data" /\ m.stream = s
  BY <1>1, MaxMessagesAssumption DEF NewMessage, Message, Kinds
<1>3. /\ Rest \in Seq(Message)
      /\ Rest = <<>> <=> Drained
      /\ LastAfter(Sendable) \in 0 .. MaxMessages /\ LastAfter(Sendable) <= count
      /\ \A k \in 1 .. Len(Rest) : /\ Rest[k].id <= count
                                   /\ LastAfter(Sendable) < Rest[k].id
                                   /\ \A i \in 1 .. k - 1 : Rest[i].id < Rest[k].id
      /\ unacked + DataIn(mSendQueue, Sendable) \in 0 .. Window
      /\ AmountAfter(Sendable) \in [Streams -> Nat]
      /\ BufferedAmountExact =>
             \A t \in Streams : AmountAfter(Sendable)[t] = Occ(Rest, Len(Rest), DataOf(t))
      /\ Rest # <<>> => Rest[1].kind = "Data" /\ DataIn(mSendQueue, Sendable) = Room
  BY <1>1, RestOfQueue
<1>4. Room \in Nat /\ DataIn(mSendQueue, Sendable) \in Nat /\ DataIn(mSendQueue, Sendable) <= Room
      /\ (~Refusing => Room = Window - unacked) /\ (Refusing => Room = 0) /\ unacked \in 0 .. Window
  BY <1>1, RoomType, SendableFacts DEF TypeOK
<1>5. ASSUME SendNow(m)
      PROVE  SendTypeOK' /\ QueueInv' /\ ~CanSend' /\ state' = state
  <2>1. /\ Drained /\ ~mStopping /\ RoomAfter > 0 /\ mSendQueue' = <<>> /\ lastSent' = count + 1
        /\ unacked' = unacked + DataIn(mSendQueue, Sendable) + 1
        /\ mBufferedAmount' = AmountAfter(Sendable)
        /\ UNCHANGED <<state, mSendShutdown>>
    BY <1>2, <1>5 DEF SendNow
  <2>2. ~Refusing /\ unacked' \in 0 .. Window
    BY <1>4, <2>1, WindowAssumption DEF RoomAfter
  <2>3. SendTypeOK'
    <3>1. mSendQueue' \in Seq(Message) /\ mSendShutdown' \in BOOLEAN
      BY <1>1, <1>3, <2>1 DEF TypeOK
    <3>2. lastSent' \in 0 .. MaxMessages
      BY <1>1, <2>1, MaxMessagesAssumption
    <3> QED
      BY <1>3, <2>1, <2>2, <3>1, <3>2 DEF SendTypeOK
  <2>4. ~CanSend'
    BY <2>1 DEF CanSend
  <2>5. Numbered' /\ SendOrder' /\ ShutdownAfterDrain' /\ StoppedByClose'
    BY <1>1, <2>1 DEF Numbered, SendOrder, ShutdownAfterDrain, StoppedByClose
  <2>6. AmountInv'
    <3> SUFFICES ASSUME ~LateSends PROVE BufferedAmountExact'
      BY DEF AmountInv
    <3>1. mSendQueue' = Rest
      BY <1>3, <2>1
    <3>2. \A t \in Streams : mBufferedAmount'[t] = Occ(Rest, Len(Rest), DataOf(t))
      BY <1>1, <1>3, <2>1 DEF AmountInv
    <3> QED
      BY <1>3, <3>1, <3>2, AmountsOf
  <2> QED
    BY <2>1, <2>3, <2>4, <2>5, <2>6 DEF QueueInv
<1>6. ASSUME SendLater(m)
      PROVE  SendTypeOK' /\ QueueInv' /\ ~CanSend' /\ state' = state
  <2>1. /\ ~Refusing /\ (Drained => RoomAfter = 0 /\ ~mStopping)
        /\ mSendQueue' = Push(Rest, m) /\ lastSent' = LastAfter(Sendable)
        /\ unacked' = unacked + DataIn(mSendQueue, Sendable)
        /\ mBufferedAmount' = [AmountAfter(Sendable) EXCEPT ![s] = @ + 1]
        /\ UNCHANGED <<state, mSendShutdown>>
    BY <1>2, <1>6 DEF SendLater, Rest, Size
  <2>2. ~mSendShutdown /\ ~mSendShutdown' /\ ~Refusing'
    BY <1>1, <2>1 DEF Refusing
  <2>3. Push(Rest, m) \in Seq(Message) /\ Push(Rest, m) # <<>>
    <3>1. CASE mStopping
      BY <1>3, <2>1, <3>1 DEF Push
    <3>2. CASE ~mStopping
      <4>1. Push(Rest, m) = Append(Rest, m)
        BY <3>2 DEF Push
      <4> HIDE DEF m
      <4> QED
        BY <1>2, <1>3, <4>1
    <3> QED
      BY <3>1, <3>2
  <2>4. SendTypeOK'
    <3>1. [AmountAfter(Sendable) EXCEPT ![s] = @ + 1] \in [Streams -> Nat]
      BY <1>3
    <3> QED
      BY <1>1, <1>3, <2>1, <2>3, <3>1 DEF SendTypeOK, TypeOK
  <2>5. ~CanSend'
    <3>1. Room' = 0
      <4>1. Room' = Window - unacked'
        BY <2>2 DEF Room
      <4>2. DataIn(mSendQueue, Sendable) = Room
        BY <1>3, <1>4, <2>1 DEF RoomAfter
      <4> QED
        BY <1>4, <2>1, <4>1, <4>2, WindowAssumption
    <3>2. Push(Rest, m)[1].kind = "Data"
      <4>1. CASE Rest = <<>>
        BY <1>2, <1>3, <2>1, <4>1 DEF Push
      <4>2. CASE Rest # <<>>
        <5>1. Rest[1].kind = "Data" /\ 1 \in 1 .. Len(Rest)
          BY <1>3, <4>2
        <5>2. Append(Rest, m)[1] = Rest[1]
          <6> HIDE DEF m
          <6> QED
            BY <1>2, <1>3, <5>1
        <5> QED
          BY <5>1, <5>2 DEF Push
      <4> QED
        BY <4>1, <4>2
    <3> QED
      BY <2>1, <3>1, <3>2 DEF CanSend
  <2>6. Numbered' /\ SendOrder'
    <3> DEFINE r == Push(Rest, m)
    <3>1. \A k \in 1 .. Len(r) : /\ r[k].id <= count + 1
                                 /\ LastAfter(Sendable) < r[k].id
                                 /\ \A i \in 1 .. k - 1 : r[i].id < r[k].id
      <4>1. \A k \in 1 .. Len(Rest) : Rest[k].id \in Nat
        <5>1. \A k \in 1 .. Len(Rest) : Rest[k] \in Message
          BY <1>3
        <5> QED
          BY <5>1, MaxMessagesAssumption DEF Message
      <4>2. /\ count \in Nat /\ LastAfter(Sendable) \in Nat /\ LastAfter(Sendable) <= count
            /\ \A k \in 1 .. Len(Rest) : /\ Rest[k].id <= count + 1
                                         /\ LastAfter(Sendable) < Rest[k].id
                                         /\ \A i \in 1 .. k - 1 : Rest[i].id < Rest[k].id
        <5>1. count \in Nat /\ LastAfter(Sendable) \in Nat /\ LastAfter(Sendable) <= count
          BY <1>1, <1>3, MaxMessagesAssumption
        <5>2. \A k \in 1 .. Len(Rest) : /\ Rest[k].id <= count
                                        /\ LastAfter(Sendable) < Rest[k].id
                                        /\ \A i \in 1 .. k - 1 : Rest[i].id < Rest[k].id
          BY <1>3
        <5> QED
          BY <4>1, <5>1, <5>2
      <4>3. CASE mStopping
        <5>1. r = Rest
          BY <4>3 DEF Push
        <5> HIDE DEF r
        <5> QED
          BY <4>2, <5>1
      <4>4. CASE ~mStopping
        <5>1. r = Append(Rest, m)
          BY <4>4 DEF Push
        <5>2. /\ Len(r) = Len(Rest) + 1 /\ Len(Rest) \in Nat /\ r[Len(Rest) + 1] = m
              /\ \A k \in 1 .. Len(Rest) : r[k] = Rest[k]
          <6> HIDE DEF m, r
          <6> QED
            BY <1>2, <1>3, <5>1
        <5>3. m.id = count + 1
          BY <1>2
        <5> HIDE DEF r, m
        <5> SUFFICES ASSUME NEW k \in 1 .. Len(r)
            PROVE  /\ r[k].id <= count + 1 /\ LastAfter(Sendable) < r[k].id
                   /\ \A i \in 1 .. k - 1 : r[i].id < r[k].id
          OBVIOUS
        <5>4. \A i \in 1 .. k - 1 : i \in 1 .. Len(Rest) /\ r[i] = Rest[i]
          BY <5>2
        <5>5. CASE k \in 1 .. Len(Rest)
          BY <4>2, <5>2, <5>4, <5>5
        <5>6. CASE k = Len(Rest) + 1
          <6>1. \A i \in 1 .. Len(Rest) : Rest[i].id \in Nat /\ Rest[i].id < count + 1
            BY <1>1, <1>3, <4>1, MaxMessagesAssumption
          <6> QED
            BY <4>2, <5>2, <5>3, <5>4, <5>6, <6>1
        <5> QED
          BY <5>2, <5>5, <5>6
      <4> QED
        BY <4>3, <4>4
    <3> HIDE DEF m
    <3> QED
      BY <1>1, <1>3, <2>1, <3>1, MaxMessagesAssumption DEF Numbered, SendOrder
  <2>7. ShutdownAfterDrain' /\ StoppedByClose'
    BY <1>1, <2>2 DEF ShutdownAfterDrain, StoppedByClose
  <2>8. AmountInv'
    <3> SUFFICES ASSUME ~LateSends PROVE BufferedAmountExact'
      BY DEF AmountInv
    <3>1. ~mStopping
      BY <1>1 DEF StoppedByClose
    <3> DEFINE r == Append(Rest, m)
    <3>2. mSendQueue' = r
      BY <2>1, <3>1 DEF Push
    <3>3. \A t \in Streams : AmountAfter(Sendable)[t] = Occ(Rest, Len(Rest), DataOf(t))
      BY <1>1, <1>3 DEF AmountInv
    <3>4. \A t \in Streams : Occ(r, Len(r), DataOf(t)) = Occ(Rest, Len(Rest), DataOf(t)) + (IF t = s THEN 1 ELSE 0)
      <4> SUFFICES ASSUME NEW t \in Streams
                   PROVE  Occ(r, Len(r), DataOf(t)) = Occ(Rest, Len(Rest), DataOf(t)) + (IF t = s THEN 1 ELSE 0)
        OBVIOUS
      <4>1. m \in DataOf(t) <=> t = s
        BY <1>2 DEF DataOf
      <4>2. Occ(r, Len(r), DataOf(t)) = Occ(Rest, Len(Rest), DataOf(t)) + (IF m \in DataOf(t) THEN 1 ELSE 0)
        <5> HIDE DEF m
        <5> QED
          BY <1>2, <1>3, OccAppend
      <4> QED
        BY <4>1, <4>2
    <3>5. \A t \in Streams : mBufferedAmount'[t] = Occ(r, Len(r), DataOf(t))
      <4> HIDE DEF r
      <4>1. \A t \in Streams : AmountAfter(Sendable)[t] \in Nat
        BY <1>3
      <4> QED
        BY <1>3, <2>1, <3>3, <3>4, <4>1
    <3>6. r \in Seq(Message)
      BY <2>3, <3>1 DEF Push
    <3> QED
      BY <3>2, <3>5, <3>6, AmountsOf
  <2> QED
    BY <2>1, <2>4, <2>5, <2>6, <2>7, <2>8 DEF QueueInv
<1>7. ASSUME SendThrows(m)
      PROVE  SendTypeOK' /\ QueueInv' /\ ~CanSend' /\ state' \in {state, "Disconnected"}
  <2>1. trySendQueue
    BY <1>7 DEF SendThrows
  <2> QED
    BY <1>1, <2>1, TrySendQueueStep
<1>8. SendTypeOK' /\ QueueInv' /\ ~CanSend' /\ state' \in {state, "Disconnected"}
  BY <1>5, <1>6, <1>7 DEF Send
<1>9. TypeOK'
  BY <1>1, <1>8, MaxMessagesAssumption DEF TypeOK, SendTypeOK, States
<1>10. CountersMatchJobs' /\ RecvAtHead'
  BY <1>1, <1>9 DEF SctpIInv, CountersMatchJobs, RecvAtHead
<1>11. UpInv'
  <2>1. receiving' # "CommUp"
    BY <1>1, ConnectedOnce
  <2> QED
    BY <1>1, <1>8, <2>1, UpInvAfterFlush
<1> QED
  BY <1>8, <1>9, <1>10, <1>11 DEF SctpIInv

(* closeStream() and close() put a flush behind the other jobs.              *)
LEMMA UpInvAfterEnqueue ==
  ASSUME SctpIInv, jobs' = Append(jobs, "flush"),
         UNCHANGED <<state, receiving, upcall, assoc, inbox, unacked, mPendingRecvCount, mPendingFlushCount>>
  PROVE  UpInv'
<1>1. /\ jobs \in Seq(JobNames) /\ "flush" \in JobNames
      /\ UpInv
  BY DEF SctpIInv, TypeOK, JobNames
<1>2. /\ Len(jobs) \in Nat /\ Len(jobs') = Len(jobs) + 1
      /\ \A i \in 1 .. Len(jobs) : jobs'[i] = jobs[i]
      /\ jobs'[Len(jobs) + 1] = "flush"
  BY <1>1, JobsAppended
<1>3. BeforeUp' /\ UpOnce' /\ NotYetConnected' /\ UpAhead' = UpAhead /\ Awake' = Awake
  BY <1>1 DEF UpInv, BeforeUp, UpOnce, NotYetConnected, UpAhead, Awake
<1>4. FlushAfterRecv'
  <2> SUFFICES ASSUME UpAhead
               PROVE  /\ \A u \in Upcallers : upcall[u] \in {"write", "flush"} =>
                             receiving # "no" \/ mPendingRecvCount > 0
                      /\ \A j \in 1 .. Len(jobs') : jobs'[j] = "doFlush" =>
                             \E i \in 1 .. j - 1 : jobs'[i] = "doRecv"
    BY <1>3 DEF FlushAfterRecv
  <2>1. ASSUME NEW j \in 1 .. Len(jobs'), jobs'[j] = "doFlush"
        PROVE  \E i \in 1 .. j - 1 : jobs'[i] = "doRecv"
    <3>1. j \in 1 .. Len(jobs) /\ jobs[j] = "doFlush"
      BY <1>2, <2>1
    <3>2. PICK i \in 1 .. j - 1 : jobs[i] = "doRecv"
      BY <1>1, <3>1 DEF UpInv, FlushAfterRecv
    <3> QED
      BY <1>2, <3>1, <3>2
  <2> QED
    BY <1>1, <2>1 DEF UpInv, FlushAfterRecv
<1>5. FlushFollows'
  BY <1>1, <1>2, <1>3 DEF UpInv, FlushFollows
<1>6. FlushScheduled'
  <2>1. Len(jobs') \in 1 .. Len(jobs') /\ jobs'[Len(jobs')] = "flush"
    BY <1>2
  <2> QED
    BY <2>1 DEF FlushScheduled
<1> QED
  BY <1>3, <1>4, <1>5, <1>6 DEF UpInv

LEMMA CountersAfterEnqueue ==
  ASSUME SctpIInv, TypeOK', jobs' = Append(jobs, "flush"),
         UNCHANGED <<receiving, mPendingRecvCount, mPendingFlushCount>>
  PROVE  CountersMatchJobs' /\ RecvAtHead'
<1>1. jobs \in Seq(JobNames) /\ "flush" \in JobNames /\ CountersMatchJobs
  BY DEF SctpIInv, TypeOK, JobNames
<1>2. \A x : JobCount(jobs', x) = JobCount(jobs, x) + (IF "flush" = x THEN 1 ELSE 0)
  BY <1>1, JobsAppended
<1>3. JobCount(jobs', "doFlush") = JobCount(jobs, "doFlush") /\ JobCount(jobs', "doRecv") = JobCount(jobs, "doRecv")
  <2>1. \A x : JobCount(jobs, x) \in Nat
    BY <1>1, JobCountPositive
  <2> QED
    BY <1>2, <2>1
<1>4. CountersMatchJobs'
  BY <1>1, <1>3, CountersAre DEF CountersMatchJobs, JobCount
<1>5. RecvAtHead'
  BY <1>1, JobsAppended DEF SctpIInv, RecvAtHead
<1> QED
  BY <1>4, <1>5

LEMMA CloseStreamStep ==
  ASSUME SctpIInv, NEW s \in Streams, CloseStream(s)
  PROVE  SctpIInv'
<1> DEFINE m == NewMessage(s, "Reset")
           r == Push(mSendQueue, m)
<1>1. /\ TypeOK /\ Numbered /\ SendOrder /\ ShutdownAfterDrain /\ StoppedByClose /\ AmountInv
      /\ count < MaxMessages /\ count' = count + 1 /\ count \in 0 .. MaxMessages
      /\ mSendQueue' = r /\ jobs' = Append(jobs, "flush")
      /\ UNCHANGED <<state, mStopping, mSendShutdown, mBufferedAmount, mPendingRecvCount,
                     mPendingFlushCount, receiving, closer, upcall, assoc, inbox, unacked, lastSent>>
  BY DEF SctpIInv, QueueInv, TypeOK, CloseStream
<1>2. m \in Message /\ m.id = count + 1 /\ m.kind = "Reset"
  BY <1>1, MaxMessagesAssumption DEF NewMessage, Message, Kinds
<1>3. mSendQueue \in Seq(Message) /\ jobs \in Seq(JobNames)
  BY <1>1 DEF TypeOK, JobNames
<1>4. CASE mStopping
  <2>1. r = mSendQueue
    BY <1>4 DEF Push
  <2>2. mSendQueue' = mSendQueue
    BY <1>1, <2>1
  <2>3. TypeOK'
    BY <1>1, <1>3, <2>2, MaxMessagesAssumption DEF TypeOK
  <2>4. Numbered' /\ SendOrder' /\ ShutdownAfterDrain' /\ StoppedByClose' /\ AmountInv'
    <3>1. \A k \in 1 .. Len(mSendQueue) : mSendQueue[k] \in Message
      BY <1>3
    <3>2. \A k \in 1 .. Len(mSendQueue) : mSendQueue[k].id \in Nat
      BY <3>1, MaxMessagesAssumption DEF Message
    <3>3. Numbered'
      <4>1. lastSent \in Nat /\ count \in Nat /\ count' = count + 1 /\ lastSent' = lastSent
        BY <1>1, MaxMessagesAssumption DEF TypeOK
      <4>2. lastSent <= count /\ \A k \in 1 .. Len(mSendQueue) : mSendQueue[k].id <= count
        BY <1>1 DEF Numbered
      <4>3. QED
        BY <2>2, <3>2, <4>1, <4>2 DEF Numbered
    <3> QED
      BY <1>1, <2>2, <3>3 DEF SendOrder, ShutdownAfterDrain, StoppedByClose, AmountInv,
                              BufferedAmountExact, Queued
  <2> QED
    BY <1>1, <2>3, <2>4, CountersAfterEnqueue, UpInvAfterEnqueue DEF SctpIInv, QueueInv
<1>5. CASE ~mStopping
  <2>1. r = Append(mSendQueue, m)
    BY <1>5 DEF Push
  <2>2. /\ r \in Seq(Message) /\ Len(r) = Len(mSendQueue) + 1 /\ Len(mSendQueue) \in Nat
        /\ r[Len(mSendQueue) + 1] = m
        /\ \A k \in 1 .. Len(mSendQueue) : r[k] = mSendQueue[k]
    <3> HIDE DEF m, r
    <3> QED
      BY <1>2, <1>3, <2>1
  <2>3. TypeOK'
    <3> HIDE DEF r
    <3> QED
      BY <1>1, <1>3, <2>2, MaxMessagesAssumption DEF TypeOK
  <2>4. Numbered' /\ SendOrder'
    <3>1. \A k \in 1 .. Len(mSendQueue) : mSendQueue[k] \in Message
      BY <1>3
    <3>2. \A k \in 1 .. Len(mSendQueue) : mSendQueue[k].id \in Nat
      BY <3>1, MaxMessagesAssumption DEF Message
    <3>3. lastSent \in Nat /\ count \in Nat /\ lastSent <= count
      BY <1>1, MaxMessagesAssumption DEF TypeOK, Numbered
    <3> HIDE DEF r, m
    <3>4. \A k \in 1 .. Len(mSendQueue) : /\ mSendQueue[k].id <= count
                                           /\ lastSent < mSendQueue[k].id
                                           /\ \A i \in 1 .. k - 1 : mSendQueue[i].id < mSendQueue[k].id
      BY <1>1 DEF Numbered, SendOrder
    <3>5. \A k \in 1 .. Len(r) : /\ r[k].id <= count + 1
                                 /\ lastSent < r[k].id
                                 /\ \A i \in 1 .. k - 1 : r[i].id < r[k].id
      <4> TAKE k \in 1 .. Len(r)
      <4>1. CASE k = Len(mSendQueue) + 1
        BY <1>2, <2>2, <3>2, <3>3, <3>4, <4>1
      <4>2. CASE k # Len(mSendQueue) + 1
        <5>1. k \in 1 .. Len(mSendQueue) /\ r[k] = mSendQueue[k]
          BY <2>2, <4>2
        <5>2. \A i \in 1 .. k - 1 : r[i] = mSendQueue[i] /\ mSendQueue[i].id < mSendQueue[k].id
          BY <2>2, <3>4, <5>1
        <5>3. r[k].id <= count + 1 /\ lastSent < r[k].id
          BY <3>2, <3>3, <3>4, <5>1
        <5>4. \A i \in 1 .. k - 1 : r[i].id < r[k].id
          BY <5>1, <5>2
        <5> QED
          BY <5>3, <5>4
      <4> QED
        BY <4>1, <4>2
    <3> QED
      BY <1>1, <3>3, <3>5 DEF Numbered, SendOrder
  <2>5. ShutdownAfterDrain' /\ StoppedByClose'
    BY <1>1, <1>5 DEF ShutdownAfterDrain, StoppedByClose
  <2>6. AmountInv'
    <3> SUFFICES ASSUME ~LateSends PROVE BufferedAmountExact'
      BY DEF AmountInv
    <3>1. \A t \in Streams : mBufferedAmount[t] = Occ(mSendQueue, Len(mSendQueue), DataOf(t))
      <4>1. Len(mSendQueue) \in 0 .. Len(mSendQueue)
        BY <2>2
      <4> QED
        BY <1>1, <1>3, <4>1, QueuedIsOcc DEF AmountInv, BufferedAmountExact, Queued
    <3>2. \A t \in Streams : Occ(r, Len(r), DataOf(t)) = Occ(mSendQueue, Len(mSendQueue), DataOf(t))
      <4> SUFFICES ASSUME NEW t \in Streams
                   PROVE  Occ(r, Len(r), DataOf(t)) = Occ(mSendQueue, Len(mSendQueue), DataOf(t))
        OBVIOUS
      <4>1. m \notin DataOf(t)
        BY <1>2 DEF DataOf
      <4>2. Occ(r, Len(r), DataOf(t)) = Occ(mSendQueue, Len(mSendQueue), DataOf(t)) + (IF m \in DataOf(t) THEN 1 ELSE 0)
        <5> HIDE DEF m, r
        <5> QED
          BY <1>2, <1>3, <2>1, OccAppend
      <4>3. Occ(mSendQueue, Len(mSendQueue), DataOf(t)) \in Nat
        BY <2>2, OccType
      <4> QED
        BY <4>1, <4>2, <4>3
    <3> HIDE DEF r
    <3> QED
      BY <1>1, <2>2, <3>1, <3>2, AmountsOf
  <2> QED
    BY <1>1, <2>3, <2>4, <2>5, <2>6, CountersAfterEnqueue, UpInvAfterEnqueue DEF SctpIInv, QueueInv
<1> QED
  BY <1>4, <1>5

LEMMA CloseStopStep ==
  ASSUME SctpIInv, CloseStop
  PROVE  SctpIInv'
<1>1. /\ TypeOK /\ QueueInv /\ UpInv /\ CountersMatchJobs /\ RecvAtHead
      /\ closer = "idle" /\ closer' = "stopped" /\ mStopping' = TRUE
      /\ UNCHANGED <<state, mSendQueue, mSendShutdown, mBufferedAmount, unacked, lastSent,
                     mPendingRecvCount, mPendingFlushCount, jobs, receiving, upcall, assoc, inbox, count>>
  BY DEF SctpIInv, CloseStop, sendVars
<1>2. TypeOK'
  BY <1>1 DEF TypeOK
<1>3. CountersMatchJobs' /\ RecvAtHead'
  BY <1>1, <1>2 DEF CountersMatchJobs, RecvAtHead
<1>4. QueueInv'
  <2>1. Numbered' /\ SendOrder' /\ StoppedByClose' /\ ShutdownAfterDrain'
    BY <1>1 DEF QueueInv, Numbered, SendOrder, StoppedByClose, ShutdownAfterDrain
  <2>2. AmountInv'
    BY <1>1 DEF QueueInv, AmountInv, BufferedAmountExact, Queued
  <2> QED
    BY <2>1, <2>2 DEF QueueInv
<1>5. UpInv'
  BY <1>1 DEF UpInv, BeforeUp, UpOnce, NotYetConnected, FlushAfterRecv, FlushFollows, UpAhead, Awake,
              FlushScheduled, CanSend, Room, Refusing
<1> QED
  BY <1>2, <1>3, <1>4, <1>5 DEF SctpIInv

LEMMA CloseCheckStep ==
  ASSUME SctpIInv, CloseCheck
  PROVE  SctpIInv'
<1>1. /\ TypeOK /\ QueueInv /\ UpInv /\ CountersMatchJobs /\ RecvAtHead
      /\ closer = "stopped" /\ closer' \in {"done", "checked"}
      /\ jobs' = Append(jobs, "flush") \/ jobs' = jobs
      /\ UNCHANGED <<state, sendVars, mStopping, mPendingRecvCount, mPendingFlushCount,
                     receiving, upcall, assoc, inbox, count>>
      /\ unacked' = unacked
  BY DEF SctpIInv, CloseCheck, sendVars
<1>2. SendTypeOK' /\ QueueInv' /\ (CanSend' => CanSend)
  BY <1>1, QueueUnchanged
<1>3. TypeOK'
  <2>1. jobs' \in Seq({"doRecv", "doFlush", "flush"})
    <3>1. jobs \in Seq(JobNames) /\ "flush" \in JobNames
      BY <1>1 DEF TypeOK, JobNames
    <3>2. Append(jobs, "flush") \in Seq(JobNames)
      BY <3>1
    <3> QED
      BY <1>1, <3>1, <3>2 DEF JobNames
  <2> QED
    BY <1>1, <1>2, <2>1 DEF TypeOK, SendTypeOK
<1>4. CASE jobs' = Append(jobs, "flush")
  BY <1>1, <1>2, <1>3, <1>4, CountersAfterEnqueue, UpInvAfterEnqueue DEF SctpIInv
<1>5. CASE jobs' = jobs
  <2>1. CountersMatchJobs' /\ RecvAtHead'
    BY <1>1, <1>3, <1>5 DEF CountersMatchJobs, RecvAtHead
  <2>2. UpInv'
    BY <1>1, <1>2, <1>5 DEF UpInv, BeforeUp, UpOnce, NotYetConnected, FlushAfterRecv, FlushFollows,
                            UpAhead, Awake, FlushScheduled
  <2> QED
    BY <1>2, <1>3, <2>1, <2>2 DEF SctpIInv
<1> QED
  BY <1>1, <1>4, <1>5

(* A step that gives up the connection, and with it the association.         *)
LEMMA GivesUp ==
  ASSUME SctpIInv, state' \in {"Failed", "Disconnected"}, assoc' = "down",
         UNCHANGED <<sendVars, mStopping, mPendingRecvCount, mPendingFlushCount, jobs, receiving,
                     upcall, inbox, count>>,
         closer' # "idle" <=> closer # "idle", closer' \in {"idle", "stopped", "checked", "done"}
  PROVE  SctpIInv'
<1>1. /\ TypeOK /\ QueueInv /\ UpInv /\ CountersMatchJobs /\ RecvAtHead /\ unacked' = unacked
  BY DEF SctpIInv, sendVars
<1>2. SendTypeOK' /\ QueueInv'
  BY <1>1, QueueUnchanged
<1>3. TypeOK'
  BY <1>1, <1>2 DEF TypeOK, SendTypeOK, States
<1>4. CountersMatchJobs' /\ RecvAtHead'
  BY <1>1, <1>3 DEF CountersMatchJobs, RecvAtHead
<1>5. UpInv'
  BY <1>1 DEF UpInv, BeforeUp, UpOnce, NotYetConnected, FlushAfterRecv, FlushFollows,
              UpAhead, Awake, FlushScheduled
<1> QED
  BY <1>2, <1>3, <1>4, <1>5 DEF SctpIInv

LEMMA CloseEarlyStep ==
  ASSUME SctpIInv, CloseEarly
  PROVE  SctpIInv'
<1>1. CASE state = "Connecting"
  BY <1>1, GivesUp DEF CloseEarly
<1>2. CASE state # "Connecting"
  <2>1. /\ TypeOK /\ QueueInv /\ UpInv /\ CountersMatchJobs /\ RecvAtHead
        /\ closer = "checked" /\ closer' = "done"
        /\ UNCHANGED <<state, assoc, sendVars, mStopping, mPendingRecvCount, mPendingFlushCount, jobs,
                       receiving, upcall, inbox, count>>
        /\ unacked' = unacked
    BY <1>2 DEF SctpIInv, CloseEarly, sendVars
  <2>2. SendTypeOK' /\ QueueInv' /\ (CanSend' => CanSend)
    BY <2>1, QueueUnchanged
  <2>3. TypeOK'
    BY <2>1, <2>2 DEF TypeOK, SendTypeOK
  <2>4. CountersMatchJobs' /\ RecvAtHead'
    BY <2>1, <2>3 DEF CountersMatchJobs, RecvAtHead
  <2>5. UpInv'
    BY <2>1, <2>2 DEF UpInv, BeforeUp, UpOnce, NotYetConnected, FlushAfterRecv, FlushFollows,
                      UpAhead, Awake, FlushScheduled
  <2> QED
    BY <2>2, <2>3, <2>4, <2>5 DEF SctpIInv
<1> QED
  BY <1>1, <1>2

LEMMA LowerDisconnectedStep ==
  ASSUME SctpIInv, LowerDisconnected
  PROVE  SctpIInv'
BY GivesUp DEF LowerDisconnected, SctpIInv, TypeOK

(* usrsctp wakes a thread: what could not be sent before has it to flush.    *)
LEMMA AssocUpStep ==
  ASSUME SctpIInv, NEW u \in Upcallers, AssocUp(u)
  PROVE  SctpIInv'
<1>1. /\ TypeOK /\ QueueInv /\ UpInv /\ CountersMatchJobs /\ RecvAtHead
      /\ assoc = "none" /\ assoc' = "up" /\ inbox' = Append(inbox, "CommUp")
      /\ upcall' = [upcall EXCEPT ![u] = "event"]
      /\ UNCHANGED <<state, sendVars, mStopping, mPendingRecvCount, mPendingFlushCount, jobs,
                     receiving, closer, count>>
      /\ unacked' = unacked
  BY DEF SctpIInv, AssocUp, Wake, sendVars
<1>2. /\ state # "Connected" /\ unacked = 0 /\ inbox = <<>> /\ receiving = "no"
      /\ mPendingFlushCount = 0 /\ mPendingRecvCount = 0
      /\ \A v \in Upcallers : upcall[v] = "idle"
  BY <1>1 DEF UpInv, BeforeUp
<1>3. SendTypeOK' /\ QueueInv'
  BY <1>1, QueueUnchanged
<1>4. inbox' \in Seq(Notifications) /\ Len(inbox') = 1 /\ inbox'[1] = "CommUp"
  BY <1>1, <1>2 DEF Notifications
<1>5. TypeOK'
  BY <1>1, <1>3, <1>4 DEF TypeOK, SendTypeOK
<1>6. CountersMatchJobs' /\ RecvAtHead'
  BY <1>1, <1>5 DEF CountersMatchJobs, RecvAtHead
<1>7. Awake' /\ \A v \in Upcallers : upcall'[v] \in {"idle", "event"}
  BY <1>1, <1>2 DEF Awake, TypeOK
<1>8. \A i \in 1 .. Len(jobs) : jobs[i] # "doFlush"
  BY <1>1, <1>2, CountersMean
<1>9. UpInv'
  BY <1>1, <1>2, <1>4, <1>7, <1>8
     DEF UpInv, BeforeUp, UpOnce, NotYetConnected, FlushAfterRecv, FlushFollows, FlushScheduled
<1> QED
  BY <1>3, <1>5, <1>6, <1>9 DEF SctpIInv

LEMMA AssocLostStep ==
  ASSUME SctpIInv, NEW u \in Upcallers, AssocLost(u)
  PROVE  SctpIInv'
<1>1. /\ TypeOK /\ QueueInv /\ UpInv /\ CountersMatchJobs /\ RecvAtHead
      /\ assoc' = "down" /\ inbox' = Append(inbox, "CommLost") /\ upcall[u] = "idle"
      /\ upcall' = [upcall EXCEPT ![u] = "event"]
      /\ UNCHANGED <<state, sendVars, mStopping, mPendingRecvCount, mPendingFlushCount, jobs,
                     receiving, closer, count>>
      /\ unacked' = unacked
  BY DEF SctpIInv, AssocLost, Wake, sendVars
<1>2. SendTypeOK' /\ QueueInv' /\ (CanSend' => CanSend)
  BY <1>1, QueueUnchanged
<1>3. /\ inbox' \in Seq(Notifications) /\ Len(inbox') = Len(inbox) + 1 /\ Len(inbox) \in Nat
      /\ \A i \in 1 .. Len(inbox) : inbox'[i] = inbox[i]
      /\ inbox'[Len(inbox) + 1] = "CommLost"
  BY <1>1 DEF TypeOK, Notifications
<1>4. TypeOK'
  BY <1>1, <1>2, <1>3 DEF TypeOK, SendTypeOK
<1>5. CountersMatchJobs' /\ RecvAtHead'
  BY <1>1, <1>4 DEF CountersMatchJobs, RecvAtHead
<1>6. Awake' /\ \A v \in Upcallers : upcall'[v] \in {upcall[v], "event"}
  BY <1>1 DEF Awake, TypeOK
<1>7. UpAhead' => UpAhead
  BY <1>1, <1>3 DEF UpAhead
<1>8. UpOnce'
  BY <1>1, <1>3 DEF UpInv, UpOnce
<1>9. FlushAfterRecv'
  BY <1>1, <1>6, <1>7 DEF UpInv, FlushAfterRecv
<1>10. FlushScheduled'
  BY <1>1, <1>2, <1>6 DEF UpInv, FlushScheduled
<1>11. UpInv'
  BY <1>1, <1>6, <1>7, <1>8, <1>9, <1>10 DEF UpInv, BeforeUp, NotYetConnected, FlushFollows
<1> QED
  BY <1>2, <1>4, <1>5, <1>11 DEF SctpIInv

LEMMA AcknowledgedStep ==
  ASSUME SctpIInv, NEW u \in Upcallers, Acknowledged(u)
  PROVE  SctpIInv'
<1>1. /\ TypeOK /\ QueueInv /\ UpInv /\ CountersMatchJobs /\ RecvAtHead
      /\ assoc = "up" /\ unacked > 0 /\ unacked' = unacked - 1 /\ upcall[u] = "idle"
      /\ inbox' = inbox \/ inbox' = Append(inbox, "SenderDry")
      /\ upcall' = [upcall EXCEPT ![u] = "event"]
      /\ UNCHANGED <<state, mSendQueue, mStopping, mSendShutdown, mBufferedAmount, lastSent,
                     mPendingRecvCount, mPendingFlushCount, jobs, receiving, closer, assoc, count>>
  BY DEF SctpIInv, Acknowledged, Wake
<1>2. unacked' \in 0 .. Window /\ unacked' < Window
  BY <1>1, WindowAssumption DEF TypeOK
<1>3. QueueInv'
  <2>1. Numbered' /\ SendOrder' /\ StoppedByClose' /\ ShutdownAfterDrain'
    BY <1>1 DEF QueueInv, Numbered, SendOrder, StoppedByClose, ShutdownAfterDrain
  <2>2. AmountInv'
    BY <1>1 DEF QueueInv, AmountInv, BufferedAmountExact, Queued
  <2> QED
    BY <2>1, <2>2 DEF QueueInv
<1>4. /\ inbox' \in Seq(Notifications) /\ Len(inbox) \in Nat /\ Len(inbox') >= Len(inbox)
      /\ \A i \in 1 .. Len(inbox) : inbox'[i] = inbox[i]
      /\ \A i \in 1 .. Len(inbox') : i \in 1 .. Len(inbox) \/ inbox'[i] = "SenderDry"
  <2>1. inbox \in Seq(Notifications) /\ "SenderDry" \in Notifications
    BY <1>1 DEF TypeOK, Notifications
  <2>2. CASE inbox' = inbox
    BY <2>1, <2>2
  <2>3. CASE inbox' = Append(inbox, "SenderDry")
    BY <2>1, <2>3
  <2> QED
    BY <1>1, <2>2, <2>3
<1>5. TypeOK'
  BY <1>1, <1>2, <1>4 DEF TypeOK
<1>6. CountersMatchJobs' /\ RecvAtHead'
  BY <1>1, <1>5 DEF CountersMatchJobs, RecvAtHead
<1>7. Awake' /\ \A v \in Upcallers : upcall'[v] \in {upcall[v], "event"}
  BY <1>1 DEF Awake, TypeOK
<1>8. UpAhead' => UpAhead
  BY <1>1, <1>4 DEF UpAhead
<1>9. ~UpAhead
  BY <1>1 DEF UpInv, NotYetConnected
<1>10. UpOnce'
  BY <1>1, <1>4 DEF UpInv, UpOnce
<1>11. UpInv'
  BY <1>1, <1>2, <1>7, <1>8, <1>9, <1>10
     DEF UpInv, BeforeUp, NotYetConnected, FlushAfterRecv, FlushFollows, FlushScheduled
<1> QED
  BY <1>3, <1>5, <1>6, <1>11 DEF SctpIInv

(* handleUpcall(): the thread that found messages goes to receive first.     *)
LEMMA UpcallReadStep ==
  ASSUME SctpIInv, NEW u \in Upcallers, UpcallRead(u)
  PROVE  SctpIInv'
<1>1. /\ TypeOK /\ QueueInv /\ UpInv /\ CountersMatchJobs /\ RecvAtHead
      /\ upcall[u] = "event"
      /\ upcall' = [upcall EXCEPT ![u] = IF inbox # <<>> /\ mPendingRecvCount = 0 THEN "recv" ELSE "write"]
      /\ UNCHANGED <<state, sendVars, mStopping, mPendingRecvCount, mPendingFlushCount, jobs,
                     receiving, closer, assoc, inbox, count>>
      /\ unacked' = unacked
  BY DEF SctpIInv, UpcallRead, sendVars
<1>2. SendTypeOK' /\ QueueInv' /\ (CanSend' => CanSend)
  BY <1>1, QueueUnchanged
<1>3. TypeOK'
  BY <1>1, <1>2 DEF TypeOK, SendTypeOK
<1>4. CountersMatchJobs' /\ RecvAtHead'
  BY <1>1, <1>3 DEF CountersMatchJobs, RecvAtHead
<1>5. /\ Awake /\ Awake'
      /\ \A v \in Upcallers \ {u} : upcall'[v] = upcall[v]
      /\ upcall'[u] = "write" => inbox = <<>> \/ mPendingRecvCount # 0
      /\ upcall'[u] # "flush"
  BY <1>1 DEF Awake, TypeOK
<1>6. UpAhead' = UpAhead /\ mPendingRecvCount \in Nat
  BY <1>1 DEF UpAhead, TypeOK
<1>7. FlushAfterRecv'
  <2> SUFFICES ASSUME UpAhead, NEW v \in Upcallers, upcall'[v] \in {"write", "flush"}
               PROVE  receiving # "no" \/ mPendingRecvCount > 0
    BY <1>1, <1>6 DEF UpInv, FlushAfterRecv
  <2>1. CASE v # u
    BY <1>1, <1>5, <2>1 DEF UpInv, FlushAfterRecv
  <2>2. CASE v = u
    <3>1. inbox = <<>> \/ mPendingRecvCount > 0
      BY <1>5, <1>6, <2>2
    <3>2. inbox = <<>> => receiving = "CommUp"
      BY DEF UpAhead
    <3> QED
      BY <3>1, <3>2
  <2> QED
    BY <2>1, <2>2
<1>8. BeforeUp'
  BY <1>1 DEF UpInv, BeforeUp
<1>9. UpInv'
  BY <1>1, <1>2, <1>5, <1>6, <1>7, <1>8 DEF UpInv, UpOnce, NotYetConnected, FlushFollows, FlushScheduled
<1> QED
  BY <1>2, <1>3, <1>4, <1>9 DEF SctpIInv

LEMMA EnqueueRecvStep ==
  ASSUME SctpIInv, NEW u \in Upcallers, EnqueueRecv(u)
  PROVE  SctpIInv'
<1>1. /\ TypeOK /\ QueueInv /\ UpInv /\ CountersMatchJobs /\ RecvAtHead
      /\ upcall[u] = "recv" /\ upcall' = [upcall EXCEPT ![u] = "write"]
      /\ mPendingRecvCount' = mPendingRecvCount + 1 /\ jobs' = Append(jobs, "doRecv")
      /\ UNCHANGED <<state, sendVars, mStopping, mPendingFlushCount, receiving, closer, assoc, inbox, count>>
      /\ unacked' = unacked
  BY DEF SctpIInv, EnqueueRecv, sendVars
<1>2. SendTypeOK' /\ QueueInv' /\ (CanSend' => CanSend)
  BY <1>1, QueueUnchanged
<1>3. jobs \in Seq(JobNames) /\ "doRecv" \in JobNames /\ mPendingRecvCount \in Nat
  BY <1>1 DEF TypeOK, JobNames
<1>4. /\ jobs' \in Seq(JobNames) /\ jobs' # <<>> /\ Len(jobs') = Len(jobs) + 1 /\ Len(jobs) \in Nat
      /\ jobs # <<>> => Head(jobs') = Head(jobs)
      /\ \A i \in 1 .. Len(jobs) : jobs'[i] = jobs[i]
      /\ jobs'[Len(jobs) + 1] = "doRecv"
      /\ \A x : JobCount(jobs', x) = JobCount(jobs, x) + (IF "doRecv" = x THEN 1 ELSE 0)
  BY <1>1, <1>3, JobsAppended
<1>5. TypeOK'
  BY <1>1, <1>2, <1>3, <1>4 DEF TypeOK, SendTypeOK, JobNames
<1>6. CountersMatchJobs'
  <2>1. JobCount(jobs', "doFlush") = JobCount(jobs, "doFlush") + 0 /\ JobCount(jobs', "doRecv") = JobCount(jobs, "doRecv") + 1
    BY <1>4
  <2>2. JobCount(jobs, "doFlush") \in Nat /\ JobCount(jobs, "doRecv") \in Nat
    BY <1>3, JobCountPositive
  <2>3. /\ mPendingFlushCount = JobCount(jobs, "doFlush")
        /\ mPendingRecvCount + (IF receiving = "no" THEN 0 ELSE 1) = JobCount(jobs, "doRecv")
    BY <1>1, CountersAre
  <2>4. /\ mPendingFlushCount' = JobCount(jobs', "doFlush")
        /\ mPendingRecvCount' + (IF receiving' = "no" THEN 0 ELSE 1) = JobCount(jobs', "doRecv")
    BY <1>1, <1>3, <2>1, <2>2, <2>3
  <2> QED
    BY <1>5, <2>4 DEF CountersMatchJobs, JobCount
<1>7. RecvAtHead'
  BY <1>1, <1>4 DEF RecvAtHead
<1>8. Awake' /\ Awake /\ UpAhead' = UpAhead /\ assoc # "none" /\ mPendingRecvCount' > 0
  BY <1>1, <1>3 DEF Awake, TypeOK, UpAhead, UpInv, BeforeUp
<1>9. FlushAfterRecv'
  <2> SUFFICES ASSUME UpAhead, NEW j \in 1 .. Len(jobs'), jobs'[j] = "doFlush"
               PROVE  \E i \in 1 .. j - 1 : jobs'[i] = "doRecv"
    BY <1>8 DEF FlushAfterRecv
  <2>1. j \in 1 .. Len(jobs) /\ jobs[j] = "doFlush"
    BY <1>4
  <2>2. PICK i \in 1 .. j - 1 : jobs[i] = "doRecv"
    BY <1>1, <2>1 DEF UpInv, FlushAfterRecv
  <2> QED
    BY <1>4, <2>1, <2>2
<1>10. FlushScheduled'
  BY <1>1, <1>2, <1>4, <1>8 DEF UpInv, FlushScheduled
<1>11. UpInv'
  BY <1>1, <1>8, <1>9, <1>10 DEF UpInv, BeforeUp, UpOnce, NotYetConnected, FlushFollows
<1> QED
  BY <1>2, <1>5, <1>6, <1>7, <1>11 DEF SctpIInv

LEMMA UpcallWriteStep ==
  ASSUME SctpIInv, NEW u \in Upcallers, UpcallWrite(u)
  PROVE  SctpIInv'
<1>1. /\ TypeOK /\ QueueInv /\ UpInv /\ CountersMatchJobs /\ RecvAtHead
      /\ upcall[u] = "write"
      /\ upcall' = [upcall EXCEPT ![u] = IF unacked < Window /\ mPendingFlushCount = 0 THEN "flush" ELSE "idle"]
      /\ UNCHANGED <<state, sendVars, mStopping, mPendingRecvCount, mPendingFlushCount, jobs,
                     receiving, closer, assoc, inbox, count>>
      /\ unacked' = unacked
  BY DEF SctpIInv, UpcallWrite, sendVars
<1>2. SendTypeOK' /\ QueueInv' /\ (CanSend' => CanSend)
  BY <1>1, QueueUnchanged
<1>3. TypeOK'
  BY <1>1, <1>2 DEF TypeOK, SendTypeOK
<1>4. CountersMatchJobs' /\ RecvAtHead'
  BY <1>1, <1>3 DEF CountersMatchJobs, RecvAtHead
<1>5. /\ assoc # "none" /\ UpAhead' = UpAhead
      /\ \A v \in Upcallers : upcall'[v] \in {"write", "flush"} => upcall[v] \in {"write", "flush"}
  BY <1>1 DEF UpInv, BeforeUp, UpAhead, TypeOK
<1>6. \/ Awake'
      \/ unacked >= Window
      \/ \E i \in 1 .. Len(jobs) : jobs[i] = "doFlush"
  <2>1. mPendingFlushCount > 0 => \E i \in 1 .. Len(jobs) : jobs[i] = "doFlush"
    BY <1>1, CountersMean
  <2>2. unacked < Window /\ mPendingFlushCount = 0 => Awake'
    BY <1>1 DEF Awake, TypeOK
  <2> QED
    BY <1>1, <2>1, <2>2, WindowAssumption DEF TypeOK
<1>7. FlushAfterRecv'
  BY <1>1, <1>5 DEF UpInv, FlushAfterRecv
<1>8. FlushFollows'
  <2>1. UpAhead => unacked = 0 /\ ~(unacked >= Window)
    BY <1>1, WindowAssumption DEF UpInv, NotYetConnected
  <2> QED
    BY <1>1, <1>5, <1>6, <2>1 DEF FlushFollows
<1>9. FlushScheduled'
  <2>1. unacked \in 0 .. Window
    BY <1>1 DEF TypeOK
  <2> QED
    BY <1>1, <1>2, <1>6, <2>1, WindowAssumption DEF UpInv, FlushScheduled
<1>10. UpInv'
  BY <1>1, <1>5, <1>7, <1>8, <1>9 DEF UpInv, BeforeUp, UpOnce, NotYetConnected
<1> QED
  BY <1>2, <1>3, <1>4, <1>10 DEF SctpIInv

LEMMA EnqueueFlushStep ==
  ASSUME SctpIInv, NEW u \in Upcallers, EnqueueFlush(u)
  PROVE  SctpIInv'
<1>1. /\ TypeOK /\ QueueInv /\ UpInv /\ CountersMatchJobs /\ RecvAtHead
      /\ upcall[u] = "flush" /\ upcall' = [upcall EXCEPT ![u] = "idle"]
      /\ mPendingFlushCount' = mPendingFlushCount + 1 /\ jobs' = Append(jobs, "doFlush")
      /\ UNCHANGED <<state, sendVars, mStopping, mPendingRecvCount, receiving, closer, assoc, inbox, count>>
      /\ unacked' = unacked
  BY DEF SctpIInv, EnqueueFlush, sendVars
<1>2. SendTypeOK' /\ QueueInv' /\ (CanSend' => CanSend)
  BY <1>1, QueueUnchanged
<1>3. jobs \in Seq(JobNames) /\ "doFlush" \in JobNames /\ mPendingRecvCount \in Nat /\ mPendingFlushCount \in Nat
  BY <1>1 DEF TypeOK, JobNames
<1>4. /\ jobs' \in Seq(JobNames) /\ jobs' # <<>> /\ Len(jobs') = Len(jobs) + 1 /\ Len(jobs) \in Nat
      /\ jobs # <<>> => Head(jobs') = Head(jobs)
      /\ \A i \in 1 .. Len(jobs) : jobs'[i] = jobs[i]
      /\ jobs'[Len(jobs) + 1] = "doFlush"
      /\ \A x : JobCount(jobs', x) = JobCount(jobs, x) + (IF "doFlush" = x THEN 1 ELSE 0)
  BY <1>1, <1>3, JobsAppended
<1>5. TypeOK'
  BY <1>1, <1>2, <1>3, <1>4 DEF TypeOK, SendTypeOK, JobNames
<1>6. CountersMatchJobs'
  <2>1. JobCount(jobs', "doFlush") = JobCount(jobs, "doFlush") + 1 /\ JobCount(jobs', "doRecv") = JobCount(jobs, "doRecv") + 0
    BY <1>4
  <2>2. JobCount(jobs, "doFlush") \in Nat /\ JobCount(jobs, "doRecv") \in Nat
    BY <1>3, JobCountPositive
  <2>3. /\ mPendingFlushCount = JobCount(jobs, "doFlush")
        /\ mPendingRecvCount + (IF receiving = "no" THEN 0 ELSE 1) = JobCount(jobs, "doRecv")
    BY <1>1, CountersAre
  <2>4. /\ mPendingFlushCount' = JobCount(jobs', "doFlush")
        /\ mPendingRecvCount' + (IF receiving' = "no" THEN 0 ELSE 1) = JobCount(jobs', "doRecv")
    BY <1>1, <1>3, <2>1, <2>2, <2>3
  <2> QED
    BY <1>5, <2>4 DEF CountersMatchJobs, JobCount
<1>7. RecvAtHead'
  BY <1>1, <1>4 DEF RecvAtHead
<1>8. /\ assoc # "none" /\ UpAhead' = UpAhead
      /\ \A v \in Upcallers : upcall'[v] \in {"write", "flush"} => upcall[v] \in {"write", "flush"}
      /\ Len(jobs') \in 1 .. Len(jobs') /\ jobs'[Len(jobs')] = "doFlush"
  BY <1>1, <1>4 DEF UpInv, BeforeUp, UpAhead, TypeOK
<1>9. UpAhead => \E i \in 1 .. Len(jobs) : jobs[i] = "doRecv"
  <2> SUFFICES ASSUME UpAhead PROVE \E i \in 1 .. Len(jobs) : jobs[i] = "doRecv"
    OBVIOUS
  <2>1. CASE receiving # "no"
    <3>1. jobs # <<>> /\ Head(jobs) = "doRecv"
      BY <1>1, <2>1 DEF RecvAtHead
    <3>2. 1 \in 1 .. Len(jobs) /\ jobs[1] = "doRecv"
      BY <1>3, <3>1
    <3> QED
      BY <3>2
  <2>2. CASE mPendingRecvCount > 0
    BY <1>1, <2>2, CountersMean
  <2> QED
    BY <1>1, <2>1, <2>2 DEF UpInv, FlushAfterRecv
<1>10. FlushAfterRecv'
  <2>1. ASSUME UpAhead, NEW j \in 1 .. Len(jobs'), jobs'[j] = "doFlush"
        PROVE  \E i \in 1 .. j - 1 : jobs'[i] = "doRecv"
    <3>1. CASE j = Len(jobs) + 1
      <4>1. PICK i \in 1 .. Len(jobs) : jobs[i] = "doRecv"
        BY <1>9, <2>1
      <4> QED
        BY <1>4, <3>1, <4>1
    <3>2. CASE j # Len(jobs) + 1
      <4>1. j \in 1 .. Len(jobs) /\ jobs[j] = "doFlush"
        BY <1>4, <2>1, <3>2
      <4>2. PICK i \in 1 .. j - 1 : jobs[i] = "doRecv"
        BY <1>1, <2>1, <4>1 DEF UpInv, FlushAfterRecv
      <4> QED
        BY <1>4, <4>1, <4>2
    <3> QED
      BY <3>1, <3>2
  <2>2. UpAhead => \A v \in Upcallers : upcall'[v] \in {"write", "flush"} =>
                       receiving' # "no" \/ mPendingRecvCount' > 0
    BY <1>1, <1>8 DEF UpInv, FlushAfterRecv
  <2> QED
    BY <1>8, <2>1, <2>2 DEF FlushAfterRecv
<1>11. UpInv'
  BY <1>1, <1>8, <1>10 DEF UpInv, BeforeUp, UpOnce, NotYetConnected, FlushFollows, FlushScheduled
<1> QED
  BY <1>2, <1>5, <1>6, <1>7, <1>11 DEF SctpIInv

(* A job of the flush leaves the queue of the Processor; a doFlush() has     *)
(* counted itself out.                                                       *)
LEMMA FlushJobTaken ==
  ASSUME SctpIInv, jobs # <<>>, Head(jobs) \in {"doFlush", "flush"}, jobs' = Tail(jobs),
         mPendingFlushCount' = mPendingFlushCount - (IF Head(jobs) = "doFlush" THEN 1 ELSE 0),
         UNCHANGED <<mPendingRecvCount, receiving>>
  PROVE  /\ receiving = "no"
         /\ jobs' \in Seq(JobNames) /\ mPendingFlushCount' \in Nat
         /\ mPendingFlushCount' = JobCount(jobs', "doFlush")
         /\ mPendingRecvCount' + (IF receiving' = "no" THEN 0 ELSE 1) = JobCount(jobs', "doRecv")
<1>1. jobs \in Seq(JobNames) /\ CountersMatchJobs /\ RecvAtHead
      /\ mPendingFlushCount \in Nat /\ mPendingRecvCount \in Nat
  BY DEF SctpIInv, TypeOK, JobNames
<1>2. /\ jobs' \in Seq(JobNames)
      /\ \A x : JobCount(jobs, x) = JobCount(jobs', x) + (IF Head(jobs) = x THEN 1 ELSE 0)
      /\ \A x : JobCount(jobs', x) \in Nat
  BY <1>1, JobsTaken
<1>3. /\ JobCount(jobs, "doFlush") = JobCount(jobs', "doFlush") + (IF Head(jobs) = "doFlush" THEN 1 ELSE 0)
      /\ JobCount(jobs, "doRecv") = JobCount(jobs', "doRecv") + 0
      /\ JobCount(jobs', "doFlush") \in Nat /\ JobCount(jobs', "doRecv") \in Nat
  BY <1>2
<1>4. /\ mPendingFlushCount = JobCount(jobs, "doFlush")
      /\ mPendingRecvCount + (IF receiving = "no" THEN 0 ELSE 1) = JobCount(jobs, "doRecv")
  BY <1>1, CountersAre
<1>5. receiving = "no"
  BY <1>1 DEF RecvAtHead
<1>6. mPendingFlushCount' = JobCount(jobs', "doFlush")
  BY <1>1, <1>3, <1>4
<1> QED
  BY <1>1, <1>2, <1>3, <1>4, <1>5, <1>6

(* doFlush() and flush().                                                    *)
LEMMA FlushJobStep ==
  ASSUME SctpIInv, DoFlush \/ Flush
  PROVE  SctpIInv'
<1>1. /\ TypeOK /\ QueueInv /\ UpInv /\ CountersMatchJobs
      /\ jobs # <<>> /\ Head(jobs) \in {"doFlush", "flush"} /\ jobs' = Tail(jobs)
      /\ UNCHANGED <<mStopping, mPendingRecvCount, receiving, closer, upcall, assoc, inbox, count>>
      /\ trySendQueue \/ (state # "Connected" /\ UNCHANGED <<state, sendVars>>)
  BY DEF SctpIInv, DoFlush, Flush
<1>2. mPendingFlushCount' = mPendingFlushCount - (IF Head(jobs) = "doFlush" THEN 1 ELSE 0)
  <2>1. mPendingFlushCount \in Nat
    BY <1>1 DEF TypeOK
  <2> QED
    BY <2>1 DEF DoFlush, Flush
<1>3. /\ receiving = "no"
      /\ jobs' \in Seq(JobNames) /\ mPendingFlushCount' \in Nat
      /\ mPendingFlushCount' = JobCount(jobs', "doFlush")
      /\ mPendingRecvCount' + (IF receiving' = "no" THEN 0 ELSE 1) = JobCount(jobs', "doRecv")
  BY <1>1, <1>2, FlushJobTaken
<1>4. /\ SendTypeOK' /\ QueueInv' /\ state' \in {state, "Disconnected"}
      /\ state = "Connected" => ~CanSend'
      /\ state # "Connected" => unacked' = unacked
  <2>1. CASE trySendQueue
    BY <1>1, <2>1, TrySendQueueStep
  <2>2. CASE state # "Connected" /\ UNCHANGED <<state, sendVars>>
    <3>1. SendTypeOK' /\ QueueInv'
      BY <1>1, <2>2, QueueUnchanged
    <3> QED
      BY <2>2, <3>1 DEF sendVars
  <2> QED
    BY <1>1, <2>1, <2>2
<1>5. TypeOK'
  BY <1>1, <1>3, <1>4 DEF TypeOK, SendTypeOK, JobNames, States
<1>6. CountersMatchJobs' /\ RecvAtHead'
  BY <1>1, <1>3, <1>5 DEF CountersMatchJobs, JobCount, RecvAtHead
<1>7. CASE state = "Connected"
  <2>1. UpInv'
    BY <1>1, <1>3, <1>4, <1>7, UpInvAfterFlush
  <2> QED
    BY <1>4, <1>5, <1>6, <2>1 DEF SctpIInv
<1>8. CASE state # "Connected"
  <2>1. jobs \in Seq(JobNames)
    BY <1>1 DEF TypeOK, JobNames
  <2>2. /\ Len(jobs') = Len(jobs) - 1 /\ Len(jobs) \in Nat /\ jobs[1] = Head(jobs)
        /\ \A i \in 1 .. Len(jobs') : jobs'[i] = jobs[i + 1]
        /\ \A i \in 2 .. Len(jobs) : jobs[i] = jobs'[i - 1]
    BY <1>1, <2>1, JobsTaken
  <2>3. UpAhead' => UpAhead
    BY <1>1, <1>4 DEF UpAhead
  <2>4. 1 \in 1 .. Len(jobs)
    BY <1>1, <2>1
  <2>5. UpAhead => Head(jobs) # "doFlush"
    BY <1>1, <2>2, <2>4 DEF UpInv, FlushAfterRecv
  <2>6. FlushAfterRecv'
    <3>1. ASSUME UpAhead, NEW j \in 1 .. Len(jobs'), jobs'[j] = "doFlush"
          PROVE  \E i \in 1 .. j - 1 : jobs'[i] = "doRecv"
      <4>1. j + 1 \in 1 .. Len(jobs) /\ jobs[j + 1] = "doFlush"
        BY <2>2, <3>1
      <4>2. PICK i \in 1 .. (j + 1) - 1 : jobs[i] = "doRecv"
        BY <1>1, <3>1, <4>1 DEF UpInv, FlushAfterRecv
      <4>3. i # 1
        BY <1>1, <2>2, <4>2
      <4>4. i - 1 \in 1 .. j - 1 /\ jobs'[i - 1] = "doRecv"
        BY <2>2, <4>1, <4>2, <4>3
      <4> QED
        BY <4>4
    <3> QED
      BY <1>1, <2>3, <3>1 DEF UpInv, FlushAfterRecv
  <2>7. FlushFollows'
    <3> SUFFICES ASSUME UpAhead, ~Awake PROVE \E j \in 1 .. Len(jobs') : jobs'[j] = "doFlush"
      BY <1>1, <2>3 DEF FlushFollows, Awake
    <3>1. PICK j \in 1 .. Len(jobs) : jobs[j] = "doFlush"
      BY <1>1 DEF UpInv, FlushFollows
    <3>2. j # 1
      BY <2>2, <2>5, <3>1
    <3>3. j - 1 \in 1 .. Len(jobs') /\ jobs'[j - 1] = "doFlush"
      BY <2>2, <3>1, <3>2
    <3> QED
      BY <3>3
  <2>8. state' # "Connected"
    BY <1>4, <1>8
  <2>9. BeforeUp'
    <3>1. assoc = "none" => mPendingFlushCount' = 0
      <4>1. assoc = "none" => mPendingFlushCount = 0
        BY <1>1 DEF UpInv, BeforeUp
      <4> QED
        BY <1>2, <1>3, <4>1
    <3> QED
      BY <1>1, <1>4, <1>8, <2>8, <3>1 DEF UpInv, BeforeUp
  <2>10. UpInv'
    BY <1>1, <1>4, <1>8, <2>3, <2>6, <2>7, <2>8, <2>9
       DEF UpInv, UpOnce, NotYetConnected, FlushScheduled
  <2> QED
    BY <1>4, <1>5, <1>6, <2>10 DEF SctpIInv
<1> QED
  BY <1>7, <1>8

(* doRecv(), up to its loop.                                                 *)
LEMMA DoRecvBeginStep ==
  ASSUME SctpIInv, DoRecvBegin
  PROVE  SctpIInv'
<1>1. /\ TypeOK /\ QueueInv /\ UpInv /\ CountersMatchJobs
      /\ jobs # <<>> /\ Head(jobs) = "doRecv" /\ receiving = "no" /\ receiving' = "next"
      /\ mPendingRecvCount' = mPendingRecvCount - 1
      /\ UNCHANGED <<state, sendVars, mStopping, mPendingFlushCount, jobs, closer, upcall, assoc, inbox, count>>
      /\ unacked' = unacked
  BY DEF SctpIInv, DoRecvBegin, sendVars
<1>2. SendTypeOK' /\ QueueInv' /\ (CanSend' => CanSend)
  BY <1>1, QueueUnchanged
<1>3. mPendingRecvCount \in Nat /\ mPendingRecvCount > 0
  <2>1. jobs \in Seq(JobNames) /\ mPendingRecvCount \in Nat
    BY <1>1 DEF TypeOK, JobNames
  <2>2. 1 \in 1 .. Len(jobs) /\ jobs[1] = "doRecv"
    BY <1>1, <2>1
  <2>3. JobCount(jobs, "doRecv") > 0
    BY <2>1, <2>2, JobCountPositive
  <2> QED
    BY <1>1, <2>1, <2>3, CountersAre
<1>4. TypeOK'
  BY <1>1, <1>2, <1>3 DEF TypeOK, SendTypeOK
<1>5. CountersMatchJobs'
  BY <1>1, <1>3, <1>4 DEF CountersMatchJobs
<1>6. RecvAtHead'
  BY <1>1 DEF RecvAtHead
<1>7. assoc # "none"
  BY <1>1, <1>3 DEF UpInv, BeforeUp
<1>8. UpAhead' => UpAhead
  BY <1>1 DEF UpAhead
<1>9. UpInv'
  BY <1>1, <1>2, <1>7, <1>8
     DEF UpInv, BeforeUp, UpOnce, NotYetConnected, FlushAfterRecv, FlushFollows, Awake, FlushScheduled
<1> QED
  BY <1>2, <1>4, <1>5, <1>6, <1>9 DEF SctpIInv

(* usrsctp_recvv takes a notification.                                       *)
LEMMA DoRecvNextStep ==
  ASSUME SctpIInv, DoRecvNext
  PROVE  SctpIInv'
<1>1. /\ TypeOK /\ QueueInv /\ UpInv /\ CountersMatchJobs /\ RecvAtHead
      /\ receiving = "next" /\ state \notin {"Disconnected", "Failed"}
      /\ inbox # <<>> /\ receiving' = Head(inbox) /\ inbox' = Tail(inbox)
      /\ UNCHANGED <<state, sendVars, mStopping, mPendingRecvCount, mPendingFlushCount, jobs,
                     closer, upcall, assoc, count>>
      /\ unacked' = unacked
  BY DEF SctpIInv, DoRecvNext, sendVars
<1>2. SendTypeOK' /\ QueueInv' /\ (CanSend' => CanSend)
  BY <1>1, QueueUnchanged
<1>3. /\ inbox \in Seq(Notifications) /\ Len(inbox) \in Nat /\ 1 \in 1 .. Len(inbox)
      /\ receiving' = inbox[1] /\ receiving' \in Notifications
      /\ inbox' \in Seq(Notifications) /\ Len(inbox') = Len(inbox) - 1
      /\ \A i \in 1 .. Len(inbox') : inbox'[i] = inbox[i + 1]
  <2>1. inbox \in Seq(Notifications) /\ inbox # <<>>
    BY <1>1 DEF TypeOK
  <2> QED
    BY <1>1, <2>1
<1>4. TypeOK' /\ receiving' # "no"
  BY <1>1, <1>2, <1>3 DEF TypeOK, SendTypeOK, Notifications
<1>5. CountersMatchJobs' /\ RecvAtHead'
  BY <1>1, <1>4 DEF CountersMatchJobs, RecvAtHead
<1>6. UpAhead' => UpAhead
  BY <1>1, <1>3 DEF UpAhead
<1>7. UpOnce'
  BY <1>1, <1>3 DEF UpInv, UpOnce
<1>8. assoc # "none"
  BY <1>1 DEF UpInv, BeforeUp
<1>9. UpInv'
  BY <1>1, <1>2, <1>4, <1>6, <1>7, <1>8
     DEF UpInv, BeforeUp, NotYetConnected, FlushAfterRecv, FlushFollows, Awake, FlushScheduled
<1> QED
  BY <1>2, <1>4, <1>5, <1>9 DEF SctpIInv

LEMMA ProcessNotificationStep ==
  ASSUME SctpIInv, ProcessNotification
  PROVE  SctpIInv'
<1>1. /\ TypeOK /\ QueueInv /\ UpInv /\ CountersMatchJobs /\ RecvAtHead
      /\ receiving \in Notifications /\ receiving' = "next" /\ receiving # "no"
      /\ UNCHANGED <<mStopping, mPendingRecvCount, mPendingFlushCount, jobs, closer, upcall, assoc, inbox, count>>
  BY DEF SctpIInv, ProcessNotification, Notifications
<1>2. assoc # "none"
  BY <1>1 DEF UpInv, BeforeUp
<1>3. ASSUME TypeOK' PROVE CountersMatchJobs' /\ RecvAtHead'
  BY <1>1, <1>3 DEF CountersMatchJobs, RecvAtHead
<1>4. CASE receiving = "CommUp"
  <2>1. state' = "Connected" /\ UNCHANGED sendVars /\ unacked' = unacked
    BY <1>4 DEF ProcessNotification, sendVars
  <2>2. SendTypeOK' /\ QueueInv' /\ (CanSend' => CanSend)
    BY <1>1, <2>1, QueueUnchanged
  <2>3. TypeOK'
    BY <1>1, <2>1, <2>2 DEF TypeOK, SendTypeOK, States
  <2>4. UpAhead
    BY <1>4 DEF UpAhead
  <2>5. ~UpAhead'
    BY <1>1, <1>4 DEF UpAhead, UpInv, UpOnce
  <2>6. unacked < Window
    BY <1>1, <2>4, WindowAssumption DEF UpInv, NotYetConnected
  <2>7. Awake \/ \E j \in 1 .. Len(jobs) : jobs[j] = "doFlush"
    BY <1>1, <2>4 DEF UpInv, FlushFollows
  <2>8. FlushScheduled'
    BY <1>1, <2>1, <2>6, <2>7 DEF FlushScheduled, Awake
  <2>9. UpInv'
    BY <1>1, <1>2, <2>5, <2>8
       DEF UpInv, BeforeUp, UpOnce, NotYetConnected, FlushAfterRecv, FlushFollows
  <2> QED
    BY <1>3, <2>2, <2>3, <2>9 DEF SctpIInv
<1>5. CASE receiving = "CommLost"
  <2>1. state' \in {"Disconnected", "Failed"} /\ UNCHANGED sendVars /\ unacked' = unacked
    BY <1>5 DEF ProcessNotification, sendVars
  <2>2. SendTypeOK' /\ QueueInv'
    BY <1>1, <2>1, QueueUnchanged
  <2>3. TypeOK'
    BY <1>1, <2>1, <2>2 DEF TypeOK, SendTypeOK, States
  <2>4. ~UpAhead' /\ state' # "Connected"
    BY <1>1, <2>1 DEF UpAhead
  <2>5. UpInv'
    BY <1>1, <1>2, <2>4
       DEF UpInv, BeforeUp, UpOnce, NotYetConnected, FlushAfterRecv, FlushFollows, FlushScheduled
  <2> QED
    BY <1>3, <2>2, <2>3, <2>5 DEF SctpIInv
<1>6. CASE receiving = "SenderDry"
  <2>1. CASE state = "Connected" /\ trySendQueue
    <3>1. SendTypeOK' /\ QueueInv' /\ state' \in {state, "Disconnected"} /\ ~CanSend'
      BY <1>1, <2>1, TrySendQueueStep
    <3>2. TypeOK'
      BY <1>1, <3>1 DEF TypeOK, SendTypeOK, States
    <3>3. UpInv'
      BY <1>1, <2>1, <3>1, UpInvAfterFlush
    <3> QED
      BY <1>3, <3>1, <3>2, <3>3 DEF SctpIInv
  <2>2. CASE state # "Connected" /\ UNCHANGED <<state, sendVars>>
    <3>1. SendTypeOK' /\ QueueInv'
      BY <1>1, <2>2, QueueUnchanged
    <3>2. TypeOK' /\ unacked' = unacked
      BY <1>1, <2>2, <3>1 DEF TypeOK, SendTypeOK, sendVars
    <3>3. UpAhead' => UpAhead
      BY <1>1, <2>2 DEF UpAhead
    <3>4. UpInv'
      BY <1>1, <1>2, <2>2, <3>2, <3>3
         DEF UpInv, BeforeUp, UpOnce, NotYetConnected, FlushAfterRecv, FlushFollows, Awake, FlushScheduled
    <3> QED
      BY <1>3, <3>1, <3>2, <3>4 DEF SctpIInv
  <2> QED
    BY <1>6, <2>1, <2>2 DEF ProcessNotification
<1> QED
  BY <1>1, <1>4, <1>5, <1>6 DEF Notifications

LEMMA DoRecvEndStep ==
  ASSUME SctpIInv, DoRecvEnd
  PROVE  SctpIInv'
<1>1. /\ TypeOK /\ QueueInv /\ UpInv /\ CountersMatchJobs /\ RecvAtHead
      /\ receiving = "next" /\ receiving' = "no" /\ jobs' = Tail(jobs)
      /\ state \in {"Disconnected", "Failed"} \/ inbox = <<>>
      /\ UNCHANGED <<state, sendVars, mStopping, mPendingRecvCount, mPendingFlushCount, closer,
                     upcall, assoc, inbox, count>>
      /\ unacked' = unacked
  BY DEF SctpIInv, DoRecvEnd, sendVars
<1>2. SendTypeOK' /\ QueueInv' /\ (CanSend' => CanSend)
  BY <1>1, QueueUnchanged
<1>3. jobs \in Seq(JobNames) /\ jobs # <<>> /\ Head(jobs) = "doRecv"
      /\ mPendingFlushCount \in Nat /\ mPendingRecvCount \in Nat
  BY <1>1 DEF TypeOK, JobNames, RecvAtHead
<1>4. /\ jobs' \in Seq(JobNames) /\ Len(jobs') = Len(jobs) - 1 /\ Len(jobs) \in Nat
      /\ jobs[1] = Head(jobs)
      /\ \A i \in 2 .. Len(jobs) : jobs[i] = jobs'[i - 1]
      /\ \A x : JobCount(jobs, x) = JobCount(jobs', x) + (IF Head(jobs) = x THEN 1 ELSE 0)
      /\ \A x : JobCount(jobs', x) \in Nat
  BY <1>1, <1>3, JobsTaken
<1>5. TypeOK'
  BY <1>1, <1>2, <1>4 DEF TypeOK, SendTypeOK, JobNames
<1>6. CountersMatchJobs'
  <2>1. /\ JobCount(jobs, "doFlush") = JobCount(jobs', "doFlush") + 0
        /\ JobCount(jobs, "doRecv") = JobCount(jobs', "doRecv") + 1
        /\ JobCount(jobs', "doFlush") \in Nat /\ JobCount(jobs', "doRecv") \in Nat
    BY <1>3, <1>4
  <2>2. /\ mPendingFlushCount = JobCount(jobs, "doFlush")
        /\ mPendingRecvCount + 1 = JobCount(jobs, "doRecv")
    BY <1>1, CountersAre
  <2>3. mPendingFlushCount' = JobCount(jobs', "doFlush") /\ mPendingRecvCount' + 0 = JobCount(jobs', "doRecv")
    BY <1>1, <1>3, <2>1, <2>2
  <2> QED
    BY <1>1, <1>5, <2>3 DEF CountersMatchJobs, JobCount
<1>7. RecvAtHead' /\ ~UpAhead'
  BY <1>1 DEF RecvAtHead, UpAhead
<1>8. FlushScheduled'
  <2> SUFFICES ASSUME state = "Connected", CanSend,
                      ~(Awake /\ unacked < Window)
               PROVE  \E i \in 1 .. Len(jobs') : jobs'[i] \in {"doFlush", "flush"}
    BY <1>1, <1>2 DEF FlushScheduled, Awake
  <2>1. PICK i \in 1 .. Len(jobs) : jobs[i] \in {"doFlush", "flush"}
    BY <1>1 DEF UpInv, FlushScheduled
  <2>2. i # 1
    BY <1>3, <1>4, <2>1
  <2>3. i - 1 \in 1 .. Len(jobs') /\ jobs'[i - 1] = jobs[i]
    BY <1>4, <2>1, <2>2
  <2> QED
    BY <2>1, <2>3
<1>9. assoc # "none"
  BY <1>1 DEF UpInv, BeforeUp
<1>10. UpInv'
  BY <1>1, <1>7, <1>8, <1>9 DEF UpInv, BeforeUp, UpOnce, NotYetConnected, FlushAfterRecv, FlushFollows
<1> QED
  BY <1>2, <1>5, <1>6, <1>7, <1>10 DEF SctpIInv

LEMMA SctpNext ==
  ASSUME SctpIInv, [Next]_vars
  PROVE  SctpIInv'
<1>1. ASSUME NEW s \in Streams, Send(s) \/ CloseStream(s) PROVE SctpIInv'
  BY <1>1, SendStep, CloseStreamStep
<1>2. CASE CloseStop \/ CloseCheck \/ CloseEarly \/ LowerDisconnected
  BY <1>2, CloseStopStep, CloseCheckStep, CloseEarlyStep, LowerDisconnectedStep
<1>3. ASSUME NEW u \in Upcallers, AssocUp(u) \/ AssocLost(u) \/ Acknowledged(u) \/ UpcallStep(u)
      PROVE  SctpIInv'
  BY <1>3, AssocUpStep, AssocLostStep, AcknowledgedStep, UpcallReadStep, EnqueueRecvStep,
     UpcallWriteStep, EnqueueFlushStep DEF UpcallStep
<1>4. CASE JobStep
  BY <1>4, FlushJobStep, DoRecvBeginStep, DoRecvNextStep, ProcessNotificationStep, DoRecvEndStep
     DEF JobStep
<1>5. CASE UNCHANGED vars
  <2>1. /\ TypeOK /\ QueueInv /\ UpInv /\ CountersMatchJobs /\ RecvAtHead
        /\ UNCHANGED <<state, mSendQueue, mStopping, mSendShutdown, mBufferedAmount, mPendingRecvCount,
                       mPendingFlushCount, jobs, receiving, closer, upcall, assoc, inbox, unacked, lastSent, count>>
    BY <1>5 DEF SctpIInv, vars
  <2>2. QueueInv' /\ (CanSend' => CanSend)
    BY <2>1, QueueUnchanged DEF sendVars
  <2>3. TypeOK' /\ CountersMatchJobs' /\ RecvAtHead'
    BY <2>1 DEF TypeOK, CountersMatchJobs, RecvAtHead
  <2>4. UpInv'
    BY <2>1, <2>2 DEF UpInv, BeforeUp, UpOnce, NotYetConnected, FlushAfterRecv, FlushFollows, UpAhead,
                      Awake, FlushScheduled
  <2> QED
    BY <2>2, <2>3, <2>4 DEF SctpIInv
<1> QED
  BY <1>1, <1>2, <1>3, <1>4, <1>5 DEF Next

(* What trySendQueue() would send can be sent.                               *)
LEMMA NoFlushLost ==
  ASSUME SctpIInv
  PROVE  FlushPending
<1> SUFFICES ASSUME state = "Connected", Sendable > 0 PROVE FlushAhead
  BY DEF FlushPending
<1>1. TypeOK /\ FlushScheduled /\ mSendQueue \in Seq(Message)
  BY DEF SctpIInv, UpInv, TypeOK
<1>2. Sendable \in 0 .. Len(mSendQueue) /\ DataIn(mSendQueue, Sendable) <= Room /\ Room \in Nat
  BY <1>1, SendableFacts, RoomType
<1>3. mSendQueue # <<>> /\ 1 \in 1 .. Sendable /\ Sendable \in Nat
  BY <1>1, <1>2
<1>4. CASE mSendQueue[1].kind = "Data"
  <2>1. mSendQueue[1] \in Message
    BY <1>1, <1>3
  <2>2. mSendQueue[1] \in DataMessages
    BY <1>4, <2>1 DEF DataMessages
  <2>3. Occ(mSendQueue, Sendable, DataMessages) \in Nat /\ Occ(mSendQueue, Sendable, DataMessages) # 0
    BY <1>3, <2>2, OccType
  <2>4. Room > 0
    BY <1>1, <1>2, <2>3, DataInIsOcc
  <2> QED
    BY <1>1, <1>3, <2>4 DEF CanSend, FlushScheduled, FlushAhead, Awake
<1>5. CASE mSendQueue[1].kind # "Data"
  BY <1>1, <1>3, <1>5 DEF CanSend, FlushScheduled, FlushAhead, Awake
<1> QED
  BY <1>4, <1>5

-----------------------------------------------------------------------------

(* Whatever threads send, close, flush and receive, and even if some send    *)
(* during close(): the order of the calls is kept, the shutdown comes with   *)
(* an empty queue, no flush is lost, and the counters equal the jobs.        *)
THEOREM SctpCorrect ==
  Spec => [](SendOrder /\ ShutdownAfterDrain /\ FlushPending /\ CountersMatchJobs)
<1>1. SctpIInv => SendOrder /\ ShutdownAfterDrain /\ FlushPending /\ CountersMatchJobs
  BY NoFlushLost DEF SctpIInv, QueueInv
<1> QED
  BY <1>1, InitSctp, SctpNext, PTL DEF Spec

(* The amounts that the channels see are exact too, unless send() is called  *)
(* after close(), whose message is counted and never queued.                 *)
THEOREM SendCorrect ==
  ASSUME ~LateSends
  PROVE  Spec => []SendInv
<1>1. SctpIInv => SendInv
  BY NoFlushLost DEF SctpIInv, QueueInv, AmountInv, SendInv
<1> QED
  BY <1>1, InitSctp, SctpNext, PTL DEF Spec

-----------------------------------------------------------------------------
(* Data channels: the inductive invariant.                                   *)

(* The two ends of a channel: at the peer that creates it and at the other   *)
(* one.                                                                      *)
Out(c) == <<c, "out">>
In(c) == <<c, "in">>

(* The tables and the ends: an entry is an end of that peer with that        *)
(* stream; an end that has a stream and is not closed is in the table at it, *)
(* at a stream of the creator's parity; an incoming end exists only after    *)
(* the open message of its channel was sent, and has the stream of the       *)
(* outgoing one.                                                             *)
TableInv ==
    /\ \A p \in Peers, s \in ChannelStreams : mDataChannels[p][s] # NoEnd =>
          Peer(mDataChannels[p][s]) = p /\ end[mDataChannels[p][s]].stream = s
    /\ \A e \in Ends : end[e].stream # NoStream =>
          /\ end[e].created /\ end[e].stream % 2 = Parity(Creator[e[1]])
          /\ ~end[e].closed => mDataChannels[Peer(e)][end[e].stream] = e
    /\ \A c \in Chans : end[In(c)].created =>
          /\ end[In(c)].transport /\ ~end[In(c)].destroyed
          /\ end[Out(c)].opening /\ end[In(c)].stream = end[Out(c)].stream
    /\ \A c \in Chans : end[Out(c)].opening => end[Out(c)].stream # NoStream
    /\ \A c \in Chans : end[Out(c)].transport <=> end[Out(c)].opening
    /\ \A c \in Chans : end[In(c)].transport => end[In(c)].created
    /\ \A e \in Ends : end[e].destroyed => end[e].created

(* What the threads hold on to: the list mUnassignedDataChannels has         *)
(* channels of the peer, each once; the channel a createDataChannel() is at  *)
(* is in the list or has a stream; the ends the job has to open, and those a *)
(* send() found open, have one.                                              *)
ListInv ==
    /\ \A p \in Peers : \A i \in DOMAIN mUnassignedDataChannels[p] :
          /\ Creator[mUnassignedDataChannels[p][i]] = p
          /\ end[Out(mUnassignedDataChannels[p][i])].created
          /\ \A j \in DOMAIN mUnassignedDataChannels[p] :
                mUnassignedDataChannels[p][j] = mUnassignedDataChannels[p][i] => j = i
    /\ \A p \in Peers : creating[p] # NoEnd =>
          /\ Creator[creating[p][1]] = p
          /\ end[Out(creating[p][1])].created /\ ~end[Out(creating[p][1])].destroyed
          /\ creating[p][2] = "assigned" => end[Out(creating[p][1])].stream # NoStream
          /\ \/ end[Out(creating[p][1])].stream # NoStream
             \/ \E i \in DOMAIN mUnassignedDataChannels[p] : mUnassignedDataChannels[p][i] = creating[p][1]
    /\ \A p \in Peers : \A e \in todo[p] :
          Peer(e) = p /\ end[e].stream # NoStream /\ ~end[e].destroyed
    /\ \A e \in Ends : sending[e] = "checked" => end[e].stream # NoStream /\ end[e].transport

(* The messages under way: an open message goes to the peer that did not     *)
(* create its channel, on the stream the channel has.                        *)
WireInv ==
    \A p \in Peers, s \in ChannelStreams : \A i \in DOMAIN wire[p][s] :
        /\ wire[p][s][i].type # "RESET" => wire[p][s][i].chan \in Chans
        /\ wire[p][s][i].type = "OPEN" =>
              /\ Other(Creator[wire[p][s][i].chan]) = p
              /\ end[Out(wire[p][s][i].chan)].stream = s
              /\ end[Out(wire[p][s][i].chan)].opening

(* The job openDataChannels is enqueued by the Connected callback, when      *)
(* nothing but channels in creation are left without a stream, so that no    *)
(* channel is both opened and dropped.                                       *)
JobInv ==
    /\ \A p \in Peers : todo[p] # {} => job[p] = "running"
    /\ \A p \in Peers : sctp[p] # "Connected" => callback[p] = "idle"
    /\ \A p \in Peers : callback[p] # "done" => job[p] = "none"
    /\ \A p \in Peers : job[p] # "none" => \A i \in DOMAIN mUnassignedDataChannels[p] :
          \/ end[Out(mUnassignedDataChannels[p][i])].destroyed
          \/ /\ end[Out(mUnassignedDataChannels[p][i])].stream = NoStream
             /\ creating[p] = <<mUnassignedDataChannels[p][i], "emplaced">>
    /\ \A p \in Peers : creating[p] # NoEnd /\ end[Out(creating[p][1])].opening => job[p] # "none"
    /\ \A c \in Chans : end[Out(c)].opening => ~end[Out(c)].destroyed

(* The calls of close(): the application asked for them, and one that found  *)
(* a transport found the one the end has.                                    *)
AppInv ==
    /\ \A e \in Ends : closing[e] # "no" => e[1] \in appClosed
    /\ \A e \in Ends : closing[e] = "with" => end[e].transport
    /\ \A c \in Chans : closing[In(c)] # "without"

(* The messages a .. b of w are data or acknowledgements of channel c, but   *)
(* for the last, which is a reset if the end that sent them is closed.       *)
Run(w, a, b, c, closed) ==
    /\ closed => b >= a /\ w[b].type = "RESET"
    /\ \A i \in a .. b : (closed /\ i = b) \/ (w[i].type \in {"DATA", "ACK"} /\ w[i].chan = c)

(* The stream at one moment, by f: the messages from the creating peer, b:   *)
(* those towards it, o and d: the ends in the table of the creating and of   *)
(* the other peer, E: the ends. The first k messages of f are for the        *)
(* channel of d, the end that is still in the table there, although the      *)
(* creating peer may already use the stream for another.                     *)
Arrived(f, k, o, d, E) ==
    /\ d = NoEnd => k = 0
    /\ d # NoEnd =>
        /\ d = In(d[1]) /\ E[d].created /\ E[Out(d[1])].opening
        /\ Run(f, 1, k, d[1], E[Out(d[1])].closed)
        /\ o # Out(d[1]) => E[Out(d[1])].closed /\ E[d].closed

(* The channel of the creating peer has no end at the other one that is not  *)
(* d, unless both are closed and the reset comes back.                       *)
Owner(o, d, E) ==
    o # NoEnd =>
        /\ o = Out(o[1])
        /\ E[In(o[1])].created => d = In(o[1]) \/ (d = NoEnd /\ E[o].closed /\ E[In(o[1])].closed)

(* The open message of the channel is under way.                             *)
Announced(o, E) == o # NoEnd /\ E[o].opening /\ ~E[In(o[1])].created

(* After the first k messages comes the open message of the creating peer's  *)
(* channel and what it sent since.                                           *)
Pending(f, k, o, E) ==
    \/ /\ Announced(o, E)
       /\ k < Len(f) /\ f[k + 1].type = "OPEN" /\ f[k + 1].chan = o[1]
       /\ Run(f, k + 2, Len(f), o[1], E[o].closed)
    \/ ~Announced(o, E) /\ k = Len(f)

(* The messages from the creating peer, and ...                              *)
Forward(f, k, o, d, E) == Arrived(f, k, o, d, E) /\ Owner(o, d, E) /\ Pending(f, k, o, E)

(* ... those towards it: all of the channel it has at the stream.            *)
Backward(b, o, E) ==
    \/ /\ o # NoEnd /\ E[In(o[1])].created
       /\ Run(b, 1, Len(b), o[1], E[In(o[1])].closed)
    \/ /\ ~(o # NoEnd /\ E[In(o[1])].created)
       /\ b = <<>>

(* The messages and the ends of a stream fit together.                       *)
Stream(f, b, o, d, E) == Backward(b, o, E) /\ \E k \in 0 .. Len(f) : Forward(f, k, o, d, E)

(* They do on every stream; the peer whose parity it has creates.            *)
StreamInv ==
    \A p \in Peers, s \in ChannelStreams : s % 2 = Parity(p) =>
        Stream(wire[Other(p)][s], wire[p][s], mDataChannels[p][s], mDataChannels[Other(p)][s], end)

(* What holds as long as no open message was sent twice or late, and no      *)
(* message after a reset.                                                    *)
RaceInv ==
    NoRace =>
        /\ \A e \in Ends : closing[e] = "without" => ~end[e].transport
        /\ StreamInv /\ NoCrossTalk /\ ClosedOnlyByApp

(* The inductive invariant of the data channels.                             *)
ChannelsIInv == ChannelsTypeOK /\ TableInv /\ ListInv /\ WireInv /\ JobInv /\ AppInv /\ RaceInv

-----------------------------------------------------------------------------
(* The n-th element of a finite set of numbers.                              *)

(* A set of numbers up to n has a smallest one: the one whose predecessors are *)
(* a minimal set.                                                              *)
LEMMA Smallest ==
    ASSUME NEW n \in Nat, NEW K \in SUBSET (0 .. n), K # {}
    PROVE  \E k \in K : \A j \in K : k <= j
<1> DEFINE U(k) == 0 .. k - 1
           T == {U(k) : k \in K}
           R == StrictSubsetOrdering(Nat)
<1>1. T # {}
  OBVIOUS
<1>2. T \subseteq FiniteSubsetsOf(Nat)
  <2> SUFFICES ASSUME NEW k \in K PROVE U(k) \in FiniteSubsetsOf(Nat)
    OBVIOUS
  <2>1. U(k) \in SUBSET Nat /\ IsFiniteSet(U(k))
    BY FS_Interval
  <2> QED
    BY <2>1 DEF FiniteSubsetsOf
<1>3. IsWellFoundedOn(R, FiniteSubsetsOf(Nat))
  BY FS_StrictSubsetOrderingWellFounded
<1>4. PICK x \in T : \A y \in T : ~(<<y, x>> \in R)
  <2> HIDE DEF T, R
  <2> QED
    BY <1>1, <1>2, <1>3, WFMin
<1>5. PICK k \in K : x = U(k)
  OBVIOUS
<1>6. ASSUME NEW j \in K, ~(k <= j) PROVE FALSE
  <2>1. U(j) \in SUBSET Nat /\ U(k) \in SUBSET Nat
    OBVIOUS
  <2>2. U(j) \subseteq U(k) /\ j \in U(k) /\ j \notin U(j)
    BY <1>6
  <2>3. <<U(j), U(k)>> \in R
    <3> HIDE DEF U
    <3> QED
      BY <2>1, <2>2 DEF StrictSubsetOrdering
  <2> QED
    BY <1>4, <1>5, <2>3
<1> QED
  BY <1>6

(* How many numbers of S are smaller than x.                                   *)
Less(S, x) == {r \in S : r < x}

(* What Less does not depend on, and its cardinality.                        *)
LEMMA LessFacts ==
    ASSUME NEW m \in Nat, NEW S \in SUBSET (0 .. m)
    PROVE  /\ IsFiniteSet(S) /\ Cardinality(S) \in Nat
           /\ \A x \in Nat : IsFiniteSet(Less(S, x)) /\ Cardinality(Less(S, x)) \in Nat
           /\ Less(S, 0) = {} /\ Less(S, m + 1) = S
           /\ \A x \in S : x \in Nat /\ Less(S, x + 1) = Less(S, x) \cup {x} /\ x \notin Less(S, x)
           /\ \A x \in Nat : x \notin S => Less(S, x + 1) = Less(S, x)
<1>1. IsFiniteSet(0 .. m)
  BY FS_Interval
<1>2. IsFiniteSet(S)
  BY <1>1, FS_Subset
<1>3. \A x \in Nat : IsFiniteSet(Less(S, x))
  BY <1>2, FS_Subset DEF Less
<1>4. Cardinality(S) \in Nat /\ \A x \in Nat : Cardinality(Less(S, x)) \in Nat
  BY <1>2, <1>3, FS_CardinalityType
<1>0. \A r \in S : r \in Nat /\ r <= m
  OBVIOUS
<1>a. \A r \in S : ~(r < 0) /\ r < m + 1
  BY <1>0
<1>b. \A r \in S, x \in Nat : r < x + 1 <=> r < x \/ r = x
  BY <1>0
<1>c. \A x \in S : ~(x < x)
  BY <1>0
<1>5. Less(S, 0) = {} /\ Less(S, m + 1) = S
  BY <1>a DEF Less
<1>6. \A x \in S : x \in Nat /\ Less(S, x + 1) = Less(S, x) \cup {x} /\ x \notin Less(S, x)
  <2> SUFFICES ASSUME NEW x \in S
      PROVE  x \in Nat /\ Less(S, x + 1) = Less(S, x) \cup {x} /\ x \notin Less(S, x)
    OBVIOUS
  <2>1. x \in Nat
    BY <1>0
  <2>2. \A r \in S : r < x + 1 <=> r < x \/ r = x
    BY <1>b, <2>1
  <2>3. Less(S, x + 1) = Less(S, x) \cup {x}
    BY <2>2 DEF Less
  <2>4. QED
    BY <1>c, <2>1, <2>3 DEF Less
<1>7. \A x \in Nat : x \notin S => Less(S, x + 1) = Less(S, x)
  <2> SUFFICES ASSUME NEW x \in Nat, x \notin S
      PROVE  Less(S, x + 1) = Less(S, x)
    OBVIOUS
  <2>1. \A r \in S : r < x + 1 <=> r < x
    BY <1>b
  <2>2. QED
    BY <2>1 DEF Less
<1>8. QED
  BY <1>2, <1>3, <1>4, <1>5, <1>6, <1>7

(* Different elements have different numbers of smaller ones.                *)
LEMMA LessDistinct ==
    ASSUME NEW m \in Nat, NEW S \in SUBSET (0 .. m), NEW x \in S
    PROVE  /\ Cardinality(Less(S, x)) + 1 <= Cardinality(S) /\ Cardinality(Less(S, x)) \in Nat
           /\ \A y \in S : Cardinality(Less(S, x)) = Cardinality(Less(S, y)) => x = y
<1>1. /\ IsFiniteSet(S) /\ Cardinality(S) \in Nat
      /\ \A y \in Nat : IsFiniteSet(Less(S, y)) /\ Cardinality(Less(S, y)) \in Nat
      /\ \A y \in S : y \in Nat /\ Less(S, y + 1) = Less(S, y) \cup {y} /\ y \notin Less(S, y)
  BY LessFacts
<1>2. \A y \in S : Cardinality(Less(S, y + 1)) = Cardinality(Less(S, y)) + 1 /\ IsFiniteSet(Less(S, y + 1))
  <2> SUFFICES ASSUME NEW y \in S
      PROVE  Cardinality(Less(S, y + 1)) = Cardinality(Less(S, y)) + 1 /\ IsFiniteSet(Less(S, y + 1))
    OBVIOUS
  <2>1. y \in Nat /\ IsFiniteSet(Less(S, y)) /\ Less(S, y + 1) = Less(S, y) \cup {y} /\ y \notin Less(S, y)
    BY <1>1
  <2>2. QED
    BY <2>1, FS_AddElement
<1>3. ASSUME NEW y \in S, NEW z \in S, y < z PROVE Cardinality(Less(S, y)) # Cardinality(Less(S, z))
  <2>1. Less(S, y + 1) \subseteq Less(S, z)
    <3>1. y \in Nat /\ z \in Nat /\ \A r \in S : r \in Nat
      BY <1>1
    <3>2. \A r \in S : r < y + 1 => r < z
      BY <1>3, <3>1
    <3>3. QED
      BY <3>2 DEF Less
  <2>2. Cardinality(Less(S, y + 1)) <= Cardinality(Less(S, z))
    BY <1>1, <2>1, FS_Subset
  <2>3. QED
    BY <1>1, <1>2, <2>2
<1>4. Less(S, x + 1) \subseteq S
  BY DEF Less
<1>5. Cardinality(Less(S, x + 1)) <= Cardinality(S)
  BY <1>1, <1>4, FS_Subset
<1>6. \A y \in S : Cardinality(Less(S, x)) = Cardinality(Less(S, y)) => x = y
  BY <1>1, <1>3
<1>7. QED
  BY <1>1, <1>2, <1>5, <1>6

(* The n-th number of a set.                                                   *)
LEMMA NthFacts ==
    ASSUME NEW m \in Nat, NEW S \in SUBSET (0 .. m), NEW n \in 1 .. Cardinality(S)
    PROVE  Nth(S, n) \in S /\ Cardinality(Less(S, Nth(S, n))) = n - 1
<1>1. /\ IsFiniteSet(S) /\ Cardinality(S) \in Nat
      /\ \A x \in Nat : IsFiniteSet(Less(S, x)) /\ Cardinality(Less(S, x)) \in Nat
      /\ Less(S, 0) = {} /\ Less(S, m + 1) = S
      /\ \A x \in S : x \in Nat /\ Less(S, x + 1) = Less(S, x) \cup {x} /\ x \notin Less(S, x)
      /\ \A x \in Nat : x \notin S => Less(S, x + 1) = Less(S, x)
  BY LessFacts
<1> DEFINE K == {x \in 0 .. m + 1 : Cardinality(Less(S, x)) >= n}
<1>2. m + 1 \in K /\ n \in Nat /\ n >= 1
  BY <1>1
<1>3. PICK k \in K : \A j \in K : k <= j
  <2>1. K \in SUBSET (0 .. m + 1) /\ m + 1 \in Nat /\ K # {}
    BY <1>2
  <2> HIDE DEF K
  <2> QED
    BY <2>1, Smallest
<1>4. k \in 0 .. m + 1 /\ Cardinality(Less(S, k)) >= n
  OBVIOUS
<1>5. k # 0
  <2>1. Cardinality(Less(S, 0)) = 0
    BY <1>1, FS_EmptySet
  <2>2. QED
    BY <1>2, <1>4, <2>1
<1>6. k - 1 \in Nat /\ k - 1 \in 0 .. m + 1 /\ k - 1 \notin K /\ (k - 1) + 1 = k
  BY <1>3, <1>4, <1>5
<1>7. Cardinality(Less(S, k - 1)) < n
  BY <1>1, <1>2, <1>6
<1>8. k - 1 \in S
  BY <1>1, <1>2, <1>4, <1>6, <1>7
<1>9. Cardinality(Less(S, k)) = Cardinality(Less(S, k - 1)) + 1
  <2>1. IsFiniteSet(Less(S, k - 1)) /\ Less(S, k) = Less(S, k - 1) \cup {k - 1} /\ k - 1 \notin Less(S, k - 1)
    BY <1>1, <1>6, <1>8
  <2>2. QED
    BY <2>1, FS_AddElement
<1>10. Cardinality(Less(S, k - 1)) = n - 1
  BY <1>1, <1>2, <1>4, <1>6, <1>7, <1>9
<1>11. \E s \in S : Cardinality(Less(S, s)) = n - 1
  BY <1>8, <1>10
<1>12. QED
  BY <1>11 DEF Nth, Less

(* Every element is the n-th for some n, ...                                 *)
LEMMA NthOnto ==
    ASSUME NEW m \in Nat, NEW S \in SUBSET (0 .. m), NEW x \in S
    PROVE  \E n \in 1 .. Cardinality(S) : Nth(S, n) = x
<1> DEFINE n == Cardinality(Less(S, x)) + 1
<1>1. n \in 1 .. Cardinality(S) /\ n - 1 = Cardinality(Less(S, x))
  <2>1. Cardinality(S) \in Nat
    BY LessFacts
  <2>2. Cardinality(Less(S, x)) + 1 <= Cardinality(S) /\ Cardinality(Less(S, x)) \in Nat
    BY LessDistinct
  <2>3. QED
    BY <2>1, <2>2
<1> HIDE DEF n
<1>2. Nth(S, n) \in S /\ Cardinality(Less(S, Nth(S, n))) = n - 1
  BY <1>1, NthFacts
<1>3. Nth(S, n) = x
  BY <1>1, <1>2, LessDistinct
<1>4. QED
  BY <1>1, <1>3

(* ... and for one n only.                                                   *)
LEMMA NthDistinct ==
    ASSUME NEW m \in Nat, NEW S \in SUBSET (0 .. m), NEW i \in 1 .. Cardinality(S), NEW j \in 1 .. Cardinality(S),
           Nth(S, i) = Nth(S, j)
    PROVE  i = j
<1>1. Cardinality(Less(S, Nth(S, i))) = i - 1 /\ Cardinality(Less(S, Nth(S, j))) = j - 1
  BY NthFacts
<1>2. i \in Int /\ j \in Int
  OBVIOUS
<1>3. QED
  BY <1>1, <1>2

-----------------------------------------------------------------------------
(* assignDataChannels: which channels get which streams.                     *)

(* A function on an interval is a sequence.                                    *)
LEMMA FunctionIsSeq ==
    ASSUME NEW S, NEW n \in Nat, NEW f \in [1 .. n -> S]
    PROVE  f \in Seq(S) /\ Len(f) = n
OBVIOUS

(* The list of peer p.                                                       *)
Listed(p) == mUnassignedDataChannels[p]

(* The channels of the list that still exist, in the list's order.             *)
LEMMA AliveFacts ==
    ASSUME ChannelsTypeOK, ListInv, NEW p \in Peers
    PROVE  /\ Len(Alive(p)) \in Nat /\ DOMAIN Alive(p) = 1 .. Len(Alive(p))
           /\ \A n \in 1 .. Len(Alive(p)) :
                 /\ \E i \in DOMAIN Listed(p) : Alive(p)[n] = Listed(p)[i]
                 /\ Alive(p)[n] \in Chans /\ ~end[Out(Alive(p)[n])].destroyed
           /\ \A m, n \in 1 .. Len(Alive(p)) : Alive(p)[m] = Alive(p)[n] => m = n
           /\ \A i \in DOMAIN Listed(p) : ~end[Out(Listed(p)[i])].destroyed =>
                 \E n \in 1 .. Len(Alive(p)) : Alive(p)[n] = Listed(p)[i]
<1> DEFINE S == Kept(p)
           L == Len(Listed(p))
<1>1. Listed(p) \in Seq(Chans) /\ L \in Nat /\ DOMAIN Listed(p) = 1 .. L
  BY DEF ChannelsTypeOK, Listed
<1>2. S \in SUBSET (0 .. L) /\ \A i \in S : i \in DOMAIN Listed(p) /\ Listed(p)[i] \in Chans
                                            /\ ~end[Out(Listed(p)[i])].destroyed
  BY <1>1 DEF Kept, Listed, Out
<1>3. \A i \in DOMAIN Listed(p) : ~end[Out(Listed(p)[i])].destroyed => i \in S
  BY DEF Kept, Listed, Out
<1>4. \A i, j \in DOMAIN Listed(p) : Listed(p)[i] = Listed(p)[j] => i = j
  BY DEF ListInv, Listed
<1>5. CASE S = DOMAIN Listed(p)
  <2>1. Alive(p) = Listed(p)
    BY <1>5 DEF Alive, Listed
  <2>2. QED
    BY <1>1, <1>2, <1>4, <1>5, <2>1
<1>6. CASE S # DOMAIN Listed(p)
  <2>1. Cardinality(S) \in Nat
    BY <1>1, <1>2, LessFacts
  <2>2. Alive(p) = [n \in 1 .. Cardinality(S) |-> Listed(p)[Nth(S, n)]]
    BY <1>6 DEF Alive, Listed
  <2> HIDE DEF S, L
  <2>3. \A n \in 1 .. Cardinality(S) : Nth(S, n) \in S
    BY <1>1, <1>2, NthFacts
  <2>4. \A n \in 1 .. Cardinality(S) : Alive(p)[n] = Listed(p)[Nth(S, n)] /\ Alive(p)[n] \in Chans
    BY <1>2, <2>2, <2>3
  <2>5. Alive(p) \in Seq(Chans) /\ Len(Alive(p)) = Cardinality(S)
    <3>1. Alive(p) \in [1 .. Cardinality(S) -> Chans]
      BY <2>2, <2>4
    <3>2. QED
      BY <2>1, <3>1, FunctionIsSeq
  <2>6. ASSUME NEW m \in 1 .. Cardinality(S), NEW n \in 1 .. Cardinality(S), Alive(p)[m] = Alive(p)[n]
         PROVE  m = n
    <3>1. Nth(S, m) = Nth(S, n)
      BY <1>2, <1>4, <2>3, <2>4, <2>6
    <3>2. QED
      BY <1>1, <1>2, <3>1, NthDistinct
  <2>7. ASSUME NEW i \in DOMAIN Listed(p), ~end[Out(Listed(p)[i])].destroyed
         PROVE  \E n \in 1 .. Cardinality(S) : Alive(p)[n] = Listed(p)[i]
    <3>1. i \in S
      BY <1>3, <2>7
    <3>2. PICK n \in 1 .. Cardinality(S) : Nth(S, n) = i
      BY <1>1, <1>2, <3>1, NthOnto
    <3>3. QED
      BY <2>4, <3>2
  <2>8. DOMAIN Alive(p) = 1 .. Cardinality(S)
    BY <2>2
  <2>9. \A n \in 1 .. Cardinality(S) :
            /\ \E i \in DOMAIN Listed(p) : Alive(p)[n] = Listed(p)[i]
            /\ Alive(p)[n] \in Chans /\ ~end[Out(Alive(p)[n])].destroyed
    BY <1>2, <2>3, <2>4
  <2>10. QED
    BY <2>1, <2>5, <2>6, <2>7, <2>8, <2>9
<1>7. QED
  BY <1>5, <1>6

(* How many of them get a stream: the ones before the first at which the loop  *)
(* stops.                                                                      *)
LEMMA AssignedFacts ==
    ASSUME ChannelsTypeOK, ListInv, NEW p \in Peers
    PROVE  /\ Assigned(p) \in 0 .. Len(Alive(p))
           /\ \A i \in 1 .. Assigned(p) :
                 /\ i \in 1 .. Len(Alive(p)) /\ i \in 1 .. Cardinality(Free(p))
                 /\ end[Out(Alive(p)[i])].stream = NoStream
<1> DEFINE N == Len(Alive(p))
           K == {i \in 1 .. N + 1 : AssignStops(p, i)}
<1>1. N \in Nat
  BY AliveFacts
<1>2. K \in SUBSET (0 .. N + 1) /\ N + 1 \in K /\ N + 1 \in Nat
  BY <1>1 DEF AssignStops
<1>3. PICK k \in K : \A j \in K : k <= j
  <2> HIDE DEF K
  <2> QED
    BY <1>2, Smallest
<1>4. k \in 1 .. N + 1 /\ AssignStops(p, k) /\ \A j \in 1 .. k - 1 : ~AssignStops(p, j)
  <2>1. k \in 1 .. N + 1 /\ AssignStops(p, k)
    OBVIOUS
  <2>2. ASSUME NEW j \in 1 .. k - 1 PROVE ~AssignStops(p, j)
    <3>1. j \in 1 .. N + 1 /\ ~(k <= j)
      BY <1>1, <2>1
    <3>2. QED
      BY <1>3, <3>1
  <2>3. QED
    BY <2>1, <2>2
<1>5. \E i \in 1 .. N + 1 : AssignStops(p, i) /\ \A j \in 1 .. i - 1 : ~AssignStops(p, j)
  BY <1>4
<1>6. /\ Assigned(p) + 1 \in 1 .. N + 1
      /\ \A j \in 1 .. (Assigned(p) + 1) - 1 : ~AssignStops(p, j)
  <2> DEFINE i == CHOOSE i \in 1 .. N + 1 : AssignStops(p, i) /\ \A j \in 1 .. i - 1 : ~AssignStops(p, j)
  <2>1. i \in 1 .. N + 1 /\ \A j \in 1 .. i - 1 : ~AssignStops(p, j)
    BY <1>5
  <2>2. Assigned(p) = i - 1
    BY DEF Assigned
  <2> HIDE DEF i
  <2>3. QED
    BY <1>1, <2>1, <2>2
<1>7. Assigned(p) \in 0 .. N /\ \A j \in 1 .. Assigned(p) : ~AssignStops(p, j)
  <2>1. Assigned(p) \in Int
    <3>1. \E i \in Int : Assigned(p) = i - 1
      BY <1>5 DEF Assigned
    <3>2. QED
      BY <3>1
  <2>2. QED
    BY <1>1, <1>6, <2>1
<1>8. Cardinality(Free(p)) \in Nat
  <2>1. Free(p) \in SUBSET (0 .. MaxStream) /\ MaxStream \in Nat
    BY MaxStreamAssumption DEF Free, ChannelStreams
  <2>2. QED
    BY <2>1, LessFacts
<1>9. ASSUME NEW i \in 1 .. Assigned(p)
      PROVE  /\ i \in 1 .. N /\ i \in 1 .. Cardinality(Free(p))
             /\ end[Out(Alive(p)[i])].stream = NoStream
  <2>1. ~AssignStops(p, i) /\ i \in 1 .. N
    BY <1>1, <1>7
  <2>2. QED
    BY <1>8, <2>1 DEF AssignStops, Out
<1>10. QED
  BY <1>7, <1>9

(* Peer p gives the stream s to the end e of a listed channel.                 *)
Takes(p, e, s) ==
    /\ e \in Ends /\ e = Out(e[1]) /\ Creator[e[1]] = p
    /\ end[e].created /\ ~end[e].destroyed /\ end[e].stream = NoStream
    /\ s \in Free(p)
    /\ EndsAssigned(p)[e] = [end[e] EXCEPT !.stream = s]

(* What assignDataChannels does, whatever channels and free streams there are. *)
LEMMA AssignFacts ==
    ASSUME ChannelsTypeOK, ListInv, NEW p \in Peers, assignDataChannels(p)
    PROVE  /\ EndsAssigned(p) \in [Ends -> End]
           /\ mDataChannels' \in [Peers -> [ChannelStreams -> Ends \union {NoEnd}]]
           /\ mUnassignedDataChannels' \in [Peers -> Seq(Chans)]
           /\ \A q \in Peers \ {p} : /\ mDataChannels'[q] = mDataChannels[q]
                                     /\ mUnassignedDataChannels'[q] = mUnassignedDataChannels[q]
           /\ \A e \in Ends :
                 \/ EndsAssigned(p)[e] = end[e]
                 \/ \E s \in ChannelStreams : Takes(p, e, s) /\ mDataChannels'[p][s] = e
           /\ \A s \in ChannelStreams :
                 \/ mDataChannels'[p][s] = mDataChannels[p][s]
                 \/ Takes(p, mDataChannels'[p][s], s)
           /\ AssignThrows(p) =>
                 /\ mUnassignedDataChannels'[p] = Listed(p)
                 /\ \E i \in DOMAIN Listed(p) :
                       /\ ~end[Out(Listed(p)[i])].destroyed
                       /\ EndsAssigned(p)[Out(Listed(p)[i])] = end[Out(Listed(p)[i])]
           /\ ~AssignThrows(p) =>
                 /\ mUnassignedDataChannels'[p] = <<>>
                 /\ \A i \in DOMAIN Listed(p) :
                       end[Out(Listed(p)[i])].destroyed \/ EndsAssigned(p)[Out(Listed(p)[i])].stream # NoStream
<1> DEFINE N == Len(Alive(p))
           A == Assigned(p)
           E == EndsAssigned(p)
           F == Free(p)
           a(i) == Alive(p)[i]
           g(i) == Nth(F, i)
<1>1. /\ N \in Nat
      /\ \A n \in 1 .. N : /\ \E i \in DOMAIN Listed(p) : a(n) = Listed(p)[i]
                           /\ a(n) \in Chans /\ ~end[Out(a(n))].destroyed
      /\ \A m, n \in 1 .. N : a(m) = a(n) => m = n
      /\ \A i \in DOMAIN Listed(p) : ~end[Out(Listed(p)[i])].destroyed =>
            \E n \in 1 .. N : a(n) = Listed(p)[i]
  BY AliveFacts
<1>2. /\ A \in 0 .. N
      /\ \A i \in 1 .. A : /\ i \in 1 .. N /\ i \in 1 .. Cardinality(F)
                           /\ end[Out(a(i))].stream = NoStream
  BY AssignedFacts
<1>3. F \in SUBSET (0 .. MaxStream) /\ MaxStream \in Nat /\ F \subseteq ChannelStreams
      /\ NoStream \notin ChannelStreams
  BY MaxStreamAssumption DEF Free, ChannelStreams, NoStream
<1>4. \A i \in 1 .. A : g(i) \in F
  <2> SUFFICES ASSUME NEW i \in 1 .. A PROVE g(i) \in F
    OBVIOUS
  <2>1. i \in 1 .. Cardinality(F)
    BY <1>2
  <2> HIDE DEF F
  <2> QED
    BY <1>3, <2>1, NthFacts
<1>5. \A i, j \in 1 .. A : g(i) = g(j) => i = j
  <2> SUFFICES ASSUME NEW i \in 1 .. A, NEW j \in 1 .. A, g(i) = g(j) PROVE i = j
    OBVIOUS
  <2>1. i \in 1 .. Cardinality(F) /\ j \in 1 .. Cardinality(F)
    BY <1>2
  <2> HIDE DEF F
  <2> QED
    BY <1>3, <2>1, NthDistinct
<1>6. DOMAIN Gets(p) = 1 .. A /\ \A i \in 1 .. A : Gets(p)[i] = g(i)
  BY DEF Gets
<1>7. \A i \in 1 .. A : Creator[a(i)] = p /\ end[Out(a(i))].created
  BY <1>1, <1>2 DEF ListInv, Listed
<1>8. \A i \in 1 .. A : Out(a(i)) \in Ends /\ E[Out(a(i))] = [end[Out(a(i))] EXCEPT !.stream = g(i)]
  <2> SUFFICES ASSUME NEW i \in 1 .. A
      PROVE  Out(a(i)) \in Ends /\ E[Out(a(i))] = [end[Out(a(i))] EXCEPT !.stream = g(i)]
    OBVIOUS
  <2>1. Out(a(i)) \in Ends /\ Out(a(i))[1] = a(i)
    BY <1>1, <1>2 DEF Ends, Out
  <2>2. (CHOOSE j \in DOMAIN Gets(p) : Out(a(i))[1] = Alive(p)[j]) = i
    BY <1>1, <1>2, <1>6, <2>1
  <2>3. \E j \in DOMAIN Gets(p) : Out(a(i)) = <<Alive(p)[j], "out">>
    BY <1>6 DEF Out
  <2>4. QED
    BY <1>6, <2>1, <2>2, <2>3 DEF EndsAssigned
<1>9. \A e \in Ends : E[e] = end[e] \/ \E i \in 1 .. A : e = Out(a(i))
  BY <1>6 DEF EndsAssigned, Out
<1>10. /\ mDataChannels' \in [Peers -> [ChannelStreams -> Ends \union {NoEnd}]]
       /\ \A q \in Peers \ {p} : mDataChannels'[q] = mDataChannels[q]
       /\ \A i \in 1 .. A : mDataChannels'[p][g(i)] = Out(a(i))
       /\ \A s \in ChannelStreams : mDataChannels'[p][s] = mDataChannels[p][s] \/ \E i \in 1 .. A : s = g(i)
  <2> DEFINE R == [s \in ChannelStreams |->
                IF \E i \in DOMAIN Gets(p) : Gets(p)[i] = s
                THEN <<Alive(p)[CHOOSE i \in DOMAIN Gets(p) : Gets(p)[i] = s], "out">>
                ELSE mDataChannels[p][s]]
  <2>1. mDataChannels \in [Peers -> [ChannelStreams -> Ends \union {NoEnd}]]
    BY DEF ChannelsTypeOK
  <2>2. mDataChannels' = [mDataChannels EXCEPT ![p] = R]
    BY DEF assignDataChannels
  <2>3. R \in [ChannelStreams -> Ends \union {NoEnd}]
    <3> SUFFICES ASSUME NEW s \in ChannelStreams PROVE R[s] \in Ends \union {NoEnd}
      OBVIOUS
    <3>1. CASE \E i \in DOMAIN Gets(p) : Gets(p)[i] = s
      <4>1. (CHOOSE i \in DOMAIN Gets(p) : Gets(p)[i] = s) \in 1 .. A
        BY <1>6, <3>1
      <4>2. QED
        BY <1>8, <3>1, <4>1 DEF Out
    <3>2. CASE ~ \E i \in DOMAIN Gets(p) : Gets(p)[i] = s
      BY <2>1, <3>2
    <3>3. QED
      BY <3>1, <3>2
  <2>4. \A i \in 1 .. A : R[g(i)] = Out(a(i))
    <3> SUFFICES ASSUME NEW i \in 1 .. A PROVE R[g(i)] = Out(a(i))
      OBVIOUS
    <3>1. (CHOOSE j \in DOMAIN Gets(p) : Gets(p)[j] = g(i)) = i
      BY <1>5, <1>6
    <3>2. g(i) \in ChannelStreams
      BY <1>3, <1>4
    <3>3. QED
      BY <1>6, <3>1, <3>2 DEF Out
  <2>5. \A s \in ChannelStreams : R[s] = mDataChannels[p][s] \/ \E i \in 1 .. A : s = g(i)
    BY <1>6
  <2> HIDE DEF R
  <2>6. QED
    BY <2>1, <2>2, <2>3, <2>4, <2>5
<1>11. \A i \in 1 .. A : Takes(p, Out(a(i)), g(i)) /\ g(i) \in ChannelStreams
  BY <1>1, <1>2, <1>3, <1>4, <1>7, <1>8 DEF Takes, Out
<1>12. E \in [Ends -> End]
  <2> SUFFICES ASSUME NEW e \in Ends PROVE E[e] \in End
    BY DEF EndsAssigned
  <2>1. end[e] \in End
    BY DEF ChannelsTypeOK
  <2>2. CASE E[e] = end[e]
    BY <2>1, <2>2
  <2>3. ASSUME NEW i \in 1 .. A, e = Out(a(i)) PROVE E[e] \in End
    BY <1>3, <1>4, <1>8, <2>1, <2>3 DEF End
  <2>4. QED
    BY <1>9, <2>2, <2>3
<1>13. /\ mUnassignedDataChannels' \in [Peers -> Seq(Chans)]
       /\ \A q \in Peers \ {p} : mUnassignedDataChannels'[q] = mUnassignedDataChannels[q]
       /\ mUnassignedDataChannels'[p] = IF AssignThrows(p) THEN Listed(p) ELSE <<>>
  BY DEF assignDataChannels, ChannelsTypeOK, Listed
<1>14. ASSUME AssignThrows(p)
       PROVE  \E i \in DOMAIN Listed(p) : /\ ~end[Out(Listed(p)[i])].destroyed
                                          /\ E[Out(Listed(p)[i])] = end[Out(Listed(p)[i])]
  <2>1. A + 1 \in 1 .. N /\ \A i \in 1 .. A : i # A + 1
    BY <1>1, <1>2, <1>14 DEF AssignThrows
  <2>2. PICK i \in DOMAIN Listed(p) : a(A + 1) = Listed(p)[i]
    BY <1>1, <2>1
  <2>3. Out(a(A + 1)) \in Ends /\ ~end[Out(a(A + 1))].destroyed
    BY <1>1, <2>1 DEF Ends, Out
  <2>4. \A k \in 1 .. A : a(k) # a(A + 1)
    BY <1>1, <1>2, <2>1
  <2>5. \A k \in 1 .. A : Out(a(k)) # Out(a(A + 1))
    BY <2>4 DEF Out
  <2>6. QED
    BY <1>9, <2>2, <2>3, <2>5
<1>15. ASSUME ~AssignThrows(p), NEW i \in DOMAIN Listed(p), ~end[Out(Listed(p)[i])].destroyed
       PROVE  E[Out(Listed(p)[i])].stream # NoStream
  <2>1. A = N
    BY <1>1, <1>2, <1>15 DEF AssignThrows
  <2>2. PICK n \in 1 .. A : a(n) = Listed(p)[i]
    BY <1>1, <1>15, <2>1
  <2>3. E[Out(a(n))].stream = g(n)
    <3>1. end[Out(a(n))] \in End
      BY <1>8 DEF ChannelsTypeOK
    <3>2. QED
      BY <1>8, <3>1 DEF End
  <2>4. QED
    BY <1>3, <1>4, <2>2, <2>3
<1>16. \A e \in Ends : E[e] = end[e] \/ \E s \in ChannelStreams : Takes(p, e, s) /\ mDataChannels'[p][s] = e
  BY <1>9, <1>10, <1>11
<1>17. \A s \in ChannelStreams : mDataChannels'[p][s] = mDataChannels[p][s] \/ Takes(p, mDataChannels'[p][s], s)
  BY <1>10, <1>11
<1>18. QED
  BY <1>10, <1>12, <1>13, <1>14, <1>15, <1>16, <1>17

-----------------------------------------------------------------------------
(* Ends, peers, and the messages of a stream.                                *)

(* The ends of the channels.                                                   *)
LEMMA EndFacts ==
    /\ NoEnd \notin Ends
    /\ \A e \in Ends : e[1] \in Chans /\ (e = Out(e[1]) \/ e = In(e[1])) /\ Peer(e) \in Peers
    /\ \A c \in Chans : /\ Out(c) \in Ends /\ Out(c)[1] = c /\ Out(c)[2] = "out"
                        /\ In(c) \in Ends /\ In(c)[1] = c /\ In(c)[2] = "in"
                        /\ Creator[c] \in Peers
                        /\ Peer(Out(c)) = Creator[c] /\ Peer(In(c)) = Other(Creator[c])
    /\ \A c, d \in Chans : Out(c) # In(d)
<1>1. \A e \in Ends : e[1] \in Chans /\ (e = <<e[1], "out">> \/ e = <<e[1], "in">>)
  BY DEF Ends
<1>2. \A c \in Chans : /\ Out(c) \in Ends /\ Out(c)[1] = c /\ Out(c)[2] = "out"
                       /\ In(c) \in Ends /\ In(c)[1] = c /\ In(c)[2] = "in"
  BY DEF Ends, Out, In
<1>3. \A c \in Chans : Creator[c] \in Peers
  BY CreatorAssumption
<1>4. \A c \in Chans : Peer(Out(c)) = Creator[c] /\ Peer(In(c)) = Other(Creator[c])
  BY DEF Peer, Out, In
<1>5. \A e \in Ends : Peer(e) \in Peers
  BY <1>1, <1>3 DEF Peer, Other, Peers
<1>6. QED
  BY <1>1, <1>2, <1>3, <1>4, <1>5, NoEndAssumption DEF Out, In

(* The two peers, and which streams they take.                               *)
LEMMA PeerFacts ==
    /\ \A p \in Peers : /\ Other(p) \in Peers /\ Other(p) # p /\ Other(Other(p)) = p
                        /\ Parity(p) # Parity(Other(p))
    /\ \A p, q \in Peers : (Parity(p) = Parity(q) => p = q) /\ (p # q => p = Other(q))
                           /\ (Other(p) = Other(q) => p = q)
    /\ NoStream \notin ChannelStreams
BY MaxStreamAssumption DEF Peers, Other, Parity, NoStream, ChannelStreams

(* A message on the wire.                                                    *)
Packet(t, c) == [type |-> t, chan |-> c]

(* A message more at the end of a sequence, and one less at its head.          *)
LEMMA AppendFacts ==
    ASSUME NEW S, NEW f \in Seq(S), NEW x \in S
    PROVE  /\ Append(f, x) \in Seq(S) /\ Len(f) \in Nat /\ DOMAIN f = 1 .. Len(f)
           /\ Len(Append(f, x)) = Len(f) + 1 /\ DOMAIN Append(f, x) = 1 .. Len(f) + 1
           /\ \A i \in 1 .. Len(f) : Append(f, x)[i] = f[i]
           /\ Append(f, x)[Len(f) + 1] = x
OBVIOUS

(* The rest of a sequence that is not empty.                                 *)
LEMMA TailFacts ==
    ASSUME NEW S, NEW f \in Seq(S), f # <<>>
    PROVE  /\ Tail(f) \in Seq(S) /\ Len(f) \in Nat /\ Len(f) >= 1 /\ Len(Tail(f)) = Len(f) - 1
           /\ DOMAIN f = 1 .. Len(f) /\ DOMAIN Tail(f) = 1 .. Len(f) - 1
           /\ \A i \in 1 .. Len(f) - 1 : Tail(f)[i] = f[i + 1]
           /\ Head(f) = f[1] /\ Head(f) \in S
           /\ \A i \in 1 .. Len(f) : f[i] \in S
OBVIOUS

(* What a run of a channel's messages becomes when a message is appended, ...  *)
LEMMA RunAppend ==
    ASSUME NEW f \in Seq(WireMessage), NEW m \in WireMessage, NEW c, NEW a \in Nat, a >= 1
    PROVE  /\ \A b \in 0 .. Len(f), z \in BOOLEAN : Run(f, a, b, c, z) => Run(Append(f, m), a, b, c, z)
           /\ Run(f, a, Len(f), c, FALSE) /\ m.type \in {"DATA", "ACK"} /\ m.chan = c
              => Run(Append(f, m), a, Len(f) + 1, c, FALSE)
           /\ Run(f, a, Len(f), c, FALSE) /\ m.type = "RESET" /\ a <= Len(f) + 1
              => Run(Append(f, m), a, Len(f) + 1, c, TRUE)
<1>1. /\ Len(f) \in Nat
      /\ \A i \in 1 .. Len(f) : Append(f, m)[i] = f[i]
      /\ Append(f, m)[Len(f) + 1] = m
  BY AppendFacts
<1> DEFINE g == Append(f, m)
<1> HIDE DEF g
<1>2. ASSUME NEW b \in 0 .. Len(f), NEW z \in BOOLEAN, Run(f, a, b, c, z) PROVE Run(g, a, b, c, z)
  <2>1. \A i \in a .. b : g[i] = f[i]
    BY <1>1 DEF g
  <2>2. z => b >= a /\ g[b] = f[b]
    BY <1>2, <2>1 DEF Run
  <2>3. QED
    BY <1>2, <2>1, <2>2 DEF Run
<1>3. ASSUME Run(f, a, Len(f), c, FALSE), m.type \in {"DATA", "ACK"}, m.chan = c
      PROVE  Run(g, a, Len(f) + 1, c, FALSE)
  <2> SUFFICES ASSUME NEW i \in a .. Len(f) + 1 PROVE g[i].type \in {"DATA", "ACK"} /\ g[i].chan = c
    BY DEF Run
  <2>1. CASE i = Len(f) + 1
    BY <1>1, <1>3, <2>1 DEF g
  <2>2. CASE i # Len(f) + 1
    <3>1. i \in a .. Len(f) /\ g[i] = f[i]
      BY <1>1, <2>2 DEF g
    <3>2. QED
      BY <1>3, <3>1 DEF Run
  <2>3. QED
    BY <2>1, <2>2
<1>4. ASSUME Run(f, a, Len(f), c, FALSE), m.type = "RESET", a <= Len(f) + 1
      PROVE  Run(g, a, Len(f) + 1, c, TRUE)
  <2>1. Len(f) + 1 >= a /\ g[Len(f) + 1].type = "RESET"
    BY <1>1, <1>4 DEF g
  <2>2. ASSUME NEW i \in a .. Len(f) + 1, i # Len(f) + 1 PROVE g[i].type \in {"DATA", "ACK"} /\ g[i].chan = c
    <3>1. i \in a .. Len(f) /\ g[i] = f[i]
      BY <1>1, <2>2 DEF g
    <3>2. QED
      BY <1>4, <3>1 DEF Run
  <2>3. QED
    BY <2>1, <2>2 DEF Run
<1>5. QED
  BY <1>2, <1>3, <1>4 DEF g

(* The same for a run before the new message, and for one that it extends.   *)
LEMMA RunKept ==
    ASSUME NEW f \in Seq(WireMessage), NEW m \in WireMessage, NEW c, NEW a \in Nat, a >= 1,
           NEW b \in 0 .. Len(f), NEW z \in BOOLEAN, Run(f, a, b, c, z)
    PROVE  Run(Append(f, m), a, b, c, z)
BY RunAppend

(* A message more of the channel, or its reset, extends a run.               *)
LEMMA RunExtended ==
    ASSUME NEW f \in Seq(WireMessage), NEW m \in WireMessage, NEW c, NEW a \in Nat, a >= 1,
           NEW z \in BOOLEAN, ~z, Run(f, a, Len(f), c, z)
    PROVE  /\ m.type \in {"DATA", "ACK"} /\ m.chan = c => Run(Append(f, m), a, Len(f) + 1, c, z)
           /\ m.type = "RESET" /\ a <= Len(f) + 1 => Run(Append(f, m), a, Len(f) + 1, c, TRUE)
BY RunAppend

(* ... and when its head is taken.                                             *)
LEMMA RunTail ==
    ASSUME NEW f \in Seq(WireMessage), f # <<>>, NEW c, NEW b \in 0 .. Len(f), NEW z \in BOOLEAN
    PROVE  /\ \A a \in Nat : a >= 2 /\ Run(f, a, b, c, z) => Run(Tail(f), a - 1, b - 1, c, z)
           /\ Run(f, 1, b, c, z) /\ b >= 1 =>
                 \/ f[1].type = "RESET" /\ z /\ b = 1
                 \/ /\ f[1].type \in {"DATA", "ACK"} /\ f[1].chan = c
                    /\ Run(Tail(f), 1, b - 1, c, z)
<1>1. /\ Len(f) \in Nat /\ Len(f) >= 1
      /\ \A i \in 1 .. Len(f) - 1 : Tail(f)[i] = f[i + 1]
  BY TailFacts
<1> DEFINE g == Tail(f)
<1> HIDE DEF g
<1>2. \A a \in Nat, i \in Int : a >= 1 /\ i \in a .. b - 1 => g[i] = f[i + 1] /\ i + 1 \in a + 1 .. b /\ (i = b - 1 <=> i + 1 = b)
  BY <1>1 DEF g
<1>3. ASSUME NEW a \in Nat, a >= 1, Run(f, a + 1, b, c, z) PROVE Run(g, a, b - 1, c, z)
  <2>1. z => b - 1 >= a /\ g[b - 1].type = "RESET"
    <3> SUFFICES ASSUME z PROVE b - 1 >= a /\ g[b - 1].type = "RESET"
      OBVIOUS
    <3>1. b >= a + 1 /\ f[b].type = "RESET"
      BY <1>3 DEF Run
    <3>2. b - 1 >= a /\ b - 1 \in a .. b - 1 /\ b - 1 \in Int /\ (b - 1) + 1 = b
      BY <1>1, <3>1
    <3>3. QED
      BY <1>2, <1>3, <3>1, <3>2
  <2>2. ASSUME NEW i \in a .. b - 1 PROVE (z /\ i = b - 1) \/ (g[i].type \in {"DATA", "ACK"} /\ g[i].chan = c)
    <3>1. i \in Int /\ g[i] = f[i + 1] /\ i + 1 \in a + 1 .. b /\ (i = b - 1 <=> i + 1 = b)
      BY <1>2, <1>3
    <3>2. QED
      BY <1>3, <3>1 DEF Run
  <2>3. QED
    BY <2>1, <2>2 DEF Run
<1>4. ASSUME NEW a \in Nat, a >= 2, Run(f, a, b, c, z) PROVE Run(g, a - 1, b - 1, c, z)
  <2>1. a - 1 \in Nat /\ a - 1 >= 1 /\ (a - 1) + 1 = a
    BY <1>4
  <2>2. QED
    BY <1>3, <1>4, <2>1
<1>5. ASSUME Run(f, 1, b, c, z), b >= 1
      PROVE  \/ f[1].type = "RESET" /\ z /\ b = 1
             \/ /\ f[1].type \in {"DATA", "ACK"} /\ f[1].chan = c
                /\ Run(g, 1, b - 1, c, z)
  <2>1. 1 \in 1 .. b
    BY <1>5
  <2>2. (z /\ 1 = b) \/ (f[1].type \in {"DATA", "ACK"} /\ f[1].chan = c)
    BY <1>5, <2>1 DEF Run
  <2>3. z /\ 1 = b => f[1].type = "RESET"
    BY <1>5 DEF Run
  <2>4. ASSUME ~(z /\ 1 = b) PROVE Run(f, 2, b, c, z)
    <3>1. z => b >= 2 /\ f[b].type = "RESET"
      BY <1>5, <2>4 DEF Run
    <3>2. \A i \in 2 .. b : i \in 1 .. b
      OBVIOUS
    <3>3. QED
      BY <1>5, <3>1, <3>2 DEF Run
  <2>5. QED
    BY <1>3, <2>2, <2>3, <2>4
<1>6. QED
  BY <1>4, <1>5 DEF g

-----------------------------------------------------------------------------
(* How the steps of the peers change a stream.                               *)

(* What the streams depend on is the same for channel c in E and in F.       *)
SameFlags(E, F, c) ==
    /\ F[Out(c)].opening <=> E[Out(c)].opening
    /\ F[Out(c)].closed <=> E[Out(c)].closed
    /\ F[In(c)].created <=> E[In(c)].created
    /\ F[In(c)].closed <=> E[In(c)].closed

(* A stream only depends on the flags of its channels.                         *)
LEMMA StreamFrame ==
    ASSUME NEW f \in Seq(WireMessage), NEW b, NEW o \in Ends \union {NoEnd}, NEW d \in Ends \union {NoEnd},
           NEW E \in [Ends -> End], NEW F \in [Ends -> End],
           o # NoEnd => SameFlags(E, F, o[1]),
           d # NoEnd => SameFlags(E, F, d[1]),
           Stream(f, b, o, d, E)
    PROVE  Stream(f, b, o, d, F)
<1>1. Backward(b, o, E)
  BY DEF Stream
<1>2. PICK k \in 0 .. Len(f) : Forward(f, k, o, d, E)
  BY DEF Stream
<1>3. \A e \in Ends : E[e] \in End /\ F[e] \in End
  OBVIOUS
<1>4. \A x \in Chans : /\ E[Out(x)].closed \in BOOLEAN /\ F[Out(x)].closed \in BOOLEAN
                       /\ E[In(x)].closed \in BOOLEAN /\ F[In(x)].closed \in BOOLEAN
  BY <1>3, EndFacts DEF End
<1>5. (o # NoEnd => o[1] \in Chans) /\ (d # NoEnd => d[1] \in Chans)
  BY EndFacts
<1>6. /\ o # NoEnd => F[Out(o[1])].closed = E[Out(o[1])].closed /\ F[In(o[1])].closed = E[In(o[1])].closed
      /\ d # NoEnd => F[Out(d[1])].closed = E[Out(d[1])].closed /\ F[In(d[1])].closed = E[In(d[1])].closed
  BY <1>4, <1>5 DEF SameFlags
<1>7. Backward(b, o, F)
  BY <1>1, <1>6 DEF Backward, SameFlags
<1>8. Forward(f, k, o, d, F)
  BY <1>2, <1>6 DEF Forward, Arrived, Owner, Pending, Announced, SameFlags
<1>9. QED
  BY <1>7, <1>8 DEF Stream

(* The parts of Stream that the lemmas below take it into.                     *)
LEMMA StreamParts ==
    ASSUME NEW f \in Seq(WireMessage), NEW b \in Seq(WireMessage),
           NEW o \in Ends \union {NoEnd}, NEW d \in Ends \union {NoEnd},
           NEW E \in [Ends -> End], Stream(f, b, o, d, E)
    PROVE  /\ Len(f) \in Nat /\ Len(b) \in Nat
           /\ (o # NoEnd => o[1] \in Chans) /\ (d # NoEnd => d[1] \in Chans)
           /\ \A x \in Chans : E[Out(x)].closed \in BOOLEAN /\ E[In(x)].closed \in BOOLEAN
           /\ Backward(b, o, E)
           /\ \E k \in 0 .. Len(f) : k \in Nat /\ k <= Len(f) /\ Forward(f, k, o, d, E)
<1>1. Len(f) \in Nat /\ Len(b) \in Nat
  OBVIOUS
<1>2. \A e \in Ends : E[e] \in End
  OBVIOUS
<1>3. \A x \in Chans : E[Out(x)].closed \in BOOLEAN /\ E[In(x)].closed \in BOOLEAN
  BY <1>2, EndFacts DEF End
<1>4. (o # NoEnd => o[1] \in Chans) /\ (d # NoEnd => d[1] \in Chans)
  BY EndFacts
<1>5. QED
  BY <1>1, <1>3, <1>4 DEF Stream

(* A channel gets an unused stream.                                            *)
LEMMA StreamAssigned ==
    ASSUME NEW f \in Seq(WireMessage), NEW b \in Seq(WireMessage), NEW d \in Ends \union {NoEnd},
           NEW E \in [Ends -> End], NEW c \in Chans,
           ~E[Out(c)].opening, ~E[In(c)].created, Stream(f, b, NoEnd, d, E)
    PROVE  Stream(f, b, Out(c), d, E)
<1>1. /\ (d # NoEnd => d[1] \in Chans)
      /\ Backward(b, NoEnd, E)
  BY StreamParts
<1>2. PICK k \in 0 .. Len(f) : Forward(f, k, NoEnd, d, E)
  BY StreamParts
<1>3. Out(c) # NoEnd /\ Out(c)[1] = c
  BY EndFacts
<1>4. Backward(b, Out(c), E)
  BY <1>1, <1>3 DEF Backward
<1>5. d # NoEnd => d[1] # c
  BY <1>2 DEF Forward, Arrived, Owner, Pending, Announced
<1>6. Forward(f, k, Out(c), d, E)
  <2>1. k = Len(f) /\ (d = NoEnd => k = 0)
    BY <1>2 DEF Forward, Arrived, Owner, Pending, Announced
  <2>2. d # NoEnd =>
        /\ d = In(d[1]) /\ E[d].created /\ E[Out(d[1])].opening
        /\ Run(f, 1, k, d[1], E[Out(d[1])].closed)
        /\ E[Out(d[1])].closed /\ E[d].closed
    <3>1. ASSUME d # NoEnd PROVE NoEnd # Out(d[1])
      BY <1>1, <3>1, EndFacts
    <3>2. QED
      BY <1>2, <3>1 DEF Forward, Arrived, Owner, Pending, Announced
  <2>3. QED
    BY <1>3, <2>1, <2>2 DEF Forward, Arrived, Owner, Pending, Announced
<1>7. QED
  BY <1>4, <1>6 DEF Stream

(* It is opened.                                                               *)
LEMMA StreamOpened ==
    ASSUME NEW f \in Seq(WireMessage), NEW b \in Seq(WireMessage), NEW d \in Ends \union {NoEnd},
           NEW E \in [Ends -> End], NEW F \in [Ends -> End], NEW c \in Chans,
           ~E[Out(c)].opening, ~E[Out(c)].closed, ~E[In(c)].created,
           F[Out(c)].opening, ~F[Out(c)].closed, ~F[In(c)].created,
           \A x \in Chans \ {c} : SameFlags(E, F, x),
           Stream(f, b, Out(c), d, E)
    PROVE  Stream(Append(f, Packet("OPEN", c)), b, Out(c), d, F)
<1> DEFINE m == Packet("OPEN", c)
           g == Append(f, m)
<1>1. /\ Len(f) \in Nat /\ (d # NoEnd => d[1] \in Chans)
      /\ \A x \in Chans : E[Out(x)].closed \in BOOLEAN
      /\ Backward(b, Out(c), E)
  <2>1. Out(c) \in Ends
    BY EndFacts
  <2>2. QED
    BY <2>1, StreamParts
<1>2. PICK k \in 0 .. Len(f) : Forward(f, k, Out(c), d, E)
  BY DEF Stream
<1>3. Out(c) # NoEnd /\ Out(c)[1] = c
  BY EndFacts
<1>4. m \in WireMessage /\ m.type = "OPEN" /\ m.chan = c
  BY DEF WireMessage, Packet
<1>5. Len(g) = Len(f) + 1 /\ g[Len(f) + 1] = m
  BY <1>4, AppendFacts
<1>6. Backward(b, Out(c), F)
  BY <1>1, <1>3 DEF Backward
<1>7. k = Len(f) /\ (d = NoEnd => k = 0) /\ (d # NoEnd => d[1] # c)
  BY <1>2, <1>3 DEF Forward, Arrived, Owner, Pending, Announced
<1>8. d # NoEnd =>
        /\ d = In(d[1]) /\ F[d].created /\ F[Out(d[1])].opening
        /\ Run(g, 1, k, d[1], F[Out(d[1])].closed)
        /\ F[Out(d[1])].closed /\ F[d].closed
  <2> SUFFICES ASSUME d # NoEnd
      PROVE  /\ d = In(d[1]) /\ F[d].created /\ F[Out(d[1])].opening
             /\ Run(g, 1, k, d[1], F[Out(d[1])].closed)
             /\ F[Out(d[1])].closed /\ F[d].closed
    OBVIOUS
  <2>1. Out(c) # Out(d[1]) /\ d[1] \in Chans
    BY <1>1, <1>7, EndFacts
  <2>2. /\ d = In(d[1]) /\ E[d].created /\ E[Out(d[1])].opening
        /\ Run(f, 1, k, d[1], E[Out(d[1])].closed)
        /\ E[Out(d[1])].closed /\ E[d].closed
    BY <1>2, <2>1 DEF Forward, Arrived, Owner, Pending, Announced
  <2>3. SameFlags(E, F, d[1])
    BY <1>7, <2>1
  <2>4. F[Out(d[1])].closed = E[Out(d[1])].closed
    <3>1. \A x \in Chans : F[Out(x)].closed \in BOOLEAN
      BY EndFacts DEF End
    <3>2. QED
      BY <1>1, <2>1, <2>2, <2>3, <3>1 DEF SameFlags
  <2>5. Run(g, 1, k, d[1], E[Out(d[1])].closed)
    <3> DEFINE z == E[Out(d[1])].closed
    <3>1. Run(f, 1, k, d[1], z) /\ z \in BOOLEAN
      BY <1>1, <2>1, <2>2
    <3> HIDE DEF m, z
    <3>2. Run(g, 1, k, d[1], z)
      BY <1>4, <3>1, RunKept
    <3>3. QED
      BY <3>2 DEF z
  <2>6. QED
    BY <2>2, <2>3, <2>4, <2>5 DEF SameFlags
<1>9. Run(g, k + 2, Len(g), c, F[Out(c)].closed)
  BY <1>1, <1>5, <1>7 DEF Run
<1>10. Forward(g, k, Out(c), d, F) /\ k \in 0 .. Len(g)
  <2> HIDE DEF g
  <2> QED
    BY <1>1, <1>3, <1>4, <1>5, <1>7, <1>8, <1>9 DEF Forward, Arrived, Owner, Pending, Announced
<1>11. QED
  BY <1>6, <1>10 DEF Stream

(* The messages of a channel whose flags stay the same, when another follows.  *)
LEMMA ArrivedKept ==
    ASSUME NEW f \in Seq(WireMessage), NEW m \in WireMessage, NEW k \in 0 .. Len(f),
           NEW o, NEW d \in Ends \union {NoEnd}, NEW E \in [Ends -> End], NEW F \in [Ends -> End],
           d # NoEnd => SameFlags(E, F, d[1]),
           Arrived(f, k, o, d, E)
    PROVE  Arrived(Append(f, m), k, o, d, F) /\ Arrived(f, k, o, d, F)
<1>1. CASE d = NoEnd
  BY <1>1 DEF Arrived
<1>2. CASE d # NoEnd
  <2> DEFINE z == E[Out(d[1])].closed
  <2>1. d[1] \in Chans /\ Out(d[1]) \in Ends
    BY <1>2, EndFacts
  <2>2. z \in BOOLEAN /\ F[Out(d[1])].closed \in BOOLEAN
    BY <2>1 DEF End
  <2>3. F[Out(d[1])].closed = z
    BY <1>2, <2>2 DEF SameFlags
  <2>4. Run(f, 1, k, d[1], z)
    BY <1>2 DEF Arrived
  <2> HIDE DEF z
  <2>5. Run(Append(f, m), 1, k, d[1], z)
    BY <2>2, <2>4, RunKept
  <2>6. /\ d = In(d[1]) /\ E[d].created /\ E[Out(d[1])].opening
        /\ o # Out(d[1]) => E[Out(d[1])].closed /\ E[d].closed
    BY <1>2 DEF Arrived
  <2>7. QED
    BY <1>2, <2>3, <2>4, <2>5, <2>6 DEF Arrived, SameFlags
<1>3. QED
  BY <1>1, <1>2

(* The creator sends data on it, or closes it: the message follows the open    *)
(* message, or the others if the channel has arrived.                          *)
LEMMA StreamOutPuts ==
    ASSUME NEW f \in Seq(WireMessage), NEW b \in Seq(WireMessage), NEW d \in Ends \union {NoEnd},
           NEW E \in [Ends -> End], NEW F \in [Ends -> End], NEW c \in Chans, NEW m \in WireMessage,
           E[Out(c)].opening, ~E[Out(c)].closed,
           F[Out(c)].opening, F[In(c)].created <=> E[In(c)].created, F[In(c)].closed <=> E[In(c)].closed,
           \A x \in Chans \ {c} : SameFlags(E, F, x),
           \/ m.type = "DATA" /\ m.chan = c /\ ~F[Out(c)].closed
           \/ m.type = "RESET" /\ F[Out(c)].closed,
           Stream(f, b, Out(c), d, E)
    PROVE  Stream(Append(f, m), b, Out(c), d, F)
<1> DEFINE g == Append(f, m)
           o == Out(c)
           z == E[Out(c)].closed
           y == F[Out(c)].closed
<1>0. o \in Ends /\ In(c) \in Ends /\ o # NoEnd /\ o[1] = c
  BY EndFacts
<1>1. /\ Len(f) \in Nat /\ (d # NoEnd => d[1] \in Chans)
      /\ \A x \in Chans : E[Out(x)].closed \in BOOLEAN /\ E[In(x)].closed \in BOOLEAN
      /\ Backward(b, o, E)
  BY <1>0, StreamParts
<1>2. PICK k \in 0 .. Len(f) : Arrived(f, k, o, d, E) /\ Owner(o, d, E) /\ Pending(f, k, o, E)
  BY DEF Stream, Forward
<1>3. z \in BOOLEAN /\ ~z /\ y \in BOOLEAN /\ E[In(c)].closed \in BOOLEAN /\ F[In(c)].closed \in BOOLEAN
  BY <1>0 DEF End
<1>4. F[In(c)].closed = E[In(c)].closed
  BY <1>3
<1>5. Backward(b, o, F)
  BY <1>0, <1>1, <1>4 DEF Backward
<1>6. Len(g) = Len(f) + 1 /\ \A i \in 1 .. Len(f) : g[i] = f[i]
  BY AppendFacts
<1>7. Announced(o, F) <=> Announced(o, E)
  BY <1>0 DEF Announced
<1>8. ASSUME NEW a \in Nat, a >= 1, a <= Len(f) + 1, Run(f, a, Len(f), c, z)
      PROVE  Run(g, a, Len(g), c, y)
  <2>1. /\ m.type = "DATA" /\ m.chan = c => Run(g, a, Len(g), c, z)
        /\ m.type = "RESET" => Run(g, a, Len(g), c, TRUE)
    <3> HIDE DEF z
    <3> QED
      BY <1>3, <1>6, <1>8, RunExtended
  <2>2. CASE m.type = "DATA" /\ m.chan = c /\ ~y
    <3>1. y = z
      BY <1>3, <2>2
    <3>2. QED
      BY <2>1, <2>2, <3>1
  <2>3. CASE m.type = "RESET" /\ y
    <3>1. y = TRUE
      BY <1>3, <2>3
    <3>2. QED
      BY <2>1, <2>3, <3>1
  <2>4. QED
    BY <2>2, <2>3
<1>9. Owner(o, d, F)
  <2>1. E[In(c)].created => d = In(c)
    BY <1>0, <1>2 DEF Owner
  <2>2. QED
    BY <1>0, <1>2, <2>1 DEF Owner
<1>10. CASE Announced(o, E)
  <2>1. k < Len(f) /\ f[k + 1].type = "OPEN" /\ f[k + 1].chan = c /\ Run(f, k + 2, Len(f), c, z)
    BY <1>0, <1>2, <1>10 DEF Pending
  <2>2. d # NoEnd => d[1] # c
    BY <1>0, <1>2, <1>10 DEF Arrived, Announced
  <2>3. d # NoEnd => SameFlags(E, F, d[1])
    BY <1>1, <2>2
  <2>4. Arrived(g, k, o, d, F)
    BY <1>2, <2>3, ArrivedKept
  <2>5. k + 1 \in 1 .. Len(f) /\ k + 2 \in Nat /\ k + 2 >= 1 /\ k + 2 <= Len(f) + 1 /\ k \in 0 .. Len(g) /\ k < Len(g)
    BY <1>1, <1>6, <2>1
  <2>6. Run(g, k + 2, Len(g), c, y)
    BY <1>8, <2>1, <2>5
  <2>7. g[k + 1].type = "OPEN" /\ g[k + 1].chan = c
    BY <1>6, <2>1, <2>5
  <2>8. Pending(g, k, o, F)
    BY <1>0, <1>7, <1>10, <2>5, <2>6, <2>7 DEF Pending
  <2>9. QED
    BY <1>5, <1>9, <2>4, <2>5, <2>8 DEF Stream, Forward
<1>11. CASE ~Announced(o, E)
  <2>1. E[In(c)].created
    BY <1>0, <1>11 DEF Announced
  <2>2. d = In(c) /\ k = Len(f) /\ d # NoEnd /\ d[1] = c
    BY <1>0, <1>2, <1>11, <2>1, EndFacts DEF Owner, Pending
  <2>3. Run(f, 1, Len(f), c, z)
    BY <1>2, <2>2 DEF Arrived
  <2>4. Run(g, 1, Len(g), c, y)
    BY <1>1, <1>8, <2>3
  <2>5. Arrived(g, Len(g), o, d, F)
    BY <1>2, <2>1, <2>2, <2>4 DEF Arrived
  <2>6. Pending(g, Len(g), o, F) /\ Len(g) \in 0 .. Len(g)
    BY <1>1, <1>6, <1>7, <1>11 DEF Pending
  <2>7. QED
    BY <1>5, <1>9, <2>5, <2>6 DEF Stream, Forward
<1>12. QED
  BY <1>10, <1>11

(* It closes a channel that was not opened.                                    *)
LEMMA StreamOutDrops ==
    ASSUME NEW f \in Seq(WireMessage), NEW b \in Seq(WireMessage),
           NEW o \in Ends \union {NoEnd}, NEW d \in Ends \union {NoEnd},
           NEW E \in [Ends -> End], NEW F \in [Ends -> End], NEW c \in Chans,
           ~E[Out(c)].opening, ~E[In(c)].created, ~F[Out(c)].opening, ~F[In(c)].created,
           \A x \in Chans \ {c} : SameFlags(E, F, x),
           Stream(f, b, o, d, E)
    PROVE  Stream(f, b, o, d, F)
<1>1. (d # NoEnd => d[1] \in Chans) /\ (o # NoEnd => o[1] \in Chans) /\ Backward(b, o, E)
  BY StreamParts
<1>2. PICK k \in 0 .. Len(f) : Arrived(f, k, o, d, E) /\ Owner(o, d, E) /\ Pending(f, k, o, E)
  BY DEF Stream, Forward
<1>3. d # NoEnd => SameFlags(E, F, d[1])
  <2>1. d # NoEnd => d[1] # c
    BY <1>2 DEF Arrived
  <2>2. QED
    BY <1>1, <2>1
<1>4. CASE o # NoEnd /\ o[1] = c
  <2>1. o = Out(c) /\ ~Announced(o, E) /\ ~Announced(o, F)
    BY <1>2, <1>4 DEF Owner, Announced
  <2>2. Backward(b, o, F)
    BY <1>1, <1>4 DEF Backward
  <2>3. Arrived(f, k, o, d, F)
    <3>1. Packet("RESET", NoChan) \in WireMessage
      BY DEF WireMessage, Packet
    <3>2. QED
      BY <1>2, <1>3, <3>1, ArrivedKept
  <2>4. Owner(o, d, F) /\ Pending(f, k, o, F)
    BY <1>2, <1>4, <2>1 DEF Owner, Pending
  <2>5. QED
    BY <2>2, <2>3, <2>4 DEF Stream, Forward
<1>5. CASE ~(o # NoEnd /\ o[1] = c)
  <2>1. o # NoEnd => SameFlags(E, F, o[1])
    BY <1>1, <1>5
  <2>2. QED
    BY <1>3, <2>1, StreamFrame
<1>6. QED
  BY <1>4, <1>5

(* The other peer sends data on a channel, or closes it.                       *)
LEMMA StreamInPuts ==
    ASSUME NEW f \in Seq(WireMessage), NEW b \in Seq(WireMessage), NEW o \in Ends \union {NoEnd},
           NEW E \in [Ends -> End], NEW F \in [Ends -> End], NEW c \in Chans, NEW m \in WireMessage,
           ~E[In(c)].closed, F[In(c)].created <=> E[In(c)].created,
           F[Out(c)].opening <=> E[Out(c)].opening, F[Out(c)].closed <=> E[Out(c)].closed,
           \A x \in Chans \ {c} : SameFlags(E, F, x),
           \/ m.type = "DATA" /\ m.chan = c /\ ~F[In(c)].closed
           \/ m.type = "RESET" /\ F[In(c)].closed,
           Stream(f, b, o, In(c), E)
    PROVE  Stream(f, Append(b, m), o, In(c), F)
<1> DEFINE g == Append(b, m)
           d == In(c)
           z == E[In(c)].closed
           y == F[In(c)].closed
<1>0. d \in Ends /\ Out(c) \in Ends /\ d # NoEnd /\ d[1] = c /\ Out(c) # NoEnd /\ Out(c)[1] = c
  BY EndFacts
<1>1. Len(f) \in Nat /\ Len(b) \in Nat /\ Backward(b, o, E)
  BY <1>0, StreamParts
<1>2. PICK k \in 0 .. Len(f) : Arrived(f, k, o, d, E) /\ Owner(o, d, E) /\ Pending(f, k, o, E)
  BY DEF Stream, Forward
<1>3. z \in BOOLEAN /\ ~z /\ y \in BOOLEAN /\ E[Out(c)].closed = F[Out(c)].closed
  BY <1>0 DEF End
<1>4. o = Out(c) /\ o # NoEnd /\ o[1] = c /\ E[In(c)].created
  BY <1>0, <1>2 DEF Arrived
<1>5. Run(b, 1, Len(b), c, z)
  BY <1>1, <1>4 DEF Backward
<1>6. Run(g, 1, Len(g), c, y)
  <2>1. /\ m.type = "DATA" /\ m.chan = c => Run(g, 1, Len(b) + 1, c, z)
        /\ m.type = "RESET" => Run(g, 1, Len(b) + 1, c, TRUE)
    <3>1. 1 \in Nat /\ 1 >= 1 /\ 1 <= Len(b) + 1
      BY <1>1
    <3>2. z \in BOOLEAN /\ ~z
      BY <1>3
    <3> HIDE DEF z
    <3> QED
      BY <1>5, <3>1, <3>2, RunExtended
  <2>2. Len(g) = Len(b) + 1
    BY AppendFacts
  <2>3. CASE m.type = "DATA" /\ m.chan = c /\ ~y
    <3>1. y = z
      BY <1>3, <2>3
    <3>2. QED
      BY <2>1, <2>2, <2>3, <3>1
  <2>4. CASE m.type = "RESET" /\ y
    <3>1. y = TRUE
      BY <1>3, <2>4
    <3>2. QED
      BY <2>1, <2>2, <2>4, <3>1
  <2>5. QED
    BY <2>3, <2>4
<1>7. Backward(g, o, F)
  BY <1>4, <1>6 DEF Backward
<1>8. Arrived(f, k, o, d, F)
  BY <1>0, <1>2, <1>3, <1>4 DEF Arrived
<1>9. Owner(o, d, F) /\ Pending(f, k, o, F)
  BY <1>0, <1>2, <1>3, <1>4 DEF Owner, Pending, Announced
<1>10. QED
  BY <1>7, <1>8, <1>9 DEF Stream, Forward

(* What the other peer can find at the head of a stream: the open message of a *)
(* channel on an unused stream, and the channel's own messages on a used one.  *)
LEMMA ForwardHead ==
    ASSUME NEW f \in Seq(WireMessage), NEW b \in Seq(WireMessage),
           NEW o \in Ends \union {NoEnd}, NEW d \in Ends \union {NoEnd},
           NEW E \in [Ends -> End], NEW k \in 0 .. Len(f), f # <<>>,
           Forward(f, k, o, d, E)
    PROVE  \/ /\ d = NoEnd /\ k = 0 /\ Announced(o, E) /\ o = Out(o[1])
              /\ f[1].type = "OPEN" /\ f[1].chan = o[1]
           \/ /\ d # NoEnd /\ d = In(d[1]) /\ k = 1
              /\ f[1].type = "RESET" /\ E[Out(d[1])].closed /\ E[Out(d[1])].opening
           \/ /\ d # NoEnd /\ d = In(d[1]) /\ k >= 1
              /\ f[1].type \in {"DATA", "ACK"} /\ f[1].chan = d[1]
              /\ Run(Tail(f), 1, k - 1, d[1], E[Out(d[1])].closed)
<1>1. Len(f) \in Nat /\ Len(f) >= 1
  BY TailFacts
<1>2. Arrived(f, k, o, d, E) /\ Owner(o, d, E) /\ Pending(f, k, o, E)
  BY DEF Forward
<1>3. CASE d = NoEnd
  <2>1. k = 0 /\ k # Len(f) /\ k + 1 = 1
    BY <1>1, <1>2, <1>3 DEF Arrived
  <2>2. Announced(o, E) /\ f[1].type = "OPEN" /\ f[1].chan = o[1]
    BY <1>2, <2>1 DEF Pending
  <2>3. QED
    BY <1>2, <1>3, <2>1, <2>2 DEF Owner, Announced
<1>4. CASE d # NoEnd
  <2> DEFINE z == E[Out(d[1])].closed
  <2>1. d[1] \in Chans /\ Out(d[1]) \in Ends /\ Out(d[1])[1] = d[1] /\ Out(d[1]) # NoEnd
    BY <1>4, EndFacts
  <2>2. z \in BOOLEAN
    BY <2>1 DEF End
  <2>3. d = In(d[1]) /\ E[In(d[1])].created /\ E[Out(d[1])].opening /\ Run(f, 1, k, d[1], z)
    BY <1>2, <1>4 DEF Arrived
  <2>4. k >= 1
    <3> SUFFICES ASSUME k = 0 PROVE FALSE
      BY <1>1
    <3>1. ~z
      BY <1>1, <2>3 DEF Run
    <3>2. o = Out(d[1])
      BY <1>2, <1>4, <3>1 DEF Arrived
    <3>3. ~Announced(o, E)
      BY <2>1, <2>3, <3>2 DEF Announced
    <3>4. QED
      BY <1>1, <1>2, <3>3 DEF Pending
  <2>5. \/ f[1].type = "RESET" /\ z /\ k = 1
        \/ /\ f[1].type \in {"DATA", "ACK"} /\ f[1].chan = d[1]
           /\ Run(Tail(f), 1, k - 1, d[1], z)
    <3>1. Run(f, 1, k, d[1], z) /\ k >= 1 /\ z \in BOOLEAN
      BY <2>2, <2>3, <2>4
    <3> HIDE DEF z
    <3> QED
      BY <3>1, RunTail
  <2>6. QED
    BY <1>4, <2>3, <2>4, <2>5
<1>5. QED
  BY <1>3, <1>4

(* What follows it stays as it is.                                             *)
LEMMA PendingTail ==
    ASSUME NEW f \in Seq(WireMessage), NEW o \in Ends \union {NoEnd}, NEW E \in [Ends -> End],
           NEW k \in 1 .. Len(f), f # <<>>, Pending(f, k, o, E)
    PROVE  Pending(Tail(f), k - 1, o, E) /\ k - 1 \in 0 .. Len(Tail(f))
<1>1. /\ Len(f) \in Nat /\ Len(f) >= 1 /\ Len(Tail(f)) = Len(f) - 1
      /\ \A i \in 1 .. Len(f) - 1 : Tail(f)[i] = f[i + 1]
  BY TailFacts
<1>2. CASE Announced(o, E)
  <2> DEFINE z == E[o].closed
  <2>1. k < Len(f) /\ f[k + 1].type = "OPEN" /\ f[k + 1].chan = o[1] /\ Run(f, k + 2, Len(f), o[1], z)
    BY <1>2 DEF Pending
  <2>2. z \in BOOLEAN
    BY <1>2 DEF Announced, End
  <2>3. k \in 1 .. Len(f) - 1 /\ (k - 1) + 1 = k /\ k + 2 \in Nat /\ k + 2 >= 2 /\ (k + 2) - 1 = (k - 1) + 2
        /\ Len(f) \in 0 .. Len(f) /\ k - 1 < Len(Tail(f)) /\ k - 1 \in 0 .. Len(Tail(f))
    BY <1>1, <2>1
  <2>4. Run(Tail(f), (k + 2) - 1, Len(f) - 1, o[1], z)
    <3> HIDE DEF z
    <3> QED
      BY <2>1, <2>2, <2>3, RunTail
  <2>5. Tail(f)[(k - 1) + 1] = f[k + 1]
    BY <1>1, <2>3
  <2>6. Run(Tail(f), (k - 1) + 2, Len(Tail(f)), o[1], z)
    BY <1>1, <2>3, <2>4
  <2>7. QED
    BY <1>2, <2>1, <2>3, <2>5, <2>6 DEF Pending
<1>3. CASE ~Announced(o, E)
  <2>1. k = Len(f)
    BY <1>3 DEF Pending
  <2>2. k - 1 = Len(Tail(f)) /\ k - 1 \in 0 .. Len(Tail(f))
    BY <1>1, <2>1
  <2>3. QED
    BY <1>3, <2>2 DEF Pending
<1>4. QED
  BY <1>2, <1>3

(* The open message of a channel arrives, which is then acknowledged.          *)
LEMMA StreamArrives ==
    ASSUME NEW f \in Seq(WireMessage), NEW b \in Seq(WireMessage), NEW o \in Ends \union {NoEnd},
           NEW E \in [Ends -> End], NEW F \in [Ends -> End], NEW c \in Chans,
           f # <<>>, f[1].type = "OPEN", f[1].chan = c,
           F[In(c)].created, ~F[In(c)].closed,
           F[Out(c)].opening <=> E[Out(c)].opening, F[Out(c)].closed <=> E[Out(c)].closed,
           Stream(f, b, o, NoEnd, E)
    PROVE  Stream(Tail(f), Append(b, Packet("ACK", c)), o, In(c), F)
<1> DEFINE m == Packet("ACK", c)
           g == Append(b, m)
           d == In(c)
           z == E[Out(c)].closed
<1>0. d \in Ends /\ Out(c) \in Ends /\ d # NoEnd /\ d[1] = c /\ Out(c) # NoEnd /\ Out(c)[1] = c
  BY EndFacts
<1>1. Len(f) \in Nat /\ Len(b) \in Nat /\ Backward(b, o, E)
  BY StreamParts
<1>2. PICK k \in 0 .. Len(f) : Forward(f, k, o, NoEnd, E)
  BY DEF Stream
<1>3. k = 0 /\ Announced(o, E) /\ o = Out(c)
  BY <1>2, ForwardHead
<1>4. z \in BOOLEAN /\ F[Out(c)].closed = z
  BY <1>0 DEF End
<1>5. b = <<>>
  BY <1>1, <1>3 DEF Backward, Announced
<1>6. m \in WireMessage /\ m.type = "ACK" /\ m.chan = c
  BY DEF WireMessage, Packet
<1>7. Len(g) = 1 /\ g[1] = m
  BY <1>5, <1>6
<1>8. Run(g, 1, Len(g), c, F[In(c)].closed)
  <2> HIDE DEF g, m
  <2> QED
    BY <1>6, <1>7 DEF Run
<1>9. Backward(g, o, F)
  BY <1>0, <1>3, <1>8 DEF Backward
<1>10. /\ Len(f) >= 1 /\ Len(Tail(f)) = Len(f) - 1
       /\ Run(f, 2, Len(f), c, z)
  <2>1. Run(f, k + 2, Len(f), c, z)
    BY <1>0, <1>2, <1>3 DEF Forward, Pending
  <2>2. QED
    BY <1>3, <2>1, TailFacts
<1>11. Run(Tail(f), 1, Len(Tail(f)), c, z)
  <2>1. Len(f) \in 0 .. Len(f) /\ 2 \in Nat /\ 2 >= 2 /\ 2 - 1 = 1
    BY <1>1
  <2>2. Run(Tail(f), 2 - 1, Len(f) - 1, c, z)
    <3>1. z \in BOOLEAN
      BY <1>4
    <3>2. Run(f, 2, Len(f), c, z)
      BY <1>10
    <3> HIDE DEF z
    <3> QED
      BY <2>1, <3>1, <3>2, RunTail
  <2>3. QED
    BY <1>10, <2>1, <2>2
<1>12. E[Out(c)].opening
  BY <1>3 DEF Announced
<1>13. Arrived(Tail(f), Len(Tail(f)), o, d, F)
  BY <1>0, <1>3, <1>4, <1>11, <1>12 DEF Arrived
<1>14. Owner(o, d, F) /\ Pending(Tail(f), Len(Tail(f)), o, F) /\ Len(Tail(f)) \in 0 .. Len(Tail(f))
  BY <1>0, <1>1, <1>3, <1>10 DEF Owner, Pending, Announced
<1>15. QED
  BY <1>9, <1>13, <1>14 DEF Stream, Forward

(* Data or an acknowledgement arrives at the other peer.                       *)
LEMMA StreamTakes ==
    ASSUME NEW f \in Seq(WireMessage), NEW b \in Seq(WireMessage),
           NEW o \in Ends \union {NoEnd}, NEW d \in Ends \union {NoEnd},
           NEW E \in [Ends -> End], f # <<>>, f[1].type \in {"DATA", "ACK"},
           Stream(f, b, o, d, E)
    PROVE  Stream(Tail(f), b, o, d, E) /\ d # NoEnd /\ f[1].chan = d[1]
<1>1. Len(f) \in Nat /\ Backward(b, o, E)
  BY StreamParts
<1>2. PICK k \in 0 .. Len(f) : Forward(f, k, o, d, E)
  BY DEF Stream
<1>3. /\ d # NoEnd /\ d = In(d[1]) /\ k >= 1 /\ f[1].chan = d[1]
      /\ Run(Tail(f), 1, k - 1, d[1], E[Out(d[1])].closed)
  BY <1>2, ForwardHead
<1>4. Arrived(Tail(f), k - 1, o, d, E) /\ Owner(o, d, E)
  BY <1>2, <1>3 DEF Forward, Arrived
<1>5. k \in 1 .. Len(f) /\ Pending(f, k, o, E)
  BY <1>1, <1>2, <1>3 DEF Forward
<1>6. Pending(Tail(f), k - 1, o, E) /\ k - 1 \in 0 .. Len(Tail(f))
  BY <1>5, PendingTail
<1>7. QED
  BY <1>1, <1>3, <1>4, <1>6 DEF Stream, Forward

(* A reset arrives at the other peer: the channel leaves its table there, and  *)
(* is closed; ...                                                              *)
LEMMA StreamResets ==
    ASSUME NEW f \in Seq(WireMessage), NEW b \in Seq(WireMessage),
           NEW o \in Ends \union {NoEnd}, NEW c \in Chans,
           NEW E \in [Ends -> End], NEW F \in [Ends -> End], f # <<>>, f[1].type = "RESET",
           F[In(c)].created <=> E[In(c)].created, F[In(c)].closed,
           F[Out(c)].opening <=> E[Out(c)].opening, F[Out(c)].closed <=> E[Out(c)].closed,
           \A x \in Chans \ {c} : SameFlags(E, F, x),
           Stream(f, b, o, In(c), E)
    PROVE  /\ E[Out(c)].closed /\ E[Out(c)].opening
           /\ E[In(c)].closed => Stream(Tail(f), b, o, NoEnd, F)
           /\ ~E[In(c)].closed => Stream(Tail(f), Append(b, Packet("RESET", NoChan)), o, NoEnd, F)
<1> DEFINE d == In(c)
           m == Packet("RESET", NoChan)
<1>0. d \in Ends /\ Out(c) \in Ends /\ d # NoEnd /\ d[1] = c /\ Out(c) # NoEnd /\ Out(c)[1] = c
  BY EndFacts
<1>1. Len(f) \in Nat /\ Len(b) \in Nat /\ Backward(b, o, E) /\ (o # NoEnd => o[1] \in Chans)
  BY <1>0, StreamParts
<1>2. PICK k \in 0 .. Len(f) : Forward(f, k, o, d, E)
  BY DEF Stream
<1>3. k = 1 /\ E[Out(c)].closed /\ E[Out(c)].opening
  BY <1>0, <1>2, ForwardHead
<1>4. Arrived(f, 1, o, d, E) /\ Owner(o, d, E) /\ Pending(f, 1, o, E)
  BY <1>2, <1>3 DEF Forward
<1>5. E[In(c)].created
  BY <1>0, <1>4 DEF Arrived
<1>6. Arrived(Tail(f), 0, o, NoEnd, F)
  BY DEF Arrived
<1>7. Pending(Tail(f), 0, o, E) /\ 0 \in 0 .. Len(Tail(f))
  <2>1. 1 \in 1 .. Len(f) /\ 1 - 1 = 0
    BY <1>1, TailFacts
  <2>2. Pending(Tail(f), 1 - 1, o, E) /\ 1 - 1 \in 0 .. Len(Tail(f))
    BY <1>4, <2>1, PendingTail
  <2>3. QED
    BY <2>1, <2>2
<1>8. o # NoEnd /\ o # Out(c) => SameFlags(E, F, o[1]) /\ ~E[In(o[1])].created
  <2> SUFFICES ASSUME o # NoEnd, o # Out(c) PROVE SameFlags(E, F, o[1]) /\ ~E[In(o[1])].created
    OBVIOUS
  <2>1. o = Out(o[1]) /\ o[1] # c
    BY <1>4 DEF Owner
  <2>2. In(o[1]) # d /\ d # NoEnd
    BY <1>0, <1>1, <2>1, EndFacts
  <2>3. QED
    BY <1>1, <1>4, <2>1, <2>2 DEF Owner
<1>9. Owner(o, NoEnd, F)
  <2>1. CASE o = Out(c)
    BY <1>0, <1>3, <1>4, <2>1 DEF Owner
  <2>2. CASE o # NoEnd /\ o # Out(c)
    BY <1>4, <1>8, <2>2 DEF Owner, SameFlags
  <2>3. QED
    BY <2>1, <2>2 DEF Owner
<1>10. Pending(Tail(f), 0, o, F)
  <2>1. CASE o = Out(c)
    <3>1. ~Announced(o, E) /\ ~Announced(o, F)
      BY <1>0, <1>5, <2>1 DEF Announced
    <3>2. QED
      BY <1>7, <3>1 DEF Pending
  <2>2. CASE o = NoEnd
    BY <1>7, <2>2 DEF Pending, Announced
  <2>3. CASE o # NoEnd /\ o # Out(c)
    <3>1. o = Out(o[1]) /\ o[1] \in Chans
      BY <1>1, <1>4, <2>3 DEF Owner
    <3>2. E[o].closed \in BOOLEAN /\ F[o].closed \in BOOLEAN
      BY <2>3 DEF End
    <3>3. E[o].closed = F[o].closed /\ (Announced(o, E) <=> Announced(o, F))
      BY <1>8, <2>3, <3>1, <3>2 DEF SameFlags, Announced
    <3>4. QED
      BY <1>7, <3>3 DEF Pending
  <2>4. QED
    BY <2>1, <2>2, <2>3
<1>11. ASSUME E[In(c)].closed PROVE Backward(b, o, F)
  <2>1. CASE o = Out(c)
    <3>1. E[In(c)].closed \in BOOLEAN /\ F[In(c)].closed \in BOOLEAN
      BY <1>0 DEF End
    <3>2. E[In(c)].closed = F[In(c)].closed
      BY <1>11, <3>1
    <3>3. QED
      BY <1>0, <1>1, <1>5, <2>1, <3>2 DEF Backward
  <2>2. CASE o = NoEnd
    BY <1>1, <2>2 DEF Backward
  <2>3. CASE o # NoEnd /\ o # Out(c)
    BY <1>1, <1>8, <2>3 DEF Backward, SameFlags
  <2>4. QED
    BY <2>1, <2>2, <2>3
<1>12. ASSUME ~E[In(c)].closed PROVE Backward(Append(b, m), o, F)
  <2> DEFINE z == E[In(c)].closed
  <2>1. o = Out(c)
    BY <1>0, <1>4, <1>12 DEF Arrived
  <2>2. Run(b, 1, Len(b), c, z) /\ z \in BOOLEAN /\ ~z /\ F[In(c)].closed = TRUE
    BY <1>0, <1>1, <1>5, <1>12, <2>1 DEF Backward, End
  <2>3. m \in WireMessage /\ m.type = "RESET"
    BY DEF WireMessage, Packet
  <2>4. Len(Append(b, m)) = Len(b) + 1
    BY <2>3, AppendFacts
  <2>5. Run(Append(b, m), 1, Len(b) + 1, c, TRUE)
    <3>1. 1 \in Nat /\ 1 >= 1 /\ 1 <= Len(b) + 1
      BY <1>1
    <3> HIDE DEF z, m
    <3> QED
      BY <2>2, <2>3, <3>1, RunExtended
  <2>6. QED
    BY <1>0, <1>5, <2>1, <2>2, <2>4, <2>5 DEF Backward
<1>13. QED
  BY <1>3, <1>6, <1>7, <1>9, <1>10, <1>11, <1>12 DEF Stream, Forward

(* What the creator can find at the head of a stream: messages of its channel. *)
LEMMA StreamTakesBack ==
    ASSUME NEW f \in Seq(WireMessage), NEW b \in Seq(WireMessage),
           NEW o \in Ends \union {NoEnd}, NEW d \in Ends \union {NoEnd},
           NEW E \in [Ends -> End], b # <<>>, Stream(f, b, o, d, E)
    PROVE  /\ o # NoEnd /\ o = Out(o[1]) /\ E[In(o[1])].created
           /\ \/ b[1].type = "RESET" /\ E[In(o[1])].closed /\ Tail(b) = <<>>
              \/ b[1].type \in {"DATA", "ACK"} /\ b[1].chan = o[1] /\ Stream(f, Tail(b), o, d, E)
<1>1. Len(b) \in Nat /\ Backward(b, o, E) /\ (o # NoEnd => o[1] \in Chans)
  BY StreamParts
<1>2. /\ o # NoEnd /\ E[In(o[1])].created
      /\ Run(b, 1, Len(b), o[1], E[In(o[1])].closed)
  BY <1>1 DEF Backward
<1>3. o = Out(o[1])
  BY <1>2 DEF Stream, Forward, Owner
<1>4. Len(b) >= 1 /\ Len(Tail(b)) = Len(b) - 1 /\ Len(b) \in 0 .. Len(b) /\ Tail(b) \in Seq(WireMessage)
  BY <1>1, TailFacts
<1> DEFINE z == E[In(o[1])].closed
<1>5. z \in BOOLEAN /\ Run(b, 1, Len(b), o[1], z)
  BY <1>1, <1>2, EndFacts DEF End
<1>6. \/ b[1].type = "RESET" /\ z /\ Len(b) = 1
      \/ /\ b[1].type \in {"DATA", "ACK"} /\ b[1].chan = o[1]
         /\ Run(Tail(b), 1, Len(b) - 1, o[1], z)
  <2> HIDE DEF z
  <2> QED
    BY <1>4, <1>5, RunTail
<1>7. CASE b[1].type = "RESET" /\ z /\ Len(b) = 1
  <2>1. Tail(b) = <<>>
    <3> DEFINE g == Tail(b)
    <3>1. g \in Seq(WireMessage) /\ Len(g) = 0
      BY <1>4, <1>7
    <3> HIDE DEF g
    <3>2. g = <<>>
      BY <3>1, EmptySeq
    <3>3. QED
      BY <3>2 DEF g
  <2>2. QED
    BY <1>2, <1>3, <1>7, <2>1
<1>8. CASE /\ b[1].type \in {"DATA", "ACK"} /\ b[1].chan = o[1]
           /\ Run(Tail(b), 1, Len(b) - 1, o[1], z)
  <2>1. Backward(Tail(b), o, E)
    BY <1>2, <1>4, <1>8 DEF Backward
  <2>2. QED
    BY <1>2, <1>3, <1>8, <2>1 DEF Stream
<1>9. QED
  BY <1>6, <1>7, <1>8

(* In particular data and acknowledgements.                                  *)
LEMMA StreamTakesOwn ==
    ASSUME NEW f \in Seq(WireMessage), NEW b \in Seq(WireMessage),
           NEW o \in Ends \union {NoEnd}, NEW d \in Ends \union {NoEnd},
           NEW E \in [Ends -> End], b # <<>>, b[1].type \in {"DATA", "ACK"}, Stream(f, b, o, d, E)
    PROVE  b[1].chan = o[1] /\ Stream(f, Tail(b), o, d, E)
<1>1. b[1].type # "RESET"
  OBVIOUS
<1>2. QED
  BY <1>1, StreamTakesBack

(* ... and a reset that comes back frees the stream for another channel.       *)
LEMMA StreamResetsBack ==
    ASSUME NEW f \in Seq(WireMessage), NEW d \in Ends \union {NoEnd}, NEW b \in Seq(WireMessage), NEW c \in Chans,
           NEW E \in [Ends -> End], NEW F \in [Ends -> End],
           E[In(c)].created, E[In(c)].closed, E[Out(c)].opening,
           F[In(c)].created, F[In(c)].closed, F[Out(c)].opening, F[Out(c)].closed,
           \A x \in Chans \ {c} : SameFlags(E, F, x),
           Stream(f, b, Out(c), d, E)
    PROVE  /\ E[Out(c)].closed => Stream(f, <<>>, NoEnd, d, F)
           /\ ~E[Out(c)].closed => Stream(Append(f, Packet("RESET", NoChan)), <<>>, NoEnd, d, F)
<1> DEFINE o == Out(c)
           m == Packet("RESET", NoChan)
           z == E[Out(c)].closed
<1>0. /\ In(c) \in Ends /\ Out(c) \in Ends /\ In(c) # NoEnd /\ In(c)[1] = c /\ Out(c) # NoEnd /\ Out(c)[1] = c
      /\ d # NoEnd => d[1] \in Chans
  BY EndFacts
<1>1. Len(f) \in Nat
  OBVIOUS
<1>2. PICK k \in 0 .. Len(f) : Arrived(f, k, o, d, E) /\ Owner(o, d, E) /\ Pending(f, k, o, E)
  BY DEF Stream, Forward
<1>3. k = Len(f) /\ (d = In(c) \/ d = NoEnd)
  BY <1>0, <1>2 DEF Pending, Announced, Owner
<1>4. Backward(<<>>, NoEnd, F)
  BY DEF Backward
<1>5. Owner(NoEnd, d, F)
  BY DEF Owner
<1>6. z \in BOOLEAN /\ F[Out(c)].closed = TRUE
  BY <1>0 DEF End
<1>7. ASSUME z PROVE Stream(f, <<>>, NoEnd, d, F)
  <2>1. Arrived(f, k, NoEnd, d, F)
    <3>1. CASE d = NoEnd
      BY <1>2, <3>1 DEF Arrived
    <3>2. CASE d = In(c)
      <4>1. z = TRUE
        BY <1>6, <1>7
      <4>2. Run(f, 1, k, c, F[Out(c)].closed)
        BY <1>0, <1>2, <1>6, <3>2, <4>1 DEF Arrived
      <4>3. QED
        BY <1>0, <3>2, <4>2 DEF Arrived
    <3>3. QED
      BY <1>3, <3>1, <3>2
  <2>2. Pending(f, k, NoEnd, F)
    BY <1>3 DEF Pending, Announced
  <2>3. QED
    BY <1>4, <1>5, <2>1, <2>2 DEF Stream, Forward
<1>8. ASSUME ~z PROVE Stream(Append(f, m), <<>>, NoEnd, d, F)
  <2>1. d = In(c)
    BY <1>0, <1>2, <1>3, <1>8 DEF Owner
  <2>2. Run(f, 1, Len(f), c, z)
    BY <1>0, <1>2, <1>3, <2>1 DEF Arrived
  <2>3. m \in WireMessage /\ m.type = "RESET"
    BY DEF WireMessage, Packet
  <2>4. Len(Append(f, m)) = Len(f) + 1
    BY <2>3, AppendFacts
  <2>5. Run(Append(f, m), 1, Len(f) + 1, c, TRUE)
    <3>1. 1 \in Nat /\ 1 >= 1 /\ 1 <= Len(f) + 1
      BY <1>1
    <3>2. z \in BOOLEAN
      BY <1>6
    <3> HIDE DEF z, m
    <3> QED
      BY <1>8, <2>2, <2>3, <3>1, <3>2, RunExtended
  <2>6. Arrived(Append(f, m), Len(f) + 1, NoEnd, d, F)
    BY <1>0, <1>6, <2>1, <2>5 DEF Arrived
  <2>7. Pending(Append(f, m), Len(f) + 1, NoEnd, F) /\ Len(f) + 1 \in 0 .. Len(Append(f, m))
    BY <1>1, <2>4 DEF Pending, Announced
  <2>8. QED
    BY <1>4, <1>5, <2>6, <2>7 DEF Stream, Forward
<1>9. QED
  BY <1>7, <1>8

-----------------------------------------------------------------------------
(* The steps that neither assign streams nor send.                           *)

(* The type of the variable wire.                                            *)
WireType == [Peers -> [ChannelStreams -> Seq(WireMessage)]]

(* A message put on a stream comes last there and changes no other stream.   *)
LEMMA PutFacts ==
    ASSUME NEW w \in WireType, NEW p \in Peers, NEW s \in ChannelStreams, NEW t, NEW c,
           Packet(t, c) \in WireMessage
    PROVE  /\ Put(w, p, s, t, c) \in WireType
           /\ Put(w, p, s, t, c)[Other(p)][s] = Append(w[Other(p)][s], Packet(t, c))
           /\ \A q \in Peers, r \in ChannelStreams :
                 q # Other(p) \/ r # s => Put(w, p, s, t, c)[q][r] = w[q][r]
<1>1. Other(p) \in Peers
  BY PeerFacts
<1>2. Append(w[Other(p)][s], Packet(t, c)) \in Seq(WireMessage)
  BY <1>1, AppendFacts DEF WireType
<1>3. Put(w, p, s, t, c) = [w EXCEPT ![Other(p)][s] = Append(@, Packet(t, c))]
  BY DEF Put, Packet
<1> HIDE DEF Packet
<1>4. QED
  BY <1>1, <1>2, <1>3 DEF WireType

(* The types of the fields of an end, and of the entries of the tables.      *)
LEMMA FieldFacts ==
    ASSUME ChannelsTypeOK
    PROVE  /\ \A e \in Ends : /\ end[e] \in End /\ end[e].created \in BOOLEAN /\ end[e].destroyed \in BOOLEAN
                              /\ end[e].opening \in BOOLEAN /\ end[e].open \in BOOLEAN
                              /\ end[e].closed \in BOOLEAN /\ end[e].transport \in BOOLEAN
                              /\ end[e].stream \in ChannelStreams \union {NoStream}
           /\ wire \in WireType
           /\ \A p \in Peers, s \in ChannelStreams :
                 wire[p][s] \in Seq(WireMessage) /\ mDataChannels[p][s] \in Ends \union {NoEnd}
BY DEF ChannelsTypeOK, End, WireType

(* The invariant holds in the beginning.                                     *)
LEMMA InitInv == ChannelsInit => ChannelsIInv
<1> SUFFICES ASSUME ChannelsInit PROVE ChannelsIInv
  OBVIOUS
<1>1. NewEnd \in End
  BY DEF NewEnd, End
<1>2. ChannelsTypeOK
  <2>1. <<>> \in Seq(Chans) /\ <<>> \in Seq(WireMessage)
    OBVIOUS
  <2> HIDE DEF NewEnd
  <2>2. QED
    BY <1>1, <2>1 DEF ChannelsInit, ChannelsTypeOK
<1>3. /\ \A e \in Ends : /\ ~end[e].created /\ ~end[e].destroyed /\ ~end[e].closed /\ ~end[e].opening /\ ~end[e].transport
                         /\ end[e].stream = NoStream
      /\ \A p \in Peers, s \in ChannelStreams : mDataChannels[p][s] = NoEnd /\ wire[p][s] = <<>>
      /\ \A p \in Peers : /\ mUnassignedDataChannels[p] = <<>> /\ creating[p] = NoEnd /\ todo[p] = {}
                          /\ sctp[p] = "Connecting" /\ callback[p] = "idle" /\ job[p] = "none"
      /\ \A e \in Ends : closing[e] = "no" /\ sending[e] = "no" /\ received[e] = {}
  BY DEF ChannelsInit, NewEnd
<1>4. TableInv
  BY <1>3, EndFacts DEF TableInv
<1>5. ListInv
  BY <1>3 DEF ListInv
<1>6. WireInv
  BY <1>3 DEF WireInv
<1>7. JobInv
  BY <1>3, EndFacts DEF JobInv
<1>8. AppInv
  BY <1>3, EndFacts DEF AppInv
<1>9. Stream(<<>>, <<>>, NoEnd, NoEnd, end)
  <2>1. 0 \in 0 .. Len(<<>>) /\ Len(<<>>) = 0
    OBVIOUS
  <2>2. Forward(<<>>, 0, NoEnd, NoEnd, end) /\ Backward(<<>>, NoEnd, end)
    BY <2>1 DEF Forward, Backward, Arrived, Owner, Pending, Announced
  <2>3. QED
    BY <2>1, <2>2 DEF Stream
<1>10. StreamInv
  BY <1>3, <1>9, PeerFacts DEF StreamInv
<1>11. RaceInv
  BY <1>3, <1>10 DEF RaceInv, NoCrossTalk, ClosedOnlyByApp
<1>12. QED
  BY <1>2, <1>4, <1>5, <1>6, <1>7, <1>8, <1>11 DEF ChannelsIInv

(* What steps that leave the ends, the wire and the tables alone keep.         *)
LEMMA QuietKeeps ==
    ASSUME ChannelsIInv, UNCHANGED <<end, mDataChannels, wire, received, anomalies>>,
           appClosed \subseteq appClosed',
           \A e \in Ends : closing'[e] = "without" => closing[e] = "without" \/ ~end[e].transport
    PROVE  TableInv' /\ WireInv' /\ RaceInv'
<1>1. TableInv /\ WireInv /\ RaceInv
  BY DEF ChannelsIInv
<1>2. TableInv'
  BY <1>1 DEF TableInv
<1>3. WireInv'
  BY <1>1 DEF WireInv
<1>4. StreamInv => StreamInv'
  BY DEF StreamInv
<1>5. NoCrossTalk /\ NoRace => NoCrossTalk'
  BY DEF NoCrossTalk, NoRace
<1>6. ClosedOnlyByApp => ClosedOnlyByApp'
  BY DEF ClosedOnlyByApp
<1>7. NoRace' = NoRace
  BY DEF NoRace
<1>8. RaceInv'
  BY <1>1, <1>4, <1>5, <1>6, <1>7 DEF RaceInv
<1>9. QED
  BY <1>2, <1>3, <1>8

(* createDataChannel() returns before SCTP is connected.                     *)
LEMMA CreateReturnsInv ==
    ASSUME ChannelsIInv, NEW p \in Peers, CreateReturns(p)
    PROVE  ChannelsIInv'
<1>1. /\ UNCHANGED <<sctp, callback, job, todo, mUnassignedDataChannels, mDataChannels, end,
                     closing, sending, wire, received, appClosed, anomalies>>
      /\ creating' = [creating EXCEPT ![p] = NoEnd] /\ sctp[p] # "Connected"
  BY DEF CreateReturns, tables
<1>2. TableInv' /\ WireInv' /\ RaceInv'
  BY <1>1, QuietKeeps
<1>3. ChannelsTypeOK'
  BY <1>1 DEF ChannelsTypeOK, ChannelsIInv
<1>4. \A q \in Peers : creating'[q] = creating[q] \/ (q = p /\ creating'[q] = NoEnd)
  BY <1>1 DEF ChannelsTypeOK, ChannelsIInv
<1>5. ListInv'
  BY <1>1, <1>4 DEF ListInv, ChannelsIInv
<1>6. JobInv'
  <2>1. job[p] = "none"
    BY <1>1 DEF JobInv, ChannelsIInv
  <2>2. QED
    BY <1>1, <1>4, <2>1 DEF JobInv, ChannelsIInv
<1>7. AppInv'
  BY <1>1 DEF AppInv, ChannelsIInv
<1>8. QED
  BY <1>2, <1>3, <1>5, <1>6, <1>7 DEF ChannelsIInv

(* SCTP is connected.                                                        *)
LEMMA ConnectedInv ==
    ASSUME ChannelsIInv, NEW p \in Peers, Connected(p)
    PROVE  ChannelsIInv'
<1>1. /\ UNCHANGED <<job, todo, creating, mUnassignedDataChannels, mDataChannels, end,
                     closing, sending, wire, received, appClosed, anomalies>>
      /\ sctp' = [sctp EXCEPT ![p] = "Connected"] /\ callback' = [callback EXCEPT ![p] = "assign"]
      /\ sctp[p] = "Connecting"
  BY DEF Connected, tables
<1>2. TableInv' /\ WireInv' /\ RaceInv'
  BY <1>1, QuietKeeps
<1>3. ChannelsTypeOK'
  BY <1>1 DEF ChannelsTypeOK, ChannelsIInv
<1>4. ListInv' /\ AppInv'
  BY <1>1 DEF ListInv, AppInv, ChannelsIInv
<1>5. /\ sctp'[p] = "Connected" /\ callback'[p] = "assign" /\ callback[p] # "done"
      /\ \A q \in Peers \ {p} : sctp'[q] = sctp[q] /\ callback'[q] = callback[q]
  <2>1. sctp[p] # "Connected" /\ p \in Peers
    BY <1>1
  <2>2. callback[p] = "idle"
    BY <2>1 DEF JobInv, ChannelsIInv
  <2>3. QED
    BY <1>1, <2>2 DEF ChannelsTypeOK, ChannelsIInv
<1>6. JobInv'
  BY <1>1, <1>5 DEF JobInv, ChannelsIInv
<1>7. QED
  BY <1>2, <1>3, <1>4, <1>6 DEF ChannelsIInv

(* The job takes the channels that have a stream and are not closed.         *)
LEMMA JobBeginsInv ==
    ASSUME ChannelsIInv, NEW p \in Peers, JobBegins(p)
    PROVE  ChannelsIInv'
<1> DEFINE T == {e \in {mDataChannels[p][s] : s \in ChannelStreams} \ {NoEnd} : ~end[e].closed /\ ~end[e].destroyed}
<1>1. /\ UNCHANGED <<sctp, callback, creating, mUnassignedDataChannels, mDataChannels, end,
                     closing, sending, wire, received, appClosed, anomalies>>
      /\ job' = [job EXCEPT ![p] = "running"] /\ todo' = [todo EXCEPT ![p] = T] /\ job[p] = "queued"
  BY DEF JobBegins, tables
<1>2. TableInv' /\ WireInv' /\ RaceInv'
  BY <1>1, QuietKeeps
<1>3. T \subseteq Ends /\ \A e \in T : Peer(e) = p /\ end[e].stream # NoStream /\ ~end[e].destroyed
  <2> SUFFICES ASSUME NEW s \in ChannelStreams, mDataChannels[p][s] # NoEnd
               PROVE  mDataChannels[p][s] \in Ends /\ Peer(mDataChannels[p][s]) = p
                      /\ end[mDataChannels[p][s]].stream # NoStream
    OBVIOUS
  <2>1. mDataChannels[p][s] \in Ends
    BY FieldFacts DEF ChannelsIInv
  <2>2. QED
    BY <2>1, PeerFacts DEF TableInv, ChannelsIInv
<1> HIDE DEF T
<1>4. ChannelsTypeOK'
  BY <1>1, <1>3 DEF ChannelsTypeOK, ChannelsIInv
<1>5. /\ todo'[p] = T /\ job'[p] = "running" /\ job[p] # "none"
      /\ \A q \in Peers \ {p} : todo'[q] = todo[q] /\ job'[q] = job[q]
  BY <1>1 DEF ChannelsTypeOK, ChannelsIInv
<1>6. ListInv'
  BY <1>1, <1>3, <1>5 DEF ListInv, ChannelsIInv
<1>7. JobInv'
  BY <1>1, <1>5 DEF JobInv, ChannelsIInv
<1>8. AppInv'
  BY <1>1 DEF AppInv, ChannelsIInv
<1>9. QED
  BY <1>2, <1>4, <1>6, <1>7, <1>8 DEF ChannelsIInv

(* The job has opened them all.                                              *)
LEMMA JobEndsInv ==
    ASSUME ChannelsIInv, NEW p \in Peers, JobEnds(p)
    PROVE  ChannelsIInv'
<1>1. /\ UNCHANGED <<sctp, callback, todo, creating, mUnassignedDataChannels, mDataChannels, end,
                     closing, sending, wire, received, appClosed, anomalies>>
      /\ job' = [job EXCEPT ![p] = "done"] /\ job[p] = "running" /\ todo[p] = {}
  BY DEF JobEnds, tables
<1>2. TableInv' /\ WireInv' /\ RaceInv'
  BY <1>1, QuietKeeps
<1>3. ChannelsTypeOK'
  BY <1>1 DEF ChannelsTypeOK, ChannelsIInv
<1>4. ListInv' /\ AppInv'
  BY <1>1 DEF ListInv, AppInv, ChannelsIInv
<1>5. job'[p] = "done" /\ job[p] # "none" /\ \A q \in Peers \ {p} : job'[q] = job[q]
  BY <1>1 DEF ChannelsTypeOK, ChannelsIInv
<1>6. JobInv'
  BY <1>1, <1>5 DEF JobInv, ChannelsIInv
<1>7. QED
  BY <1>2, <1>3, <1>4, <1>6 DEF ChannelsIInv

(* close() reads the transport.                                              *)
LEMMA CloseBeginsInv ==
    ASSUME ChannelsIInv, NEW e \in Ends, CloseBegins(e)
    PROVE  ChannelsIInv'
<1> DEFINE v == IF end[e].transport THEN "with" ELSE "without"
<1>1. /\ UNCHANGED <<sctp, callback, job, todo, creating, mUnassignedDataChannels, mDataChannels, end,
                     sending, wire, received, anomalies>>
      /\ closing' = [closing EXCEPT ![e] = v]
      /\ appClosed' = appClosed \union {e[1]}
      /\ end[e].created
  BY DEF CloseBegins, Given, tables
<1>2. closing'[e] = v /\ \A f \in Ends \ {e} : closing'[f] = closing[f]
  BY <1>1 DEF ChannelsTypeOK, ChannelsIInv
<1>3. TableInv' /\ WireInv' /\ RaceInv'
  BY <1>1, <1>2, QuietKeeps
<1>4. ChannelsTypeOK'
  BY <1>1, EndFacts DEF ChannelsTypeOK, ChannelsIInv
<1>5. ListInv' /\ JobInv'
  BY <1>1 DEF ListInv, JobInv, ChannelsIInv
<1>6. AppInv'
  <2>1. \A f \in Ends : closing'[f] # "no" => f[1] \in appClosed'
    BY <1>1, <1>2 DEF AppInv, ChannelsIInv
  <2>2. \A f \in Ends : closing'[f] = "with" => end'[f].transport
    BY <1>1, <1>2 DEF AppInv, ChannelsIInv
  <2>3. ASSUME NEW c \in Chans PROVE closing'[In(c)] # "without"
    <3>1. CASE e = In(c)
      <4>1. end[In(c)].transport
        BY <1>1, <3>1 DEF TableInv, ChannelsIInv
      <4>2. QED
        BY <1>2, <3>1, <4>1
    <3>2. CASE e # In(c)
      BY <1>2, <3>2, EndFacts DEF AppInv, ChannelsIInv
    <3>3. QED
      BY <3>1, <3>2
  <2>4. QED
    BY <2>1, <2>2, <2>3 DEF AppInv
<1>7. QED
  BY <1>3, <1>4, <1>5, <1>6 DEF ChannelsIInv

(* send() tests its conditions.                                              *)
LEMMA SendBeginsInv ==
    ASSUME ChannelsIInv, NEW e \in Ends, SendBegins(e)
    PROVE  ChannelsIInv'
<1>1. /\ UNCHANGED <<sctp, callback, job, todo, creating, mUnassignedDataChannels, mDataChannels, end,
                     closing, wire, received, appClosed, anomalies>>
      /\ sending' = [sending EXCEPT ![e] = "checked"]
      /\ end[e].transport /\ end[e].stream # NoStream
  BY DEF SendBegins, tables
<1>2. TableInv' /\ WireInv' /\ RaceInv'
  BY <1>1, QuietKeeps
<1>3. ChannelsTypeOK'
  BY <1>1 DEF ChannelsTypeOK, ChannelsIInv
<1>4. AppInv' /\ JobInv'
  BY <1>1 DEF AppInv, JobInv, ChannelsIInv
<1>5. \A f \in Ends : f = e \/ sending'[f] = sending[f]
  BY <1>1 DEF ChannelsTypeOK, ChannelsIInv
<1>6. ListInv'
  BY <1>1, <1>5 DEF ListInv, ChannelsIInv
<1>7. QED
  BY <1>2, <1>3, <1>4, <1>6 DEF ChannelsIInv

(* createDataChannel() puts the channel in the list.                         *)
LEMMA CreateInv ==
    ASSUME ChannelsIInv, NEW c \in Chans, Create(c)
    PROVE  ChannelsIInv'
<1> DEFINE p == Creator[c]
           L == mUnassignedDataChannels[p]
<1>1. /\ UNCHANGED <<sctp, callback, job, todo, mDataChannels, closing, sending, wire, received,
                     appClosed, anomalies>>
      /\ end' = [end EXCEPT ![Out(c)].created = TRUE]
      /\ mUnassignedDataChannels' = [mUnassignedDataChannels EXCEPT ![p] = Append(@, c)]
      /\ creating' = [creating EXCEPT ![p] = <<c, "emplaced">>]
      /\ ~end[Out(c)].created /\ creating[p] = NoEnd
  BY DEF Create, Out
<1>2. p \in Peers /\ Out(c) \in Ends
  BY EndFacts
<1>3. L \in Seq(Chans)
  BY <1>2 DEF ChannelsTypeOK, ChannelsIInv
<1>4. /\ Append(L, c) \in Seq(Chans) /\ Len(L) \in Nat /\ DOMAIN L = 1 .. Len(L)
      /\ DOMAIN Append(L, c) = 1 .. Len(L) + 1
      /\ \A i \in 1 .. Len(L) : Append(L, c)[i] = L[i]
      /\ Append(L, c)[Len(L) + 1] = c
  BY <1>3, AppendFacts
<1>5. /\ mUnassignedDataChannels' \in [Peers -> Seq(Chans)]
      /\ mUnassignedDataChannels'[p] = Append(L, c)
      /\ \A q \in Peers \ {p} : mUnassignedDataChannels'[q] = mUnassignedDataChannels[q]
  BY <1>1, <1>2, <1>4 DEF ChannelsTypeOK, ChannelsIInv
<1>6. /\ creating' \in [Peers -> (Chans \X {"emplaced", "assigned"}) \union {NoEnd}]
      /\ creating'[p] = <<c, "emplaced">> /\ \A q \in Peers \ {p} : creating'[q] = creating[q]
  BY <1>1, <1>2 DEF ChannelsTypeOK, ChannelsIInv
<1>7. /\ end' \in [Ends -> End] /\ end'[Out(c)].created
      /\ \A e \in Ends : /\ end[e].created => end'[e].created
                         /\ e # Out(c) => end'[e] = end[e]
                         /\ end'[e].destroyed = end[e].destroyed /\ end'[e].opening = end[e].opening
                         /\ end'[e].closed = end[e].closed /\ end'[e].transport = end[e].transport
                         /\ end'[e].stream = end[e].stream
  <2>1. end \in [Ends -> End] /\ end[Out(c)] \in End
    BY <1>2 DEF ChannelsTypeOK, ChannelsIInv
  <2>2. end' = [end EXCEPT ![Out(c)] = [end[Out(c)] EXCEPT !.created = TRUE]]
    BY <1>1
  <2>3. [end[Out(c)] EXCEPT !.created = TRUE] \in End
    BY <2>1 DEF End
  <2>4. QED
    BY <1>2, <2>1, <2>2, <2>3 DEF End
<1>8. ChannelsTypeOK'
  BY <1>1, <1>5, <1>6, <1>7 DEF ChannelsTypeOK, ChannelsIInv
<1>9. end[Out(c)].stream = NoStream /\ ~end[Out(c)].opening /\ ~end[In(c)].created
  BY <1>1, <1>2 DEF TableInv, ChannelsIInv
<1>10. TableInv'
  <2>1. TableInv
    BY DEF ChannelsIInv
  <2>2. \A q \in Peers, s \in ChannelStreams : mDataChannels[q][s] \in Ends \union {NoEnd}
    BY FieldFacts DEF ChannelsIInv
  <2>3. \A x \in Chans : Out(x) \in Ends /\ In(x) \in Ends /\ In(x) # Out(c)
    BY EndFacts
  <2>4. QED
    BY <1>1, <1>7, <2>1, <2>2, <2>3 DEF TableInv
<1>11. \A q \in Peers : \A i \in DOMAIN mUnassignedDataChannels[q] : mUnassignedDataChannels[q][i] \in Chans
  BY DEF ChannelsTypeOK, ChannelsIInv
<1>12. \A i \in DOMAIN L : L[i] # c
  BY <1>1, <1>2 DEF ListInv, ChannelsIInv
<1>13. \A q \in Peers : creating[q] # NoEnd => creating[q][1] \in Chans
  BY DEF ChannelsTypeOK, ChannelsIInv
<1>15. ListInv'
  <2>0. ListInv /\ \A x \in Chans : Out(x) \in Ends
    BY EndFacts DEF ChannelsIInv
  <2>1. \A q \in Peers : \A i \in DOMAIN mUnassignedDataChannels'[q] :
          /\ Creator[mUnassignedDataChannels'[q][i]] = q
          /\ end'[Out(mUnassignedDataChannels'[q][i])].created
          /\ \A j \in DOMAIN mUnassignedDataChannels'[q] :
                mUnassignedDataChannels'[q][j] = mUnassignedDataChannels'[q][i] => j = i
    <3> SUFFICES ASSUME NEW q \in Peers, NEW i \in DOMAIN mUnassignedDataChannels'[q]
        PROVE  /\ Creator[mUnassignedDataChannels'[q][i]] = q
               /\ end'[Out(mUnassignedDataChannels'[q][i])].created
               /\ \A j \in DOMAIN mUnassignedDataChannels'[q] :
                     mUnassignedDataChannels'[q][j] = mUnassignedDataChannels'[q][i] => j = i
      OBVIOUS
    <3>1. CASE q # p
      BY <1>5, <1>7, <1>11, <2>0, <3>1 DEF ListInv
    <3>2. CASE q = p /\ i = Len(L) + 1
      <4>1. mUnassignedDataChannels'[q][i] = c
        BY <1>4, <1>5, <3>2
      <4>2. \A j \in 1 .. Len(L) + 1 : j # Len(L) + 1 => j \in DOMAIN L /\ Append(L, c)[j] # c
        BY <1>4, <1>12
      <4>3. QED
        BY <1>4, <1>5, <1>7, <3>2, <4>1, <4>2
    <3>3. CASE q = p /\ i \in 1 .. Len(L)
      <4>1. mUnassignedDataChannels'[q][i] = L[i] /\ L[i] \in Chans /\ L[i] # c /\ i \in DOMAIN L
        BY <1>2, <1>4, <1>5, <1>11, <1>12, <3>3
      <4>2. Creator[L[i]] = q /\ end[Out(L[i])].created /\ \A j \in DOMAIN L : L[j] = L[i] => j = i
        BY <1>2, <2>0, <3>3, <4>1 DEF ListInv
      <4>3. \A j \in 1 .. Len(L) + 1 : j \in DOMAIN L \/ j = Len(L) + 1
        BY <1>4
      <4>4. \A j \in 1 .. Len(L) + 1 : Append(L, c)[j] = L[i] => j = i
        BY <1>4, <4>1, <4>2, <4>3
      <4>5. \A j \in DOMAIN mUnassignedDataChannels'[q] : mUnassignedDataChannels'[q][j] = L[i] => j = i
        BY <1>4, <1>5, <3>3, <4>4
      <4>6. end'[Out(L[i])].created
        BY <1>7, <2>0, <4>1, <4>2
      <4>7. QED
        BY <4>1, <4>2, <4>5, <4>6
    <3>4. QED
      BY <1>4, <1>5, <3>1, <3>2, <3>3
  <2>2. ASSUME NEW q \in Peers, creating'[q] # NoEnd
        PROVE  /\ Creator[creating'[q][1]] = q
               /\ end'[Out(creating'[q][1])].created /\ ~end'[Out(creating'[q][1])].destroyed
               /\ creating'[q][2] = "assigned" => end'[Out(creating'[q][1])].stream # NoStream
               /\ \/ end'[Out(creating'[q][1])].stream # NoStream
                  \/ \E i \in DOMAIN mUnassignedDataChannels'[q] : mUnassignedDataChannels'[q][i] = creating'[q][1]
    <3>1. CASE q # p
      BY <1>5, <1>6, <1>7, <1>13, <2>0, <2>2, <3>1 DEF ListInv
    <3>2. CASE q = p
      <4>1. creating'[q][1] = c /\ creating'[q][2] = "emplaced"
        BY <1>6, <3>2
      <4>2. ~end[Out(c)].destroyed
        BY <1>1, <1>2 DEF TableInv, ChannelsIInv
      <4>3. Len(L) + 1 \in 1 .. Len(L) + 1
        BY <1>4
      <4>4. QED
        BY <1>2, <1>4, <1>5, <1>7, <3>2, <4>1, <4>2, <4>3
    <3>3. QED
      BY <3>1, <3>2
  <2>3. \A q \in Peers : \A e \in todo[q] : e \in Ends
    BY DEF ChannelsTypeOK, ChannelsIInv
  <2>4. /\ \A q \in Peers : \A e \in todo'[q] : Peer(e) = q /\ end'[e].stream # NoStream /\ ~end'[e].destroyed
        /\ \A e \in Ends : sending'[e] = "checked" => end'[e].stream # NoStream /\ end'[e].transport
    BY <1>1, <1>7, <2>0, <2>3 DEF ListInv
  <2>5. QED
    BY <2>1, <2>2, <2>4 DEF ListInv
<1>16. WireInv'
  BY <1>1, <1>7, EndFacts DEF WireInv, ChannelsIInv
<1>17. JobInv'
  <2>0. JobInv /\ \A x \in Chans : Out(x) \in Ends
    BY EndFacts DEF ChannelsIInv
  <2>1. ASSUME NEW q \in Peers, job[q] # "none", NEW i \in DOMAIN mUnassignedDataChannels'[q]
        PROVE  \/ end'[Out(mUnassignedDataChannels'[q][i])].destroyed
               \/ /\ end'[Out(mUnassignedDataChannels'[q][i])].stream = NoStream
                  /\ creating'[q] = <<mUnassignedDataChannels'[q][i], "emplaced">>
    <3>1. CASE q # p
      BY <1>5, <1>6, <1>7, <1>11, <2>0, <2>1, <3>1 DEF JobInv
    <3>2. CASE q = p /\ i = Len(L) + 1
      BY <1>2, <1>4, <1>5, <1>6, <1>7, <1>9, <3>2
    <3>3. CASE q = p /\ i \in 1 .. Len(L)
      <4>1. mUnassignedDataChannels'[q][i] = L[i] /\ L[i] \in Chans /\ i \in DOMAIN L
        BY <1>2, <1>4, <1>5, <1>11, <3>3
      <4>2. end[Out(L[i])].destroyed \/ creating[p] = <<L[i], "emplaced">>
        BY <1>2, <2>0, <2>1, <3>3, <4>1 DEF JobInv
      <4>3. creating[p] = NoEnd
        BY <1>1
      <4>4. CASE end[Out(L[i])].destroyed
        BY <1>7, <2>0, <4>1, <4>4
      <4>5. CASE creating[p] = <<L[i], "emplaced">>
        <5>1. NoEnd = <<L[i], "emplaced">>
          BY <4>3, <4>5
        <5>2. QED
          BY <4>1, <5>1, NoEndAssumption
      <4>6. QED
        BY <4>2, <4>4, <4>5
    <3>4. QED
      BY <1>4, <1>5, <3>1, <3>2, <3>3
  <2>2. ASSUME NEW q \in Peers, creating'[q] # NoEnd, end'[Out(creating'[q][1])].opening
        PROVE  job'[q] # "none"
    <3>1. CASE q # p
      BY <1>1, <1>6, <1>7, <1>13, <2>0, <2>2, <3>1 DEF JobInv
    <3>2. CASE q = p
      <4>1. creating'[q][1] = c
        BY <1>6, <3>2
      <4>2. QED
        BY <1>2, <1>7, <1>9, <2>2, <4>1
    <3>3. QED
      BY <3>1, <3>2
  <2>3. QED
    BY <1>1, <1>7, <2>0, <2>1, <2>2 DEF JobInv
<1>18. AppInv'
  BY <1>1, <1>7 DEF AppInv, ChannelsIInv
<1>19. RaceInv'
  <2>1. \A x \in Chans : SameFlags(end, end', x)
    BY <1>7, EndFacts DEF SameFlags
  <2>2. StreamInv => StreamInv'
    <3> SUFFICES ASSUME StreamInv, NEW q \in Peers, NEW s \in ChannelStreams, s % 2 = Parity(q)
        PROVE  Stream(wire[Other(q)][s], wire[q][s], mDataChannels[q][s], mDataChannels[Other(q)][s], end')
      BY <1>1 DEF StreamInv
    <3>1. Other(q) \in Peers
      BY PeerFacts
    <3>2. /\ wire[Other(q)][s] \in Seq(WireMessage) /\ mDataChannels[q][s] \in Ends \union {NoEnd}
          /\ mDataChannels[Other(q)][s] \in Ends \union {NoEnd} /\ end \in [Ends -> End]
      BY <3>1, FieldFacts DEF ChannelsIInv, ChannelsTypeOK
    <3>3. Stream(wire[Other(q)][s], wire[q][s], mDataChannels[q][s], mDataChannels[Other(q)][s], end)
      BY DEF StreamInv
    <3>4. \A e \in Ends : SameFlags(end, end', e[1])
      BY <2>1, EndFacts
    <3>5. QED
      BY <1>7, <3>2, <3>3, <3>4, StreamFrame
  <2>3. NoRace' = NoRace /\ (NoCrossTalk /\ NoRace => NoCrossTalk') /\ (ClosedOnlyByApp => ClosedOnlyByApp')
    BY <1>1, <1>7 DEF NoRace, NoCrossTalk, ClosedOnlyByApp
  <2>4. QED
    BY <1>1, <1>7, <2>2, <2>3 DEF RaceInv, ChannelsIInv
<1>20. QED
  BY <1>8, <1>10, <1>15, <1>16, <1>17, <1>18, <1>19 DEF ChannelsIInv

-----------------------------------------------------------------------------
(* The steps that assign streams.                                            *)

(* Streams are assigned and the end x, which was not opened, is dropped (none  *)
(* is if x is NoEnd).                                                          *)
AssignDrops(p, x) ==
    /\ assignDataChannels(p)
    /\ UNCHANGED <<todo, closing, sending, wire, received, appClosed>>
    /\ anomalies \subseteq anomalies'
    /\ end' \in [Ends -> End]
    /\ \A e \in Ends : e # x => end'[e] = EndsAssigned(p)[e]
    /\ x # NoEnd =>
          /\ end'[x] = [EndsAssigned(p)[x] EXCEPT !.destroyed = TRUE, !.closed = TRUE]
          /\ x = Out(x[1]) /\ end[x].created /\ ~end[x].opening
          /\ \A q \in Peers : x \notin todo[q]

(* What that keeps.                                                            *)
LEMMA AssignKeeps ==
    ASSUME ChannelsIInv, NEW p \in Peers, NEW x \in Ends \union {NoEnd}, AssignDrops(p, x)
    PROVE  /\ TableInv' /\ WireInv' /\ AppInv' /\ RaceInv'
           /\ \A e \in Ends : /\ end'[e].created = end[e].created
                              /\ end'[e].opening = end[e].opening
                              /\ e # x => end'[e].destroyed = end[e].destroyed
                              /\ end[e].stream # NoStream => end'[e].stream = end[e].stream
                              /\ end'[e].stream = EndsAssigned(p)[e].stream
                              /\ e = x => end'[e].destroyed
           /\ \A q \in Peers : \A e \in todo'[q] : Peer(e) = q /\ end'[e].stream # NoStream /\ ~end'[e].destroyed
           /\ \A e \in Ends : sending'[e] = "checked" => end'[e].stream # NoStream /\ end'[e].transport
           /\ \A c \in Chans : end'[Out(c)].opening => ~end'[Out(c)].destroyed
<1> DEFINE E == EndsAssigned(p)
<1> USE DEF AssignDrops
<1>0. ChannelsTypeOK /\ TableInv /\ ListInv /\ WireInv /\ JobInv /\ AppInv /\ RaceInv
  BY DEF ChannelsIInv
<1>1. /\ E \in [Ends -> End]
      /\ mDataChannels' \in [Peers -> [ChannelStreams -> Ends \union {NoEnd}]]
      /\ \A q \in Peers \ {p} : mDataChannels'[q] = mDataChannels[q]
      /\ \A e \in Ends : E[e] = end[e] \/ \E s \in ChannelStreams : Takes(p, e, s) /\ mDataChannels'[p][s] = e
      /\ \A s \in ChannelStreams :
            mDataChannels'[p][s] = mDataChannels[p][s] \/ Takes(p, mDataChannels'[p][s], s)
  BY <1>0, AssignFacts
<1>2. \A e \in Ends : end[e] \in End /\ E[e] \in End
  BY <1>0, <1>1 DEF ChannelsTypeOK
<1>3. \A e \in Ends, s \in ChannelStreams : Takes(p, e, s) =>
          /\ e = Out(e[1]) /\ Creator[e[1]] = p /\ Peer(e) = p
          /\ end[e].created /\ ~end[e].destroyed /\ end[e].stream = NoStream
          /\ s % 2 = Parity(p) /\ mDataChannels[p][s] = NoEnd
          /\ E[e].stream = s
          /\ E[e].created = end[e].created /\ E[e].destroyed = end[e].destroyed
          /\ E[e].opening = end[e].opening /\ E[e].closed = end[e].closed
          /\ E[e].transport = end[e].transport
  <2> SUFFICES ASSUME NEW e \in Ends, NEW s \in ChannelStreams, Takes(p, e, s)
      PROVE  /\ e = Out(e[1]) /\ Creator[e[1]] = p /\ Peer(e) = p
             /\ end[e].created /\ ~end[e].destroyed /\ end[e].stream = NoStream
             /\ s % 2 = Parity(p) /\ mDataChannels[p][s] = NoEnd
             /\ E[e].stream = s
             /\ E[e].created = end[e].created /\ E[e].destroyed = end[e].destroyed
             /\ E[e].opening = end[e].opening /\ E[e].closed = end[e].closed
             /\ E[e].transport = end[e].transport
    OBVIOUS
  <2>1. /\ e = Out(e[1]) /\ Creator[e[1]] = p
        /\ end[e].created /\ ~end[e].destroyed /\ end[e].stream = NoStream
        /\ s \in Free(p) /\ E[e] = [end[e] EXCEPT !.stream = s]
    BY DEF Takes
  <2>2. Peer(e) = p
    BY <2>1, EndFacts
  <2>3. s % 2 = Parity(p) /\ mDataChannels[p][s] = NoEnd
    BY <2>1 DEF Free
  <2>4. QED
    BY <1>2, <2>1, <2>2, <2>3 DEF End
<1>4. \A e \in Ends : /\ E[e].created = end[e].created /\ E[e].destroyed = end[e].destroyed
                      /\ E[e].opening = end[e].opening /\ E[e].closed = end[e].closed
                      /\ E[e].transport = end[e].transport
                      /\ \/ E[e].stream = end[e].stream
                         \/ /\ end[e].stream = NoStream
                            /\ \E s \in ChannelStreams : Takes(p, e, s) /\ mDataChannels'[p][s] = e /\ E[e].stream = s
  BY <1>1, <1>3
<1>5. \A e \in Ends : /\ end'[e].created = end[e].created /\ end'[e].opening = end[e].opening
                      /\ end'[e].transport = end[e].transport /\ end'[e].stream = E[e].stream
                      /\ e # x => end'[e].closed = end[e].closed /\ end'[e].destroyed = end[e].destroyed
                      /\ e = x => end'[e].closed /\ end'[e].destroyed
  <2> SUFFICES ASSUME NEW e \in Ends
      PROVE  /\ end'[e].created = end[e].created /\ end'[e].opening = end[e].opening
             /\ end'[e].transport = end[e].transport /\ end'[e].stream = E[e].stream
             /\ e # x => end'[e].closed = end[e].closed /\ end'[e].destroyed = end[e].destroyed
             /\ e = x => end'[e].closed /\ end'[e].destroyed
    OBVIOUS
  <2>1. CASE e # x
    BY <1>4, <2>1
  <2>2. CASE e = x
    <3>1. x # NoEnd
      BY <2>2, EndFacts
    <3>2. end'[e] = [E[e] EXCEPT !.destroyed = TRUE, !.closed = TRUE] /\ E[e] \in End
      BY <1>2, <2>2, <3>1
    <3>3. /\ end'[e].created = E[e].created /\ end'[e].opening = E[e].opening
          /\ end'[e].transport = E[e].transport /\ end'[e].stream = E[e].stream
          /\ end'[e].closed = TRUE /\ end'[e].destroyed = TRUE
      <4> HIDE DEF E
      <4> QED
        BY <3>2 DEF End
    <3>4. QED
      BY <1>4, <2>2, <3>3
  <2>3. QED
    BY <2>1, <2>2
<1>6. \A e \in Ends : end[e].stream # NoStream => end'[e].stream = end[e].stream
  BY <1>4, <1>5
<1>7. \A c \in Chans : /\ Out(c) \in Ends /\ In(c) \in Ends /\ In(c) # x
                       /\ E[In(c)].stream = end[In(c)].stream
  <2> SUFFICES ASSUME NEW c \in Chans
      PROVE  /\ Out(c) \in Ends /\ In(c) \in Ends /\ In(c) # x
             /\ E[In(c)].stream = end[In(c)].stream
    OBVIOUS
  <2>1. Out(c) \in Ends /\ In(c) \in Ends /\ In(c) # NoEnd
    BY EndFacts
  <2>2. \A e \in Ends : In(c) # Out(e[1])
    BY EndFacts
  <2>3. In(c) # x
    BY <2>1, <2>2
  <2>4. QED
    BY <1>3, <1>4, <2>1, <2>2, <2>3
<1>8. TableInv'
  <2>1. ASSUME NEW q \in Peers, NEW s \in ChannelStreams, mDataChannels'[q][s] # NoEnd
        PROVE  Peer(mDataChannels'[q][s]) = q /\ end'[mDataChannels'[q][s]].stream = s
    <3>1. CASE mDataChannels'[q][s] = mDataChannels[q][s]
      <4>1. mDataChannels[q][s] \in Ends
        BY <1>1, <2>1, <3>1
      <4>2. QED
        BY <1>0, <1>6, <2>1, <3>1, <4>1, PeerFacts DEF TableInv
    <3>2. CASE q = p /\ Takes(p, mDataChannels'[p][s], s)
      <4>1. mDataChannels'[p][s] \in Ends
        BY <3>2 DEF Takes
      <4>2. QED
        BY <1>3, <1>5, <3>2, <4>1
    <3>3. QED
      BY <1>1, <3>1, <3>2
  <2>2. ASSUME NEW e \in Ends, end'[e].stream # NoStream
        PROVE  /\ end'[e].created /\ end'[e].stream % 2 = Parity(Creator[e[1]])
               /\ ~end'[e].closed => mDataChannels'[Peer(e)][end'[e].stream] = e
    <3>1. CASE end'[e].stream = end[e].stream
      <4>1. end[e].created /\ end[e].stream % 2 = Parity(Creator[e[1]])
        BY <1>0, <2>2, <3>1 DEF TableInv
      <4>2. ASSUME ~end'[e].closed PROVE mDataChannels'[Peer(e)][end'[e].stream] = e
        <5>1. ~end[e].closed
          BY <1>5, <4>2
        <5>2. mDataChannels[Peer(e)][end[e].stream] = e
          BY <1>0, <2>2, <3>1, <5>1 DEF TableInv
        <5>3. Peer(e) \in Peers /\ end[e].stream \in ChannelStreams /\ e # NoEnd
          BY <1>2, <2>2, <3>1, EndFacts DEF End
        <5>4. CASE Peer(e) = p
          <6>1. ~Takes(p, mDataChannels'[p][end[e].stream], end[e].stream)
            BY <5>2, <5>3, <5>4 DEF Takes, Free
          <6>2. QED
            BY <1>1, <3>1, <5>2, <5>3, <5>4, <6>1
        <5>5. CASE Peer(e) # p
          BY <1>1, <3>1, <5>2, <5>3, <5>5
        <5>6. QED
          BY <5>4, <5>5
      <4>3. QED
        BY <1>5, <3>1, <4>1, <4>2
    <3>2. CASE end'[e].stream # end[e].stream
      <4>1. PICK s \in ChannelStreams : Takes(p, e, s) /\ mDataChannels'[p][s] = e /\ E[e].stream = s
        BY <1>4, <1>5, <3>2
      <4>2. end'[e].stream = s
        BY <1>5, <4>1
      <4>3. QED
        BY <1>3, <1>5, <4>1, <4>2
    <3>3. QED
      BY <3>1, <3>2
  <2>3. ASSUME NEW c \in Chans, end'[In(c)].created
        PROVE  /\ end'[In(c)].transport /\ ~end'[In(c)].destroyed
               /\ end'[Out(c)].opening /\ end'[In(c)].stream = end'[Out(c)].stream
    <3>1. /\ end[In(c)].transport /\ ~end[In(c)].destroyed
          /\ end[Out(c)].opening /\ end[In(c)].stream = end[Out(c)].stream /\ end[Out(c)].stream # NoStream
      BY <1>0, <1>5, <1>7, <2>3 DEF TableInv
    <3>2. QED
      BY <1>5, <1>6, <1>7, <3>1
  <2>4. ASSUME NEW c \in Chans
        PROVE  /\ end'[Out(c)].opening => end'[Out(c)].stream # NoStream
               /\ end'[Out(c)].transport <=> end'[Out(c)].opening
               /\ end'[In(c)].transport => end'[In(c)].created
    BY <1>0, <1>5, <1>6, <1>7 DEF TableInv
  <2>5. ASSUME NEW e \in Ends, end'[e].destroyed PROVE end'[e].created
    <3>1. CASE e = x
      BY <1>5, <3>1, EndFacts
    <3>2. CASE e # x
      BY <1>0, <1>5, <2>5, <3>2 DEF TableInv
    <3>3. QED
      BY <3>1, <3>2
  <2>6. QED
    BY <2>1, <2>2, <2>3, <2>4, <2>5 DEF TableInv
<1>9. WireInv'
  <2> SUFFICES ASSUME NEW q \in Peers, NEW s \in ChannelStreams, NEW i \in DOMAIN wire[q][s]
      PROVE  /\ wire[q][s][i].type # "RESET" => wire[q][s][i].chan \in Chans
             /\ wire[q][s][i].type = "OPEN" =>
                   /\ Other(Creator[wire[q][s][i].chan]) = q
                   /\ end'[Out(wire[q][s][i].chan)].stream = s
                   /\ end'[Out(wire[q][s][i].chan)].opening
    BY DEF WireInv
  <2> DEFINE c == wire[q][s][i].chan
             t == wire[q][s][i].type
  <2>1. /\ t # "RESET" => c \in Chans
        /\ t = "OPEN" => Other(Creator[c]) = q /\ end[Out(c)].stream = s /\ end[Out(c)].opening
    BY <1>0 DEF WireInv
  <2> HIDE DEF c, t
  <2>2. t = "OPEN" => Other(Creator[c]) = q /\ end'[Out(c)].stream = s /\ end'[Out(c)].opening
    BY <1>5, <1>6, <1>7, <2>1, PeerFacts
  <2>3. QED
    BY <2>1, <2>2 DEF c, t
<1>10. AppInv'
  BY <1>0, <1>5 DEF AppInv
<1>11. StreamInv => StreamInv'
  <2> SUFFICES ASSUME StreamInv, NEW q \in Peers, NEW s \in ChannelStreams, s % 2 = Parity(q)
      PROVE  Stream(wire[Other(q)][s], wire[q][s], mDataChannels'[q][s], mDataChannels'[Other(q)][s], end')
    BY DEF StreamInv
  <2> DEFINE f == wire[Other(q)][s]
             b == wire[q][s]
             o == mDataChannels[q][s]
             d == mDataChannels[Other(q)][s]
  <2>1. Other(q) \in Peers /\ Other(q) # q /\ Parity(Other(q)) # s % 2
    BY PeerFacts
  <2>2. /\ f \in Seq(WireMessage) /\ b \in Seq(WireMessage) /\ o \in Ends \union {NoEnd}
        /\ d \in Ends \union {NoEnd} /\ end \in [Ends -> End]
    BY <1>0, <2>1, FieldFacts DEF ChannelsTypeOK
  <2>3. Stream(f, b, o, d, end)
    BY DEF StreamInv
  <2>4. mDataChannels'[Other(q)][s] = d
    <3>1. CASE Other(q) = p
      <4>1. ~Takes(p, mDataChannels'[p][s], s)
        BY <2>1, <3>1 DEF Takes, Free
      <4>2. QED
        BY <1>1, <3>1, <4>1
    <3>2. CASE Other(q) # p
      BY <1>1, <2>1, <3>2
    <3>3. QED
      BY <3>1, <3>2
  <2>5. Stream(f, b, mDataChannels'[q][s], d, end) /\ mDataChannels'[q][s] \in Ends \union {NoEnd}
    <3>1. CASE mDataChannels'[q][s] = o
      BY <2>2, <2>3, <3>1
    <3>2. CASE mDataChannels'[q][s] # o
      <4>1. q = p /\ Takes(p, mDataChannels'[p][s], s)
        BY <1>1, <3>2
      <4> DEFINE e == mDataChannels'[p][s]
      <4>2. e \in Ends /\ e = Out(e[1]) /\ end[e].stream = NoStream /\ o = NoEnd
        BY <4>1 DEF Takes, Free
      <4>3. e[1] \in Chans /\ ~end[Out(e[1])].opening
        BY <1>0, <4>2, EndFacts DEF TableInv
      <4>4. ~end[In(e[1])].created
        BY <1>0, <4>3 DEF TableInv
      <4> HIDE DEF e, f, b, d
      <4>5. Stream(f, b, Out(e[1]), d, end)
        BY <2>2, <2>3, <4>2, <4>3, <4>4, StreamAssigned
      <4>6. QED
        BY <4>1, <4>2, <4>5 DEF e
    <3>3. QED
      BY <3>1, <3>2
  <2> DEFINE n == mDataChannels'[q][s]
  <2> HIDE DEF f, b, o, d, n
  <2>6. Stream(f, b, n, d, end) /\ n \in Ends \union {NoEnd}
    BY <2>5 DEF n
  <2>7. \A c \in Chans : Out(c) # x => SameFlags(end, end', c)
    BY <1>5, <1>7 DEF SameFlags
  <2>8. Stream(f, b, n, d, end')
    <3>1. CASE x = NoEnd
      <4>1. \A e \in Ends : SameFlags(end, end', e[1])
        BY <2>7, <3>1, EndFacts
      <4>2. QED
        BY <2>2, <2>6, <4>1, StreamFrame
    <3>2. CASE x # NoEnd
      <4>1. x = Out(x[1]) /\ x[1] \in Chans /\ x \in Ends /\ ~end[Out(x[1])].opening
        BY <3>2, EndFacts
      <4>2. ~end[In(x[1])].created
        BY <1>0, <4>1 DEF TableInv
      <4>3. ~end'[Out(x[1])].opening /\ ~end'[In(x[1])].created
        BY <1>5, <1>7, <4>1, <4>2
      <4>4. \A c \in Chans \ {x[1]} : SameFlags(end, end', c)
        <5>1. \A c \in Chans \ {x[1]} : Out(c) # x
          BY EndFacts
        <5>2. QED
          BY <2>7, <5>1
      <4>5. QED
        BY <2>2, <2>6, <4>1, <4>2, <4>3, <4>4, StreamOutDrops
    <3>3. QED
      BY <3>1, <3>2
  <2>9. QED
    BY <2>4, <2>8 DEF f, b, n
<1>12. RaceInv'
  <2>1. NoRace' => NoRace
    BY DEF NoRace
  <2>2. NoCrossTalk /\ NoRace => NoCrossTalk'
    BY DEF NoCrossTalk
  <2>3. ClosedOnlyByApp => ClosedOnlyByApp'
    BY <1>5 DEF ClosedOnlyByApp
  <2>4. QED
    BY <1>0, <1>5, <1>11, <2>1, <2>2, <2>3 DEF RaceInv
<1>13. \A q \in Peers : \A e \in todo'[q] : Peer(e) = q /\ end'[e].stream # NoStream /\ ~end'[e].destroyed
  <2> SUFFICES ASSUME NEW q \in Peers, NEW e \in todo[q]
      PROVE  Peer(e) = q /\ end'[e].stream # NoStream /\ ~end'[e].destroyed
    OBVIOUS
  <2>1. e \in Ends /\ Peer(e) = q /\ end[e].stream # NoStream /\ ~end[e].destroyed
    BY <1>0 DEF ChannelsTypeOK, ListInv
  <2>2. e # x
    BY <2>1, EndFacts
  <2>3. QED
    BY <1>5, <1>6, <2>1, <2>2
<1>14. \A e \in Ends : sending'[e] = "checked" => end'[e].stream # NoStream /\ end'[e].transport
  BY <1>0, <1>5, <1>6 DEF ListInv
<1>15. \A c \in Chans : end'[Out(c)].opening => ~end'[Out(c)].destroyed
  <2> SUFFICES ASSUME NEW c \in Chans, end'[Out(c)].opening PROVE ~end'[Out(c)].destroyed
    OBVIOUS
  <2>1. end[Out(c)].opening /\ ~end[Out(c)].destroyed /\ Out(c) \in Ends
    BY <1>0, <1>5, <1>7 DEF JobInv
  <2>2. Out(c) # x
    BY <2>1, EndFacts
  <2>3. QED
    BY <1>5, <2>1, <2>2
<1>16. QED
  BY <1>5, <1>6, <1>8, <1>9, <1>10, <1>12, <1>13, <1>14, <1>15

(* The Connected callback assigns streams, and enqueues the job unless there *)
(* are too many channels.                                                    *)
LEMMA ConnectedCallbackInv ==
    ASSUME ChannelsIInv, NEW p \in Peers, ConnectedCallback(p)
    PROVE  ChannelsIInv'
<1>0. ChannelsTypeOK /\ ListInv /\ JobInv
  BY DEF ChannelsIInv
<1>1. /\ UNCHANGED <<sctp, todo, creating, closing, sending, wire, received, appClosed>>
      /\ callback[p] = "assign" /\ callback' = [callback EXCEPT ![p] = "done"]
      /\ assignDataChannels(p) /\ end' = EndsAssigned(p)
      /\ \/ ~AssignThrows(p) /\ job' = [job EXCEPT ![p] = "queued"] /\ anomalies' = anomalies
         \/ AssignThrows(p) /\ job' = job /\ anomalies' = anomalies \union {"tooMany"}
  BY DEF ConnectedCallback
<1>2. /\ EndsAssigned(p) \in [Ends -> End]
      /\ mDataChannels' \in [Peers -> [ChannelStreams -> Ends \union {NoEnd}]]
      /\ mUnassignedDataChannels' \in [Peers -> Seq(Chans)]
      /\ \A q \in Peers \ {p} : mUnassignedDataChannels'[q] = mUnassignedDataChannels[q]
      /\ AssignThrows(p) => mUnassignedDataChannels'[p] = mUnassignedDataChannels[p]
      /\ ~AssignThrows(p) =>
            /\ mUnassignedDataChannels'[p] = <<>>
            /\ \A i \in DOMAIN mUnassignedDataChannels[p] :
                  \/ end[Out(mUnassignedDataChannels[p][i])].destroyed
                  \/ EndsAssigned(p)[Out(mUnassignedDataChannels[p][i])].stream # NoStream
  BY <1>0, <1>1, AssignFacts DEF Listed
<1>3. ChannelsTypeOK'
  <2>1. job' \in [Peers -> {"none", "queued", "running", "done"}]
    BY <1>0, <1>1 DEF ChannelsTypeOK
  <2>2. callback' \in [Peers -> {"idle", "assign", "done"}]
    BY <1>0, <1>1 DEF ChannelsTypeOK
  <2>3. anomalies' \subseteq Anomalies
    BY <1>0, <1>1 DEF ChannelsTypeOK, Anomalies
  <2>4. QED
    BY <1>0, <1>1, <1>2, <2>1, <2>2, <2>3 DEF ChannelsTypeOK
<1>4. /\ TableInv' /\ WireInv' /\ AppInv' /\ RaceInv'
      /\ \A e \in Ends : /\ end'[e].created = end[e].created
                         /\ end'[e].opening = end[e].opening
                         /\ end'[e].destroyed = end[e].destroyed
                         /\ end[e].stream # NoStream => end'[e].stream = end[e].stream
      /\ \A q \in Peers : \A e \in todo'[q] : Peer(e) = q /\ end'[e].stream # NoStream /\ ~end'[e].destroyed
      /\ \A e \in Ends : sending'[e] = "checked" => end'[e].stream # NoStream /\ end'[e].transport
      /\ \A c \in Chans : end'[Out(c)].opening => ~end'[Out(c)].destroyed
  <2>1. anomalies \subseteq anomalies' /\ NoEnd \in Ends \union {NoEnd} /\ NoEnd \notin Ends
    BY <1>1, EndFacts
  <2>2. end' \in [Ends -> End] /\ \A e \in Ends : end'[e] = EndsAssigned(p)[e]
    BY <1>1, <1>2
  <2>3. AssignDrops(p, NoEnd)
    BY <1>1, <2>1, <2>2 DEF AssignDrops
  <2>4. \A e \in Ends : e # NoEnd
    BY <2>1
  <2>5. QED
    BY <2>1, <2>3, <2>4, AssignKeeps
<1>5. /\ \A q \in Peers : \A i \in DOMAIN mUnassignedDataChannels[q] :
            mUnassignedDataChannels[q][i] \in Chans /\ Out(mUnassignedDataChannels[q][i]) \in Ends
      /\ \A q \in Peers : creating[q] # NoEnd => creating[q][1] \in Chans /\ Out(creating[q][1]) \in Ends
      /\ \A c \in Chans : Out(c) \in Ends
      /\ DOMAIN <<>> = {}
  BY <1>0, EndFacts DEF ChannelsTypeOK
<1>6. ListInv'
  <2>1. \A q \in Peers : mUnassignedDataChannels'[q] \in {mUnassignedDataChannels[q], <<>>}
    BY <1>2
  <2>2. \A q \in Peers : \A i \in DOMAIN mUnassignedDataChannels'[q] :
          /\ Creator[mUnassignedDataChannels'[q][i]] = q
          /\ end'[Out(mUnassignedDataChannels'[q][i])].created
          /\ \A j \in DOMAIN mUnassignedDataChannels'[q] :
                mUnassignedDataChannels'[q][j] = mUnassignedDataChannels'[q][i] => j = i
    <3> SUFFICES ASSUME NEW q \in Peers, NEW i \in DOMAIN mUnassignedDataChannels'[q]
        PROVE  /\ Creator[mUnassignedDataChannels'[q][i]] = q
               /\ end'[Out(mUnassignedDataChannels'[q][i])].created
               /\ \A j \in DOMAIN mUnassignedDataChannels'[q] :
                     mUnassignedDataChannels'[q][j] = mUnassignedDataChannels'[q][i] => j = i
      OBVIOUS
    <3>1. mUnassignedDataChannels'[q] = mUnassignedDataChannels[q]
      BY <1>5, <2>1
    <3>2. QED
      BY <1>0, <1>4, <1>5, <3>1 DEF ListInv
  <2>3. ASSUME NEW q \in Peers, creating'[q] # NoEnd
        PROVE  /\ Creator[creating'[q][1]] = q
               /\ end'[Out(creating'[q][1])].created /\ ~end'[Out(creating'[q][1])].destroyed
               /\ creating'[q][2] = "assigned" => end'[Out(creating'[q][1])].stream # NoStream
               /\ \/ end'[Out(creating'[q][1])].stream # NoStream
                  \/ \E i \in DOMAIN mUnassignedDataChannels'[q] : mUnassignedDataChannels'[q][i] = creating'[q][1]
    <3> DEFINE c == creating[q][1]
    <3>0. creating'[q] = creating[q] /\ creating[q] # NoEnd /\ Out(c) \in Ends
      BY <1>1, <1>5, <2>3
    <3>1. /\ Creator[c] = q /\ end[Out(c)].created /\ ~end[Out(c)].destroyed
          /\ creating[q][2] = "assigned" => end[Out(c)].stream # NoStream
          /\ \/ end[Out(c)].stream # NoStream
             \/ \E i \in DOMAIN mUnassignedDataChannels[q] : mUnassignedDataChannels[q][i] = c
      BY <1>0, <3>0 DEF ListInv
    <3> HIDE DEF c
    <3>2. \/ end'[Out(c)].stream # NoStream
          \/ \E i \in DOMAIN mUnassignedDataChannels'[q] : mUnassignedDataChannels'[q][i] = c
      <4>1. CASE end[Out(c)].stream # NoStream
        BY <1>4, <3>0, <4>1
      <4>2. CASE mUnassignedDataChannels'[q] = mUnassignedDataChannels[q]
        BY <3>1, <4>1, <4>2
      <4>3. CASE end[Out(c)].stream = NoStream /\ q = p /\ ~AssignThrows(p)
        BY <1>1, <1>2, <3>1, <4>3
      <4>4. QED
        BY <1>2, <4>1, <4>2, <4>3
    <3>3. QED
      BY <1>4, <3>0, <3>1, <3>2 DEF c
  <2>4. QED
    BY <1>4, <2>2, <2>3 DEF ListInv
<1>7. JobInv'
  <2>1. /\ callback'[p] = "done" /\ job[p] = "none" /\ sctp[p] = "Connected"
        /\ \A q \in Peers \ {p} : callback'[q] = callback[q] /\ job'[q] = job[q]
        /\ (~AssignThrows(p) /\ job'[p] = "queued") \/ (AssignThrows(p) /\ job'[p] = job[p])
    <3>1. callback[p] # "done" /\ callback[p] # "idle"
      BY <1>1
    <3>2. job[p] = "none" /\ sctp[p] = "Connected"
      BY <1>0, <3>1 DEF JobInv
    <3>3. /\ callback'[p] = "done" /\ \A q \in Peers \ {p} : callback'[q] = callback[q] /\ job'[q] = job[q]
          /\ (~AssignThrows(p) /\ job'[p] = "queued") \/ (AssignThrows(p) /\ job'[p] = job[p])
      BY <1>0, <1>1 DEF ChannelsTypeOK
    <3>4. QED
      BY <3>2, <3>3
  <2>2. \A q \in Peers : todo'[q] # {} => job'[q] = "running"
    BY <1>0, <1>1, <2>1 DEF JobInv
  <2>3. \A q \in Peers : /\ sctp'[q] # "Connected" => callback'[q] = "idle"
                         /\ callback'[q] # "done" => job'[q] = "none"
    BY <1>0, <1>1, <2>1 DEF JobInv
  <2>4. ASSUME NEW q \in Peers, job'[q] # "none", NEW i \in DOMAIN mUnassignedDataChannels'[q]
        PROVE  \/ end'[Out(mUnassignedDataChannels'[q][i])].destroyed
               \/ /\ end'[Out(mUnassignedDataChannels'[q][i])].stream = NoStream
                  /\ creating'[q] = <<mUnassignedDataChannels'[q][i], "emplaced">>
    <3>1. CASE q = p
      BY <1>2, <1>5, <2>1, <2>4, <3>1
    <3>2. CASE q # p
      <4>1. /\ mUnassignedDataChannels'[q] = mUnassignedDataChannels[q] /\ job[q] # "none"
            /\ creating'[q] = creating[q]
        BY <1>1, <1>2, <2>1, <2>4, <3>2
      <4> DEFINE c == mUnassignedDataChannels[q][i]
      <4>2. c \in Chans /\ Out(c) \in Ends /\ Creator[c] = q
        BY <1>0, <1>5, <2>4, <4>1 DEF ListInv
      <4>3. end[Out(c)].destroyed \/ (end[Out(c)].stream = NoStream /\ creating[q] = <<c, "emplaced">>)
        BY <1>0, <2>4, <4>1 DEF JobInv
      <4>4. end'[Out(c)] = end[Out(c)]
        <5>1. \A s : ~Takes(p, Out(c), s)
          BY <3>2, <4>2, EndFacts DEF Takes
        <5>2. QED
          BY <1>0, <1>1, <4>2, <5>1, AssignFacts
      <4>5. QED
        BY <4>1, <4>3, <4>4
    <3>3. QED
      BY <3>1, <3>2
  <2>5. ASSUME NEW q \in Peers, creating'[q] # NoEnd, end'[Out(creating'[q][1])].opening
        PROVE  job'[q] # "none"
    <3>1. creating[q] # NoEnd /\ end[Out(creating[q][1])].opening
      BY <1>1, <1>4, <1>5, <2>5
    <3>2. job[q] # "none"
      BY <1>0, <3>1 DEF JobInv
    <3>3. QED
      BY <2>1, <3>2
  <2>6. QED
    BY <1>4, <2>2, <2>3, <2>4, <2>5 DEF JobInv
<1>8. QED
  BY <1>3, <1>4, <1>6, <1>7 DEF ChannelsIInv

(* createDataChannel() assigns streams; an exception drops the channel it    *)
(* creates.                                                                  *)
LEMMA CreateAssignsInv ==
    ASSUME ChannelsIInv, NEW p \in Peers, CreateAssigns(p)
    PROVE  ChannelsIInv'
<1> DEFINE c == creating[p][1]
           x == IF AssignThrows(p) THEN Out(c) ELSE NoEnd
<1>0. ChannelsTypeOK /\ TableInv /\ ListInv /\ JobInv
  BY DEF ChannelsIInv
<1>1. /\ UNCHANGED <<sctp, callback, job, todo, closing, sending, wire, received, appClosed>>
      /\ creating[p] # NoEnd /\ creating[p][2] = "emplaced" /\ assignDataChannels(p)
      /\ \/ /\ ~AssignThrows(p) /\ end' = EndsAssigned(p) /\ anomalies' = anomalies
            /\ creating' = [creating EXCEPT ![p] = <<c, "assigned">>]
         \/ /\ AssignThrows(p)
            /\ end' = [EndsAssigned(p) EXCEPT ![Out(c)].destroyed = TRUE, ![Out(c)].closed = TRUE]
            /\ creating' = [creating EXCEPT ![p] = NoEnd]
            /\ anomalies' = anomalies \union {"tooMany"}
  BY DEF CreateAssigns, Out
<1>2. /\ EndsAssigned(p) \in [Ends -> End]
      /\ mDataChannels' \in [Peers -> [ChannelStreams -> Ends \union {NoEnd}]]
      /\ mUnassignedDataChannels' \in [Peers -> Seq(Chans)]
      /\ \A q \in Peers \ {p} : mUnassignedDataChannels'[q] = mUnassignedDataChannels[q]
      /\ AssignThrows(p) =>
            /\ mUnassignedDataChannels'[p] = mUnassignedDataChannels[p]
            /\ \E i \in DOMAIN mUnassignedDataChannels[p] :
                  /\ ~end[Out(mUnassignedDataChannels[p][i])].destroyed
                  /\ EndsAssigned(p)[Out(mUnassignedDataChannels[p][i])] = end[Out(mUnassignedDataChannels[p][i])]
      /\ ~AssignThrows(p) =>
            /\ mUnassignedDataChannels'[p] = <<>>
            /\ \A i \in DOMAIN mUnassignedDataChannels[p] :
                  \/ end[Out(mUnassignedDataChannels[p][i])].destroyed
                  \/ EndsAssigned(p)[Out(mUnassignedDataChannels[p][i])].stream # NoStream
  BY <1>0, <1>1, AssignFacts DEF Listed
<1>3. /\ c \in Chans /\ Out(c) \in Ends /\ Out(c)[1] = c /\ creating[p] = <<c, "emplaced">>
      /\ Creator[c] = p /\ Peer(Out(c)) = p
      /\ end[Out(c)].created /\ ~end[Out(c)].destroyed
  <2>1. c \in Chans /\ creating[p] = <<c, "emplaced">>
    BY <1>0, <1>1 DEF ChannelsTypeOK
  <2>2. QED
    BY <1>0, <1>1, <2>1, EndFacts DEF ListInv
<1>4. AssignThrows(p) => ~end[Out(c)].opening /\ \A q \in Peers : Out(c) \notin todo[q]
  <2> SUFFICES ASSUME AssignThrows(p)
      PROVE  ~end[Out(c)].opening /\ \A q \in Peers : Out(c) \notin todo[q]
    OBVIOUS
  <2>1. \A q \in Peers \ {p} : Out(c) \notin todo[q]
    BY <1>0, <1>3 DEF ListInv
  <2>2. CASE job[p] = "none"
    BY <1>0, <1>1, <2>1, <2>2 DEF JobInv
  <2>3. CASE job[p] # "none"
    <3>1. PICK i \in DOMAIN mUnassignedDataChannels[p] : ~end[Out(mUnassignedDataChannels[p][i])].destroyed
      BY <1>2
    <3>2. /\ end[Out(mUnassignedDataChannels[p][i])].stream = NoStream
          /\ creating[p] = <<mUnassignedDataChannels[p][i], "emplaced">>
      BY <1>0, <2>3, <3>1 DEF JobInv
    <3>3. mUnassignedDataChannels[p][i] = c
      BY <1>3, <3>2
    <3>4. end[Out(c)].stream = NoStream
      BY <3>2, <3>3
    <3>5. QED
      BY <1>0, <1>3, <2>1, <3>4 DEF TableInv, ListInv
  <2>4. QED
    BY <2>2, <2>3
<1>5. /\ x \in Ends \union {NoEnd} /\ end' \in [Ends -> End]
      /\ \A e \in Ends : e # x => end'[e] = EndsAssigned(p)[e]
      /\ x # NoEnd =>
              /\ end'[x] = [EndsAssigned(p)[x] EXCEPT !.destroyed = TRUE, !.closed = TRUE]
              /\ x = Out(x[1]) /\ end[x].created /\ ~end[x].opening
              /\ \A q \in Peers : x \notin todo[q]
  <2>1. CASE AssignThrows(p)
    <3> DEFINE E == EndsAssigned(p)
               r == [E[Out(c)] EXCEPT !.destroyed = TRUE, !.closed = TRUE]
    <3>1. x = Out(c)
      BY <2>1
    <3>2. end' = [E EXCEPT ![Out(c)] = r]
      <4>1. end' = [E EXCEPT ![Out(c)].destroyed = TRUE, ![Out(c)].closed = TRUE]
        BY <1>1, <2>1
      <4>2. E \in [Ends -> End]
        BY <1>2
      <4> HIDE DEF E
      <4>3. QED
        BY <1>3, <4>1, <4>2
    <3>3. E \in [Ends -> End] /\ E[Out(c)] \in End
      BY <1>2, <1>3
    <3>4. r \in End
      <4> HIDE DEF E
      <4> QED
        BY <3>3 DEF End
    <3>5. end' \in [Ends -> End] /\ end'[Out(c)] = r /\ \A e \in Ends : e # Out(c) => end'[e] = E[e]
      <4> HIDE DEF E, r
      <4> QED
        BY <1>3, <3>2, <3>3, <3>4
    <3>6. QED
      BY <1>3, <1>4, <2>1, <3>1, <3>5
  <2>2. CASE ~AssignThrows(p)
    BY <1>1, <1>2, <2>2
  <2>3. QED
    BY <2>1, <2>2
<1>6. /\ TableInv' /\ WireInv' /\ AppInv' /\ RaceInv'
      /\ \A e \in Ends : /\ end'[e].created = end[e].created
                         /\ end'[e].opening = end[e].opening
                         /\ e # x => end'[e].destroyed = end[e].destroyed
                         /\ end[e].stream # NoStream => end'[e].stream = end[e].stream
                         /\ end'[e].stream = EndsAssigned(p)[e].stream
                         /\ e = x => end'[e].destroyed
      /\ \A q \in Peers : \A e \in todo'[q] : Peer(e) = q /\ end'[e].stream # NoStream /\ ~end'[e].destroyed
      /\ \A e \in Ends : sending'[e] = "checked" => end'[e].stream # NoStream /\ end'[e].transport
      /\ \A y \in Chans : end'[Out(y)].opening => ~end'[Out(y)].destroyed
  <2>1. anomalies \subseteq anomalies'
    BY <1>1
  <2>2. AssignDrops(p, x) /\ x \in Ends \union {NoEnd}
    <3> HIDE DEF x
    <3> QED
      BY <1>1, <1>5, <2>1 DEF AssignDrops
  <2> HIDE DEF x
  <2>3. QED
    BY <2>2, AssignKeeps
<1>7. /\ \A q \in Peers : \A i \in DOMAIN mUnassignedDataChannels[q] :
            mUnassignedDataChannels[q][i] \in Chans /\ Out(mUnassignedDataChannels[q][i]) \in Ends
      /\ \A q \in Peers : creating[q] # NoEnd => creating[q][1] \in Chans /\ Out(creating[q][1]) \in Ends
      /\ \A y \in Chans : Out(y) \in Ends
      /\ DOMAIN <<>> = {}
  BY <1>0, EndFacts DEF ChannelsTypeOK
<1>8. /\ creating' \in [Peers -> (Chans \X {"emplaced", "assigned"}) \union {NoEnd}]
      /\ \A q \in Peers \ {p} : creating'[q] = creating[q]
      /\ creating'[p] = IF AssignThrows(p) THEN NoEnd ELSE <<c, "assigned">>
  <2>1. creating \in [Peers -> (Chans \X {"emplaced", "assigned"}) \union {NoEnd}]
    BY <1>0 DEF ChannelsTypeOK
  <2> DEFINE v == IF AssignThrows(p) THEN NoEnd ELSE <<c, "assigned">>
  <2>2. creating' = [creating EXCEPT ![p] = v]
    BY <1>1
  <2>3. v \in (Chans \X {"emplaced", "assigned"}) \union {NoEnd}
    BY <1>3
  <2>4. /\ creating' \in [Peers -> (Chans \X {"emplaced", "assigned"}) \union {NoEnd}]
        /\ \A q \in Peers \ {p} : creating'[q] = creating[q]
        /\ creating'[p] = v
    <3> HIDE DEF v
    <3> QED
      BY <2>1, <2>2, <2>3
  <2>5. QED
    BY <2>4
<1>9. ChannelsTypeOK'
  <2>1. anomalies' \subseteq Anomalies
    BY <1>0, <1>1 DEF ChannelsTypeOK, Anomalies
  <2>2. QED
    BY <1>0, <1>1, <1>2, <1>5, <1>8, <2>1 DEF ChannelsTypeOK
<1>10. \A q \in Peers \ {p} : \A y \in Chans : Creator[y] = q =>
           end'[Out(y)].stream = end[Out(y)].stream /\ end'[Out(y)].destroyed = end[Out(y)].destroyed
  <2> SUFFICES ASSUME NEW q \in Peers \ {p}, NEW y \in Chans, Creator[y] = q
      PROVE  end'[Out(y)].stream = end[Out(y)].stream /\ end'[Out(y)].destroyed = end[Out(y)].destroyed
    OBVIOUS
  <2>1. y # c /\ Out(y) \in Ends /\ Out(y)[1] = y
    BY <1>3, EndFacts
  <2>2. Out(y) # x
    BY <1>3, <2>1, EndFacts
  <2>3. \A s : ~Takes(p, Out(y), s)
    BY <2>1 DEF Takes
  <2>4. EndsAssigned(p)[Out(y)] = end[Out(y)]
    BY <1>0, <1>1, <2>1, <2>3, AssignFacts
  <2>5. QED
    BY <1>6, <2>1, <2>2, <2>4
<1>11. ListInv'
  <2>1. \A q \in Peers : mUnassignedDataChannels'[q] \in {mUnassignedDataChannels[q], <<>>}
    BY <1>2
  <2>2. \A q \in Peers : \A i \in DOMAIN mUnassignedDataChannels'[q] :
          /\ Creator[mUnassignedDataChannels'[q][i]] = q
          /\ end'[Out(mUnassignedDataChannels'[q][i])].created
          /\ \A j \in DOMAIN mUnassignedDataChannels'[q] :
                mUnassignedDataChannels'[q][j] = mUnassignedDataChannels'[q][i] => j = i
    <3> SUFFICES ASSUME NEW q \in Peers, NEW i \in DOMAIN mUnassignedDataChannels'[q]
        PROVE  /\ Creator[mUnassignedDataChannels'[q][i]] = q
               /\ end'[Out(mUnassignedDataChannels'[q][i])].created
               /\ \A j \in DOMAIN mUnassignedDataChannels'[q] :
                     mUnassignedDataChannels'[q][j] = mUnassignedDataChannels'[q][i] => j = i
      OBVIOUS
    <3>1. mUnassignedDataChannels'[q] = mUnassignedDataChannels[q]
      BY <1>7, <2>1
    <3>2. QED
      BY <1>0, <1>6, <1>7, <3>1 DEF ListInv
  <2>3. ASSUME NEW q \in Peers, creating'[q] # NoEnd
        PROVE  /\ Creator[creating'[q][1]] = q
               /\ end'[Out(creating'[q][1])].created /\ ~end'[Out(creating'[q][1])].destroyed
               /\ creating'[q][2] = "assigned" => end'[Out(creating'[q][1])].stream # NoStream
               /\ \/ end'[Out(creating'[q][1])].stream # NoStream
                  \/ \E i \in DOMAIN mUnassignedDataChannels'[q] : mUnassignedDataChannels'[q][i] = creating'[q][1]
    <3>1. CASE q # p
      <4> DEFINE y == creating[q][1]
      <4>0. /\ creating'[q] = creating[q] /\ creating[q] # NoEnd /\ Out(y) \in Ends /\ y \in Chans
            /\ mUnassignedDataChannels'[q] = mUnassignedDataChannels[q]
        BY <1>2, <1>7, <1>8, <2>3, <3>1
      <4>1. /\ Creator[y] = q /\ end[Out(y)].created /\ ~end[Out(y)].destroyed
            /\ creating[q][2] = "assigned" => end[Out(y)].stream # NoStream
            /\ \/ end[Out(y)].stream # NoStream
               \/ \E i \in DOMAIN mUnassignedDataChannels[q] : mUnassignedDataChannels[q][i] = y
        BY <1>0, <4>0 DEF ListInv
      <4> HIDE DEF y
      <4>2. end'[Out(y)].stream = end[Out(y)].stream /\ ~end'[Out(y)].destroyed /\ end'[Out(y)].created
        BY <1>6, <1>10, <3>1, <4>0, <4>1
      <4>3. QED
        BY <4>0, <4>1, <4>2 DEF y
    <3>2. CASE q = p
      <4>1. ~AssignThrows(p) /\ creating'[q] = <<c, "assigned">>
        BY <1>8, <2>3, <3>2
      <4>2. x = NoEnd /\ Out(c) # NoEnd
        BY <1>3, <4>1, EndFacts
      <4>3. end'[Out(c)].created /\ ~end'[Out(c)].destroyed
        BY <1>3, <1>6, <4>2
      <4>4. end'[Out(c)].stream # NoStream
        <5>1. CASE end[Out(c)].stream # NoStream
          BY <1>3, <1>6, <5>1
        <5>2. CASE end[Out(c)].stream = NoStream
          <6>1. \E i \in DOMAIN mUnassignedDataChannels[p] : mUnassignedDataChannels[p][i] = c
            BY <1>0, <1>1, <5>2 DEF ListInv
          <6>2. EndsAssigned(p)[Out(c)].stream # NoStream
            BY <1>2, <1>3, <4>1, <6>1
          <6>3. QED
            BY <1>3, <1>6, <6>2
        <5>3. QED
          BY <5>1, <5>2
      <4>5. QED
        BY <1>3, <3>2, <4>1, <4>3, <4>4
    <3>3. QED
      BY <3>1, <3>2
  <2>4. QED
    BY <1>6, <2>2, <2>3 DEF ListInv
<1>12. JobInv'
  <2>1. ASSUME NEW q \in Peers, job'[q] # "none", NEW i \in DOMAIN mUnassignedDataChannels'[q]
        PROVE  \/ end'[Out(mUnassignedDataChannels'[q][i])].destroyed
               \/ /\ end'[Out(mUnassignedDataChannels'[q][i])].stream = NoStream
                  /\ creating'[q] = <<mUnassignedDataChannels'[q][i], "emplaced">>
    <3> DEFINE y == mUnassignedDataChannels[q][i]
    <3>1. CASE q = p
      <4>1. AssignThrows(p) /\ mUnassignedDataChannels'[q] = mUnassignedDataChannels[q]
        BY <1>2, <1>7, <2>1, <3>1
      <4>2. y \in Chans /\ Out(y) \in Ends
        BY <1>7, <2>1, <4>1
      <4>3. end[Out(y)].destroyed \/ creating[q] = <<y, "emplaced">>
        BY <1>0, <1>1, <2>1, <4>1 DEF JobInv
      <4>4. x = Out(c)
        BY <4>1
      <4>5. CASE y = c
        BY <1>3, <1>6, <4>1, <4>4, <4>5
      <4>6. CASE y # c
        <5>1. end[Out(y)].destroyed
          BY <1>3, <3>1, <4>3, <4>6
        <5>2. Out(y) # x
          BY <1>3, <4>2, <4>4, <4>6, EndFacts
        <5>3. QED
          BY <1>6, <4>1, <4>2, <5>1, <5>2
      <4>7. QED
        BY <4>5, <4>6
    <3>2. CASE q # p
      <4>1. /\ mUnassignedDataChannels'[q] = mUnassignedDataChannels[q] /\ job[q] # "none"
            /\ creating'[q] = creating[q]
        BY <1>1, <1>2, <1>8, <2>1, <3>2
      <4>2. y \in Chans /\ Out(y) \in Ends /\ Creator[y] = q
        BY <1>0, <1>7, <2>1, <4>1 DEF ListInv
      <4>3. end[Out(y)].destroyed \/ (end[Out(y)].stream = NoStream /\ creating[q] = <<y, "emplaced">>)
        BY <1>0, <2>1, <4>1 DEF JobInv
      <4>4. QED
        BY <1>10, <3>2, <4>1, <4>2, <4>3
    <3>3. QED
      BY <3>1, <3>2
  <2>2. ASSUME NEW q \in Peers, creating'[q] # NoEnd, end'[Out(creating'[q][1])].opening
        PROVE  job'[q] # "none"
    <3>1. creating[q] # NoEnd /\ creating'[q][1] = creating[q][1]
      <4>1. CASE q = p
        BY <1>1, <1>8, <2>2, <4>1
      <4>2. CASE q # p
        BY <1>8, <2>2, <4>2
      <4>3. QED
        BY <4>1, <4>2
    <3>2. end[Out(creating[q][1])].opening
      BY <1>6, <1>7, <2>2, <3>1
    <3>3. QED
      BY <1>0, <1>1, <3>1, <3>2 DEF JobInv
  <2>3. /\ \A q \in Peers : todo'[q] # {} => job'[q] = "running"
        /\ \A q \in Peers : sctp'[q] # "Connected" => callback'[q] = "idle"
        /\ \A q \in Peers : callback'[q] # "done" => job'[q] = "none"
    BY <1>0, <1>1 DEF JobInv
  <2>4. QED
    BY <1>6, <2>1, <2>2, <2>3 DEF JobInv
<1>13. QED
  BY <1>6, <1>9, <1>11, <1>12 DEF ChannelsIInv

-----------------------------------------------------------------------------
(* The steps that open a channel.                                            *)

(* The streams of the other channels stay as they are.                         *)
LEMMA StreamsStep ==
    ASSUME ChannelsIInv, StreamInv, NEW c \in Chans, NEW s \in ChannelStreams, end[Out(c)].stream = s,
           end' \in [Ends -> End],
           \A x \in Chans \ {c} : SameFlags(end, end', x),
           \A q \in Peers, r \in ChannelStreams : r # s =>
               wire'[q][r] = wire[q][r] /\ mDataChannels'[q][r] = mDataChannels[q][r],
           Stream(wire'[Other(Creator[c])][s], wire'[Creator[c]][s],
                  mDataChannels'[Creator[c]][s], mDataChannels'[Other(Creator[c])][s], end')
    PROVE  StreamInv'
<1> SUFFICES ASSUME NEW q \in Peers, NEW r \in ChannelStreams, r % 2 = Parity(q)
    PROVE  Stream(wire'[Other(q)][r], wire'[q][r], mDataChannels'[q][r], mDataChannels'[Other(q)][r], end')
  BY DEF StreamInv
<1>0. ChannelsTypeOK /\ TableInv
  BY DEF ChannelsIInv
<1>1. Out(c) \in Ends /\ In(c) \in Ends /\ Out(c)[1] = c /\ Creator[c] \in Peers /\ Other(q) \in Peers /\ s # NoStream
  BY EndFacts, PeerFacts
<1>2. CASE r = s
  <2>1. s % 2 = Parity(Creator[c])
    BY <1>0, <1>1 DEF TableInv
  <2>2. q = Creator[c]
    BY <1>1, <1>2, <2>1, PeerFacts
  <2>3. QED
    BY <1>2, <2>2
<1>3. CASE r # s
  <2> DEFINE f == wire[Other(q)][r]
             b == wire[q][r]
             o == mDataChannels[q][r]
             d == mDataChannels[Other(q)][r]
  <2>1. /\ f \in Seq(WireMessage) /\ o \in Ends \union {NoEnd}
        /\ d \in Ends \union {NoEnd} /\ end \in [Ends -> End]
    BY <1>0, <1>1, FieldFacts DEF ChannelsTypeOK
  <2>2. Stream(f, b, o, d, end)
    BY DEF StreamInv
  <2>3. end[Out(c)].stream # r /\ end[In(c)].stream # r
    <3>1. end[In(c)].stream # NoStream => end[In(c)].stream = s
      BY <1>0, <1>1 DEF TableInv
    <3>2. QED
      BY <1>3, <3>1, PeerFacts
  <2>4. \A p \in Peers : mDataChannels[p][r] # NoEnd => mDataChannels[p][r][1] \in Chans \ {c}
    <3> SUFFICES ASSUME NEW p \in Peers, mDataChannels[p][r] # NoEnd
        PROVE  mDataChannels[p][r][1] \in Chans \ {c}
      OBVIOUS
    <3>1. mDataChannels[p][r] \in Ends /\ end[mDataChannels[p][r]].stream = r
      BY <1>0, FieldFacts DEF TableInv
    <3>2. QED
      BY <2>3, <3>1, EndFacts
  <2>5. (o # NoEnd => SameFlags(end, end', o[1])) /\ (d # NoEnd => SameFlags(end, end', d[1]))
    BY <1>1, <2>4
  <2>6. Stream(f, b, o, d, end')
    <3> HIDE DEF f, b, o, d
    <3> QED
      BY <2>1, <2>2, <2>5, StreamFrame
  <2>7. QED
    BY <1>1, <1>3, <2>6
<1>4. QED
  BY <1>2, <1>3

(* A channel is opened.                                                        *)
LEMMA OpenKeeps ==
    ASSUME ChannelsIInv, NEW c \in Chans, OpenOut(Out(c)), end[Out(c)].stream # NoStream,
           UNCHANGED <<mDataChannels, closing, received, appClosed>>
    PROVE  /\ end' \in [Ends -> End] /\ wire' \in WireType /\ anomalies' \subseteq Anomalies
           /\ \A e \in Ends : /\ e # Out(c) => end'[e] = end[e]
                              /\ end[e].transport => end'[e].transport
                              /\ end'[e].created = end[e].created /\ end'[e].destroyed = end[e].destroyed
                              /\ end'[e].stream = end[e].stream
           /\ TableInv' /\ WireInv' /\ AppInv' /\ RaceInv'
<1> DEFINE p == Creator[c]
           s == end[Out(c)].stream
           m == Packet("OPEN", c)
<1>0. ChannelsTypeOK /\ TableInv /\ WireInv /\ AppInv /\ RaceInv
  BY DEF ChannelsIInv
<1>1. /\ Out(c) \in Ends /\ In(c) \in Ends /\ In(c) # Out(c) /\ Out(c) # NoEnd /\ Peer(Out(c)) = p /\ p \in Peers
      /\ Out(c)[1] = c /\ Other(p) \in Peers /\ Other(p) # p
  BY EndFacts, PeerFacts
<1>2. s \in ChannelStreams /\ wire \in WireType /\ m \in WireMessage /\ m.type = "OPEN" /\ m.chan = c
  BY <1>0, <1>1, FieldFacts DEF Packet, WireMessage
<1>3. /\ end' = [end EXCEPT ![Out(c)].transport = TRUE, ![Out(c)].opening = TRUE]
      /\ wire' = Put(wire, p, s, "OPEN", c)
      /\ anomalies' = anomalies \union (IF end[Out(c)].opening THEN {"doubleOpen"} ELSE {})
                                \union (IF end[Out(c)].closed \/ closing[Out(c)] = "without"
                                        THEN {"openDuringClose"} ELSE {})
  BY <1>1 DEF OpenOut
<1>4. /\ end' \in [Ends -> End] /\ end'[Out(c)].transport /\ end'[Out(c)].opening
      /\ end'[Out(c)].closed = end[Out(c)].closed
      /\ \A e \in Ends : /\ e # Out(c) => end'[e] = end[e]
                         /\ end'[e].created = end[e].created /\ end'[e].destroyed = end[e].destroyed
                         /\ end'[e].stream = end[e].stream /\ end'[e].closed = end[e].closed
  <2> DEFINE r == [end[Out(c)] EXCEPT !.transport = TRUE, !.opening = TRUE]
  <2>1. end \in [Ends -> End] /\ end[Out(c)] \in End
    BY <1>0, <1>1 DEF ChannelsTypeOK
  <2>2. end' = [end EXCEPT ![Out(c)] = r]
    BY <1>1, <1>3, <2>1
  <2>3. /\ r \in End /\ r.transport /\ r.opening /\ r.created = end[Out(c)].created
        /\ r.destroyed = end[Out(c)].destroyed /\ r.stream = end[Out(c)].stream /\ r.closed = end[Out(c)].closed
    BY <2>1 DEF End
  <2> HIDE DEF r
  <2>4. QED
    BY <1>1, <2>1, <2>2, <2>3
<1>5. /\ wire' \in WireType
      /\ wire'[Other(p)][s] = Append(wire[Other(p)][s], m)
      /\ \A q \in Peers, r \in ChannelStreams : q # Other(p) \/ r # s => wire'[q][r] = wire[q][r]
  <2> HIDE DEF p, s
  <2> QED
    BY <1>1, <1>2, <1>3, PutFacts
<1>6. anomalies' \subseteq Anomalies
  BY <1>0, <1>3 DEF ChannelsTypeOK, Anomalies
<1>7. \A x \in Chans : Out(x) \in Ends /\ In(x) \in Ends /\ In(x) # Out(c)
  BY EndFacts
<1>8. TableInv'
  <2>1. \A q \in Peers, r \in ChannelStreams : mDataChannels[q][r] \in Ends \union {NoEnd}
    BY <1>0, FieldFacts
  <2>2. \A x \in Chans \ {c} : Out(x) # Out(c)
    BY EndFacts
  <2>3. \A x \in Chans : /\ end'[Out(x)].transport <=> end'[Out(x)].opening
                         /\ end'[Out(x)].opening => end'[Out(x)].stream # NoStream
                         /\ end[Out(x)].opening => end'[Out(x)].opening
    BY <1>0, <1>4, <1>7, <2>2 DEF TableInv
  <2>4. QED
    BY <1>0, <1>4, <1>7, <2>1, <2>3 DEF TableInv
<1>9. WireInv'
  <2> SUFFICES ASSUME NEW q \in Peers, NEW r \in ChannelStreams, NEW i \in DOMAIN wire'[q][r]
      PROVE  /\ wire'[q][r][i].type # "RESET" => wire'[q][r][i].chan \in Chans
             /\ wire'[q][r][i].type = "OPEN" =>
                   /\ Other(Creator[wire'[q][r][i].chan]) = q
                   /\ end'[Out(wire'[q][r][i].chan)].stream = r
                   /\ end'[Out(wire'[q][r][i].chan)].opening
    BY DEF WireInv
  <2>0. \A x \in Chans : /\ end'[Out(x)].stream = end[Out(x)].stream
                         /\ end[Out(x)].opening => end'[Out(x)].opening
    <3>1. \A x \in Chans \ {c} : Out(x) # Out(c)
      BY EndFacts
    <3>2. QED
      BY <1>4, <1>7, <3>1
  <2>1. CASE i \in DOMAIN wire[q][r] /\ wire'[q][r][i] = wire[q][r][i]
    <3> DEFINE y == wire[q][r][i]
    <3>1. /\ y.type # "RESET" => y.chan \in Chans
          /\ y.type = "OPEN" => /\ Other(Creator[y.chan]) = q
                                /\ end[Out(y.chan)].stream = r /\ end[Out(y.chan)].opening
      BY <1>0, <2>1 DEF WireInv
    <3> HIDE DEF y
    <3>2. wire'[q][r][i] = y
      BY <2>1 DEF y
    <3>3. QED
      BY <2>0, <3>1, <3>2
  <2>2. CASE q = Other(p) /\ r = s /\ wire'[q][r][i] = m
    BY <1>2, <1>4, <1>7, <2>0, <2>2
  <2>3. \/ i \in DOMAIN wire[q][r] /\ wire'[q][r][i] = wire[q][r][i]
        \/ q = Other(p) /\ r = s /\ wire'[q][r][i] = m
    <3>1. CASE q = Other(p) /\ r = s
      <4> DEFINE w == wire[q][r]
      <4>1. w \in Seq(WireMessage) /\ wire'[q][r] = Append(w, m)
        BY <1>0, <1>5, <3>1, FieldFacts
      <4> HIDE DEF w, m
      <4>2. (i \in DOMAIN w /\ Append(w, m)[i] = w[i]) \/ Append(w, m)[i] = m
        <5>1. /\ Len(w) \in Nat /\ DOMAIN w = 1 .. Len(w) /\ DOMAIN Append(w, m) = 1 .. Len(w) + 1
              /\ \A j \in 1 .. Len(w) : Append(w, m)[j] = w[j]
              /\ Append(w, m)[Len(w) + 1] = m
          BY <1>2, <4>1, AppendFacts
        <5>2. i \in 1 .. Len(w) + 1
          BY <4>1, <5>1
        <5>3. QED
          BY <5>1, <5>2
      <4>3. QED
        BY <3>1, <4>1, <4>2 DEF w
    <3>2. CASE ~(q = Other(p) /\ r = s)
      <4>1. wire'[q][r] = wire[q][r]
        BY <1>5, <3>2
      <4>2. QED
        BY <4>1
    <3>3. QED
      BY <3>1, <3>2
  <2>4. QED
    BY <2>1, <2>2, <2>3
<1>10. \A e \in Ends : end[e].transport => end'[e].transport
  BY <1>4
<1>11. AppInv'
  BY <1>0, <1>10 DEF AppInv
<1>12. RaceInv'
  <2> SUFFICES ASSUME NoRace'
      PROVE  /\ \A e \in Ends : closing'[e] = "without" => ~end'[e].transport
             /\ StreamInv' /\ NoCrossTalk' /\ ClosedOnlyByApp'
    BY DEF RaceInv
  <2>1. NoRace /\ ~end[Out(c)].opening /\ ~end[Out(c)].closed /\ closing[Out(c)] # "without"
    BY <1>3 DEF NoRace
  <2>2. /\ \A e \in Ends : closing[e] = "without" => ~end[e].transport
        /\ StreamInv /\ NoCrossTalk /\ ClosedOnlyByApp
    BY <1>0, <2>1 DEF RaceInv
  <2>3. NoCrossTalk' /\ ClosedOnlyByApp'
    BY <1>4, <2>1, <2>2 DEF NoCrossTalk, ClosedOnlyByApp
  <2>4. \A e \in Ends : closing'[e] = "without" => ~end'[e].transport
    BY <1>4, <2>1, <2>2
  <2>5. mDataChannels[p][s] = Out(c) /\ ~end[In(c)].created
    BY <1>0, <1>1, <2>1 DEF TableInv
  <2>6. \A x \in Chans \ {c} : SameFlags(end, end', x)
    <3>1. \A x \in Chans \ {c} : Out(x) # Out(c)
      BY EndFacts
    <3>2. QED
      BY <1>4, <1>7, <3>1 DEF SameFlags
  <2>7. Stream(Append(wire[Other(p)][s], m), wire[p][s], Out(c), mDataChannels[Other(p)][s], end')
    <3> DEFINE f == wire[Other(p)][s]
               b == wire[p][s]
               d == mDataChannels[Other(p)][s]
    <3>1. f \in Seq(WireMessage) /\ b \in Seq(WireMessage) /\ d \in Ends \union {NoEnd} /\ end \in [Ends -> End]
      BY <1>0, <1>1, <1>2, FieldFacts DEF ChannelsTypeOK
    <3>2. Stream(f, b, Out(c), d, end)
      <4>1. s % 2 = Parity(p)
        BY <1>0, <1>1 DEF TableInv
      <4>2. QED
        BY <1>1, <1>2, <2>2, <2>5, <4>1 DEF StreamInv
    <3>3. /\ ~end[Out(c)].opening /\ ~end[Out(c)].closed /\ ~end[In(c)].created
          /\ end'[Out(c)].opening /\ ~end'[Out(c)].closed /\ ~end'[In(c)].created
      BY <1>1, <1>4, <2>1, <2>5
    <3> HIDE DEF f, b, d
    <3>4. Stream(Append(f, Packet("OPEN", c)), b, Out(c), d, end')
      BY <1>4, <2>6, <3>1, <3>2, <3>3, StreamOpened
    <3>5. QED
      BY <3>4 DEF f, b, d
  <2>8. StreamInv'
    <3>1. Stream(wire'[Other(p)][s], wire'[p][s], mDataChannels'[p][s], mDataChannels'[Other(p)][s], end')
      <4>1. wire'[p][s] = wire[p][s]
        BY <1>1, <1>2, <1>5
      <4>2. QED
        BY <1>5, <2>5, <2>7, <4>1
    <3>2. \A q \in Peers, r \in ChannelStreams : r # s =>
               wire'[q][r] = wire[q][r] /\ mDataChannels'[q][r] = mDataChannels[q][r]
      BY <1>5
    <3>3. QED
      BY <1>2, <1>4, <2>2, <2>6, <3>1, <3>2, StreamsStep
  <2>9. QED
    BY <2>3, <2>4, <2>8
<1>13. QED
  BY <1>4, <1>5, <1>6, <1>8, <1>9, <1>10, <1>11, <1>12

(* createDataChannel() opens the channel.                                    *)
LEMMA CreateOpensInv ==
    ASSUME ChannelsIInv, NEW p \in Peers, CreateOpens(p)
    PROVE  ChannelsIInv'
<1> DEFINE c == creating[p][1]
<1>0. ChannelsTypeOK /\ TableInv /\ ListInv /\ JobInv
  BY DEF ChannelsIInv
<1>1. /\ UNCHANGED <<sctp, callback, job, todo, mUnassignedDataChannels, mDataChannels, closing, sending,
                     received, appClosed>>
      /\ creating[p] # NoEnd /\ creating[p][2] = "assigned" /\ OpenOut(Out(c))
      /\ creating' = [creating EXCEPT ![p] = NoEnd]
  BY DEF CreateOpens, Out, tables
<1>2. /\ c \in Chans /\ Out(c) \in Ends /\ Creator[c] = p /\ Out(c)[1] = c
      /\ end[Out(c)].stream # NoStream /\ ~end[Out(c)].destroyed
  <2>1. c \in Chans
    BY <1>0, <1>1 DEF ChannelsTypeOK
  <2>2. QED
    BY <1>0, <1>1, <2>1, EndFacts DEF ListInv
<1>3. /\ end' \in [Ends -> End] /\ wire' \in WireType /\ anomalies' \subseteq Anomalies
      /\ \A e \in Ends : /\ e # Out(c) => end'[e] = end[e]
                         /\ end[e].transport => end'[e].transport
                         /\ end'[e].created = end[e].created /\ end'[e].destroyed = end[e].destroyed
                         /\ end'[e].stream = end[e].stream
      /\ TableInv' /\ WireInv' /\ AppInv' /\ RaceInv'
  <2> HIDE DEF c
  <2> QED
    BY <1>1, <1>2, OpenKeeps
<1>4. /\ creating'[p] = NoEnd /\ \A q \in Peers \ {p} : creating'[q] = creating[q]
      /\ creating' \in [Peers -> (Chans \X {"emplaced", "assigned"}) \union {NoEnd}]
  BY <1>0, <1>1 DEF ChannelsTypeOK
<1>5. ChannelsTypeOK'
  BY <1>0, <1>1, <1>3, <1>4 DEF ChannelsTypeOK, WireType
<1>6. /\ \A q \in Peers : \A i \in DOMAIN mUnassignedDataChannels[q] :
            mUnassignedDataChannels[q][i] \in Chans /\ Out(mUnassignedDataChannels[q][i]) \in Ends
      /\ \A q \in Peers : creating[q] # NoEnd => creating[q][1] \in Chans /\ Out(creating[q][1]) \in Ends
      /\ \A q \in Peers : \A e \in todo[q] : e \in Ends
      /\ \A x \in Chans : Out(x) \in Ends /\ (x # c => Out(x) # Out(c))
  <2>1. \A x \in Chans : Out(x) \in Ends /\ (x # c => Out(x) # Out(c))
    BY <1>2, EndFacts
  <2>2. QED
    BY <1>0, <2>1 DEF ChannelsTypeOK
<1>7. ListInv'
  <2> HIDE DEF c
  <2>1. \A q \in Peers : creating'[q] # NoEnd => creating'[q] = creating[q]
    BY <1>4
  <2>2. QED
    BY <1>0, <1>1, <1>3, <1>6, <2>1 DEF ListInv
<1>8. JobInv'
  <2>1. ASSUME NEW q \in Peers, job'[q] # "none", NEW i \in DOMAIN mUnassignedDataChannels'[q]
        PROVE  \/ end'[Out(mUnassignedDataChannels'[q][i])].destroyed
               \/ /\ end'[Out(mUnassignedDataChannels'[q][i])].stream = NoStream
                  /\ creating'[q] = <<mUnassignedDataChannels'[q][i], "emplaced">>
    <3> DEFINE y == mUnassignedDataChannels[q][i]
    <3>1. y \in Chans /\ Out(y) \in Ends /\ mUnassignedDataChannels'[q] = mUnassignedDataChannels[q]
      BY <1>1, <1>6, <2>1
    <3>2. end[Out(y)].destroyed \/ (end[Out(y)].stream = NoStream /\ creating[q] = <<y, "emplaced">>)
      BY <1>0, <1>1, <2>1, <3>1 DEF JobInv
    <3>3. q = p => creating[q] # <<y, "emplaced">>
      BY <1>1
    <3>4. QED
      BY <1>3, <1>4, <3>1, <3>2, <3>3
  <2>2. ASSUME NEW q \in Peers, creating'[q] # NoEnd, end'[Out(creating'[q][1])].opening
        PROVE  job'[q] # "none"
    <3>1. q # p /\ creating'[q] = creating[q] /\ creating[q] # NoEnd
      BY <1>4, <2>2
    <3>2. creating[q][1] # c /\ creating[q][1] \in Chans
      BY <1>0, <1>2, <1>6, <3>1 DEF ListInv
    <3>3. end[Out(creating[q][1])].opening
      BY <1>3, <1>6, <2>2, <3>1, <3>2
    <3>4. QED
      BY <1>0, <1>1, <3>1, <3>3 DEF JobInv
  <2>3. ASSUME NEW x \in Chans, end'[Out(x)].opening PROVE ~end'[Out(x)].destroyed
    <3>1. CASE x = c
      BY <1>2, <1>3, <3>1
    <3>2. CASE x # c
      BY <1>0, <1>3, <1>6, <2>3, <3>2 DEF JobInv
    <3>3. QED
      BY <3>1, <3>2
  <2>4. /\ \A q \in Peers : todo'[q] # {} => job'[q] = "running"
        /\ \A q \in Peers : sctp'[q] # "Connected" => callback'[q] = "idle"
        /\ \A q \in Peers : callback'[q] # "done" => job'[q] = "none"
    BY <1>0, <1>1 DEF JobInv
  <2>5. QED
    BY <2>1, <2>2, <2>3, <2>4 DEF JobInv
<1>9. QED
  BY <1>3, <1>5, <1>7, <1>8 DEF ChannelsIInv

(* The job opens a channel that is not open by then.                         *)
LEMMA JobOpensInv ==
    ASSUME ChannelsIInv, NEW p \in Peers, JobOpens(p)
    PROVE  ChannelsIInv'
<1>0. ChannelsTypeOK /\ TableInv /\ ListInv /\ JobInv /\ AppInv
  BY DEF ChannelsIInv
<1>1. PICK e \in todo[p] :
      /\ todo' = [todo EXCEPT ![p] = @ \ {e}]
      /\ \/ e[2] = "out" /\ OpenOut(e)
         \/ UNCHANGED <<end, wire, anomalies>>
      /\ UNCHANGED <<sctp, callback, job, creating, mUnassignedDataChannels, mDataChannels, closing, sending,
                     received, appClosed>>
  BY DEF JobOpens, tables
<1>2. e \in Ends /\ Peer(e) = p /\ end[e].stream # NoStream /\ ~end[e].destroyed /\ job[p] = "running"
  BY <1>0 DEF ChannelsTypeOK, ListInv, JobInv
<1>3. /\ todo' \in [Peers -> SUBSET Ends]
      /\ \A q \in Peers : todo'[q] \subseteq todo[q]
  BY <1>0, <1>1 DEF ChannelsTypeOK
<1>4. CASE UNCHANGED <<end, wire, anomalies>>
  <2>1. TableInv' /\ WireInv' /\ RaceInv'
    BY <1>1, <1>4, QuietKeeps
  <2>2. ChannelsTypeOK'
    BY <1>0, <1>1, <1>3, <1>4 DEF ChannelsTypeOK
  <2>3. ListInv'
    BY <1>0, <1>1, <1>3, <1>4 DEF ListInv
  <2>4. JobInv'
    BY <1>0, <1>1, <1>3, <1>4 DEF JobInv
  <2>5. AppInv'
    BY <1>0, <1>1, <1>4 DEF AppInv
  <2>6. QED
    BY <2>1, <2>2, <2>3, <2>4, <2>5 DEF ChannelsIInv
<1>5. CASE e[2] = "out" /\ OpenOut(e)
  <2> DEFINE c == e[1]
  <2>1. e = Out(c) /\ c \in Chans /\ Creator[c] = p
    BY <1>2, <1>5, EndFacts
  <2> HIDE DEF c
  <2>2. /\ end' \in [Ends -> End] /\ wire' \in WireType /\ anomalies' \subseteq Anomalies
        /\ \A f \in Ends : /\ f # Out(c) => end'[f] = end[f]
                           /\ end[f].transport => end'[f].transport
                           /\ end'[f].created = end[f].created /\ end'[f].destroyed = end[f].destroyed
                           /\ end'[f].stream = end[f].stream
        /\ TableInv' /\ WireInv' /\ AppInv' /\ RaceInv'
    BY <1>1, <1>2, <1>5, <2>1, OpenKeeps
  <2>3. ChannelsTypeOK'
    BY <1>0, <1>1, <1>3, <2>2 DEF ChannelsTypeOK, WireType
  <2>4. /\ \A q \in Peers : \A i \in DOMAIN mUnassignedDataChannels[q] :
              mUnassignedDataChannels[q][i] \in Chans /\ Out(mUnassignedDataChannels[q][i]) \in Ends
        /\ \A q \in Peers : creating[q] # NoEnd => creating[q][1] \in Chans /\ Out(creating[q][1]) \in Ends
        /\ \A q \in Peers : \A f \in todo[q] : f \in Ends
        /\ \A x \in Chans : Out(x) \in Ends /\ (x # c => Out(x) # Out(c))
    <3>1. \A x \in Chans : Out(x) \in Ends /\ (x # c => Out(x) # Out(c))
      BY <2>1, EndFacts
    <3>2. QED
      BY <1>0, <3>1 DEF ChannelsTypeOK
  <2>5. ListInv'
    <3>1. \A q \in Peers : \A f \in todo'[q] : f \in todo[q] /\ f \in Ends
      BY <1>3, <2>4
    <3>2. QED
      BY <1>0, <1>1, <2>2, <2>4, <3>1 DEF ListInv
  <2>6. JobInv'
    <3>1. \A q \in Peers : job'[q] # "none" => \A i \in DOMAIN mUnassignedDataChannels'[q] :
            \/ end'[Out(mUnassignedDataChannels'[q][i])].destroyed
            \/ /\ end'[Out(mUnassignedDataChannels'[q][i])].stream = NoStream
               /\ creating'[q] = <<mUnassignedDataChannels'[q][i], "emplaced">>
      BY <1>0, <1>1, <2>2, <2>4 DEF JobInv
    <3>2. ASSUME NEW q \in Peers, creating'[q] # NoEnd, end'[Out(creating'[q][1])].opening
          PROVE  job'[q] # "none"
      <4>1. creating[q] # NoEnd /\ creating'[q] = creating[q] /\ creating[q][1] \in Chans
        BY <1>1, <2>4, <3>2
      <4>2. CASE creating[q][1] = c
        <5>1. q = p
          BY <1>0, <2>1, <4>1, <4>2 DEF ListInv
        <5>2. QED
          BY <1>1, <1>2, <5>1
      <4>3. CASE creating[q][1] # c
        <5>1. end[Out(creating[q][1])].opening
          BY <2>2, <2>4, <3>2, <4>1, <4>3
        <5>2. QED
          BY <1>0, <1>1, <4>1, <5>1 DEF JobInv
      <4>4. QED
        BY <4>2, <4>3
    <3>3. ASSUME NEW x \in Chans, end'[Out(x)].opening PROVE ~end'[Out(x)].destroyed
      <4>1. CASE x = c
        BY <1>2, <2>1, <2>2, <4>1
      <4>2. CASE x # c
        BY <1>0, <2>2, <2>4, <3>3, <4>2 DEF JobInv
      <4>3. QED
        BY <4>1, <4>2
    <3>4. /\ \A q \in Peers : todo'[q] # {} => job'[q] = "running"
          /\ \A q \in Peers : sctp'[q] # "Connected" => callback'[q] = "idle"
          /\ \A q \in Peers : callback'[q] # "done" => job'[q] = "none"
      BY <1>0, <1>1, <1>3 DEF JobInv
    <3>5. QED
      BY <3>1, <3>2, <3>3, <3>4 DEF JobInv
  <2>7. QED
    BY <2>2, <2>3, <2>5, <2>6 DEF ChannelsIInv
<1>6. QED
  BY <1>1, <1>4, <1>5

(* A message that is not the open message of a channel.                        *)
Plain(m) == m \in WireMessage /\ m.type # "OPEN" /\ (m.type # "RESET" => m.chan \in Chans)

(* The messages of v are messages of w or no open messages.                  *)
OldOrPlain(v, w) == \A i \in DOMAIN v : (\E j \in DOMAIN w : v[i] = w[j]) \/ Plain(v[i])

(* So it is after a message is appended or taken.                            *)
LEMMA OldOrPlainFacts ==
    ASSUME NEW w \in Seq(WireMessage)
    PROVE  /\ OldOrPlain(w, w)
           /\ \A m : Plain(m) => OldOrPlain(Append(w, m), w)
           /\ w # <<>> => OldOrPlain(Tail(w), w)
<1>1. OldOrPlain(w, w)
  BY DEF OldOrPlain
<1>2. ASSUME NEW m, Plain(m) PROVE OldOrPlain(Append(w, m), w)
  <2>1. /\ Len(w) \in Nat /\ DOMAIN w = 1 .. Len(w) /\ DOMAIN Append(w, m) = 1 .. Len(w) + 1
        /\ \A j \in 1 .. Len(w) : Append(w, m)[j] = w[j]
        /\ Append(w, m)[Len(w) + 1] = m
    <3>1. m \in WireMessage
      BY <1>2 DEF Plain
    <3>2. QED
      BY <3>1, AppendFacts
  <2>2. ASSUME NEW i \in 1 .. Len(w) + 1
        PROVE  (\E j \in DOMAIN w : Append(w, m)[i] = w[j]) \/ Plain(Append(w, m)[i])
    <3>1. i \in 1 .. Len(w) \/ i = Len(w) + 1
      BY <2>1
    <3>2. QED
      BY <1>2, <2>1, <3>1
  <2>3. QED
    BY <2>1, <2>2 DEF OldOrPlain
<1>3. ASSUME w # <<>> PROVE OldOrPlain(Tail(w), w)
  <2>1. /\ Len(w) \in Nat /\ Len(w) >= 1 /\ DOMAIN w = 1 .. Len(w) /\ DOMAIN Tail(w) = 1 .. Len(w) - 1
        /\ \A i \in 1 .. Len(w) - 1 : Tail(w)[i] = w[i + 1]
    BY <1>3, TailFacts
  <2>2. \A i \in 1 .. Len(w) - 1 : i + 1 \in 1 .. Len(w)
    BY <2>1
  <2>3. QED
    BY <2>1, <2>2 DEF OldOrPlain
<1>4. QED
  BY <1>1, <1>2, <1>3

(* Such steps keep what the open messages under way say.                     *)
LEMMA WireStep ==
    ASSUME WireInv, \A q \in Peers, r \in ChannelStreams : OldOrPlain(wire'[q][r], wire[q][r]),
           \A x \in Chans : /\ end'[Out(x)].stream = end[Out(x)].stream
                            /\ end[Out(x)].opening => end'[Out(x)].opening
    PROVE  WireInv'
<1> SUFFICES ASSUME NEW q \in Peers, NEW r \in ChannelStreams, NEW i \in DOMAIN wire'[q][r]
    PROVE  /\ wire'[q][r][i].type # "RESET" => wire'[q][r][i].chan \in Chans
           /\ wire'[q][r][i].type = "OPEN" =>
                 /\ Other(Creator[wire'[q][r][i].chan]) = q
                 /\ end'[Out(wire'[q][r][i].chan)].stream = r
                 /\ end'[Out(wire'[q][r][i].chan)].opening
  BY DEF WireInv
<1> DEFINE m == wire'[q][r][i]
<1>1. (\E j \in DOMAIN wire[q][r] : m = wire[q][r][j]) \/ Plain(m)
  BY DEF OldOrPlain
<1>2. CASE Plain(m)
  BY <1>2 DEF Plain
<1>3. ASSUME NEW j \in DOMAIN wire[q][r], m = wire[q][r][j]
      PROVE  /\ m.type # "RESET" => m.chan \in Chans
             /\ m.type = "OPEN" => /\ Other(Creator[m.chan]) = q
                                   /\ end'[Out(m.chan)].stream = r /\ end'[Out(m.chan)].opening
  <2>1. /\ m.type # "RESET" => m.chan \in Chans
        /\ m.type = "OPEN" => /\ Other(Creator[m.chan]) = q
                              /\ end[Out(m.chan)].stream = r /\ end[Out(m.chan)].opening
    BY <1>3 DEF WireInv
  <2> HIDE DEF m
  <2>2. QED
    BY <2>1
<1>4. QED
  BY <1>1, <1>2, <1>3

-----------------------------------------------------------------------------
(* The steps that close and send.                                            *)

(* A step that at most closes ends, takes closed ones from the tables and ends *)
(* calls of close() and send().                                                *)
AtMostCloses ==
    /\ end' \in [Ends -> End]
    /\ mDataChannels' \in [Peers -> [ChannelStreams -> Ends \union {NoEnd}]]
    /\ \A e \in Ends :
          /\ end'[e].created = end[e].created /\ end'[e].destroyed = end[e].destroyed
          /\ end'[e].opening = end[e].opening /\ end'[e].transport = end[e].transport
          /\ end'[e].stream = end[e].stream
          /\ end[e].closed => end'[e].closed
    /\ \A q \in Peers, r \in ChannelStreams :
          \/ mDataChannels'[q][r] = mDataChannels[q][r]
          \/ mDataChannels'[q][r] = NoEnd /\ mDataChannels[q][r] # NoEnd /\ end'[mDataChannels[q][r]].closed
    /\ UNCHANGED <<sctp, callback, job, todo, creating, mUnassignedDataChannels, appClosed>>
    /\ sending' \in [Ends -> {"no", "checked", "done"}]
    /\ \A e \in Ends : sending'[e] = "checked" => sending[e] = "checked"
    /\ closing' \in [Ends -> {"no", "without", "with", "done"}]
    /\ \A e \in Ends : closing'[e] = closing[e] \/ (closing'[e] = "done" /\ closing[e] # "no")

(* All but the messages is kept by it.                                       *)
LEMMA AtMostClosesKeeps ==
    ASSUME ChannelsIInv, AtMostCloses
    PROVE  TableInv' /\ ListInv' /\ JobInv' /\ AppInv'
<1> USE DEF AtMostCloses
<1>0. ChannelsTypeOK /\ TableInv /\ ListInv /\ JobInv /\ AppInv
  BY DEF ChannelsIInv
<1>1. \A x \in Chans : Out(x) \in Ends /\ In(x) \in Ends
  BY EndFacts
<1>2. \A q \in Peers, r \in ChannelStreams : mDataChannels[q][r] \in Ends \union {NoEnd}
  BY <1>0, FieldFacts
<1>3. TableInv'
  <2>1. ASSUME NEW q \in Peers, NEW r \in ChannelStreams, mDataChannels'[q][r] # NoEnd
        PROVE  Peer(mDataChannels'[q][r]) = q /\ end'[mDataChannels'[q][r]].stream = r
    BY <1>0, <1>2, <2>1 DEF TableInv
  <2>2. ASSUME NEW e \in Ends, end'[e].stream # NoStream
        PROVE  /\ end'[e].created /\ end'[e].stream % 2 = Parity(Creator[e[1]])
               /\ ~end'[e].closed => mDataChannels'[Peer(e)][end'[e].stream] = e
    <3>1. /\ end[e].created /\ end[e].stream % 2 = Parity(Creator[e[1]])
          /\ ~end[e].closed => mDataChannels[Peer(e)][end[e].stream] = e
      BY <1>0, <2>2 DEF TableInv
    <3>2. Peer(e) \in Peers /\ end[e].stream \in ChannelStreams
      BY <1>0, <2>2, EndFacts, FieldFacts
    <3>3. QED
      BY <3>1, <3>2
  <2>3. QED
    BY <1>0, <1>1, <2>1, <2>2, SMTT(30) DEF TableInv
<1>4. /\ \A q \in Peers : \A i \in DOMAIN mUnassignedDataChannels[q] :
            mUnassignedDataChannels[q][i] \in Chans /\ Out(mUnassignedDataChannels[q][i]) \in Ends
      /\ \A q \in Peers : creating[q] # NoEnd => creating[q][1] \in Chans /\ Out(creating[q][1]) \in Ends
      /\ \A q \in Peers : \A e \in todo[q] : e \in Ends
  BY <1>0, <1>1 DEF ChannelsTypeOK
<1>5. ListInv'
  BY <1>0, <1>4 DEF ListInv
<1>6. JobInv'
  BY <1>0, <1>1, <1>4 DEF JobInv
<1>7. AppInv'
  BY <1>0, <1>1 DEF AppInv
<1>8. QED
  BY <1>3, <1>5, <1>6, <1>7

(* The streams when nothing, or a channel that was not opened, is closed.      *)
LEMMA StreamsDrop ==
    ASSUME ChannelsIInv, StreamInv, end' \in [Ends -> End], UNCHANGED <<wire, mDataChannels>>,
           \/ \A x \in Chans : SameFlags(end, end', x)
           \/ \E c \in Chans : /\ ~end[Out(c)].opening /\ ~end'[Out(c)].opening
                               /\ ~end[In(c)].created /\ ~end'[In(c)].created
                               /\ \A x \in Chans \ {c} : SameFlags(end, end', x)
    PROVE  StreamInv'
<1> SUFFICES ASSUME NEW q \in Peers, NEW r \in ChannelStreams, r % 2 = Parity(q)
    PROVE  Stream(wire[Other(q)][r], wire[q][r], mDataChannels[q][r], mDataChannels[Other(q)][r], end')
  BY DEF StreamInv
<1> DEFINE f == wire[Other(q)][r]
           b == wire[q][r]
           o == mDataChannels[q][r]
           d == mDataChannels[Other(q)][r]
<1>1. /\ f \in Seq(WireMessage) /\ b \in Seq(WireMessage) /\ o \in Ends \union {NoEnd}
      /\ d \in Ends \union {NoEnd} /\ end \in [Ends -> End]
  BY FieldFacts, PeerFacts DEF ChannelsTypeOK, ChannelsIInv
<1>2. Stream(f, b, o, d, end)
  BY DEF StreamInv
<1> HIDE DEF f, b, o, d
<1>3. Stream(f, b, o, d, end')
  <2>1. CASE \A x \in Chans : SameFlags(end, end', x)
    <3>1. (o # NoEnd => SameFlags(end, end', o[1])) /\ (d # NoEnd => SameFlags(end, end', d[1]))
      BY <1>1, <2>1, EndFacts
    <3>2. QED
      BY <1>1, <1>2, <3>1, StreamFrame
  <2>2. ASSUME NEW c \in Chans, ~end[Out(c)].opening, ~end'[Out(c)].opening,
               ~end[In(c)].created, ~end'[In(c)].created,
               \A x \in Chans \ {c} : SameFlags(end, end', x)
        PROVE  Stream(f, b, o, d, end')
    BY <1>1, <1>2, <2>2, StreamOutDrops
  <2>3. QED
    BY <2>1, <2>2
<1>4. QED
  BY <1>3 DEF f, b, o, d

(* An end e that is in use puts data or, closing, a reset on its stream.       *)
LEMMA StreamsPut ==
    ASSUME ChannelsIInv, StreamInv, NEW e \in Ends, end[e].transport, ~end[e].closed,
           NEW t, NEW x, Packet(t, x) \in WireMessage,
           wire' = Put(wire, Peer(e), end[e].stream, t, x), UNCHANGED mDataChannels,
           end' \in [Ends -> End], \A f \in Ends \ {e} : end'[f] = end[f],
           end'[e].opening = end[e].opening, end'[e].created = end[e].created,
           \/ t = "DATA" /\ x = e[1] /\ ~end'[e].closed
           \/ t = "RESET" /\ end'[e].closed
    PROVE  StreamInv'
<1> DEFINE c == e[1]
           p == Creator[c]
           s == end[e].stream
           m == Packet(t, x)
           f == wire[Other(p)][s]
           b == wire[p][s]
           o == mDataChannels[p][s]
           d == mDataChannels[Other(p)][s]
<1>0. ChannelsTypeOK /\ TableInv
  BY DEF ChannelsIInv
<1>1. /\ c \in Chans /\ Out(c) \in Ends /\ In(c) \in Ends /\ In(c) # Out(c) /\ (e = Out(c) \/ e = In(c)) /\ p \in Peers
      /\ Other(p) \in Peers /\ Other(Other(p)) = p /\ Other(p) # p /\ NoStream \notin ChannelStreams
      /\ Peer(Out(c)) = p /\ Peer(In(c)) = Other(p)
  BY EndFacts, PeerFacts
<1>2. end[Out(c)].opening /\ end[Out(c)].stream = s /\ s # NoStream /\ s \in ChannelStreams
  <2>1. CASE e = Out(c)
    BY <1>0, <1>1, <2>1, FieldFacts DEF TableInv
  <2>2. CASE e = In(c)
    BY <1>0, <1>1, <2>2, FieldFacts DEF TableInv
  <2>3. QED
    BY <1>1, <2>1, <2>2
<1>3. mDataChannels[Peer(e)][s] = e
  BY <1>0, <1>2 DEF TableInv
<1>4. /\ wire[p][s] \in Seq(WireMessage) /\ wire[Other(p)][s] \in Seq(WireMessage)
      /\ o \in Ends \union {NoEnd} /\ d \in Ends \union {NoEnd} /\ end \in [Ends -> End] /\ wire \in WireType
  BY <1>0, <1>1, <1>2, FieldFacts DEF ChannelsTypeOK
<1>5. Peer(e) \in Peers /\ m.type = t /\ m.chan = x
  BY EndFacts DEF Packet
<1>6. /\ wire'[Other(Peer(e))][s] = Append(wire[Other(Peer(e))][s], m)
      /\ \A q \in Peers, r \in ChannelStreams : q # Other(Peer(e)) \/ r # s => wire'[q][r] = wire[q][r]
  <2> HIDE DEF s
  <2>1. wire' = Put(wire, Peer(e), s, t, x)
    BY DEF s
  <2>2. QED
    BY <1>2, <1>4, <1>5, <2>1, PutFacts
<1>7. \A y \in Chans \ {c} : SameFlags(end, end', y)
  <2>1. \A y \in Chans \ {c} : Out(y) \in Ends \ {e} /\ In(y) \in Ends \ {e}
    BY EndFacts
  <2>2. QED
    BY <2>1 DEF SameFlags
<1>8. Stream(f, b, o, d, end)
  <2>1. s % 2 = Parity(p)
    BY <1>0, <1>1, <1>2 DEF TableInv
  <2>2. QED
    BY <1>1, <1>2, <2>1 DEF StreamInv
<1>9. Stream(wire'[Other(p)][s], wire'[p][s], mDataChannels'[p][s], mDataChannels'[Other(p)][s], end')
  <2>1. CASE e = Out(c)
    <3>1. wire'[Other(p)][s] = Append(f, m) /\ wire'[p][s] = b /\ o = Out(c)
      <4>1. Peer(e) = p
        BY <1>1, <2>1
      <4> HIDE DEF p, s, m
      <4>2. wire'[Other(p)][s] = Append(f, m)
        BY <1>6, <4>1
      <4>3. wire'[p][s] = b
        BY <1>1, <1>2, <1>6, <4>1
      <4>4. o = Out(c)
        BY <1>3, <2>1, <4>1
      <4> QED
        BY <4>2, <4>3, <4>4
    <3>2. /\ end[Out(c)].opening /\ ~end[Out(c)].closed /\ end'[Out(c)].opening
          /\ end'[In(c)] = end[In(c)]
      BY <1>1, <1>2, <2>1
    <3>3. \/ m.type = "DATA" /\ m.chan = c /\ ~end'[Out(c)].closed
          \/ m.type = "RESET" /\ end'[Out(c)].closed
      BY <1>5, <2>1
    <3>4. Stream(f, b, Out(c), d, end)
      BY <1>8, <3>1
    <3> HIDE DEF f, b, d, o, m, c
    <3>5. Stream(Append(f, m), b, Out(c), d, end')
      <4>1. f \in Seq(WireMessage) /\ b \in Seq(WireMessage) /\ m \in WireMessage
        BY <1>4 DEF f, b, m
      <4>2. QED
        BY <1>1, <1>4, <1>7, <3>2, <3>3, <3>4, <4>1, StreamOutPuts
    <3>6. QED
      BY <3>1, <3>5 DEF o, d
  <2>2. CASE e = In(c)
    <3>0. Peer(e) = Other(p) /\ Other(Peer(e)) = p
      BY <1>1, <2>2
    <3>1. wire'[p][s] = Append(b, m) /\ wire'[Other(p)][s] = f /\ d = In(c)
      <4> HIDE DEF m, s, p
      <4> QED
        BY <1>1, <1>2, <1>3, <1>6, <2>2, <3>0
    <3>2. /\ ~end[In(c)].closed /\ end'[In(c)].created = end[In(c)].created
          /\ end'[Out(c)] = end[Out(c)]
      BY <1>1, <1>2, <2>2
    <3>3. \/ m.type = "DATA" /\ m.chan = c /\ ~end'[In(c)].closed
          \/ m.type = "RESET" /\ end'[In(c)].closed
      BY <1>5, <2>2
    <3>4. Stream(f, b, o, In(c), end)
      BY <1>8, <3>1
    <3> HIDE DEF f, b, d, o, m, c
    <3>5. Stream(f, Append(b, m), o, In(c), end')
      <4>1. f \in Seq(WireMessage) /\ b \in Seq(WireMessage) /\ m \in WireMessage
        BY <1>4 DEF f, b, m
      <4>2. QED
        BY <1>1, <1>4, <1>7, <3>2, <3>3, <3>4, <4>1, StreamInPuts
    <3>6. QED
      BY <3>1, <3>5 DEF o, d
  <2>3. QED
    BY <1>1, <2>1, <2>2
<1>10. \A q \in Peers, r \in ChannelStreams : r # s =>
               wire'[q][r] = wire[q][r] /\ mDataChannels'[q][r] = mDataChannels[q][r]
  BY <1>6
<1>11. QED
  <2> HIDE DEF c, s
  <2>1. c \in Chans /\ s \in ChannelStreams /\ end[Out(c)].stream = s
    BY <1>1, <1>2
  <2>2. QED
    BY <1>7, <1>9, <1>10, <2>1, StreamsStep

(* A message other than an open message is put on a stream.                  *)
LEMMA PutPlain ==
    ASSUME ChannelsIInv, NEW p \in Peers, NEW s \in ChannelStreams, NEW t, NEW c, Plain(Packet(t, c)),
           wire' = Put(wire, p, s, t, c)
    PROVE  wire' \in WireType /\ \A q \in Peers, r \in ChannelStreams : OldOrPlain(wire'[q][r], wire[q][r])
<1>1. wire \in WireType /\ \A q \in Peers, r \in ChannelStreams : wire[q][r] \in Seq(WireMessage)
  BY FieldFacts DEF ChannelsIInv
<1>2. Packet(t, c) \in WireMessage
  BY DEF Plain
<1>3. /\ wire' \in WireType
      /\ wire'[Other(p)][s] = Append(wire[Other(p)][s], Packet(t, c))
      /\ \A q \in Peers, r \in ChannelStreams : q # Other(p) \/ r # s => wire'[q][r] = wire[q][r]
  BY <1>1, <1>2, PutFacts
<1>4. ASSUME NEW q \in Peers, NEW r \in ChannelStreams PROVE OldOrPlain(wire'[q][r], wire[q][r])
  <2>1. CASE q = Other(p) /\ r = s
    BY <1>1, <1>3, <2>1, OldOrPlainFacts
  <2>2. CASE ~(q = Other(p) /\ r = s)
    <3>1. wire'[q][r] = wire[q][r]
      BY <1>3, <2>2
    <3>2. QED
      BY <1>1, <3>1, OldOrPlainFacts
  <2>3. QED
    BY <2>1, <2>2
<1>5. QED
  BY <1>3, <1>4

(* send() sends the message, perhaps after a close().                        *)
LEMMA SendEndsInv ==
    ASSUME ChannelsIInv, NEW e \in Ends, SendEnds(e)
    PROVE  ChannelsIInv'
<1> DEFINE s == end[e].stream
<1>0. ChannelsTypeOK /\ TableInv /\ ListInv /\ WireInv /\ RaceInv
  BY DEF ChannelsIInv
<1>1. /\ sending[e] = "checked" /\ sending' = [sending EXCEPT ![e] = "done"]
      /\ wire' = Put(wire, Peer(e), s, "DATA", e[1])
      /\ anomalies' = anomalies \union (IF end[e].closed THEN {"sendAfterClose"} ELSE {})
      /\ UNCHANGED <<sctp, callback, job, todo, creating, mUnassignedDataChannels, mDataChannels, end, closing,
                     received, appClosed>>
  BY DEF SendEnds, tables
<1>2. end[e].transport /\ s # NoStream /\ s \in ChannelStreams /\ Peer(e) \in Peers /\ e[1] \in Chans
  BY <1>0, <1>1, FieldFacts, EndFacts DEF ListInv
<1>3. Plain(Packet("DATA", e[1])) /\ Packet("DATA", e[1]) \in WireMessage
  BY <1>2 DEF Plain, Packet, WireMessage
<1>4. AtMostCloses
  <2>1. /\ sending' \in [Ends -> {"no", "checked", "done"}]
        /\ \A f \in Ends : sending'[f] = "checked" => sending[f] = "checked"
    BY <1>0, <1>1 DEF ChannelsTypeOK
  <2>2. end \in [Ends -> End] /\ mDataChannels \in [Peers -> [ChannelStreams -> Ends \union {NoEnd}]]
        /\ closing \in [Ends -> {"no", "without", "with", "done"}]
    BY <1>0 DEF ChannelsTypeOK
  <2>3. QED
    BY <1>1, <2>1, <2>2 DEF AtMostCloses
<1>5. TableInv' /\ ListInv' /\ JobInv' /\ AppInv'
  BY <1>4, AtMostClosesKeeps
<1>6. wire' \in WireType /\ \A q \in Peers, r \in ChannelStreams : OldOrPlain(wire'[q][r], wire[q][r])
  <2> HIDE DEF s
  <2> QED
    BY <1>1, <1>2, <1>3, PutPlain
<1>7. WireInv'
  <2>1. \A x \in Chans : end'[Out(x)] = end[Out(x)]
    BY <1>1
  <2>2. QED
    BY <1>0, <1>6, <2>1, WireStep
<1>8. ChannelsTypeOK'
  <2>1. anomalies' \subseteq Anomalies
    BY <1>0, <1>1 DEF ChannelsTypeOK, Anomalies
  <2>2. QED
    BY <1>0, <1>1, <1>4, <1>6, <2>1 DEF ChannelsTypeOK, AtMostCloses, WireType
<1>9. RaceInv'
  <2> SUFFICES ASSUME NoRace'
      PROVE  /\ \A f \in Ends : closing'[f] = "without" => ~end'[f].transport
             /\ StreamInv' /\ NoCrossTalk' /\ ClosedOnlyByApp'
    BY DEF RaceInv
  <2>1. NoRace /\ ~end[e].closed
    BY <1>1 DEF NoRace
  <2>2. /\ \A f \in Ends : closing[f] = "without" => ~end[f].transport
        /\ StreamInv /\ NoCrossTalk /\ ClosedOnlyByApp
    BY <1>0, <2>1 DEF RaceInv
  <2>3. NoCrossTalk' /\ ClosedOnlyByApp'
    BY <1>1, <2>1, <2>2 DEF NoCrossTalk, ClosedOnlyByApp
  <2>4. StreamInv'
    <3>1. /\ end' \in [Ends -> End] /\ UNCHANGED mDataChannels /\ end'[e].opening = end[e].opening
          /\ end'[e].created = end[e].created /\ ~end'[e].closed /\ \A f \in Ends \ {e} : end'[f] = end[f]
      BY <1>1, <1>4, <2>1 DEF AtMostCloses
    <3>2. QED
      BY <1>1, <1>2, <1>3, <2>1, <2>2, <3>1, StreamsPut
  <2>5. QED
    BY <1>1, <2>2, <2>3, <2>4
<1>10. QED
  BY <1>5, <1>7, <1>8, <1>9 DEF ChannelsIInv

(* Closing the end e.                                                          *)
LEMMA ClosedFacts ==
    ASSUME ChannelsTypeOK, NEW e \in Ends, end' = [end EXCEPT ![e].closed = TRUE]
    PROVE  /\ end' \in [Ends -> End] /\ end'[e].closed
           /\ \A f \in Ends :
                 /\ end'[f].created = end[f].created /\ end'[f].destroyed = end[f].destroyed
                 /\ end'[f].opening = end[f].opening /\ end'[f].transport = end[f].transport
                 /\ end'[f].stream = end[f].stream /\ end'[f].open = end[f].open
                 /\ end[f].closed => end'[f].closed
                 /\ f # e => end'[f] = end[f]
<1> DEFINE r == [end[e] EXCEPT !.closed = TRUE]
<1>1. end \in [Ends -> End] /\ end[e] \in End
  BY DEF ChannelsTypeOK
<1>2. end' = [end EXCEPT ![e] = r]
  BY <1>1
<1>3. /\ r \in End /\ r.closed /\ r.created = end[e].created /\ r.destroyed = end[e].destroyed
      /\ r.opening = end[e].opening /\ r.transport = end[e].transport /\ r.stream = end[e].stream
      /\ r.open = end[e].open
  BY <1>1 DEF End
<1> HIDE DEF r
<1>4. QED
  BY <1>1, <1>2, <1>3

(* close() closes the end and resets the stream.                             *)
LEMMA CloseEndsInv ==
    ASSUME ChannelsIInv, NEW e \in Ends, CloseEnds(e)
    PROVE  ChannelsIInv'
<1> DEFINE s == end[e].stream
           puts == ~end[e].closed /\ closing[e] = "with" /\ s # NoStream
<1>0. ChannelsTypeOK /\ TableInv /\ WireInv /\ AppInv /\ RaceInv
  BY DEF ChannelsIInv
<1>1. /\ closing[e] \in {"with", "without"} /\ closing' = [closing EXCEPT ![e] = "done"]
      /\ end' = [end EXCEPT ![e].closed = TRUE]
      /\ wire' = IF puts THEN Put(wire, Peer(e), s, "RESET", NoChan) ELSE wire
      /\ UNCHANGED <<sctp, callback, job, todo, creating, mUnassignedDataChannels, mDataChannels, sending,
                     received, appClosed, anomalies>>
  BY DEF CloseEnds, CloseWire, tables
<1>2. Peer(e) \in Peers /\ e[1] \in Chans /\ (s # NoStream => s \in ChannelStreams)
  BY <1>0, FieldFacts, EndFacts
<1>3. Plain(Packet("RESET", NoChan)) /\ Packet("RESET", NoChan) \in WireMessage
  BY DEF Plain, Packet, WireMessage
<1>4. /\ end' \in [Ends -> End] /\ end'[e].closed
      /\ \A f \in Ends :
            /\ end'[f].created = end[f].created /\ end'[f].destroyed = end[f].destroyed
            /\ end'[f].opening = end[f].opening /\ end'[f].transport = end[f].transport
            /\ end'[f].stream = end[f].stream
            /\ end[f].closed => end'[f].closed
            /\ f # e => end'[f] = end[f]
  BY <1>0, <1>1, ClosedFacts
<1>5. AtMostCloses
  <2>1. /\ closing' \in [Ends -> {"no", "without", "with", "done"}]
        /\ \A f \in Ends : closing'[f] = closing[f] \/ (closing'[f] = "done" /\ closing[f] # "no")
    BY <1>0, <1>1 DEF ChannelsTypeOK
  <2>2. /\ mDataChannels \in [Peers -> [ChannelStreams -> Ends \union {NoEnd}]]
        /\ sending \in [Ends -> {"no", "checked", "done"}]
    BY <1>0 DEF ChannelsTypeOK
  <2>3. QED
    BY <1>1, <1>4, <2>1, <2>2 DEF AtMostCloses
<1>6. TableInv' /\ ListInv' /\ JobInv' /\ AppInv'
  BY <1>5, AtMostClosesKeeps
<1>7. wire' \in WireType /\ \A q \in Peers, r \in ChannelStreams : OldOrPlain(wire'[q][r], wire[q][r])
  <2>1. CASE puts
    <3>1. wire' = Put(wire, Peer(e), s, "RESET", NoChan) /\ s \in ChannelStreams
      BY <1>1, <1>2, <2>1
    <3> HIDE DEF s
    <3> QED
      BY <1>2, <1>3, <3>1, PutPlain
  <2>2. CASE ~puts
    <3>1. wire' = wire
      BY <1>1, <2>2
    <3>2. QED
      BY <1>0, <3>1, FieldFacts, OldOrPlainFacts
  <2>3. QED
    BY <2>1, <2>2
<1>8. WireInv'
  <2>1. \A x \in Chans : end'[Out(x)].stream = end[Out(x)].stream /\ (end[Out(x)].opening => end'[Out(x)].opening)
    BY <1>4, EndFacts
  <2>2. QED
    BY <1>0, <1>7, <2>1, WireStep
<1>9. ChannelsTypeOK'
  BY <1>0, <1>1, <1>5, <1>7, SMTT(30) DEF ChannelsTypeOK, AtMostCloses, WireType
<1>10. RaceInv'
  <2> SUFFICES ASSUME NoRace'
      PROVE  /\ \A f \in Ends : closing'[f] = "without" => ~end'[f].transport
             /\ StreamInv' /\ NoCrossTalk' /\ ClosedOnlyByApp'
    BY DEF RaceInv
  <2>1. NoRace
    BY <1>1 DEF NoRace
  <2>2. /\ \A f \in Ends : closing[f] = "without" => ~end[f].transport
        /\ StreamInv /\ NoCrossTalk /\ ClosedOnlyByApp
    BY <1>0, <2>1 DEF RaceInv
  <2>3. NoCrossTalk'
    BY <1>1, <2>1, <2>2 DEF NoCrossTalk
  <2>4. ClosedOnlyByApp'
    <3>1. e[1] \in appClosed
      BY <1>0, <1>1 DEF AppInv
    <3>2. QED
      BY <1>1, <1>4, <2>2, <3>1 DEF ClosedOnlyByApp
  <2>5. \A f \in Ends : closing'[f] = "without" => ~end'[f].transport
    BY <1>4, <1>5, <2>2 DEF AtMostCloses
  <2>6. StreamInv'
    <3>1. CASE puts
      <4>1. wire' = Put(wire, Peer(e), end[e].stream, "RESET", NoChan) /\ end[e].transport /\ ~end[e].closed
        BY <1>0, <1>1, <3>1 DEF AppInv
      <4>2. /\ end' \in [Ends -> End] /\ UNCHANGED mDataChannels /\ end'[e].opening = end[e].opening
            /\ end'[e].created = end[e].created /\ end'[e].closed /\ \A f \in Ends \ {e} : end'[f] = end[f]
        BY <1>1, <1>4
      <4>3. QED
        BY <1>3, <2>2, <4>1, <4>2, StreamsPut
    <3>2. CASE end[e].closed
      <4>1. \A f \in Ends : (end'[f].closed <=> end[f].closed)
        BY <1>4, <3>2
      <4>2. \A x \in Chans : SameFlags(end, end', x)
        BY <1>4, <4>1, EndFacts DEF SameFlags
      <4>3. UNCHANGED <<wire, mDataChannels>>
        BY <1>1, <3>2
      <4>4. QED
        BY <1>4, <2>2, <4>2, <4>3, StreamsDrop
    <3>3. CASE ~end[e].closed /\ ~puts
      <4> DEFINE c == e[1]
      <4>1. c \in Chans /\ Out(c) \in Ends /\ In(c) \in Ends /\ (e = Out(c) \/ e = In(c)) /\ In(c) # Out(c)
        BY EndFacts
      <4>2. closing[e] = "without"
        <5> SUFFICES ASSUME closing[e] = "with" PROVE FALSE
          BY <1>1
        <5>1. end[e].transport /\ s = NoStream
          BY <1>0, <3>3 DEF AppInv
        <5>2. CASE e = Out(c)
          BY <1>0, <4>1, <5>1, <5>2 DEF TableInv
        <5>3. CASE e = In(c)
          BY <1>0, <4>1, <5>1, <5>3 DEF TableInv
        <5>4. QED
          BY <4>1, <5>2, <5>3
      <4>3. e = Out(c)
        BY <1>0, <4>1, <4>2 DEF AppInv
      <4>4. ~end[Out(c)].opening /\ ~end[In(c)].created
        BY <1>0, <2>2, <4>1, <4>2, <4>3 DEF TableInv
      <4>5. ~end'[Out(c)].opening /\ ~end'[In(c)].created
        BY <1>4, <4>1, <4>4
      <4>6. \A x \in Chans \ {c} : SameFlags(end, end', x)
        <5>1. \A x \in Chans \ {c} : Out(x) \in Ends /\ In(x) \in Ends /\ Out(x) # e /\ In(x) # e
          BY EndFacts
        <5>2. QED
          BY <1>4, <5>1 DEF SameFlags
      <4>7. UNCHANGED <<wire, mDataChannels>>
        BY <1>1, <3>3
      <4> HIDE DEF c
      <4>8. QED
        BY <1>4, <2>2, <4>1, <4>4, <4>5, <4>6, <4>7, StreamsDrop
    <3>4. QED
      BY <3>1, <3>2, <3>3
  <2>7. QED
    BY <2>3, <2>4, <2>5, <2>6
<1>11. QED
  BY <1>6, <1>8, <1>9, <1>10 DEF ChannelsIInv

-----------------------------------------------------------------------------
(* The delivery of a message.                                                *)

(* A message leaves stream s towards p, and perhaps an answer follows it.      *)
Taken(p, s) == [wire EXCEPT ![p][s] = Tail(@)]

(* No other stream changes, and no open message is new.                      *)
Answers(p, s, v) ==
    /\ v \in WireType
    /\ v[p][s] = Tail(wire[p][s])
    /\ \A q \in Peers, r \in ChannelStreams : r # s => v[q][r] = wire[q][r]
    /\ \A q \in Peers, r \in ChannelStreams : OldOrPlain(v[q][r], wire[q][r])

(* That is what taking the message does, with an answer or without.          *)
LEMMA TakenFacts ==
    ASSUME ChannelsIInv, NEW p \in Peers, NEW s \in ChannelStreams, wire[p][s] # <<>>
    PROVE  /\ Answers(p, s, Taken(p, s)) /\ Taken(p, s)[Other(p)][s] = wire[Other(p)][s]
           /\ \A t, c : Plain(Packet(t, c)) =>
                 /\ Answers(p, s, Put(Taken(p, s), p, s, t, c))
                 /\ Put(Taken(p, s), p, s, t, c)[Other(p)][s] = Append(wire[Other(p)][s], Packet(t, c))
<1> DEFINE w == Taken(p, s)
<1>1. wire \in WireType /\ \A q \in Peers, r \in ChannelStreams : wire[q][r] \in Seq(WireMessage)
  BY FieldFacts DEF ChannelsIInv
<1>2. Tail(wire[p][s]) \in Seq(WireMessage) /\ Other(p) \in Peers /\ Other(p) # p
  BY <1>1, TailFacts, PeerFacts
<1>3. /\ w \in WireType /\ w[p][s] = Tail(wire[p][s])
      /\ \A q \in Peers, r \in ChannelStreams : q # p \/ r # s => w[q][r] = wire[q][r]
  BY <1>1, <1>2 DEF WireType, Taken
<1>4. \A q \in Peers, r \in ChannelStreams : OldOrPlain(w[q][r], wire[q][r])
  <2> SUFFICES ASSUME NEW q \in Peers, NEW r \in ChannelStreams PROVE OldOrPlain(w[q][r], wire[q][r])
    OBVIOUS
  <2> HIDE DEF w
  <2>1. CASE q = p /\ r = s
    BY <1>1, <1>3, <2>1, OldOrPlainFacts
  <2>2. CASE q # p \/ r # s
    BY <1>1, <1>3, <2>2, OldOrPlainFacts
  <2>3. QED
    BY <2>1, <2>2
<1>5. ASSUME NEW t, NEW c, Plain(Packet(t, c))
      PROVE  /\ Answers(p, s, Put(w, p, s, t, c))
             /\ Put(w, p, s, t, c)[Other(p)][s] = Append(wire[Other(p)][s], Packet(t, c))
  <2> DEFINE v == Put(w, p, s, t, c)
             m == Packet(t, c)
  <2>1. m \in WireMessage /\ Plain(m)
    BY <1>5 DEF Plain
  <2>2. /\ v \in WireType /\ v[Other(p)][s] = Append(w[Other(p)][s], m)
        /\ \A q \in Peers, r \in ChannelStreams : q # Other(p) \/ r # s => v[q][r] = w[q][r]
    <3> HIDE DEF w
    <3> QED
      BY <1>3, <2>1, PutFacts
  <2> HIDE DEF v, w, m
  <2>3. v[Other(p)][s] = Append(wire[Other(p)][s], m)
    BY <1>2, <1>3, <2>2
  <2>4. ASSUME NEW q \in Peers, NEW r \in ChannelStreams PROVE OldOrPlain(v[q][r], wire[q][r])
    <3>1. CASE q = Other(p) /\ r = s
      BY <1>1, <2>1, <2>3, <3>1, OldOrPlainFacts
    <3>2. CASE q # Other(p) \/ r # s
      BY <1>4, <2>2, <3>2
    <3>3. QED
      BY <3>1, <3>2
  <2>5. v[p][s] = Tail(wire[p][s]) /\ \A q \in Peers, r \in ChannelStreams : r # s => v[q][r] = wire[q][r]
    BY <1>2, <1>3, <2>2
  <2>6. Answers(p, s, v)
    BY <2>2, <2>4, <2>5 DEF Answers
  <2>7. QED
    BY <2>3, <2>6 DEF v, m
<1>6. QED
  BY <1>2, <1>3, <1>4, <1>5 DEF Answers

(* What the delivery of a message, other than an open message that makes a     *)
(* channel, has to keep if there is no race; all else it keeps anyway.         *)
LEMMA DeliverKeeps ==
    ASSUME ChannelsIInv, AtMostCloses, NEW p \in Peers, NEW s \in ChannelStreams,
           Answers(p, s, wire'), received' \in [Ends -> SUBSET Chans], UNCHANGED <<closing, anomalies>>,
           NoRace /\ StreamInv /\ NoCrossTalk /\ ClosedOnlyByApp
           => StreamInv' /\ NoCrossTalk' /\ ClosedOnlyByApp'
    PROVE  ChannelsIInv'
<1>0. ChannelsTypeOK /\ TableInv /\ WireInv /\ RaceInv
  BY DEF ChannelsIInv
<1>1. TableInv' /\ ListInv' /\ JobInv' /\ AppInv'
  BY AtMostClosesKeeps
<1>2. wire' \in WireType /\ \A q \in Peers, r \in ChannelStreams : OldOrPlain(wire'[q][r], wire[q][r])
  BY DEF Answers
<1>3. WireInv'
  <2>1. \A x \in Chans : end'[Out(x)].stream = end[Out(x)].stream /\ (end[Out(x)].opening => end'[Out(x)].opening)
    BY EndFacts DEF AtMostCloses
  <2>2. QED
    BY <1>0, <1>2, <2>1, WireStep
<1>4. ChannelsTypeOK'
  BY <1>0, <1>2 DEF ChannelsTypeOK, AtMostCloses, WireType
<1>5. RaceInv'
  <2> SUFFICES ASSUME NoRace'
      PROVE  /\ \A f \in Ends : closing'[f] = "without" => ~end'[f].transport
             /\ StreamInv' /\ NoCrossTalk' /\ ClosedOnlyByApp'
    BY DEF RaceInv
  <2>1. NoRace
    BY DEF NoRace
  <2>2. /\ \A f \in Ends : closing[f] = "without" => ~end[f].transport
        /\ StreamInv /\ NoCrossTalk /\ ClosedOnlyByApp
    BY <1>0, <2>1 DEF RaceInv
  <2>3. \A f \in Ends : closing'[f] = "without" => ~end'[f].transport
    BY <2>2 DEF AtMostCloses
  <2>4. QED
    BY <2>1, <2>2, <2>3
<1>6. QED
  BY <1>1, <1>3, <1>4, <1>5 DEF ChannelsIInv

(* The channel of the end in the table at a stream, and the two sides of the   *)
(* stream.                                                                     *)
LEMMA UsedFacts ==
    ASSUME ChannelsIInv, NEW p \in Peers, NEW s \in ChannelStreams, mDataChannels[p][s] # NoEnd
    PROVE  LET e == mDataChannels[p][s] IN
           /\ e \in Ends /\ e[1] \in Chans /\ end[Out(e[1])].stream = s /\ end[e].stream = s
           /\ Peer(e) = p /\ s # NoStream
           /\ e = Out(e[1]) \/ (e = In(e[1]) /\ end[e].created)
<1> DEFINE e == mDataChannels[p][s]
           c == e[1]
<1>0. ChannelsTypeOK /\ TableInv
  BY DEF ChannelsIInv
<1>1. e \in Ends /\ end[e].stream = s /\ Peer(e) = p /\ s # NoStream
  BY <1>0, FieldFacts, PeerFacts DEF TableInv
<1> HIDE DEF e
<1>2. c \in Chans /\ (e = Out(c) \/ e = In(c)) /\ Out(c) \in Ends
  BY <1>1, EndFacts
<1>3. end[e].created
  BY <1>0, <1>1 DEF TableInv
<1>4. end[Out(c)].stream = s
  BY <1>0, <1>1, <1>2, <1>3 DEF TableInv
<1>5. e = Out(c) \/ (e = In(c) /\ end[e].created)
  BY <1>2, <1>3
<1>6. QED
  BY <1>1, <1>2, <1>4, <1>5 DEF e

(* The messages and ends of stream s as seen by p: p is the peer that opens    *)
(* channels on it or the other one.                                            *)
LEMMA Sides ==
    ASSUME ChannelsIInv, NEW p \in Peers, NEW s \in ChannelStreams
    PROVE  /\ wire[p][s] \in Seq(WireMessage) /\ wire[Other(p)][s] \in Seq(WireMessage)
           /\ mDataChannels[p][s] \in Ends \union {NoEnd} /\ mDataChannels[Other(p)][s] \in Ends \union {NoEnd}
           /\ end \in [Ends -> End] /\ Other(p) \in Peers /\ Other(Other(p)) = p
           /\ s % 2 = Parity(p) \/ s % 2 = Parity(Other(p))
           /\ StreamInv =>
                 /\ s % 2 = Parity(p) =>
                       Stream(wire[Other(p)][s], wire[p][s], mDataChannels[p][s], mDataChannels[Other(p)][s], end)
                 /\ s % 2 = Parity(Other(p)) =>
                       Stream(wire[p][s], wire[Other(p)][s], mDataChannels[Other(p)][s], mDataChannels[p][s], end)
<1>1. Other(p) \in Peers /\ Other(Other(p)) = p
  BY PeerFacts
<1>2. s % 2 = Parity(p) \/ s % 2 = Parity(Other(p))
  BY MaxStreamAssumption DEF Peers, Other, Parity, ChannelStreams
<1>3. QED
  BY <1>1, <1>2, FieldFacts DEF ChannelsIInv, ChannelsTypeOK, StreamInv

(* What Deliver leaves alone.                                                  *)
Delivers(p, s) ==
    /\ wire[p][s] # <<>>
    /\ UNCHANGED <<sctp, callback, job, todo, creating, closing, sending, mUnassignedDataChannels,
                   appClosed, anomalies>>

(* An open message makes an incoming channel.                                *)
LEMMA ForwardOpenInv ==
    ASSUME ChannelsIInv, NEW p \in Peers, NEW s \in ChannelStreams, Delivers(p, s),
           ForwardOpen(p, s, wire[p][s][1], Taken(p, s))
    PROVE  ChannelsIInv'
<1> USE DEF Delivers
<1> DEFINE c == wire[p][s][1].chan
           d == In(c)
           r0 == [NewEnd EXCEPT !.created = TRUE, !.open = TRUE, !.transport = TRUE, !.stream = s]
<1>0. ChannelsTypeOK /\ TableInv /\ ListInv /\ WireInv /\ JobInv /\ AppInv /\ RaceInv
  BY DEF ChannelsIInv
<1>1. /\ wire[p][s][1].type = "OPEN" /\ mDataChannels[p][s] = NoEnd
      /\ end' = [end EXCEPT ![d] = r0]
      /\ mDataChannels' = [mDataChannels EXCEPT ![p][s] = d]
      /\ wire' = Put(Taken(p, s), p, s, "ACK", c)
      /\ UNCHANGED received
  BY DEF ForwardOpen, Used, In
<1>2. /\ c \in Chans /\ Other(Creator[c]) = p /\ end[Out(c)].stream = s /\ end[Out(c)].opening
  <2>1. 1 \in DOMAIN wire[p][s]
    BY <1>0, FieldFacts, TailFacts
  <2>2. QED
    BY <1>0, <1>1, <2>1 DEF WireInv
<1> HIDE DEF c
<1>3. /\ d \in Ends /\ d[1] = c /\ Out(c) \in Ends /\ Peer(d) = p /\ Creator[c] = Other(p) /\ d # NoEnd
      /\ s # NoStream /\ \A x \in Chans : Out(x) \in Ends /\ In(x) \in Ends /\ Out(x) # d
  BY <1>2, EndFacts, PeerFacts
<1>4. /\ r0 \in End /\ r0.created /\ ~r0.destroyed /\ ~r0.closed /\ r0.transport /\ r0.stream = s /\ ~r0.opening
  BY DEF End, NewEnd
<1> HIDE DEF r0
<1>5. /\ end' \in [Ends -> End] /\ end'[d] = r0 /\ \A e \in Ends \ {d} : end'[e] = end[e]
      /\ \A x \in Chans : end'[Out(x)] = end[Out(x)]
  BY <1>0, <1>1, <1>3, <1>4 DEF ChannelsTypeOK
<1>6. /\ mDataChannels' \in [Peers -> [ChannelStreams -> Ends \union {NoEnd}]]
      /\ mDataChannels'[p][s] = d
      /\ \A q \in Peers, r \in ChannelStreams : q # p \/ r # s => mDataChannels'[q][r] = mDataChannels[q][r]
  BY <1>0, <1>1, <1>3 DEF ChannelsTypeOK
<1>7. Plain(Packet("ACK", c))
  BY <1>2 DEF Plain, Packet, WireMessage
<1>8. Answers(p, s, wire') /\ wire'[Other(p)][s] = Append(wire[Other(p)][s], Packet("ACK", c))
  BY <1>1, <1>7, TakenFacts
<1>9. ChannelsTypeOK'
  BY <1>0, <1>1, <1>5, <1>6, <1>8 DEF ChannelsTypeOK, Answers, WireType
<1>10. TableInv'
  <2>1. ASSUME NEW q \in Peers, NEW r \in ChannelStreams, mDataChannels'[q][r] # NoEnd
        PROVE  Peer(mDataChannels'[q][r]) = q /\ end'[mDataChannels'[q][r]].stream = r
    <3>1. CASE q = p /\ r = s
      BY <1>3, <1>4, <1>5, <1>6, <3>1
    <3>2. CASE q # p \/ r # s
      <4> DEFINE e == mDataChannels[q][r]
      <4>1. mDataChannels'[q][r] = e /\ e \in Ends /\ Peer(e) = q /\ end[e].stream = r
        BY <1>0, <1>6, <2>1, <3>2, FieldFacts DEF TableInv
      <4>2. CASE e = d
        <5>1. end[d].created
          BY <1>0, <1>3, <4>1, <4>2, PeerFacts DEF TableInv
        <5>2. r = s
          BY <1>0, <1>2, <4>1, <4>2, <5>1 DEF TableInv
        <5>3. QED
          BY <1>3, <3>2, <4>1, <4>2, <5>2
      <4>3. CASE e # d
        BY <1>5, <4>1, <4>3
      <4>4. QED
        BY <4>2, <4>3
    <3>3. QED
      BY <3>1, <3>2
  <2>2. ASSUME NEW e \in Ends, end'[e].stream # NoStream
        PROVE  /\ end'[e].created /\ end'[e].stream % 2 = Parity(Creator[e[1]])
               /\ ~end'[e].closed => mDataChannels'[Peer(e)][end'[e].stream] = e
    <3>1. CASE e = d
      <4>1. s % 2 = Parity(Creator[c])
        BY <1>0, <1>2, <1>3, EndFacts DEF TableInv
      <4>2. QED
        BY <1>3, <1>4, <1>5, <1>6, <3>1, <4>1
    <3>2. CASE e # d
      <4>1. /\ end[e].created /\ end[e].stream % 2 = Parity(Creator[e[1]])
            /\ ~end[e].closed => mDataChannels[Peer(e)][end[e].stream] = e
        BY <1>0, <1>5, <2>2, <3>2 DEF TableInv
      <4>2. Peer(e) \in Peers /\ end[e].stream \in ChannelStreams /\ e # NoEnd
        BY <1>0, <1>5, <2>2, <3>2, EndFacts, FieldFacts
      <4>3. QED
        BY <1>1, <1>5, <1>6, <3>2, <4>1, <4>2
    <3>3. QED
      BY <3>1, <3>2
  <2>3. ASSUME NEW x \in Chans, end'[In(x)].created
        PROVE  /\ end'[In(x)].transport /\ ~end'[In(x)].destroyed
               /\ end'[Out(x)].opening /\ end'[In(x)].stream = end'[Out(x)].stream
    <3>1. CASE x = c
      BY <1>2, <1>4, <1>5, <3>1
    <3>2. CASE x # c
      <4>1. In(x) # d /\ In(x) \in Ends
        BY <1>2, <3>2, EndFacts
      <4>2. QED
        BY <1>0, <1>5, <2>3, <4>1 DEF TableInv
    <3>3. QED
      BY <3>1, <3>2
  <2>4. /\ \A x \in Chans : end'[Out(x)].opening => end'[Out(x)].stream # NoStream
        /\ \A x \in Chans : end'[Out(x)].transport <=> end'[Out(x)].opening
    BY <1>0, <1>5 DEF TableInv
  <2>5. \A x \in Chans : end'[In(x)].transport => end'[In(x)].created
    BY <1>0, <1>3, <1>4, <1>5 DEF TableInv
  <2>6. \A e \in Ends : end'[e].destroyed => end'[e].created
    BY <1>0, <1>4, <1>5 DEF TableInv
  <2>7. QED
    BY <2>1, <2>2, <2>3, <2>4, <2>5, <2>6 DEF TableInv
<1>11. /\ \A q \in Peers : \A i \in DOMAIN mUnassignedDataChannels[q] : mUnassignedDataChannels[q][i] \in Chans
       /\ \A q \in Peers : creating[q] # NoEnd => creating[q][1] \in Chans
       /\ \A q \in Peers : \A e \in todo[q] : e \in Ends
  BY <1>0 DEF ChannelsTypeOK
<1>12. ListInv'
  <2>1. \A q \in Peers : \A e \in todo[q] : Peer(e) = q /\ end'[e].stream # NoStream /\ ~end'[e].destroyed
    BY <1>0, <1>3, <1>4, <1>5, <1>11 DEF ListInv
  <2>2. \A e \in Ends : sending[e] = "checked" => end'[e].stream # NoStream /\ end'[e].transport
    BY <1>0, <1>3, <1>4, <1>5 DEF ListInv
  <2>3. QED
    BY <1>0, <1>5, <1>11, <2>1, <2>2 DEF ListInv
<1>13. WireInv'
  BY <1>0, <1>5, <1>8, WireStep DEF Answers
<1>14. JobInv'
  BY <1>0, <1>5, <1>11 DEF JobInv
<1>15. AppInv'
  BY <1>0, <1>4, <1>5 DEF AppInv
<1>16. RaceInv'
  <2> SUFFICES ASSUME NoRace'
      PROVE  /\ \A f \in Ends : closing'[f] = "without" => ~end'[f].transport
             /\ StreamInv' /\ NoCrossTalk' /\ ClosedOnlyByApp'
    BY DEF RaceInv
  <2>1. NoRace
    BY DEF NoRace
  <2>2. /\ \A f \in Ends : closing[f] = "without" => ~end[f].transport
        /\ StreamInv /\ NoCrossTalk /\ ClosedOnlyByApp
    BY <1>0, <2>1 DEF RaceInv
  <2>3. \A f \in Ends : closing'[f] = "without" => ~end'[f].transport
    <3>1. closing[d] # "without"
      BY <1>0, <1>2 DEF AppInv
    <3>2. QED
      BY <1>5, <2>2, <3>1
  <2>4. NoCrossTalk' /\ ClosedOnlyByApp'
    BY <1>1, <1>4, <1>5, <2>1, <2>2 DEF NoCrossTalk, ClosedOnlyByApp
  <2>5. StreamInv'
    <3> DEFINE f == wire[p][s]
               b == wire[Other(p)][s]
               o == mDataChannels[Other(p)][s]
    <3>1. /\ f \in Seq(WireMessage) /\ b \in Seq(WireMessage) /\ o \in Ends \union {NoEnd}
          /\ end \in [Ends -> End] /\ f # <<>> /\ f[1].type = "OPEN" /\ f[1].chan = c
      BY <1>1, Sides DEF c
    <3>2. Stream(f, b, o, NoEnd, end)
      <4>1. s % 2 = Parity(Other(p))
        BY <1>0, <1>2, <1>3, EndFacts DEF TableInv
      <4>2. QED
        BY <1>1, <2>2, <4>1, Sides
    <3>3. \A x \in Chans \ {c} : SameFlags(end, end', x)
      <4>1. \A x \in Chans \ {c} : In(x) \in Ends \ {d}
        BY <1>2, EndFacts
      <4>2. QED
        BY <1>5, <4>1 DEF SameFlags
    <3>4. wire'[p][s] = Tail(f) /\ wire'[Other(p)][s] = Append(b, Packet("ACK", c))
          /\ \A q \in Peers, r \in ChannelStreams : r # s => wire'[q][r] = wire[q][r]
      BY <1>8 DEF Answers
    <3>5. mDataChannels'[p][s] = d /\ mDataChannels'[Other(p)][s] = o
      BY <1>6, PeerFacts
    <3> HIDE DEF f, b, o
    <3>6. Stream(Tail(f), Append(b, Packet("ACK", c)), o, d, end')
      BY <1>2, <1>4, <1>5, <3>1, <3>2, StreamArrives
    <3>7. Other(Creator[c]) = p /\ Creator[c] = Other(p)
      BY <1>2, <1>3
    <3>8. Stream(wire'[Other(Creator[c])][s], wire'[Creator[c]][s],
                 mDataChannels'[Creator[c]][s], mDataChannels'[Other(Creator[c])][s], end')
      BY <3>4, <3>5, <3>6, <3>7
    <3>9. \A q \in Peers, r \in ChannelStreams : r # s => mDataChannels'[q][r] = mDataChannels[q][r]
      BY <1>6
    <3>10. \A q \in Peers, r \in ChannelStreams : r # s =>
               wire'[q][r] = wire[q][r] /\ mDataChannels'[q][r] = mDataChannels[q][r]
      BY <3>4, <3>9
    <3>11. c \in Chans /\ s \in ChannelStreams /\ end[Out(c)].stream = s /\ end' \in [Ends -> End]
      BY <1>2, <1>5
    <3>12. QED
      BY <2>2, <3>3, <3>8, <3>10, <3>11, StreamsStep
  <2>6. QED
    BY <2>3, <2>4, <2>5
<1>17. QED
  BY <1>9, <1>10, <1>12, <1>13, <1>14, <1>15, <1>16 DEF ChannelsIInv

(* A message that closes the end of its stream, or nothing, and is perhaps     *)
(* answered by a reset.                                                        *)
LEMMA ResetAnswers ==
    ASSUME ChannelsIInv, NEW p \in Peers, NEW s \in ChannelStreams, wire[p][s] # <<>>,
           NEW v, v \in {Taken(p, s), Put(Taken(p, s), p, s, "RESET", NoChan)}
    PROVE  Answers(p, s, v)
<1>1. Plain(Packet("RESET", NoChan))
  BY DEF Plain, Packet, WireMessage
<1>2. QED
  BY <1>1, TakenFacts

(* Closing the end of the stream, with its entry freed or not.               *)
LEMMA ClosingDelivers ==
    ASSUME ChannelsIInv, NEW p \in Peers, NEW s \in ChannelStreams, Delivers(p, s),
           mDataChannels[p][s] # NoEnd, end' = [end EXCEPT ![mDataChannels[p][s]].closed = TRUE],
           mDataChannels' \in {mDataChannels, [mDataChannels EXCEPT ![p][s] = NoEnd]}
    PROVE  AtMostCloses
<1> DEFINE e == mDataChannels[p][s]
<1>0. ChannelsTypeOK
  BY DEF ChannelsIInv
<1>1. e \in Ends
  BY UsedFacts
<1>2. /\ end' \in [Ends -> End] /\ end'[e].closed
      /\ \A f \in Ends :
            /\ end'[f].created = end[f].created /\ end'[f].destroyed = end[f].destroyed
            /\ end'[f].opening = end[f].opening /\ end'[f].transport = end[f].transport
            /\ end'[f].stream = end[f].stream
            /\ end[f].closed => end'[f].closed
  BY <1>0, <1>1, ClosedFacts
<1>3. /\ mDataChannels' \in [Peers -> [ChannelStreams -> Ends \union {NoEnd}]]
      /\ \A q \in Peers, r \in ChannelStreams :
            \/ mDataChannels'[q][r] = mDataChannels[q][r]
            \/ q = p /\ r = s /\ mDataChannels'[q][r] = NoEnd
  <2>1. mDataChannels \in [Peers -> [ChannelStreams -> Ends \union {NoEnd}]]
    BY <1>0 DEF ChannelsTypeOK
  <2>2. CASE mDataChannels' = mDataChannels
    BY <2>1, <2>2
  <2>3. CASE mDataChannels' = [mDataChannels EXCEPT ![p][s] = NoEnd]
    BY <2>1, <2>3
  <2>4. QED
    BY <2>2, <2>3
<1>4. /\ closing \in [Ends -> {"no", "without", "with", "done"}]
      /\ sending \in [Ends -> {"no", "checked", "done"}]
  BY <1>0 DEF ChannelsTypeOK
<1>5. QED
  BY <1>2, <1>3, <1>4 DEF AtMostCloses, Delivers

(* Without a race no open message arrives on a stream in use, and nothing else *)
(* on one that is not.                                                         *)
LEMMA NothingUnexpected ==
    ASSUME ChannelsIInv, StreamInv, NEW p \in Peers, NEW s \in ChannelStreams, wire[p][s] # <<>>
    PROVE  wire[p][s][1].type = "OPEN" <=> mDataChannels[p][s] = NoEnd
<1> DEFINE f == wire[p][s]
           b == wire[Other(p)][s]
           d == mDataChannels[p][s]
           o == mDataChannels[Other(p)][s]
<1>1. /\ f \in Seq(WireMessage) /\ b \in Seq(WireMessage) /\ o \in Ends \union {NoEnd}
      /\ d \in Ends \union {NoEnd} /\ end \in [Ends -> End]
  BY Sides
<1>2. CASE s % 2 = Parity(p)
  <2>1. Stream(b, f, d, o, end) /\ f # <<>>
    BY <1>2, Sides
  <2> HIDE DEF f, b, d, o
  <2>2. d # NoEnd /\ f[1].type # "OPEN"
    BY <1>1, <2>1, StreamTakesBack
  <2>3. QED
    BY <2>2 DEF f, d
<1>3. CASE s % 2 = Parity(Other(p))
  <2>1. Stream(f, b, o, d, end) /\ f # <<>>
    BY <1>3, Sides
  <2> HIDE DEF f, b, d, o
  <2>2. PICK k \in 0 .. Len(f) : Forward(f, k, o, d, end)
    BY <2>1 DEF Stream
  <2>3. f[1].type = "OPEN" <=> d = NoEnd
    BY <1>1, <2>1, <2>2, ForwardHead
  <2>4. QED
    BY <2>3 DEF f, d
<1>4. QED
  BY <1>2, <1>3, Sides

(* An open message on a used stream: never without a race.                   *)
LEMMA ForwardOpenUsedInv ==
    ASSUME ChannelsIInv, NEW p \in Peers, NEW s \in ChannelStreams, Delivers(p, s),
           ForwardOpenUsed(p, s, wire[p][s][1], Taken(p, s))
    PROVE  ChannelsIInv'
<1> DEFINE e == mDataChannels[p][s]
<1>1. /\ wire[p][s][1].type = "OPEN" /\ e # NoEnd /\ end' = [end EXCEPT ![e].closed = TRUE]
      /\ wire' \in {Taken(p, s), Put(Taken(p, s), p, s, "RESET", NoChan)}
      /\ UNCHANGED <<mDataChannels, received>>
  <2>1. e # NoEnd
    BY DEF ForwardOpenUsed, Used
  <2>2. Peer(e) = p /\ end[e].stream = s
    BY <2>1, UsedFacts
  <2>3. QED
    BY <2>1, <2>2 DEF ForwardOpenUsed, CloseWire
<1>2. AtMostCloses /\ Answers(p, s, wire')
  BY <1>1, ClosingDelivers, ResetAnswers DEF Delivers
<1>3. ~StreamInv
  BY <1>1, NothingUnexpected DEF Delivers
<1>4. received' \in [Ends -> SUBSET Chans]
  BY <1>1 DEF ChannelsIInv, ChannelsTypeOK
<1>5. QED
  BY <1>2, <1>3, <1>4, DeliverKeeps DEF Delivers

(* Another message on an unused stream: never without a race either.         *)
LEMMA ForwardUnexpectedInv ==
    ASSUME ChannelsIInv, NEW p \in Peers, NEW s \in ChannelStreams, Delivers(p, s),
           ForwardUnexpected(p, s, wire[p][s][1], Taken(p, s))
    PROVE  ChannelsIInv'
<1>0. ChannelsTypeOK
  BY DEF ChannelsIInv
<1>1. /\ wire[p][s][1].type # "OPEN" /\ mDataChannels[p][s] = NoEnd
      /\ wire' \in {Taken(p, s), Put(Taken(p, s), p, s, "RESET", NoChan)}
      /\ UNCHANGED <<mDataChannels, end, received>>
  BY DEF ForwardUnexpected, Used
<1>2. Answers(p, s, wire')
  BY <1>1, ResetAnswers DEF Delivers
<1>3. AtMostCloses
  BY <1>0, <1>1 DEF AtMostCloses, Delivers, ChannelsTypeOK
<1>4. ~StreamInv
  BY <1>1, NothingUnexpected DEF Delivers
<1>5. received' \in [Ends -> SUBSET Chans]
  BY <1>0, <1>1 DEF ChannelsTypeOK
<1>6. QED
  BY <1>2, <1>3, <1>4, <1>5, DeliverKeeps DEF Delivers

(* Closing an end leaves the other channels alone.                             *)
LEMMA OthersSame ==
    ASSUME NEW c \in Chans, NEW e \in {Out(c), In(c)}, \A f \in Ends \ {e} : end'[f] = end[f]
    PROVE  \A x \in Chans \ {c} : SameFlags(end, end', x)
<1>1. \A x \in Chans \ {c} : Out(x) \in Ends \ {e} /\ In(x) \in Ends \ {e}
  BY EndFacts
<1>2. QED
  BY <1>1 DEF SameFlags

(* A reset: the other end was closed by an application, so both were, and    *)
(* what comes next on the stream is for another channel.                     *)
LEMMA ForwardResetInv ==
    ASSUME ChannelsIInv, NEW p \in Peers, NEW s \in ChannelStreams, Delivers(p, s),
           ForwardReset(p, s, wire[p][s][1], Taken(p, s))
    PROVE  ChannelsIInv'
<1> DEFINE e == mDataChannels[p][s]
           c == e[1]
           m == Packet("RESET", NoChan)
           f == wire[p][s]
           b == wire[Other(p)][s]
           o == mDataChannels[Other(p)][s]
<1>0. ChannelsTypeOK /\ TableInv /\ JobInv
  BY DEF ChannelsIInv
<1>1. /\ f[1].type = "RESET" /\ e # NoEnd /\ f # <<>>
  BY DEF ForwardReset, Used, Delivers
<1>2. /\ e \in Ends /\ c \in Chans /\ end[Out(c)].stream = s /\ end[e].stream = s /\ Peer(e) = p /\ s # NoStream
      /\ e = Out(c) \/ (e = In(c) /\ end[e].created)
  BY <1>1, UsedFacts
<1>3. /\ end' = [end EXCEPT ![e].closed = TRUE] /\ mDataChannels' = [mDataChannels EXCEPT ![p][s] = NoEnd]
      /\ UNCHANGED received
      /\ wire' = IF ~end[e].closed /\ end[e].transport THEN Put(Taken(p, s), p, s, "RESET", NoChan)
                 ELSE Taken(p, s)
  BY <1>2 DEF ForwardReset, CloseWire
<1>4. AtMostCloses
  BY <1>1, <1>3, ClosingDelivers
<1>5. Answers(p, s, wire')
  BY <1>1, <1>3, ResetAnswers
<1>6. Plain(m)
  BY DEF Plain, Packet, WireMessage
<1>7. /\ wire'[p][s] = Tail(f)
      /\ ~end[e].closed /\ end[e].transport => wire'[Other(p)][s] = Append(b, m)
      /\ ~(~end[e].closed /\ end[e].transport) => wire'[Other(p)][s] = b
  BY <1>1, <1>3, <1>5, <1>6, TakenFacts DEF Answers
<1>8. /\ mDataChannels'[p][s] = NoEnd /\ mDataChannels'[Other(p)][s] = o
      /\ \A q \in Peers, r \in ChannelStreams : r # s => mDataChannels'[q][r] = mDataChannels[q][r]
  BY <1>0, <1>3, PeerFacts DEF ChannelsTypeOK
<1>9. /\ end' \in [Ends -> End] /\ end'[e].closed
      /\ \A g \in Ends : /\ end'[g].created = end[g].created /\ end'[g].destroyed = end[g].destroyed
                         /\ end'[g].opening = end[g].opening
                         /\ g # e => end'[g] = end[g]
  BY <1>0, <1>2, <1>3, ClosedFacts
<1>10. /\ f \in Seq(WireMessage) /\ b \in Seq(WireMessage) /\ o \in Ends \union {NoEnd} /\ end \in [Ends -> End]
       /\ Other(p) \in Peers /\ Other(Other(p)) = p
  BY Sides
<1>11. /\ Out(c) \in Ends /\ In(c) \in Ends /\ Out(c)[1] = c /\ In(c)[1] = c /\ Out(c) # In(c)
       /\ Peer(Out(c)) = Creator[c] /\ Peer(In(c)) = Other(Creator[c]) /\ Creator[c] \in Peers
  BY <1>2, EndFacts
<1>12. s % 2 = Parity(Creator[c])
  BY <1>0, <1>2, <1>11 DEF TableInv
<1> HIDE DEF e, c, m, f, b, o
<1>13. \A x \in Chans \ {c} : SameFlags(end, end', x)
  BY <1>2, <1>9, OthersSame
<1>14. ASSUME StreamInv, ClosedOnlyByApp
       PROVE  /\ Stream(wire'[Other(Creator[c])][s], wire'[Creator[c]][s],
                        mDataChannels'[Creator[c]][s], mDataChannels'[Other(Creator[c])][s], end')
              /\ c \in appClosed
  <2>1. CASE e = Out(c)
    <3>1. Creator[c] = p
      BY <1>2, <1>11, <2>1
    <3>2. Stream(b, f, Out(c), o, end)
      <4>1. s % 2 = Parity(p) => Stream(b, f, e, o, end)
        BY <1>14, Sides DEF b, f, e, o
      <4>2. QED
        BY <1>12, <2>1, <3>1, <4>1
    <3>3. end[In(c)].created /\ end[In(c)].closed /\ Tail(f) = <<>>
      <4>1. Out(c) \in Ends \union {NoEnd} /\ f # <<>> /\ f[1].type = "RESET"
        BY <1>1, <1>11
      <4>2. /\ end[In(Out(c)[1])].created
            /\ \/ f[1].type = "RESET" /\ end[In(Out(c)[1])].closed /\ Tail(f) = <<>>
               \/ f[1].type \in {"DATA", "ACK"}
        BY <1>10, <3>2, <4>1, StreamTakesBack
      <4>3. QED
        BY <1>11, <4>1, <4>2
    <3>4. end[Out(c)].opening /\ end[Out(c)].transport /\ ~end[In(c)].destroyed
      BY <1>0, <1>2, <3>3 DEF TableInv
    <3>5. c \in appClosed
      BY <1>11, <1>14, <3>3, <3>4 DEF ClosedOnlyByApp
    <3>6. /\ end'[In(c)].created /\ end'[In(c)].closed /\ end'[Out(c)].opening /\ end'[Out(c)].closed
      BY <1>9, <1>11, <2>1, <3>3, <3>4
    <3>7. /\ end[Out(c)].closed => Stream(b, <<>>, NoEnd, o, end')
          /\ ~end[Out(c)].closed => Stream(Append(b, m), <<>>, NoEnd, o, end')
      BY <1>2, <1>9, <1>10, <1>13, <3>2, <3>3, <3>4, <3>6, StreamResetsBack DEF m
    <3>8. Stream(wire'[Other(p)][s], wire'[p][s], mDataChannels'[p][s], mDataChannels'[Other(p)][s], end')
      <4>1. CASE end[Out(c)].closed
        BY <1>7, <1>8, <2>1, <3>3, <3>7, <4>1
      <4>2. CASE ~end[Out(c)].closed
        BY <1>7, <1>8, <2>1, <3>3, <3>4, <3>7, <4>2
      <4>3. QED
        BY <4>1, <4>2
    <3>9. QED
      BY <3>1, <3>5, <3>8
  <2>2. CASE e = In(c) /\ end[e].created
    <3>1. Other(Creator[c]) = p /\ Creator[c] = Other(p)
      BY <1>2, <1>11, <2>2, PeerFacts
    <3>2. Stream(f, b, o, In(c), end)
      <4>1. s % 2 = Parity(Other(p)) => Stream(f, b, o, e, end)
        BY <1>14, Sides DEF b, f, e, o
      <4>2. QED
        BY <1>12, <2>2, <3>1, <4>1
    <3>3. /\ end'[In(c)].created <=> end[In(c)].created
          /\ end'[In(c)].closed /\ end'[Out(c)] = end[Out(c)]
      BY <1>9, <1>11, <2>2
    <3>4. /\ end[Out(c)].closed /\ end[Out(c)].opening
          /\ end[In(c)].closed => Stream(Tail(f), b, o, NoEnd, end')
          /\ ~end[In(c)].closed => Stream(Tail(f), Append(b, m), o, NoEnd, end')
      BY <1>1, <1>2, <1>9, <1>10, <1>13, <3>2, <3>3, StreamResets DEF m
    <3>5. c \in appClosed
      <4>1. ~end[Out(c)].destroyed
        BY <1>0, <1>2, <3>4 DEF JobInv
      <4>2. QED
        BY <1>11, <1>14, <3>4, <4>1 DEF ClosedOnlyByApp
    <3>6. end[In(c)].transport
      BY <1>0, <1>2, <2>2 DEF TableInv
    <3>7. Stream(wire'[p][s], wire'[Other(p)][s], mDataChannels'[Other(p)][s], mDataChannels'[p][s], end')
      <4>1. CASE end[In(c)].closed
        BY <1>7, <1>8, <2>2, <3>4, <4>1
      <4>2. CASE ~end[In(c)].closed
        BY <1>7, <1>8, <2>2, <3>4, <3>6, <4>2
      <4>3. QED
        BY <4>1, <4>2
    <3>8. QED
      BY <3>1, <3>5, <3>7
  <2>3. QED
    BY <1>2, <2>1, <2>2
<1>15. ASSUME NoRace, StreamInv, NoCrossTalk, ClosedOnlyByApp
       PROVE  StreamInv' /\ NoCrossTalk' /\ ClosedOnlyByApp'
  <2>1. StreamInv'
    BY <1>2, <1>5, <1>8, <1>9, <1>13, <1>14, <1>15, StreamsStep DEF Answers
  <2>2. NoCrossTalk'
    BY <1>3, <1>15 DEF NoCrossTalk
  <2>3. ClosedOnlyByApp'
    <3>1. e[1] \in appClosed /\ appClosed' = appClosed
      BY <1>14, <1>15 DEF c, Delivers
    <3>2. QED
      BY <1>9, <1>15, <3>1 DEF ClosedOnlyByApp
  <2>4. QED
    BY <2>1, <2>2, <2>3
<1>16. received' \in [Ends -> SUBSET Chans]
  BY <1>0, <1>3 DEF ChannelsTypeOK
<1>17. QED
  BY <1>4, <1>5, <1>15, <1>16, DeliverKeeps DEF Delivers

(* Data or an acknowledgement is for the channel in the table.               *)
LEMMA ForwardIncomingInv ==
    ASSUME ChannelsIInv, NEW p \in Peers, NEW s \in ChannelStreams, Delivers(p, s),
           ForwardIncoming(p, s, wire[p][s][1], Taken(p, s))
    PROVE  ChannelsIInv'
<1> DEFINE e == mDataChannels[p][s]
           c == e[1]
           f == wire[p][s]
           b == wire[Other(p)][s]
           o == mDataChannels[Other(p)][s]
<1>0. ChannelsTypeOK /\ TableInv /\ WireInv
  BY DEF ChannelsIInv
<1>1. f[1].type \in {"ACK", "DATA"} /\ e # NoEnd /\ f # <<>> /\ wire' = Taken(p, s) /\ UNCHANGED mDataChannels
  BY DEF ForwardIncoming, Used, Delivers
<1>2. /\ e \in Ends /\ c \in Chans /\ end[Out(c)].stream = s /\ Peer(e) = p
      /\ e = Out(c) \/ (e = In(c) /\ end[e].created)
  BY <1>1, UsedFacts
<1>3. f[1].chan \in Chans
  <2>1. 1 \in DOMAIN f
    BY <1>0, <1>1, FieldFacts, TailFacts
  <2>2. QED
    BY <1>0, <1>1, <2>1 DEF WireInv
<1>4. /\ end' = end \/ end' = [end EXCEPT ![e].open = TRUE]
      /\ received' = received \/ received' = [received EXCEPT ![e] = @ \union {f[1].chan}]
  BY DEF ForwardIncoming
<1>5. /\ f \in Seq(WireMessage) /\ b \in Seq(WireMessage) /\ o \in Ends \union {NoEnd} /\ end \in [Ends -> End]
      /\ Other(p) \in Peers /\ Other(Other(p)) = p
  BY Sides
<1>6. Answers(p, s, wire') /\ wire'[p][s] = Tail(f) /\ wire'[Other(p)][s] = b
  BY <1>1, TakenFacts DEF Answers
<1>7. s % 2 = Parity(Creator[c])
  BY <1>0, <1>2, EndFacts, PeerFacts DEF TableInv
<1>8. /\ Out(c) \in Ends /\ In(c) \in Ends /\ Out(c)[1] = c /\ In(c)[1] = c
      /\ Peer(Out(c)) = Creator[c] /\ Peer(In(c)) = Other(Creator[c]) /\ Creator[c] \in Peers
  BY <1>2, EndFacts
<1> HIDE DEF e, c, o, b
<1>9. /\ end' \in [Ends -> End]
      /\ \A g \in Ends : /\ end'[g].created = end[g].created /\ end'[g].destroyed = end[g].destroyed
                         /\ end'[g].opening = end[g].opening /\ end'[g].transport = end[g].transport
                         /\ end'[g].stream = end[g].stream /\ end'[g].closed = end[g].closed
  <2> DEFINE r == [end[e] EXCEPT !.open = TRUE]
  <2>1. end[e] \in End
    BY <1>2, <1>5
  <2>2. end' = end \/ end' = [end EXCEPT ![e] = r]
    BY <1>2, <1>4, <1>5
  <2>3. /\ r \in End /\ r.closed = end[e].closed /\ r.created = end[e].created /\ r.destroyed = end[e].destroyed
        /\ r.opening = end[e].opening /\ r.transport = end[e].transport /\ r.stream = end[e].stream
    BY <2>1 DEF End
  <2> HIDE DEF r
  <2>4. CASE end' = end
    BY <1>5, <2>4
  <2>5. CASE end' = [end EXCEPT ![e] = r]
    BY <1>2, <1>5, <2>3, <2>5
  <2>6. QED
    BY <2>2, <2>4, <2>5
<1>10. received' \in [Ends -> SUBSET Chans]
       /\ \A g \in Ends : received'[g] = received[g] \/ (g = e /\ received'[g] = received[g] \union {f[1].chan})
  <2>1. received \in [Ends -> SUBSET Chans]
    BY <1>0 DEF ChannelsTypeOK
  <2>2. CASE received' = received
    BY <2>1, <2>2
  <2>3. CASE received' = [received EXCEPT ![e] = @ \union {f[1].chan}]
    <3> DEFINE x == f[1].chan
    <3>1. x \in Chans /\ received' = [received EXCEPT ![e] = @ \union {x}]
      BY <1>3, <2>3
    <3> HIDE DEF x
    <3>2. /\ received' \in [Ends -> SUBSET Chans]
          /\ \A g \in Ends : received'[g] = received[g] \/ (g = e /\ received'[g] = received[g] \union {x})
      BY <1>2, <2>1, <3>1
    <3>3. QED
      BY <3>2 DEF x
  <2>4. QED
    BY <1>4, <2>2, <2>3
<1>11. \A x \in Chans : SameFlags(end, end', x)
  BY <1>9, EndFacts DEF SameFlags
<1>12. AtMostCloses
  <2>1. /\ mDataChannels' \in [Peers -> [ChannelStreams -> Ends \union {NoEnd}]]
        /\ closing' \in [Ends -> {"no", "without", "with", "done"}]
        /\ sending' \in [Ends -> {"no", "checked", "done"}]
    BY <1>0, <1>1 DEF ChannelsTypeOK, Delivers
  <2>2. QED
    BY <1>1, <1>9, <2>1 DEF AtMostCloses, Delivers
<1>13. ASSUME StreamInv
       PROVE  /\ f[1].chan = c
              /\ Stream(wire'[Other(Creator[c])][s], wire'[Creator[c]][s],
                        mDataChannels'[Creator[c]][s], mDataChannels'[Other(Creator[c])][s], end')
  <2>0. /\ mDataChannels'[p][s] = e /\ mDataChannels'[Other(p)][s] = o /\ e \in Ends \union {NoEnd}
        /\ Tail(f) \in Seq(WireMessage) /\ f # <<>> /\ f[1].type \in {"DATA", "ACK"}
        /\ SameFlags(end, end', e[1]) /\ (o # NoEnd => SameFlags(end, end', o[1]))
    BY <1>1, <1>2, <1>5, <1>11, TailFacts, EndFacts DEF e, o
  <2>1. CASE e = Out(c)
    <3>1. Creator[c] = p
      BY <1>2, <1>8, <2>1
    <3>2. Stream(b, f, e, o, end)
      BY <1>7, <1>13, <3>1, Sides DEF b, e, o
    <3>3. f[1].chan = e[1] /\ Stream(b, Tail(f), e, o, end)
      <4>1. /\ f \in Seq(WireMessage) /\ b \in Seq(WireMessage) /\ o \in Ends \union {NoEnd}
            /\ e \in Ends \union {NoEnd} /\ end \in [Ends -> End]
            /\ f # <<>> /\ f[1].type \in {"DATA", "ACK"}
        BY <1>5, <2>0
      <4> HIDE DEF f
      <4>2. QED
        BY <3>2, <4>1, StreamTakesOwn
    <3> HIDE DEF f
    <3>4. Stream(b, Tail(f), e, o, end')
      BY <1>5, <1>9, <2>0, <3>3, StreamFrame
    <3>5. QED
      BY <1>6, <2>0, <3>1, <3>3, <3>4 DEF c
  <2>2. CASE e = In(c)
    <3>1. Other(Creator[c]) = p /\ Creator[c] = Other(p)
      BY <1>2, <1>8, <2>2, PeerFacts
    <3>2. Stream(f, b, o, e, end)
      BY <1>7, <1>13, <3>1, Sides DEF b, e, o
    <3>3. f[1].chan = e[1] /\ Stream(Tail(f), b, o, e, end)
      <4>1. /\ f \in Seq(WireMessage) /\ b \in Seq(WireMessage) /\ o \in Ends \union {NoEnd}
            /\ e \in Ends \union {NoEnd} /\ end \in [Ends -> End]
            /\ f # <<>> /\ f[1].type \in {"DATA", "ACK"}
        BY <1>5, <2>0
      <4> HIDE DEF f
      <4>2. QED
        BY <3>2, <4>1, StreamTakes
    <3> HIDE DEF f
    <3>4. Stream(Tail(f), b, o, e, end')
      BY <1>5, <1>9, <2>0, <3>3, StreamFrame
    <3>5. QED
      BY <1>6, <2>0, <3>1, <3>3, <3>4 DEF c
  <2>3. QED
    BY <1>2, <2>1, <2>2
<1>14. ASSUME NoRace, StreamInv, NoCrossTalk, ClosedOnlyByApp
       PROVE  StreamInv' /\ NoCrossTalk' /\ ClosedOnlyByApp'
  <2>1. StreamInv'
    BY <1>1, <1>2, <1>6, <1>9, <1>11, <1>13, <1>14, StreamsStep DEF Answers
  <2>2. NoCrossTalk'
    <3>1. f[1].chan = e[1]
      BY <1>13, <1>14 DEF c
    <3>2. \A g \in Ends : received'[g] \subseteq {g[1]}
      <4> HIDE DEF f
      <4> QED
        BY <1>10, <1>14, <3>1 DEF NoCrossTalk
    <3>3. QED
      BY <3>2 DEF NoCrossTalk
  <2>3. ClosedOnlyByApp'
    BY <1>9, <1>14 DEF ClosedOnlyByApp, Delivers
  <2>4. QED
    BY <2>1, <2>2, <2>3
<1>15. QED
  BY <1>6, <1>10, <1>12, <1>14, DeliverKeeps DEF Delivers

(* Whatever is delivered, the invariant is kept.                             *)
LEMMA DeliverInv ==
    ASSUME ChannelsIInv, NEW p \in Peers, NEW s \in ChannelStreams, Deliver(p, s)
    PROVE  ChannelsIInv'
<1>1. Delivers(p, s)
  BY DEF Deliver, Delivers, threads
<1>2. Head(wire[p][s]) = wire[p][s][1]
  BY <1>1, FieldFacts, TailFacts DEF ChannelsIInv, Delivers
<1>3. \/ ForwardOpen(p, s, wire[p][s][1], Taken(p, s))
      \/ ForwardOpenUsed(p, s, wire[p][s][1], Taken(p, s))
      \/ ForwardUnexpected(p, s, wire[p][s][1], Taken(p, s))
      \/ ForwardReset(p, s, wire[p][s][1], Taken(p, s))
      \/ ForwardIncoming(p, s, wire[p][s][1], Taken(p, s))
  BY <1>2 DEF Deliver, Taken
<1>4. QED
  BY <1>1, <1>3, ForwardOpenInv, ForwardOpenUsedInv, ForwardUnexpectedInv, ForwardResetInv, ForwardIncomingInv

(* Every step of the data channels keeps it.                                 *)
LEMMA NextInv == ChannelsIInv /\ [ChannelsNext]_channelsVars => ChannelsIInv'
<1> SUFFICES ASSUME ChannelsIInv, [ChannelsNext]_channelsVars PROVE ChannelsIInv'
  OBVIOUS
<1>1. ASSUME NEW c \in Chans, Create(c) PROVE ChannelsIInv'
  BY <1>1, CreateInv
<1>2. ASSUME NEW p \in Peers, Connected(p) PROVE ChannelsIInv'
  BY <1>2, ConnectedInv
<1>3. ASSUME NEW p \in Peers, CreateReturns(p) PROVE ChannelsIInv'
  BY <1>3, CreateReturnsInv
<1>4. ASSUME NEW p \in Peers, CreateAssigns(p) PROVE ChannelsIInv'
  BY <1>4, CreateAssignsInv
<1>5. ASSUME NEW p \in Peers, CreateOpens(p) PROVE ChannelsIInv'
  BY <1>5, CreateOpensInv
<1>6. ASSUME NEW p \in Peers, ConnectedCallback(p) PROVE ChannelsIInv'
  BY <1>6, ConnectedCallbackInv
<1>7. ASSUME NEW p \in Peers, JobBegins(p) PROVE ChannelsIInv'
  BY <1>7, JobBeginsInv
<1>8. ASSUME NEW p \in Peers, JobOpens(p) PROVE ChannelsIInv'
  BY <1>8, JobOpensInv
<1>9. ASSUME NEW p \in Peers, JobEnds(p) PROVE ChannelsIInv'
  BY <1>9, JobEndsInv
<1>10. ASSUME NEW p \in Peers, NEW s \in ChannelStreams, Deliver(p, s) PROVE ChannelsIInv'
  BY <1>10, DeliverInv
<1>11. ASSUME NEW e \in Ends, CloseBegins(e) PROVE ChannelsIInv'
  BY <1>11, CloseBeginsInv
<1>12. ASSUME NEW e \in Ends, CloseEnds(e) PROVE ChannelsIInv'
  BY <1>12, CloseEndsInv
<1>13. ASSUME NEW e \in Ends, SendBegins(e) PROVE ChannelsIInv'
  BY <1>13, SendBeginsInv
<1>14. ASSUME NEW e \in Ends, SendEnds(e) PROVE ChannelsIInv'
  BY <1>14, SendEndsInv
<1>15. CASE UNCHANGED channelsVars
  <2>1. wire' = wire /\ mDataChannels' = mDataChannels /\ end' = end
    BY <1>15 DEF channelsVars
  <2>2. ASSUME StreamInv PROVE StreamInv'
    BY <2>1, <2>2, Zenon DEF StreamInv
  <2> USE <1>15 DEF channelsVars, ChannelsIInv
  <2>3. ChannelsTypeOK' /\ WireInv'
    BY DEF ChannelsTypeOK, WireInv
  <2>4. TableInv' /\ ListInv' /\ JobInv' /\ AppInv'
    BY DEF TableInv, ListInv, JobInv, AppInv
  <2>5. ASSUME NoCrossTalk PROVE NoCrossTalk'
    BY <2>5 DEF NoCrossTalk, NoRace
  <2>6. ASSUME ClosedOnlyByApp PROVE ClosedOnlyByApp'
    BY <2>6 DEF ClosedOnlyByApp
  <2>7. RaceInv'
    BY <2>2, <2>5, <2>6 DEF RaceInv, NoRace
  <2>8. QED
    BY <2>3, <2>4, <2>7
<1>16. QED
  BY <1>1, <1>2, <1>3, <1>4, <1>5, <1>6, <1>7, <1>8, <1>9, <1>10, <1>11, <1>12, <1>13, <1>14, <1>15, SMTT(30)
     DEF ChannelsNext, Library

(* The three parts of the property follow from it.                           *)
LEMMA IInvImplies == ChannelsIInv => ChannelsInv
<1> SUFFICES ASSUME ChannelsIInv PROVE ChannelsInv
  OBVIOUS
<1>1. NoCrossTalk /\ ClosedByAppOrRace
  BY DEF ChannelsIInv, RaceInv, NoCrossTalk, ClosedByAppOrRace
<1>2. \A e \in Ends : end[e].stream # NoStream /\ ~end[e].closed =>
          /\ mDataChannels[Peer(e)][end[e].stream] = e
          /\ end[e].stream % 2 = Parity(Creator[e[1]])
  BY DEF ChannelsIInv, TableInv
<1>3. StreamsDistinct
  BY <1>2 DEF StreamsDistinct, ChannelsIInv
<1>4. QED
  BY <1>1, <1>3 DEF ChannelsInv

(* The data channels of two peers, for any channels, creators and number of  *)
(* streams, whatever applications create, close and send, and whatever the   *)
(* order of the threads and messages: two open channels of a peer never      *)
(* share a stream; and unless an open message was sent twice or into a       *)
(* close(), or a message after it (OutgoingDataChannel::open and             *)
(* DataChannel::outgoing test nothing under a lock), data reaches only the   *)
(* channel it was sent on although streams are used again, and no channel is *)
(* closed that no application closed.                                        *)
THEOREM ChannelsCorrect == ChannelsSpec => []ChannelsInv
<1>1. ChannelsInit => ChannelsIInv
  BY InitInv
<1>2. ChannelsIInv /\ [ChannelsNext]_channelsVars => ChannelsIInv'
  BY NextInv
<1>3. ChannelsIInv => ChannelsInv
  BY IInvImplies
<1>4. QED
  BY <1>1, <1>2, <1>3, PTL DEF ChannelsSpec

=============================================================================
