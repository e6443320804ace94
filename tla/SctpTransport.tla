---------------------------- MODULE SctpTransport ----------------------------
(***************************************************************************)
(* The sending half and the life cycle of src/src/impl/sctptransport.cpp:  *)
(* the send queue in front of the usrsctp socket, the buffered amounts     *)
(* reported to the data channels, the jobs that flush and receive, and the *)
(* graceful shutdown.                                                      *)
(*                                                                         *)
(* Threads: application threads in send(), closeStream() and close(); the  *)
(* threads of usrsctp that call handleUpcall(); the thread of the lower    *)
(* transport; and the transport's Processor, which executes its jobs one   *)
(* at a time in order (SerialExecutor).  mSendMutex makes send(),          *)
(* closeStream(), flush() and doFlush() atomic with respect to each other; *)
(* the state is an atomic that others may change between any two steps.    *)
(*                                                                         *)
(* usrsctp is external: it takes Window data messages before it would      *)
(* block, acknowledgements make room again and call the upcall, and once   *)
(* the association is down or shut down it refuses to send.                *)
(***************************************************************************)
EXTENDS Naturals, Sequences, FiniteSets

CONSTANTS
    Streams,
    Upcallers,      \* the threads that may be in handleUpcall()
    Window,         \* data messages usrsctp buffers
    MaxMessages,    \* bounds the calls of send() and closeStream()
    LateSends       \* may send() be called once close() was?

ASSUME WindowAssumption == Window \in Nat \ {0}
ASSUME MaxMessagesAssumption == MaxMessages \in Nat
ASSUME LateSendsAssumption == LateSends \in BOOLEAN

VARIABLES
    state,              \* Transport::mState
    mSendQueue,         \* SctpTransport::mSendQueue
    mStopping,          \* its Queue::mStopping
    mSendShutdown,      \* SctpTransport::mSendShutdown
    mBufferedAmount,    \* SctpTransport::mBufferedAmount
    mPendingRecvCount,  \* SctpTransport::mPendingRecvCount
    mPendingFlushCount, \* SctpTransport::mPendingFlushCount
    jobs,               \* the jobs of mProcessor, oldest first
    receiving,          \* the notification doRecv() took, while it runs
    closer,             \* where the thread in close() is
    upcall,             \* upcall[u]: where thread u is in handleUpcall()
    assoc,              \* the association: "none", "up" or "down"
    inbox,              \* what usrsctp_recvv would return
    unacked,            \* data messages in usrsctp's buffer
    lastSent,           \* the number of the last message usrsctp took
    count               \* messages made so far: the next message's number

vars == <<state, mSendQueue, mStopping, mSendShutdown, mBufferedAmount, mPendingRecvCount,
          mPendingFlushCount, jobs, receiving, closer, upcall, assoc, inbox, unacked, lastSent, count>>

sendVars == <<mSendQueue, mSendShutdown, mBufferedAmount, unacked, lastSent>>

States == {"Disconnected", "Connecting", "Connected", "Failed"}
Kinds == {"Data", "Reset"}
Message == [id : 1 .. MaxMessages, stream : Streams, kind : Kinds]
Notifications == {"CommUp", "CommLost", "SenderDry"}

(* message_size_func: only data counts as buffered.                          *)
Size(m) == IF m.kind = "Data" THEN 1 ELSE 0

TypeOK ==
    /\ state \in States
    /\ mSendQueue \in Seq(Message)
    /\ mStopping \in BOOLEAN
    /\ mSendShutdown \in BOOLEAN
    /\ mBufferedAmount \in [Streams -> Nat]
    /\ mPendingRecvCount \in Nat
    /\ mPendingFlushCount \in Nat
    /\ jobs \in Seq({"doRecv", "doFlush", "flush"})
    /\ receiving \in Notifications \union {"no", "next"}
    /\ closer \in {"idle", "stopped", "checked", "done"}
    /\ upcall \in [Upcallers -> {"idle", "event", "recv", "write", "flush"}]
    /\ assoc \in {"none", "up", "down"}
    /\ inbox \in Seq(Notifications)
    /\ unacked \in 0 .. Window
    /\ lastSent \in 0 .. MaxMessages
    /\ count \in 0 .. MaxMessages

(* After start(): registerIncoming() and connect() were called.              *)
Init ==
    /\ state = "Connecting"
    /\ mSendQueue = <<>>
    /\ mStopping = FALSE
    /\ mSendShutdown = FALSE
    /\ mBufferedAmount = [s \in Streams |-> 0]
    /\ mPendingRecvCount = 0
    /\ mPendingFlushCount = 0
    /\ jobs = <<>>
    /\ receiving = "no"
    /\ closer = "idle"
    /\ upcall = [u \in Upcallers |-> "idle"]
    /\ assoc = "none"
    /\ inbox = <<>>
    /\ unacked = 0
    /\ lastSent = 0
    /\ count = 0

-----------------------------------------------------------------------------

(* usrsctp_sendv accepts at most this many data messages now.                *)
Refusing == assoc # "up" \/ mSendShutdown
Room == IF Refusing THEN 0 ELSE Window - unacked

DataIn(q, k) == Cardinality({i \in 1 .. k : q[i].kind = "Data"})

(* How many messages trySendQueue() gets rid of: trySendMessage() fails for  *)
(* all of them unless connected, and for a data message without room.        *)
Sendable ==
    IF state # "Connected" THEN 0
    ELSE CHOOSE k \in 0 .. Len(mSendQueue) :
            /\ DataIn(mSendQueue, k) <= Room
            /\ k < Len(mSendQueue) => DataIn(mSendQueue, k + 1) > Room

Drained == Sendable = Len(mSendQueue)

(* The loop stops at a message usrsctp refuses for good: trySendMessage()    *)
(* throws, instead of returning false because there is no room.              *)
Throws == ~Drained /\ state = "Connected" /\ Refusing

(* The last message that left when the first k did.                          *)
LastAfter(k) == IF k = 0 THEN lastSent ELSE mSendQueue[k].id

(* updateBufferedAmount for the messages of q at 1 .. k that left the queue. *)
AmountAfter(k) ==
    [s \in Streams |->
        LET freed == Cardinality({i \in 1 .. k : /\ mSendQueue[i].stream = s
                                                 /\ mSendQueue[i].kind = "Data"})
        IN  IF freed >= mBufferedAmount[s] THEN 0 ELSE mBufferedAmount[s] - freed]

(* trySendQueue, under mSendMutex: sends what it can from the front and then *)
(* shuts the socket down if the queue was stopped and is empty.  The         *)
(* shutdown may fail, which disconnects the transport.                       *)
trySendQueue ==
    /\ mSendQueue' = SubSeq(mSendQueue, Sendable + 1, Len(mSendQueue))
    /\ lastSent' = LastAfter(Sendable)
    /\ unacked' = unacked + DataIn(mSendQueue, Sendable)
    /\ mBufferedAmount' = AmountAfter(Sendable)
    /\ mSendShutdown' = (mSendShutdown \/ (Drained /\ mStopping))
    /\ \/ UNCHANGED state
       \/ mSendShutdown' # mSendShutdown /\ state' = "Disconnected"

(* send() of a new message on stream s: flushes the queue and sends directly *)
(* if nothing is pending; otherwise the message is pushed, which a stopped   *)
(* queue ignores, and its size counted.  If usrsctp refuses, the exception   *)
(* leaves the message with the caller.                                       *)
NewMessage(s, k) == [id |-> count + 1, stream |-> s, kind |-> k]

Push(q, m) == IF mStopping THEN q ELSE Append(q, m)

RoomAfter == Room - DataIn(mSendQueue, Sendable)

SendNow(m) ==
    /\ Drained /\ ~mStopping
    /\ RoomAfter > 0
    /\ mSendQueue' = <<>>
    /\ lastSent' = m.id
    /\ unacked' = unacked + DataIn(mSendQueue, Sendable) + 1
    /\ mBufferedAmount' = AmountAfter(Sendable)
    /\ UNCHANGED <<state, mSendShutdown>>

SendLater(m) ==
    /\ ~Throws /\ ~Refusing
    /\ Drained => RoomAfter = 0 /\ ~mStopping
    /\ mSendQueue' = Push(SubSeq(mSendQueue, Sendable + 1, Len(mSendQueue)), m)
    /\ lastSent' = LastAfter(Sendable)
    /\ unacked' = unacked + DataIn(mSendQueue, Sendable)
    /\ mBufferedAmount' = [AmountAfter(Sendable) EXCEPT ![m.stream] = @ + Size(m)]
    /\ UNCHANGED <<state, mSendShutdown>>

SendThrows(m) ==
    /\ Throws \/ Refusing \/ (Drained /\ mStopping)
    /\ trySendQueue

Send(s) ==
    /\ state = "Connected"
    /\ closer # "idle" => LateSends
    /\ count < MaxMessages
    /\ count' = count + 1
    /\ LET m == NewMessage(s, "Data") IN SendNow(m) \/ SendLater(m) \/ SendThrows(m)
    /\ UNCHANGED <<mStopping, mPendingRecvCount, mPendingFlushCount, jobs, receiving, closer,
                   upcall, assoc, inbox>>

(* closeStream(): queues the reset of the outgoing stream, and a flush.      *)
CloseStream(s) ==
    /\ count < MaxMessages
    /\ count' = count + 1
    /\ mSendQueue' = Push(mSendQueue, NewMessage(s, "Reset"))
    /\ jobs' = Append(jobs, "flush")
    /\ UNCHANGED <<state, mStopping, mSendShutdown, mBufferedAmount, mPendingRecvCount,
                   mPendingFlushCount, receiving, closer, upcall, assoc, inbox, unacked, lastSent>>

-----------------------------------------------------------------------------

(* close(): stops the queue, then reads the state twice.                     *)
CloseStop ==
    /\ closer = "idle"
    /\ closer' = "stopped"
    /\ mStopping' = TRUE
    /\ UNCHANGED <<state, sendVars, mPendingRecvCount, mPendingFlushCount, jobs, receiving,
                   upcall, assoc, inbox, count>>

Mut_CloseCheckNoFlush ==
    /\ closer = "stopped"
    /\ closer' = IF state = "Connected" THEN "done" ELSE "checked"
    /\ UNCHANGED <<state, sendVars, mStopping, mPendingRecvCount, mPendingFlushCount, jobs,
                   receiving, upcall, assoc, inbox, count>>

CloseCheck ==
    /\ closer = "stopped"
    /\ \/ /\ state = "Connected"
          /\ jobs' = Append(jobs, "flush")
          /\ closer' = "done"
       \/ /\ state # "Connected"
          /\ closer' = "checked"
          /\ UNCHANGED jobs
    /\ UNCHANGED <<state, sendVars, mStopping, mPendingRecvCount, mPendingFlushCount,
                   receiving, upcall, assoc, inbox, count>>

(* The early shutdown ends the association, if there is one by now.          *)
CloseEarly ==
    /\ closer = "checked"
    /\ closer' = "done"
    /\ \/ /\ state = "Connecting"
          /\ state' = "Failed"
          /\ assoc' = "down"
       \/ /\ state # "Connecting"
          /\ UNCHANGED <<state, assoc>>
    /\ UNCHANGED <<sendVars, mStopping, mPendingRecvCount, mPendingFlushCount, jobs, receiving,
                   upcall, inbox, count>>

(* incoming(nullptr) on the lower transport's thread: it was disconnected.   *)
LowerDisconnected ==
    /\ state \notin {"Failed", "Disconnected"}
    /\ state' = "Disconnected"
    /\ assoc' = "down"
    /\ UNCHANGED <<sendVars, mStopping, mPendingRecvCount, mPendingFlushCount, jobs, receiving,
                   closer, upcall, inbox, count>>

-----------------------------------------------------------------------------

(* usrsctp: something happened and thread u is going to call the upcall.     *)
Wake(u) == upcall' = [upcall EXCEPT ![u] = "event"]

AssocUp(u) ==
    /\ assoc = "none"
    /\ upcall[u] = "idle"
    /\ assoc' = "up"
    /\ inbox' = Append(inbox, "CommUp")
    /\ Wake(u)
    /\ UNCHANGED <<state, sendVars, mStopping, mPendingRecvCount, mPendingFlushCount, jobs,
                   receiving, closer, count>>

AssocLost(u) ==
    /\ assoc \in {"none", "up"}
    /\ upcall[u] = "idle"
    /\ assoc' = "down"
    /\ inbox' = Append(inbox, "CommLost")
    /\ Wake(u)
    /\ UNCHANGED <<state, sendVars, mStopping, mPendingRecvCount, mPendingFlushCount, jobs,
                   receiving, closer, count>>

(* The peer acknowledges data; the last one also makes the sender dry.       *)
Acknowledged(u) ==
    /\ assoc = "up"
    /\ unacked > 0
    /\ upcall[u] = "idle"
    /\ unacked' = unacked - 1
    /\ inbox' = IF unacked = 1 THEN Append(inbox, "SenderDry") ELSE inbox
    /\ Wake(u)
    /\ UNCHANGED <<state, mSendQueue, mStopping, mSendShutdown, mBufferedAmount, lastSent,
                   mPendingRecvCount, mPendingFlushCount, jobs, receiving, closer, assoc, count>>

(* handleUpcall(): usrsctp_get_events, then enqueueRecv and enqueueFlush.    *)
(* The counters are tested and incremented in two steps without a lock.      *)
UpcallRead(u) ==
    /\ upcall[u] = "event"
    /\ upcall' = [upcall EXCEPT ![u] = IF inbox # <<>> /\ mPendingRecvCount = 0
                                       THEN "recv" ELSE "write"]
    /\ UNCHANGED <<state, sendVars, mStopping, mPendingRecvCount, mPendingFlushCount, jobs,
                   receiving, closer, assoc, inbox, count>>

EnqueueRecv(u) ==
    /\ upcall[u] = "recv"
    /\ upcall' = [upcall EXCEPT ![u] = "write"]
    /\ mPendingRecvCount' = mPendingRecvCount + 1
    /\ jobs' = Append(jobs, "doRecv")
    /\ UNCHANGED <<state, sendVars, mStopping, mPendingFlushCount, receiving, closer, assoc,
                   inbox, count>>

UpcallWrite(u) ==
    /\ upcall[u] = "write"
    /\ upcall' = [upcall EXCEPT ![u] = IF unacked < Window /\ mPendingFlushCount = 0
                                       THEN "flush" ELSE "idle"]
    /\ UNCHANGED <<state, sendVars, mStopping, mPendingRecvCount, mPendingFlushCount, jobs,
                   receiving, closer, assoc, inbox, count>>

EnqueueFlush(u) ==
    /\ upcall[u] = "flush"
    /\ upcall' = [upcall EXCEPT ![u] = "idle"]
    /\ mPendingFlushCount' = mPendingFlushCount + 1
    /\ jobs' = Append(jobs, "doFlush")
    /\ UNCHANGED <<state, sendVars, mStopping, mPendingRecvCount, receiving, closer, assoc,
                   inbox, count>>

-----------------------------------------------------------------------------

Mut_DoFlushKeepsCount ==
    /\ jobs # <<>> /\ Head(jobs) = "doFlush"
    /\ jobs' = Tail(jobs)
    /\ trySendQueue
    /\ UNCHANGED <<mStopping, mPendingRecvCount, mPendingFlushCount, receiving, closer, upcall,
                   assoc, inbox, count>>

(* doFlush(), a job.                                                         *)
DoFlush ==
    /\ jobs # <<>> /\ Head(jobs) = "doFlush"
    /\ jobs' = Tail(jobs)
    /\ mPendingFlushCount' = mPendingFlushCount - 1
    /\ trySendQueue
    /\ UNCHANGED <<mStopping, mPendingRecvCount, receiving, closer, upcall, assoc, inbox, count>>

(* flush(), as a job.                                                        *)
Flush ==
    /\ jobs # <<>> /\ Head(jobs) = "flush"
    /\ jobs' = Tail(jobs)
    /\ \/ state = "Connected" /\ trySendQueue
       \/ state # "Connected" /\ UNCHANGED <<state, sendVars>>
    /\ UNCHANGED <<mStopping, mPendingRecvCount, mPendingFlushCount, receiving, closer, upcall,
                   assoc, inbox, count>>

(* doRecv(), a job: up to the loop, ...                                      *)
DoRecvBegin ==
    /\ jobs # <<>> /\ Head(jobs) = "doRecv"
    /\ receiving = "no"
    /\ receiving' = "next"
    /\ mPendingRecvCount' = mPendingRecvCount - 1
    /\ UNCHANGED <<state, sendVars, mStopping, mPendingFlushCount, jobs, closer, upcall, assoc,
                   inbox, count>>

(* ... the test of the state and usrsctp_recvv, ...                          *)
DoRecvNext ==
    /\ receiving = "next"
    /\ state \notin {"Disconnected", "Failed"}
    /\ inbox # <<>>
    /\ receiving' = Head(inbox)
    /\ inbox' = Tail(inbox)
    /\ UNCHANGED <<state, sendVars, mStopping, mPendingRecvCount, mPendingFlushCount, jobs,
                   closer, upcall, assoc, count>>

(* ... processNotification(), by when the state may have changed, ...        *)
ProcessNotification ==
    /\ receiving \in Notifications
    /\ receiving' = "next"
    /\ \/ /\ receiving = "CommUp"
          /\ state' = "Connected"
          /\ UNCHANGED sendVars
       \/ /\ receiving = "CommLost"
          /\ state' = IF state = "Connected" THEN "Disconnected" ELSE "Failed"
          /\ UNCHANGED sendVars
       \/ /\ receiving = "SenderDry"
          /\ \/ state = "Connected" /\ trySendQueue
             \/ state # "Connected" /\ UNCHANGED <<state, sendVars>>
    /\ UNCHANGED <<mStopping, mPendingRecvCount, mPendingFlushCount, jobs, closer, upcall,
                   assoc, inbox, count>>

(* ... and its end.                                                          *)
DoRecvEnd ==
    /\ receiving = "next"
    /\ state \in {"Disconnected", "Failed"} \/ inbox = <<>>
    /\ receiving' = "no"
    /\ jobs' = Tail(jobs)
    /\ UNCHANGED <<state, sendVars, mStopping, mPendingRecvCount, mPendingFlushCount, closer,
                   upcall, assoc, inbox, count>>

-----------------------------------------------------------------------------

UpcallStep(u) == UpcallRead(u) \/ EnqueueRecv(u) \/ UpcallWrite(u) \/ EnqueueFlush(u)

JobStep == DoFlush \/ Flush \/ DoRecvBegin \/ DoRecvNext \/ ProcessNotification \/ DoRecvEnd

Next ==
    \/ \E s \in Streams : Send(s) \/ CloseStream(s)
    \/ CloseStop \/ CloseCheck \/ CloseEarly
    \/ LowerDisconnected
    \/ \E u \in Upcallers : AssocUp(u) \/ AssocLost(u) \/ Acknowledged(u) \/ UpcallStep(u)
    \/ JobStep

(* Threads that can run do; a peer whose association is up acknowledges.     *)
(* Nobody has to send or close, and the association may never come up.       *)
Fairness ==
    /\ WF_vars(JobStep)
    /\ WF_vars(CloseCheck \/ CloseEarly)
    /\ \A u \in Upcallers : WF_vars(UpcallStep(u))
    /\ WF_vars(\E u \in Upcallers : Acknowledged(u))

Spec == Init /\ [][Next]_vars /\ Fairness

-----------------------------------------------------------------------------

Queued(s) == Cardinality({i \in 1 .. Len(mSendQueue) :
                 mSendQueue[i].stream = s /\ mSendQueue[i].kind = "Data"})

(* The buffered amount of a stream is the total size of its messages that    *)
(* wait to be sent, across flushes, direct sends, resets and the shutdown.   *)
BufferedAmountExact == \A s \in Streams : mBufferedAmount[s] = Queued(s)

(* Messages and resets reach usrsctp in the order of the calls, whether they *)
(* were sent directly or queued: no reset overtakes the data before it.      *)
SendOrder ==
    \A k \in 1 .. Len(mSendQueue) :
        /\ lastSent < mSendQueue[k].id
        /\ \A i \in 1 .. k - 1 : mSendQueue[i].id < mSendQueue[k].id

(* The graceful shutdown loses nothing: it happens with an empty queue, and  *)
(* nothing is queued behind it.                                              *)
ShutdownAfterDrain == mSendShutdown => mStopping /\ mSendQueue = <<>>

FlushAhead ==
    \/ \E i \in 1 .. Len(jobs) : jobs[i] \in {"doFlush", "flush"}
    \/ \E u \in Upcallers : upcall[u] # "idle"
    \/ receiving # "no"

(* No flush is lost: while connected, either the next message cannot be sent *)
(* for want of room or a flush is queued or about to be.                     *)
FlushPending ==
    state = "Connected" /\ Sendable > 0 => FlushAhead

(* The pending counters equal the jobs in the queue, although their test and *)
(* increment are not atomic: they never stay up without a job to bring them  *)
(* down, which would stop all flushing or receiving.                         *)
CountersMatchJobs ==
    /\ TypeOK
    /\ mPendingFlushCount = Cardinality({i \in 1 .. Len(jobs) : jobs[i] = "doFlush"})
    /\ mPendingRecvCount + (IF receiving = "no" THEN 0 ELSE 1)
         = Cardinality({i \in 1 .. Len(jobs) : jobs[i] = "doRecv"})

(* Queued messages are sent, or the association or the transport is gone.    *)
QueueDrains ==
    mSendQueue # <<>> ~> (mSendQueue = <<>> \/ state # "Connected" \/ assoc # "up")

(* close() on a live association shuts it down in the end, whichever way the *)
(* connection came up in the meantime.                                       *)
CloseShutsDown ==
    closer # "idle" ~> (mSendShutdown \/ state # "Connected" \/ assoc # "up")

\* Calls, flushes and upcalls of several threads share one queue and its
\* counters: amounts and counters are exact, the order of the calls is kept, the
\* shutdown comes last, and a message that can be sent has a flush ahead.
SendInv == BufferedAmountExact /\ SendOrder /\ ShutdownAfterDrain /\ FlushPending /\ CountersMatchJobs

\* What is queued is sent, and close() shuts the association down.
SctpProgress == QueueDrains /\ CloseShutsDown
=============================================================================
