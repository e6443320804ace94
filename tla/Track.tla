------------------------------- MODULE Track -------------------------------
(***************************************************************************)
(* The receiving side of a Track and the Channel base it shares with data  *)
(* channels and WebSockets: the receive queue, the callbacks, opening and  *)
(* closing.  Three threads meet here: "net" brings packets                 *)
(* (PeerConnection::dispatchMedia), "proc" opens the track                 *)
(* (PeerConnection::openTracks), "app" sets callbacks, polls, and closes.  *)
(* A callback runs under the mutex of its synchronized_callback, so that   *)
(* setting it and calling it exclude each other.                           *)
(***************************************************************************)
EXTENDS Naturals, Sequences, SequencesExt

CONSTANTS
    TrackPackets,    \* packets that arrive, by topic
    TrackOps,        \* calls of the application, by topic
    RecvQueueLimit   \* RECV_QUEUE_LIMIT

Topics == {"callbacks", "polling"}
ASSUME TrackAssumption ==
    TrackPackets \in [Topics -> Nat] /\ TrackOps \in [Topics -> Nat] /\ RecvQueueLimit \in Nat \ {0}

VARIABLES
    trDir,        \* direction of mMediaDescription
    trClosed,     \* mIsClosed
    trLinked,     \* mDtlsSrtpTransport is set
    trTriggered,  \* mOpenTriggered
    openCb,       \* openCallback: "unset", "stored" (a missed call), "set"
    availCb,      \* availableCallback, the same
    msgCb,        \* messageCallback: "unset", "discard" (of the constructor), "set"
    frameCb,      \* frameCallback is set
    recvQ,        \* mRecvQueue
    trStep,       \* where each thread is
    inHand,       \* the packet a thread has taken out of the queue, or <<>>
    lastCount,    \* the size that was read after a push
    arrived,      \* packets that have arrived so far
    trOps,        \* calls the application has made
    seen,         \* what the callbacks were called with, in order
    polled,       \* packets the application has received by itself
    dropped,      \* packets thrown away
    awake,        \* the application has been told that there is something to poll
    overlap,      \* two threads have held a packet at the same time
    lateOpen,     \* the track was closed between the test of open() and its trigger
    trMuted,      \* the callbacks were reset and the application has set none since
    trSent,       \* result of the last send()
    trTopic       \* whether the application sets callbacks or polls and sends

trackVars == <<trDir, trClosed, trLinked, trTriggered, openCb, availCb, msgCb, frameCb, recvQ, trStep,
               inHand, lastCount, arrived, trOps, seen, polled, dropped, awake, overlap, lateOpen, trMuted, trSent,
               trTopic>>

TrackThreads == {"net", "proc", "app"}
Directions == {"sendrecv", "sendonly", "recvonly", "inactive"}
Kinds == {"rtp", "frame", "control"}  \* without, with frame information, RTCP
TrackPacket == [id : 1 .. TrackPackets[trTopic], kind : Kinds]
Steps == {"idle", "size", "notify", "gate", "check", "pop", "call", "opening", "openCall", "closing", "resetting"}

\* A callback that stores one missed call and replays it once it is set.
CallStored(cb) == IF cb = "set" THEN "set" ELSE "stored"

TrackTypeOK ==
    /\ trDir \in Directions /\ trClosed \in BOOLEAN /\ trLinked \in BOOLEAN /\ trTriggered \in BOOLEAN
    /\ openCb \in {"unset", "stored", "set"} /\ availCb \in {"unset", "stored", "set"}
    /\ msgCb \in {"unset", "discard", "set"} /\ frameCb \in BOOLEAN
    /\ recvQ \in Seq(TrackPacket) /\ Len(recvQ) <= RecvQueueLimit
    /\ trStep \in [TrackThreads -> Steps] /\ inHand \in [TrackThreads -> TrackPacket \cup {<<>>}]
    /\ awake \in BOOLEAN /\ overlap \in BOOLEAN /\ lateOpen \in BOOLEAN

\* A track that only sends discards what comes, unless the application says otherwise.
TrackInit ==
    /\ trDir \in {"sendrecv", "sendonly"} /\ trClosed = FALSE /\ trLinked = FALSE /\ trTriggered = FALSE
    /\ openCb = "unset" /\ availCb = "unset" /\ frameCb = FALSE
    /\ msgCb = IF trDir = "sendonly" THEN "discard" ELSE "unset"
    /\ recvQ = <<>> /\ trStep = [t \in TrackThreads |-> "idle"] /\ inHand = [t \in TrackThreads |-> <<>>]
    /\ lastCount = 0 /\ arrived = 0 /\ trOps = 0 /\ seen = <<>> /\ polled = {} /\ dropped = {}
    /\ awake = FALSE /\ overlap = FALSE /\ lateOpen = FALSE /\ trMuted = FALSE /\ trSent = "none"
    /\ trTopic \in Topics /\ (trTopic = "callbacks" => trDir = "sendrecv")

Goto(t, s) == trStep' = [trStep EXCEPT ![t] = s]
See(e) == seen' = Append(seen, e)
queueVars == <<recvQ, inHand, lastCount, arrived, polled, dropped, awake, overlap>>
callbackVars == <<openCb, availCb, msgCb, frameCb, trMuted>>
apiVars == <<trSent, trTopic>>
lifeVars == <<trDir, trClosed, trLinked, trTriggered, lateOpen>>
--------------------------------------------------------------------------
(* incoming: the direction, the handlers, the queue.                        *)

\* The direction stops media, never RTCP; a full queue drops its tail.
Incoming ==
    /\ trStep["net"] = "idle" /\ arrived < TrackPackets[trTopic]
    /\ arrived' = arrived + 1
    /\ \E k \in IF trTopic = "callbacks" THEN {"rtp", "frame"} ELSE {"rtp", "control"} :
        LET p == [id |-> arrived + 1, kind |-> k]
            stop == trDir \in {"sendonly", "inactive"} /\ k # "control"
        IN IF stop \/ Len(recvQ) >= RecvQueueLimit
             THEN dropped' = dropped \cup {p.id}
                  /\ UNCHANGED <<recvQ, trStep>>
             ELSE recvQ' = Append(recvQ, p) /\ Goto("net", "size") /\ UNCHANGED dropped
    /\ UNCHANGED <<lifeVars, callbackVars, inHand, lastCount, trOps, seen, polled, awake, overlap, apiVars>>

ReadSize ==
    /\ trStep["net"] = "size" /\ lastCount' = Len(recvQ) /\ Goto("net", "notify")
    /\ UNCHANGED <<lifeVars, callbackVars, recvQ, inHand, arrived, trOps, seen, polled, dropped, awake, overlap, apiVars>>

\* A bug: a call that finds no callback is forgotten.
Mut_TriggerAvailable ==
    /\ trStep["net"] = "notify" /\ Goto("net", "gate")
    /\ awake' = (awake \/ (lastCount = 1 /\ availCb = "set")) /\ UNCHANGED availCb
    /\ UNCHANGED <<lifeVars, openCb, msgCb, frameCb, trMuted, recvQ, inHand, lastCount, arrived, trOps, seen, polled, dropped,
                   overlap, apiVars>>

TriggerAvailable ==
    /\ trStep["net"] = "notify" /\ Goto("net", "gate")
    /\ IF lastCount = 1
         THEN availCb' = CallStored(availCb) /\ awake' = (awake \/ availCb = "set")
         ELSE UNCHANGED <<availCb, awake>>
    /\ UNCHANGED <<lifeVars, openCb, msgCb, frameCb, trMuted, recvQ, inHand, lastCount, arrived, trOps, seen, polled, dropped,
                   overlap, apiVars>>
--------------------------------------------------------------------------
(* flushPendingMessages, by whoever calls it.                               *)

\* Only a flush that starts after mOpenTriggered has been set goes on.
FlushGate(t) ==
    /\ trStep[t] = "gate" /\ Goto(t, IF trTriggered THEN "check" ELSE "idle")
    /\ UNCHANGED <<lifeVars, callbackVars, queueVars, trOps, seen, apiVars>>

\* The loop looks at the callbacks, and no more at mOpenTriggered.
FlushCheck(t) ==
    /\ trStep[t] = "check" /\ Goto(t, IF msgCb # "unset" \/ frameCb THEN "pop" ELSE "idle")
    /\ UNCHANGED <<lifeVars, callbackVars, queueVars, trOps, seen, apiVars>>

FlushPop(t) ==
    /\ trStep[t] = "pop"
    /\ IF recvQ = <<>>
         THEN Goto(t, "idle") /\ UNCHANGED <<recvQ, inHand, overlap>>
         ELSE /\ Goto(t, "call") /\ recvQ' = Tail(recvQ) /\ inHand' = [inHand EXCEPT ![t] = Head(recvQ)]
              /\ overlap' = (overlap \/ \E u \in TrackThreads \ {t} : inHand[u] # <<>>)
    /\ UNCHANGED <<lifeVars, callbackVars, lastCount, arrived, polled, dropped, awake, trOps, seen, apiVars>>

\* Frames go to the frame callback, other packets to the message callback; what
\* has no callback (any more) is lost.
Takes(p) == IF p.kind = "frame" THEN frameCb ELSE msgCb = "set"
FlushCall(t) ==
    /\ trStep[t] = "call" /\ Goto(t, "check") /\ inHand' = [inHand EXCEPT ![t] = <<>>]
    /\ LET p == inHand[t] IN
        IF Takes(p) THEN See([what |-> p.kind, id |-> p.id]) /\ UNCHANGED dropped
                    ELSE dropped' = dropped \cup {p.id} /\ UNCHANGED seen
    /\ UNCHANGED <<lifeVars, callbackVars, recvQ, lastCount, arrived, polled, awake, overlap, trOps, apiVars>>

Flush == \E t \in TrackThreads : FlushGate(t) \/ FlushCheck(t) \/ FlushPop(t) \/ FlushCall(t)
--------------------------------------------------------------------------
(* Opening and closing.                                                     *)

\* open(): the transport is stored, then the track is opened unless it is closed.
Open ==
    /\ trStep["proc"] = "idle" /\ ~trLinked
    /\ trLinked' = TRUE /\ Goto("proc", IF trClosed THEN "idle" ELSE "opening")
    /\ UNCHANGED <<trDir, trClosed, trTriggered, lateOpen, callbackVars, queueVars, trOps, seen, apiVars>>

\* A bug: what waits is flushed first.
Mut_TriggerOpen ==
    /\ trStep["proc"] = "opening" /\ trTriggered' = TRUE /\ Goto("proc", "gate")
    /\ UNCHANGED <<trDir, trClosed, trLinked, lateOpen, callbackVars, queueVars, trOps, seen, apiVars>>

TriggerOpen ==
    /\ trStep["proc"] = "opening" /\ trTriggered' = TRUE /\ Goto("proc", "openCall")
    /\ UNCHANGED <<trDir, trClosed, trLinked, lateOpen, callbackVars, queueVars, trOps, seen, apiVars>>

OpenCall ==
    /\ trStep["proc"] = "openCall" /\ Goto("proc", "gate")
    /\ openCb' = CallStored(openCb)
    /\ IF openCb = "set" THEN See([what |-> "open", id |-> 0]) ELSE UNCHANGED seen
    /\ UNCHANGED <<lifeVars, availCb, msgCb, frameCb, trMuted, queueVars, trOps, apiVars>>

AppCalls == trStep["app"] = "idle" /\ trOps < TrackOps[trTopic] /\ trOps' = trOps + 1

\* close(): the closed callback is called once, then everything is reset.
TrackClose ==
    /\ AppCalls
    /\ trClosed' = TRUE /\ Goto("app", "closing")
    /\ IF trClosed THEN UNCHANGED seen ELSE See([what |-> "closed", id |-> 0])
    /\ UNCHANGED <<trDir, trLinked, trTriggered, lateOpen, callbackVars, queueVars, apiVars>>

\* resetCallbacks(): the flag first, then one callback after the other.
ResetFlag ==
    /\ trStep["app"] = "closing" /\ trTriggered' = FALSE /\ Goto("app", "resetting")
    /\ lateOpen' = (lateOpen \/ trStep["proc"] = "opening")
    /\ UNCHANGED <<trDir, trClosed, trLinked, callbackVars, queueVars, trOps, seen, apiVars>>

\* What a stored callback holds survives; the callback of a Track for frames
\* is not one of the Channel's, and stays.
ResetCallbacks ==
    /\ trStep["app"] = "resetting" /\ Goto("app", "idle")
    /\ openCb' = IF openCb = "stored" THEN "stored" ELSE "unset"
    /\ availCb' = IF availCb = "stored" THEN "stored" ELSE "unset"
    /\ msgCb' = "unset" /\ trMuted' = TRUE
    /\ UNCHANGED <<lifeVars, frameCb, queueVars, trOps, seen, apiVars>>
--------------------------------------------------------------------------
(* The other calls of the application.                                      *)

\* onOpen() replays a missed call.
OnOpen ==
    /\ AppCalls /\ trMuted' = FALSE /\ openCb' = "set"
    /\ IF openCb = "stored" THEN See([what |-> "open", id |-> 0]) ELSE UNCHANGED seen
    /\ UNCHANGED <<lifeVars, availCb, msgCb, frameCb, queueVars, trStep, apiVars>>

OnAvailable ==
    /\ AppCalls /\ availCb' = "set" /\ awake' = (awake \/ availCb = "stored")
    /\ UNCHANGED <<lifeVars, openCb, msgCb, frameCb, trMuted, recvQ, inHand, lastCount, arrived, polled, dropped, overlap, seen,
                   trStep, apiVars>>

\* onMessage() and onFrame() flush what has come before them.
OnMessage ==
    /\ AppCalls /\ trMuted' = FALSE /\ msgCb' = "set" /\ Goto("app", "gate")
    /\ UNCHANGED <<lifeVars, openCb, availCb, frameCb, queueVars, seen, apiVars>>
OnFrame ==
    /\ AppCalls /\ trMuted' = FALSE /\ ~frameCb /\ frameCb' = TRUE /\ Goto("app", "gate")
    /\ UNCHANGED <<lifeVars, openCb, availCb, msgCb, queueVars, seen, apiVars>>

\* receive() takes one packet; an application that finds none waits to be told.
Receive ==
    /\ trStep["app"] = "idle" /\ awake
    /\ IF recvQ = <<>> THEN awake' = FALSE /\ UNCHANGED <<recvQ, polled>>
                       ELSE recvQ' = Tail(recvQ) /\ polled' = polled \cup {Head(recvQ).id} /\ UNCHANGED awake
    /\ UNCHANGED <<lifeVars, callbackVars, inHand, lastCount, arrived, dropped, overlap, seen, trStep, trOps, apiVars>>

\* setDescription() with another direction, while no packet is on its way.
SetDescription ==
    /\ AppCalls /\ \E d \in Directions \ {trDir} : trDir' = d
    /\ UNCHANGED <<trClosed, trLinked, trTriggered, lateOpen, callbackVars, queueVars, seen, trStep, apiVars>>

\* outgoing(): RTCP passes every direction, as no handler is set.
SendResult(k) ==
    IF trClosed THEN "closed"
    ELSE IF trDir \in {"recvonly", "inactive"} /\ k # "control" THEN "direction"
    ELSE IF trLinked THEN "sent" ELSE "not open"
TrackSend ==
    /\ AppCalls /\ \E k \in {"rtp", "control"} : trSent' = SendResult(k)
    /\ UNCHANGED <<lifeVars, callbackVars, queueVars, seen, trStep, trTopic>>

AppOp ==
    \/ TrackClose
    \/ trTopic = "callbacks" /\ (OnOpen \/ OnMessage \/ OnFrame)
    \/ trTopic = "polling" /\ (OnAvailable \/ SetDescription \/ TrackSend)
TrackLibrary == Incoming \/ ReadSize \/ TriggerAvailable \/ Flush \/ Open \/ TriggerOpen \/ OpenCall
                \/ ResetFlag \/ ResetCallbacks \/ Receive
TrackNext == AppOp \/ TrackLibrary
TrackSpec == TrackInit /\ [][TrackNext]_trackVars
--------------------------------------------------------------------------
Quiet == \A t \in TrackThreads : trStep[t] = "idle"
Delivered == {seen[i].id : i \in {j \in DOMAIN seen : seen[j].id # 0}}

\* Once the track is open and somebody takes messages, nothing waits in the
\* queue when all threads are done, whoever of them came last: the opening, the
\* packet or onMessage().
NoneWaitingWhenOpen == Quiet /\ trTriggered /\ (msgCb # "unset" \/ frameCb) => recvQ = <<>>

\* An application that polls and sleeps when it finds nothing is told of every
\* packet: the queue is never left with a packet while it sleeps.
NoLostNotification ==
    Quiet /\ availCb = "set" /\ recvQ # <<>> => awake

\* Every packet that has come is in one place only: in the queue, in the hands
\* of a thread, with the application, or dropped for a reason.
PacketsAccounted ==
    LET queued == {recvQ[i].id : i \in DOMAIN recvQ}
        held == {inHand[t].id : t \in {u \in TrackThreads : inHand[u] # <<>>}}
        parts == <<queued, held, dropped, Delivered, polled>>
    IN /\ UNION Range(parts) = 1 .. arrived
       /\ \A i, j \in DOMAIN parts : i # j => parts[i] \cap parts[j] = {}
       /\ \A i, j \in DOMAIN seen : i # j /\ seen[i].id # 0 => seen[i].id # seen[j].id

\* Messages and frames come in the order of arrival, as long as no two threads
\* flush at the same time.
DeliveredInOrder ==
    ~overlap => \A i, j \in DOMAIN seen : i < j /\ seen[i].id # 0 /\ seen[j].id # 0 => seen[i].id < seen[j].id

\* Once close() has reset the callbacks nothing is delivered until the
\* application sets one again: except frames, whose callback stays and which a
\* thread that is in its loop goes on delivering.
SilentAfterClose ==
    trMuted /\ trMuted' => \A i \in DOMAIN seen' \ DOMAIN seen : seen'[i].what = "frame"

\* A closed track delivers nothing that comes later, unless close() came between
\* the test and the trigger of open().
ClosedStaysShut == trClosed /\ trTriggered /\ trStep["app"] = "idle" => lateOpen

\* The application sees the track open before it gets a message, unless the flag
\* is set and the opening thread is just about to call it.
OpenBeforeMessages ==
    \A i \in DOMAIN seen' \ DOMAIN seen :
        seen'[i].id # 0 /\ openCb = "set" => trStep["proc"] = "openCall" \/ trClosed
                                             \/ \E j \in DOMAIN seen : seen[j].what = "open"

\* Three threads flush, open and close one track: no packet is lost, held back or
\* reordered but by the races named, and a closed track stays shut.
TrackInv ==
    /\ NoneWaitingWhenOpen
    /\ NoLostNotification
    /\ PacketsAccounted
    /\ DeliveredInOrder
    /\ ClosedStaysShut

\* No step delivers a message before the opening or after the close.
TrackSteps == [][SilentAfterClose /\ OpenBeforeMessages]_trackVars
============================================================================
