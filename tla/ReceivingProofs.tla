--------------------------- MODULE ReceivingProofs ---------------------------
(* What is received.  The receiving side of a track, for any number of        *)
(* packets, calls of the application and places in the queue: where packets   *)
(* are, in which order they are delivered, who still takes care of those that *)
(* wait, and what the callbacks may be called with before the opening and     *)
(* after the close.  And the receiving side of an SCTP transport, for any     *)
(* sizes and streams: when packets go up to usrsctp, and how pieces become    *)
(* messages.                                                                  *)
EXTENDS Track, SctpIncoming, SequenceTheorems, TLAPS

(* What the track holds.                                                      *)
QueuedPacket == [id : Nat \ {0}, kind : Kinds]
SeenCall == [what : Kinds \cup {"open", "closed"}, id : Nat]
TrackFlags ==
    /\ trClosed \in BOOLEAN /\ trTriggered \in BOOLEAN /\ awake \in BOOLEAN
    /\ overlap \in BOOLEAN /\ lateOpen \in BOOLEAN /\ trMuted \in BOOLEAN /\ frameCb \in BOOLEAN
    /\ openCb \in {"unset", "stored", "set"} /\ availCb \in {"unset", "stored", "set"}
    /\ msgCb \in {"unset", "discard", "set"}
    /\ trStep \in [TrackThreads -> Steps] /\ arrived \in Nat /\ lastCount \in Nat
TrackData ==
    /\ recvQ \in Seq(QueuedPacket) /\ seen \in Seq(SeenCall)
    /\ inHand \in [TrackThreads -> QueuedPacket \cup {<<>>}]
    /\ \A t \in TrackThreads : inHand[t] # <<>> <=> trStep[t] = "call"

(* Every step keeps the flags and the steps of the threads.                   *)
LEMMA TrackFlagsStep == TrackFlags /\ TrackData /\ [TrackNext]_trackVars => TrackFlags'
<1>. SUFFICES ASSUME TrackFlags, TrackData, [TrackNext]_trackVars PROVE TrackFlags'
  OBVIOUS
<1>1. CASE Incoming
  BY <1>1
  DEF Incoming, Goto, TrackFlags, TrackThreads, Steps, queueVars, callbackVars, apiVars, lifeVars
<1>2. CASE ReadSize
  BY <1>2
  DEF ReadSize, Goto, TrackFlags, TrackThreads, Steps, queueVars, callbackVars, apiVars, lifeVars
<1>3. CASE TriggerAvailable
  BY <1>3
  DEF TriggerAvailable, Goto, CallStored, TrackFlags, TrackThreads, Steps, queueVars,
      callbackVars, apiVars, lifeVars
<1>4. ASSUME NEW t \in TrackThreads, FlushGate(t) PROVE TrackFlags'
  BY <1>4
  DEF FlushGate, Goto, TrackFlags, TrackThreads, Steps, queueVars, callbackVars, apiVars, lifeVars
<1>5. ASSUME NEW t \in TrackThreads, FlushCheck(t) PROVE TrackFlags'
  BY <1>5
  DEF FlushCheck, Goto, TrackFlags, TrackThreads, Steps, queueVars, callbackVars, apiVars,
      lifeVars
<1>6. ASSUME NEW t \in TrackThreads, FlushPop(t) PROVE TrackFlags'
  <2>1. overlap' \in BOOLEAN
    <3>1. overlap' = overlap \/ overlap' = (overlap \/ \E u \in TrackThreads \ {t} : inHand[u] # <<>>)
      BY <1>6 DEF FlushPop
    <3>. QED BY <3>1, Zenon DEF TrackFlags
  <2>2. UNCHANGED <<trClosed, trTriggered, lateOpen, trMuted, frameCb, openCb, availCb, msgCb, awake, arrived, lastCount>>
    BY <1>6 DEF FlushPop, callbackVars, lifeVars
  <2>3. trStep' \in [TrackThreads -> Steps]
    BY <1>6 DEF FlushPop, Goto, TrackFlags, Steps
  <2>. QED BY <2>1, <2>2, <2>3 DEF TrackFlags
<1>7. ASSUME NEW t \in TrackThreads, FlushCall(t) PROVE TrackFlags'
  BY <1>7
  DEF FlushCall, Goto, See, TrackFlags, TrackThreads, Steps, queueVars, callbackVars, apiVars,
      lifeVars
<1>8. CASE Open
  BY <1>8
  DEF Open, Goto, TrackFlags, TrackThreads, Steps, queueVars, callbackVars, apiVars, lifeVars
<1>9. CASE TriggerOpen
  BY <1>9
  DEF TriggerOpen, Goto, TrackFlags, TrackThreads, Steps, queueVars, callbackVars, apiVars,
      lifeVars
<1>10. CASE OpenCall
  BY <1>10
  DEF OpenCall, Goto, CallStored, See, TrackFlags, TrackThreads, Steps, queueVars, callbackVars,
      apiVars, lifeVars
<1>11. CASE ResetFlag
  BY <1>11
  DEF ResetFlag, Goto, TrackFlags, TrackThreads, Steps, queueVars, callbackVars, apiVars, lifeVars
<1>12. CASE ResetCallbacks
  BY <1>12
  DEF ResetCallbacks, Goto, TrackFlags, TrackThreads, Steps, queueVars, callbackVars, apiVars,
      lifeVars
<1>13. CASE Receive
  BY <1>13
  DEF Receive, TrackFlags, TrackThreads, Steps, queueVars, callbackVars, apiVars, lifeVars
<1>14. CASE TrackClose
  BY <1>14
  DEF TrackClose, AppCalls, Goto, See, TrackFlags, TrackThreads, Steps, queueVars, callbackVars,
      apiVars, lifeVars
<1>15. CASE OnOpen
  BY <1>15
  DEF OnOpen, AppCalls, See, TrackFlags, TrackThreads, Steps, queueVars, callbackVars, apiVars,
      lifeVars
<1>16. CASE OnMessage
  BY <1>16
  DEF OnMessage, AppCalls, Goto, TrackFlags, TrackThreads, Steps, queueVars, callbackVars,
      apiVars, lifeVars
<1>17. CASE OnFrame
  BY <1>17
  DEF OnFrame, AppCalls, Goto, TrackFlags, TrackThreads, Steps, queueVars, callbackVars, apiVars,
      lifeVars
<1>18. CASE OnAvailable
  BY <1>18
  DEF OnAvailable, AppCalls, TrackFlags, TrackThreads, Steps, queueVars, callbackVars, apiVars,
      lifeVars
<1>19. CASE SetDescription
  BY <1>19
  DEF SetDescription, AppCalls, TrackFlags, TrackThreads, Steps, queueVars, callbackVars, apiVars,
      lifeVars
<1>20. CASE TrackSend
  BY <1>20
  DEF TrackSend, AppCalls, TrackFlags, TrackThreads, Steps, queueVars, callbackVars, apiVars,
      lifeVars
<1>21. CASE UNCHANGED trackVars
  BY <1>21
  DEF trackVars, TrackFlags, TrackThreads, Steps, queueVars, callbackVars, apiVars, lifeVars
<1>. QED
  BY <1>1, <1>2, <1>3, <1>4, <1>5, <1>6, <1>7, <1>8, <1>9, <1>10, <1>11, <1>12, <1>13, <1>14,
      <1>15, <1>16, <1>17, <1>18, <1>19, <1>20, <1>21
  DEF TrackNext, TrackLibrary, AppOp, Flush

(* A packet is not the empty hand.                                            *)
LEMMA NotEmpty == ASSUME NEW p \in QueuedPacket PROVE p # <<>>
<1>1. DOMAIN p = {"id", "kind"} /\ DOMAIN <<>> = {}
  BY DEF QueuedPacket
<1>. QED BY <1>1

(* One more call of a callback.                                               *)
LEMMA SeenOne == ASSUME NEW s \in Seq(SeenCall), NEW e \in SeenCall PROVE Append(s, e) \in Seq(SeenCall)
OBVIOUS

(* Every step keeps the types of what is queued, held and seen.               *)
LEMMA TrackDataStep == TrackFlags /\ TrackData /\ [TrackNext]_trackVars => TrackData'
<1>. SUFFICES ASSUME TrackFlags, TrackData, [TrackNext]_trackVars PROVE TrackData'
  OBVIOUS
<1>1. CASE Incoming
  <2>1. recvQ' \in Seq(QueuedPacket)
    <3>1. recvQ' = recvQ \/ \E k \in Kinds : recvQ' = Append(recvQ, [id |-> arrived + 1, kind |-> k])
      BY <1>1 DEF Incoming, Kinds
    <3>2. ASSUME NEW k \in Kinds PROVE [id |-> arrived + 1, kind |-> k] \in QueuedPacket
      BY DEF QueuedPacket, TrackFlags
    <3>3. ASSUME NEW p \in QueuedPacket PROVE Append(recvQ, p) \in Seq(QueuedPacket)
      BY DEF TrackData
    <3>. QED BY <3>1, <3>2, <3>3 DEF TrackData
  <2>2. UNCHANGED <<inHand, seen>> /\ \A u \in TrackThreads : trStep'[u] = "call" <=> trStep[u] = "call"
    BY <1>1 DEF Incoming, Goto, TrackFlags, TrackThreads
  <2>. QED BY <2>1, <2>2 DEF TrackData
<1>2. CASE ReadSize
  BY <1>2
  DEF ReadSize, Goto, TrackFlags, TrackData, TrackThreads, Steps, queueVars, callbackVars,
      apiVars, lifeVars
<1>3. CASE TriggerAvailable
  BY <1>3
  DEF TriggerAvailable, Goto, CallStored, TrackFlags, TrackData, TrackThreads, Steps, queueVars,
      callbackVars, apiVars, lifeVars
<1>4. ASSUME NEW t \in TrackThreads, FlushGate(t) PROVE TrackData'
  BY <1>4
  DEF FlushGate, Goto, TrackFlags, TrackData, TrackThreads, Steps, queueVars, callbackVars,
      apiVars, lifeVars
<1>5. ASSUME NEW t \in TrackThreads, FlushCheck(t) PROVE TrackData'
  BY <1>5
  DEF FlushCheck, Goto, TrackFlags, TrackData, TrackThreads, Steps, queueVars, callbackVars,
      apiVars, lifeVars
<1>6. ASSUME NEW t \in TrackThreads, FlushPop(t) PROVE TrackData'
  <2>1. seen' = seen
    BY <1>6 DEF FlushPop
  <2>2. CASE recvQ = <<>>
    BY <1>6, <2>2 DEF FlushPop, Goto, TrackData, TrackFlags
  <2>3. CASE recvQ # <<>>
    <3>1. /\ recvQ' = Tail(recvQ) /\ inHand' = [inHand EXCEPT ![t] = Head(recvQ)]
          /\ trStep' = [trStep EXCEPT ![t] = "call"]
      BY <1>6, <2>3 DEF FlushPop, Goto
    <3>2. recvQ' \in Seq(QueuedPacket) /\ Head(recvQ) \in QueuedPacket
      BY <2>3, <3>1 DEF TrackData
    <3>3. Head(recvQ) # <<>>
      BY <3>2, NotEmpty
    <3>. QED BY <2>1, <3>1, <3>2, <3>3 DEF TrackData, TrackFlags
  <2>. QED BY <2>2, <2>3
<1>7. ASSUME NEW t \in TrackThreads, FlushCall(t) PROVE TrackData'
  <2>1. /\ recvQ' = recvQ /\ inHand' = [inHand EXCEPT ![t] = <<>>] /\ trStep' = [trStep EXCEPT ![t] = "check"]
        /\ trStep[t] = "call" /\ (seen' = seen \/ seen' = Append(seen, [what |-> inHand[t].kind, id |-> inHand[t].id]))
    BY <1>7 DEF FlushCall, Goto, See
  <2>2. inHand[t] \in QueuedPacket
    BY <2>1 DEF TrackData
  <2>3. [what |-> inHand[t].kind, id |-> inHand[t].id] \in SeenCall
    BY <2>2 DEF QueuedPacket, SeenCall
  <2>4. seen' \in Seq(SeenCall)
    BY <2>1, <2>3, SeenOne DEF TrackData
  <2>5. \A u \in TrackThreads : inHand'[u] # <<>> <=> trStep'[u] = "call"
    BY <2>1 DEF TrackData, TrackFlags
  <2>6. inHand' \in [TrackThreads -> QueuedPacket \cup {<<>>}]
    BY <2>1 DEF TrackData
  <2>. QED BY <2>1, <2>4, <2>5, <2>6 DEF TrackData
<1>8. CASE Open
  BY <1>8
  DEF Open, Goto, TrackFlags, TrackData, TrackThreads, Steps, queueVars, callbackVars, apiVars,
      lifeVars
<1>9. CASE TriggerOpen
  BY <1>9
  DEF TriggerOpen, Goto, TrackFlags, TrackData, TrackThreads, Steps, queueVars, callbackVars,
      apiVars, lifeVars
<1>10. CASE OpenCall
  <2>1. seen' = seen \/ seen' = Append(seen, [what |-> "open", id |-> 0])
    BY <1>10 DEF OpenCall, Goto, See
  <2>2. [what |-> "open", id |-> 0] \in SeenCall
    BY DEF SeenCall
  <2>3. seen' \in Seq(SeenCall)
    BY <2>1, <2>2, SeenOne DEF TrackData
  <2>4. UNCHANGED <<recvQ, inHand>> /\ \A u \in TrackThreads : trStep'[u] = "call" <=> trStep[u] = "call"
    BY <1>10 DEF OpenCall, Goto, See, queueVars, TrackFlags, TrackThreads
  <2>. QED BY <2>3, <2>4 DEF TrackData
<1>11. CASE ResetFlag
  BY <1>11
  DEF ResetFlag, Goto, TrackFlags, TrackData, TrackThreads, Steps, queueVars, callbackVars,
      apiVars, lifeVars
<1>12. CASE ResetCallbacks
  BY <1>12
  DEF ResetCallbacks, Goto, TrackFlags, TrackData, TrackThreads, Steps, queueVars, callbackVars,
      apiVars, lifeVars
<1>13. CASE Receive
  <2>1. recvQ' \in Seq(QueuedPacket)
    <3>1. recvQ' = recvQ \/ (recvQ # <<>> /\ recvQ' = Tail(recvQ))
      BY <1>13 DEF Receive
    <3>2. recvQ # <<>> => Tail(recvQ) \in Seq(QueuedPacket)
      BY DEF TrackData
    <3>. QED BY <3>1, <3>2 DEF TrackData
  <2>2. UNCHANGED <<inHand, seen, trStep>>
    BY <1>13 DEF Receive
  <2>. QED BY <2>1, <2>2 DEF TrackData
<1>14. CASE TrackClose
  <2>1. seen' = seen \/ seen' = Append(seen, [what |-> "closed", id |-> 0])
    BY <1>14 DEF TrackClose, AppCalls, Goto, See
  <2>2. [what |-> "closed", id |-> 0] \in SeenCall
    BY DEF SeenCall
  <2>3. seen' \in Seq(SeenCall)
    BY <2>1, <2>2, SeenOne DEF TrackData
  <2>4. UNCHANGED <<recvQ, inHand>> /\ \A u \in TrackThreads : trStep'[u] = "call" <=> trStep[u] = "call"
    BY <1>14 DEF TrackClose, AppCalls, Goto, See, queueVars, TrackFlags, TrackThreads
  <2>. QED BY <2>3, <2>4 DEF TrackData
<1>15. CASE OnOpen
  <2>1. seen' = seen \/ seen' = Append(seen, [what |-> "open", id |-> 0])
    BY <1>15 DEF OnOpen, AppCalls, See
  <2>2. [what |-> "open", id |-> 0] \in SeenCall
    BY DEF SeenCall
  <2>3. seen' \in Seq(SeenCall)
    BY <2>1, <2>2, SeenOne DEF TrackData
  <2>4. UNCHANGED <<recvQ, inHand>> /\ \A u \in TrackThreads : trStep'[u] = "call" <=> trStep[u] = "call"
    BY <1>15 DEF OnOpen, AppCalls, See, queueVars, TrackFlags, TrackThreads
  <2>. QED BY <2>3, <2>4 DEF TrackData
<1>16. CASE OnMessage
  BY <1>16
  DEF OnMessage, AppCalls, Goto, TrackFlags, TrackData, TrackThreads, Steps, queueVars,
      callbackVars, apiVars, lifeVars
<1>17. CASE OnFrame
  BY <1>17
  DEF OnFrame, AppCalls, Goto, TrackFlags, TrackData, TrackThreads, Steps, queueVars,
      callbackVars, apiVars, lifeVars
<1>18. CASE OnAvailable
  BY <1>18
  DEF OnAvailable, AppCalls, TrackFlags, TrackData, TrackThreads, Steps, queueVars, callbackVars,
      apiVars, lifeVars
<1>19. CASE SetDescription
  BY <1>19
  DEF SetDescription, AppCalls, TrackFlags, TrackData, TrackThreads, Steps, queueVars,
      callbackVars, apiVars, lifeVars
<1>20. CASE TrackSend
  BY <1>20
  DEF TrackSend, AppCalls, TrackFlags, TrackData, TrackThreads, Steps, queueVars, callbackVars,
      apiVars, lifeVars
<1>21. CASE UNCHANGED trackVars
  BY <1>21
  DEF trackVars, TrackFlags, TrackData, TrackThreads, Steps, queueVars, callbackVars, apiVars,
      lifeVars
<1>. QED
  BY <1>1, <1>2, <1>3, <1>4, <1>5, <1>6, <1>7, <1>8, <1>9, <1>10, <1>11, <1>12, <1>13, <1>14,
      <1>15, <1>16, <1>17, <1>18, <1>19, <1>20, <1>21
  DEF TrackNext, TrackLibrary, AppOp, Flush

(* Somebody takes the packets, and a thread is going to.                      *)
Taken == msgCb # "unset" \/ frameCb
Working == {"size", "notify", "gate", "check", "pop", "call", "openCall"}
TakenCareOf == \E t \in TrackThreads : trStep[t] \in Working

(* What waits in the queue of an open track waits for a thread.               *)
FlushedInv == trTriggered /\ Taken /\ recvQ # <<>> => TakenCareOf

(* An application that sleeps and was not told by a stored call: nothing is   *)
(* queued, or one packet of which the network thread is going to tell it.     *)
ToldInv ==
    ~awake /\ availCb # "stored" =>
        \/ recvQ = <<>>
        \/ Len(recvQ) = 1 /\ (trStep["net"] = "size" \/ (trStep["net"] = "notify" /\ lastCount = 1))

(* The flag of a closed track is reset, or will be by the thread that closes  *)
(* it, unless close() came in the middle of open().                           *)
ShutInv ==
    /\ trStep["app"] \in {"closing", "resetting"} => trClosed
    /\ trClosed /\ (trTriggered \/ trStep["proc"] = "opening") => lateOpen \/ trStep["app"] = "closing"

(* The callbacks of a muted track are not set.                                *)
MutedInv == trMuted => trClosed /\ msgCb # "set" /\ openCb # "set"

(* A thread in the loop of the flush started after the flag was set, and the  *)
(* opening was seen or is stored when the opening thread has gone on.         *)
OpenedInv ==
    ~trClosed =>
        /\ (\E t \in TrackThreads : trStep[t] \in {"check", "pop", "call"}) => trTriggered
        /\ trTriggered => \/ trStep["proc"] = "openCall" \/ openCb = "stored"
                          \/ \E i \in DOMAIN seen : seen[i].what = "open"

(* Every step keeps a thread for what waits.                                  *)
LEMMA FlushedStep == TrackFlags /\ TrackData /\ FlushedInv /\ [TrackNext]_trackVars => FlushedInv'
<1>. SUFFICES ASSUME TrackFlags, TrackData, FlushedInv, [TrackNext]_trackVars PROVE FlushedInv'
  OBVIOUS
<1>1. CASE Incoming
  BY <1>1
  DEF Incoming, Goto, TrackFlags, TrackData, FlushedInv, Taken, Working, TakenCareOf,
      TrackThreads, queueVars, callbackVars, apiVars, lifeVars
<1>2. CASE ReadSize
  BY <1>2
  DEF ReadSize, Goto, TrackFlags, TrackData, FlushedInv, Taken, Working, TakenCareOf,
      TrackThreads, queueVars, callbackVars, apiVars, lifeVars
<1>3. CASE TriggerAvailable
  BY <1>3
  DEF TriggerAvailable, Goto, CallStored, TrackFlags, TrackData, FlushedInv, Taken, Working,
      TakenCareOf, TrackThreads, queueVars, callbackVars, apiVars, lifeVars
<1>4. ASSUME NEW t \in TrackThreads, FlushGate(t) PROVE FlushedInv'
  BY <1>4
  DEF FlushGate, Goto, TrackFlags, TrackData, FlushedInv, Taken, Working, TakenCareOf,
      TrackThreads, queueVars, callbackVars, apiVars, lifeVars
<1>5. ASSUME NEW t \in TrackThreads, FlushCheck(t) PROVE FlushedInv'
  BY <1>5
  DEF FlushCheck, Goto, TrackFlags, TrackData, FlushedInv, Taken, Working, TakenCareOf,
      TrackThreads, queueVars, callbackVars, apiVars, lifeVars
<1>6. ASSUME NEW t \in TrackThreads, FlushPop(t) PROVE FlushedInv'
  BY <1>6
  DEF FlushPop, Goto, TrackFlags, TrackData, FlushedInv, Taken, Working, TakenCareOf,
      TrackThreads, queueVars, callbackVars, apiVars, lifeVars
<1>7. ASSUME NEW t \in TrackThreads, FlushCall(t) PROVE FlushedInv'
  BY <1>7
  DEF FlushCall, Goto, See, TrackFlags, TrackData, FlushedInv, Taken, Working, TakenCareOf,
      TrackThreads, queueVars, callbackVars, apiVars, lifeVars
<1>8. CASE Open
  BY <1>8
  DEF Open, Goto, TrackFlags, TrackData, FlushedInv, Taken, Working, TakenCareOf, TrackThreads,
      queueVars, callbackVars, apiVars, lifeVars
<1>9. CASE TriggerOpen
  BY <1>9
  DEF TriggerOpen, Goto, TrackFlags, TrackData, FlushedInv, Taken, Working, TakenCareOf,
      TrackThreads, queueVars, callbackVars, apiVars, lifeVars
<1>10. CASE OpenCall
  BY <1>10
  DEF OpenCall, Goto, CallStored, See, TrackFlags, TrackData, FlushedInv, Taken, Working,
      TakenCareOf, TrackThreads, queueVars, callbackVars, apiVars, lifeVars
<1>11. CASE ResetFlag
  BY <1>11
  DEF ResetFlag, Goto, TrackFlags, TrackData, FlushedInv, Taken, Working, TakenCareOf,
      TrackThreads, queueVars, callbackVars, apiVars, lifeVars
<1>12. CASE ResetCallbacks
  BY <1>12
  DEF ResetCallbacks, Goto, TrackFlags, TrackData, FlushedInv, Taken, Working, TakenCareOf,
      TrackThreads, queueVars, callbackVars, apiVars, lifeVars
<1>13. CASE Receive
  BY <1>13
  DEF Receive, TrackFlags, TrackData, FlushedInv, Taken, Working, TakenCareOf, TrackThreads,
      queueVars, callbackVars, apiVars, lifeVars
<1>14. CASE TrackClose
  BY <1>14
  DEF TrackClose, AppCalls, Goto, See, TrackFlags, TrackData, FlushedInv, Taken, Working,
      TakenCareOf, TrackThreads, queueVars, callbackVars, apiVars, lifeVars
<1>15. CASE OnOpen
  BY <1>15
  DEF OnOpen, AppCalls, See, TrackFlags, TrackData, FlushedInv, Taken, Working, TakenCareOf,
      TrackThreads, queueVars, callbackVars, apiVars, lifeVars
<1>16. CASE OnMessage
  BY <1>16
  DEF OnMessage, AppCalls, Goto, TrackFlags, TrackData, FlushedInv, Taken, Working, TakenCareOf,
      TrackThreads, queueVars, callbackVars, apiVars, lifeVars
<1>17. CASE OnFrame
  BY <1>17
  DEF OnFrame, AppCalls, Goto, TrackFlags, TrackData, FlushedInv, Taken, Working, TakenCareOf,
      TrackThreads, queueVars, callbackVars, apiVars, lifeVars
<1>18. CASE OnAvailable
  BY <1>18
  DEF OnAvailable, AppCalls, TrackFlags, TrackData, FlushedInv, Taken, Working, TakenCareOf,
      TrackThreads, queueVars, callbackVars, apiVars, lifeVars
<1>19. CASE SetDescription
  BY <1>19
  DEF SetDescription, AppCalls, TrackFlags, TrackData, FlushedInv, Taken, Working, TakenCareOf,
      TrackThreads, queueVars, callbackVars, apiVars, lifeVars
<1>20. CASE TrackSend
  BY <1>20
  DEF TrackSend, AppCalls, TrackFlags, TrackData, FlushedInv, Taken, Working, TakenCareOf,
      TrackThreads, queueVars, callbackVars, apiVars, lifeVars
<1>21. CASE UNCHANGED trackVars
  BY <1>21
  DEF trackVars, TrackFlags, TrackData, FlushedInv, Taken, Working, TakenCareOf, TrackThreads,
      queueVars, callbackVars, apiVars, lifeVars
<1>. QED
  BY <1>1, <1>2, <1>3, <1>4, <1>5, <1>6, <1>7, <1>8, <1>9, <1>10, <1>11, <1>12, <1>13, <1>14,
      <1>15, <1>16, <1>17, <1>18, <1>19, <1>20, <1>21
  DEF TrackNext, TrackLibrary, AppOp, Flush

(* Every step keeps that the application is told.                             *)
LEMMA ToldStep == TrackFlags /\ TrackData /\ ToldInv /\ [TrackNext]_trackVars => ToldInv'
<1>. SUFFICES ASSUME TrackFlags, TrackData, ToldInv, [TrackNext]_trackVars PROVE ToldInv'
  OBVIOUS
<1>1. CASE Incoming
  BY <1>1
  DEF Incoming, Goto, TrackFlags, TrackData, ToldInv, TrackThreads, queueVars, callbackVars,
      apiVars, lifeVars
<1>2. CASE ReadSize
  BY <1>2
  DEF ReadSize, Goto, TrackFlags, TrackData, ToldInv, TrackThreads, queueVars, callbackVars,
      apiVars, lifeVars
<1>3. CASE TriggerAvailable
  BY <1>3
  DEF TriggerAvailable, Goto, CallStored, TrackFlags, TrackData, ToldInv, TrackThreads, queueVars,
      callbackVars, apiVars, lifeVars
<1>4. ASSUME NEW t \in TrackThreads, FlushGate(t) PROVE ToldInv'
  BY <1>4
  DEF FlushGate, Goto, TrackFlags, TrackData, ToldInv, TrackThreads, queueVars, callbackVars,
      apiVars, lifeVars
<1>5. ASSUME NEW t \in TrackThreads, FlushCheck(t) PROVE ToldInv'
  BY <1>5
  DEF FlushCheck, Goto, TrackFlags, TrackData, ToldInv, TrackThreads, queueVars, callbackVars,
      apiVars, lifeVars
<1>6. ASSUME NEW t \in TrackThreads, FlushPop(t) PROVE ToldInv'
  BY <1>6
  DEF FlushPop, Goto, TrackFlags, TrackData, ToldInv, TrackThreads, queueVars, callbackVars,
      apiVars, lifeVars
<1>7. ASSUME NEW t \in TrackThreads, FlushCall(t) PROVE ToldInv'
  BY <1>7
  DEF FlushCall, Goto, See, TrackFlags, TrackData, ToldInv, TrackThreads, queueVars, callbackVars,
      apiVars, lifeVars
<1>8. CASE Open
  BY <1>8
  DEF Open, Goto, TrackFlags, TrackData, ToldInv, TrackThreads, queueVars, callbackVars, apiVars,
      lifeVars
<1>9. CASE TriggerOpen
  BY <1>9
  DEF TriggerOpen, Goto, TrackFlags, TrackData, ToldInv, TrackThreads, queueVars, callbackVars,
      apiVars, lifeVars
<1>10. CASE OpenCall
  BY <1>10
  DEF OpenCall, Goto, CallStored, See, TrackFlags, TrackData, ToldInv, TrackThreads, queueVars,
      callbackVars, apiVars, lifeVars
<1>11. CASE ResetFlag
  BY <1>11
  DEF ResetFlag, Goto, TrackFlags, TrackData, ToldInv, TrackThreads, queueVars, callbackVars,
      apiVars, lifeVars
<1>12. CASE ResetCallbacks
  BY <1>12
  DEF ResetCallbacks, Goto, TrackFlags, TrackData, ToldInv, TrackThreads, queueVars, callbackVars,
      apiVars, lifeVars
<1>13. CASE Receive
  BY <1>13
  DEF Receive, TrackFlags, TrackData, ToldInv, TrackThreads, queueVars, callbackVars, apiVars,
      lifeVars
<1>14. CASE TrackClose
  BY <1>14
  DEF TrackClose, AppCalls, Goto, See, TrackFlags, TrackData, ToldInv, TrackThreads, queueVars,
      callbackVars, apiVars, lifeVars
<1>15. CASE OnOpen
  BY <1>15
  DEF OnOpen, AppCalls, See, TrackFlags, TrackData, ToldInv, TrackThreads, queueVars,
      callbackVars, apiVars, lifeVars
<1>16. CASE OnMessage
  BY <1>16
  DEF OnMessage, AppCalls, Goto, TrackFlags, TrackData, ToldInv, TrackThreads, queueVars,
      callbackVars, apiVars, lifeVars
<1>17. CASE OnFrame
  BY <1>17
  DEF OnFrame, AppCalls, Goto, TrackFlags, TrackData, ToldInv, TrackThreads, queueVars,
      callbackVars, apiVars, lifeVars
<1>18. CASE OnAvailable
  BY <1>18
  DEF OnAvailable, AppCalls, TrackFlags, TrackData, ToldInv, TrackThreads, queueVars,
      callbackVars, apiVars, lifeVars
<1>19. CASE SetDescription
  BY <1>19
  DEF SetDescription, AppCalls, TrackFlags, TrackData, ToldInv, TrackThreads, queueVars,
      callbackVars, apiVars, lifeVars
<1>20. CASE TrackSend
  BY <1>20
  DEF TrackSend, AppCalls, TrackFlags, TrackData, ToldInv, TrackThreads, queueVars, callbackVars,
      apiVars, lifeVars
<1>21. CASE UNCHANGED trackVars
  BY <1>21
  DEF trackVars, TrackFlags, TrackData, ToldInv, TrackThreads, queueVars, callbackVars, apiVars,
      lifeVars
<1>. QED
  BY <1>1, <1>2, <1>3, <1>4, <1>5, <1>6, <1>7, <1>8, <1>9, <1>10, <1>11, <1>12, <1>13, <1>14,
      <1>15, <1>16, <1>17, <1>18, <1>19, <1>20, <1>21
  DEF TrackNext, TrackLibrary, AppOp, Flush

(* Every step keeps a closed track shut.                                      *)
LEMMA ShutStep == TrackFlags /\ ShutInv /\ [TrackNext]_trackVars => ShutInv'
<1>. SUFFICES ASSUME TrackFlags, ShutInv, [TrackNext]_trackVars PROVE ShutInv'
  OBVIOUS
<1>1. CASE Incoming
  BY <1>1
  DEF Incoming, Goto, TrackFlags, ShutInv, TrackThreads, queueVars, callbackVars, apiVars,
      lifeVars
<1>2. CASE ReadSize
  BY <1>2
  DEF ReadSize, Goto, TrackFlags, ShutInv, TrackThreads, queueVars, callbackVars, apiVars,
      lifeVars
<1>3. CASE TriggerAvailable
  BY <1>3
  DEF TriggerAvailable, Goto, CallStored, TrackFlags, ShutInv, TrackThreads, queueVars,
      callbackVars, apiVars, lifeVars
<1>4. ASSUME NEW t \in TrackThreads, FlushGate(t) PROVE ShutInv'
  BY <1>4
  DEF FlushGate, Goto, TrackFlags, ShutInv, TrackThreads, queueVars, callbackVars, apiVars,
      lifeVars
<1>5. ASSUME NEW t \in TrackThreads, FlushCheck(t) PROVE ShutInv'
  BY <1>5
  DEF FlushCheck, Goto, TrackFlags, ShutInv, TrackThreads, queueVars, callbackVars, apiVars,
      lifeVars
<1>6. ASSUME NEW t \in TrackThreads, FlushPop(t) PROVE ShutInv'
  BY <1>6
  DEF FlushPop, Goto, TrackFlags, ShutInv, TrackThreads, queueVars, callbackVars, apiVars,
      lifeVars
<1>7. ASSUME NEW t \in TrackThreads, FlushCall(t) PROVE ShutInv'
  BY <1>7
  DEF FlushCall, Goto, See, TrackFlags, ShutInv, TrackThreads, queueVars, callbackVars, apiVars,
      lifeVars
<1>8. CASE Open
  BY <1>8
  DEF Open, Goto, TrackFlags, ShutInv, TrackThreads, queueVars, callbackVars, apiVars, lifeVars
<1>9. CASE TriggerOpen
  BY <1>9
  DEF TriggerOpen, Goto, TrackFlags, ShutInv, TrackThreads, queueVars, callbackVars, apiVars,
      lifeVars
<1>10. CASE OpenCall
  BY <1>10
  DEF OpenCall, Goto, CallStored, See, TrackFlags, ShutInv, TrackThreads, queueVars, callbackVars,
      apiVars, lifeVars
<1>11. CASE ResetFlag
  BY <1>11
  DEF ResetFlag, Goto, TrackFlags, ShutInv, TrackThreads, queueVars, callbackVars, apiVars,
      lifeVars
<1>12. CASE ResetCallbacks
  BY <1>12
  DEF ResetCallbacks, Goto, TrackFlags, ShutInv, TrackThreads, queueVars, callbackVars, apiVars,
      lifeVars
<1>13. CASE Receive
  BY <1>13
  DEF Receive, TrackFlags, ShutInv, TrackThreads, queueVars, callbackVars, apiVars, lifeVars
<1>14. CASE TrackClose
  BY <1>14
  DEF TrackClose, AppCalls, Goto, See, TrackFlags, ShutInv, TrackThreads, queueVars, callbackVars,
      apiVars, lifeVars
<1>15. CASE OnOpen
  BY <1>15
  DEF OnOpen, AppCalls, See, TrackFlags, ShutInv, TrackThreads, queueVars, callbackVars, apiVars,
      lifeVars
<1>16. CASE OnMessage
  BY <1>16
  DEF OnMessage, AppCalls, Goto, TrackFlags, ShutInv, TrackThreads, queueVars, callbackVars,
      apiVars, lifeVars
<1>17. CASE OnFrame
  BY <1>17
  DEF OnFrame, AppCalls, Goto, TrackFlags, ShutInv, TrackThreads, queueVars, callbackVars,
      apiVars, lifeVars
<1>18. CASE OnAvailable
  BY <1>18
  DEF OnAvailable, AppCalls, TrackFlags, ShutInv, TrackThreads, queueVars, callbackVars, apiVars,
      lifeVars
<1>19. CASE SetDescription
  BY <1>19
  DEF SetDescription, AppCalls, TrackFlags, ShutInv, TrackThreads, queueVars, callbackVars,
      apiVars, lifeVars
<1>20. CASE TrackSend
  BY <1>20
  DEF TrackSend, AppCalls, TrackFlags, ShutInv, TrackThreads, queueVars, callbackVars, apiVars,
      lifeVars
<1>21. CASE UNCHANGED trackVars
  BY <1>21
  DEF trackVars, TrackFlags, ShutInv, TrackThreads, queueVars, callbackVars, apiVars, lifeVars
<1>. QED
  BY <1>1, <1>2, <1>3, <1>4, <1>5, <1>6, <1>7, <1>8, <1>9, <1>10, <1>11, <1>12, <1>13, <1>14,
      <1>15, <1>16, <1>17, <1>18, <1>19, <1>20, <1>21
  DEF TrackNext, TrackLibrary, AppOp, Flush

(* Every step keeps a muted track without callbacks.                          *)
LEMMA MutedStep == TrackFlags /\ ShutInv /\ MutedInv /\ [TrackNext]_trackVars => MutedInv'
<1>. SUFFICES ASSUME TrackFlags, ShutInv, MutedInv, [TrackNext]_trackVars PROVE MutedInv'
  OBVIOUS
<1>1. CASE Incoming
  BY <1>1
  DEF Incoming, Goto, TrackFlags, ShutInv, MutedInv, TrackThreads, queueVars, callbackVars,
      apiVars, lifeVars
<1>2. CASE ReadSize
  BY <1>2
  DEF ReadSize, Goto, TrackFlags, ShutInv, MutedInv, TrackThreads, queueVars, callbackVars,
      apiVars, lifeVars
<1>3. CASE TriggerAvailable
  BY <1>3
  DEF TriggerAvailable, Goto, CallStored, TrackFlags, ShutInv, MutedInv, TrackThreads, queueVars,
      callbackVars, apiVars, lifeVars
<1>4. ASSUME NEW t \in TrackThreads, FlushGate(t) PROVE MutedInv'
  BY <1>4
  DEF FlushGate, Goto, TrackFlags, ShutInv, MutedInv, TrackThreads, queueVars, callbackVars,
      apiVars, lifeVars
<1>5. ASSUME NEW t \in TrackThreads, FlushCheck(t) PROVE MutedInv'
  BY <1>5
  DEF FlushCheck, Goto, TrackFlags, ShutInv, MutedInv, TrackThreads, queueVars, callbackVars,
      apiVars, lifeVars
<1>6. ASSUME NEW t \in TrackThreads, FlushPop(t) PROVE MutedInv'
  BY <1>6
  DEF FlushPop, Goto, TrackFlags, ShutInv, MutedInv, TrackThreads, queueVars, callbackVars,
      apiVars, lifeVars
<1>7. ASSUME NEW t \in TrackThreads, FlushCall(t) PROVE MutedInv'
  BY <1>7
  DEF FlushCall, Goto, See, TrackFlags, ShutInv, MutedInv, TrackThreads, queueVars, callbackVars,
      apiVars, lifeVars
<1>8. CASE Open
  BY <1>8
  DEF Open, Goto, TrackFlags, ShutInv, MutedInv, TrackThreads, queueVars, callbackVars, apiVars,
      lifeVars
<1>9. CASE TriggerOpen
  BY <1>9
  DEF TriggerOpen, Goto, TrackFlags, ShutInv, MutedInv, TrackThreads, queueVars, callbackVars,
      apiVars, lifeVars
<1>10. CASE OpenCall
  BY <1>10
  DEF OpenCall, Goto, CallStored, See, TrackFlags, ShutInv, MutedInv, TrackThreads, queueVars,
      callbackVars, apiVars, lifeVars
<1>11. CASE ResetFlag
  BY <1>11
  DEF ResetFlag, Goto, TrackFlags, ShutInv, MutedInv, TrackThreads, queueVars, callbackVars,
      apiVars, lifeVars
<1>12. CASE ResetCallbacks
  BY <1>12
  DEF ResetCallbacks, Goto, TrackFlags, ShutInv, MutedInv, TrackThreads, queueVars, callbackVars,
      apiVars, lifeVars
<1>13. CASE Receive
  BY <1>13
  DEF Receive, TrackFlags, ShutInv, MutedInv, TrackThreads, queueVars, callbackVars, apiVars,
      lifeVars
<1>14. CASE TrackClose
  BY <1>14
  DEF TrackClose, AppCalls, Goto, See, TrackFlags, ShutInv, MutedInv, TrackThreads, queueVars,
      callbackVars, apiVars, lifeVars
<1>15. CASE OnOpen
  BY <1>15
  DEF OnOpen, AppCalls, See, TrackFlags, ShutInv, MutedInv, TrackThreads, queueVars, callbackVars,
      apiVars, lifeVars
<1>16. CASE OnMessage
  BY <1>16
  DEF OnMessage, AppCalls, Goto, TrackFlags, ShutInv, MutedInv, TrackThreads, queueVars,
      callbackVars, apiVars, lifeVars
<1>17. CASE OnFrame
  BY <1>17
  DEF OnFrame, AppCalls, Goto, TrackFlags, ShutInv, MutedInv, TrackThreads, queueVars,
      callbackVars, apiVars, lifeVars
<1>18. CASE OnAvailable
  BY <1>18
  DEF OnAvailable, AppCalls, TrackFlags, ShutInv, MutedInv, TrackThreads, queueVars, callbackVars,
      apiVars, lifeVars
<1>19. CASE SetDescription
  BY <1>19
  DEF SetDescription, AppCalls, TrackFlags, ShutInv, MutedInv, TrackThreads, queueVars,
      callbackVars, apiVars, lifeVars
<1>20. CASE TrackSend
  BY <1>20
  DEF TrackSend, AppCalls, TrackFlags, ShutInv, MutedInv, TrackThreads, queueVars, callbackVars,
      apiVars, lifeVars
<1>21. CASE UNCHANGED trackVars
  BY <1>21
  DEF trackVars, TrackFlags, ShutInv, MutedInv, TrackThreads, queueVars, callbackVars, apiVars,
      lifeVars
<1>. QED
  BY <1>1, <1>2, <1>3, <1>4, <1>5, <1>6, <1>7, <1>8, <1>9, <1>10, <1>11, <1>12, <1>13, <1>14,
      <1>15, <1>16, <1>17, <1>18, <1>19, <1>20, <1>21
  DEF TrackNext, TrackLibrary, AppOp, Flush

(* Every step keeps the opening before the messages.                          *)
LEMMA OpenedStep == TrackFlags /\ TrackData /\ ShutInv /\ OpenedInv /\ [TrackNext]_trackVars => OpenedInv'
<1>. SUFFICES ASSUME TrackFlags, TrackData, ShutInv, OpenedInv, [TrackNext]_trackVars PROVE OpenedInv'
  OBVIOUS
<1>1. CASE Incoming
  BY <1>1
  DEF Incoming, Goto, TrackFlags, TrackData, ShutInv, OpenedInv, TrackThreads, queueVars,
      callbackVars, apiVars, lifeVars
<1>2. CASE ReadSize
  BY <1>2
  DEF ReadSize, Goto, TrackFlags, TrackData, ShutInv, OpenedInv, TrackThreads, queueVars,
      callbackVars, apiVars, lifeVars
<1>3. CASE TriggerAvailable
  BY <1>3
  DEF TriggerAvailable, Goto, CallStored, TrackFlags, TrackData, ShutInv, OpenedInv, TrackThreads,
      queueVars, callbackVars, apiVars, lifeVars
<1>4. ASSUME NEW t \in TrackThreads, FlushGate(t) PROVE OpenedInv'
  BY <1>4
  DEF FlushGate, Goto, TrackFlags, TrackData, ShutInv, OpenedInv, TrackThreads, queueVars,
      callbackVars, apiVars, lifeVars
<1>5. ASSUME NEW t \in TrackThreads, FlushCheck(t) PROVE OpenedInv'
  BY <1>5
  DEF FlushCheck, Goto, TrackFlags, TrackData, ShutInv, OpenedInv, TrackThreads, queueVars,
      callbackVars, apiVars, lifeVars
<1>6. ASSUME NEW t \in TrackThreads, FlushPop(t) PROVE OpenedInv'
  BY <1>6
  DEF FlushPop, Goto, TrackFlags, TrackData, ShutInv, OpenedInv, TrackThreads, queueVars,
      callbackVars, apiVars, lifeVars
<1>7. ASSUME NEW t \in TrackThreads, FlushCall(t) PROVE OpenedInv'
  <2>1. /\ trStep[t] = "call" /\ trStep' = [trStep EXCEPT ![t] = "check"]
        /\ UNCHANGED <<trClosed, trTriggered, openCb>>
        /\ (seen' = seen \/ seen' = Append(seen, [what |-> inHand[t].kind, id |-> inHand[t].id]))
    BY <1>7 DEF FlushCall, Goto, See, lifeVars, callbackVars
  <2>2. \A i \in DOMAIN seen : i \in DOMAIN seen' /\ seen'[i] = seen[i]
    <3>1. CASE seen' = seen
      BY <3>1
    <3>2. CASE seen' = Append(seen, [what |-> inHand[t].kind, id |-> inHand[t].id])
      BY <3>2 DEF TrackData
    <3>. QED BY <2>1, <3>1, <3>2
  <2>3. ~trClosed => trTriggered
    BY <2>1 DEF OpenedInv
  <2>4. trStep'["proc"] = "openCall" <=> trStep["proc"] = "openCall"
    BY <2>1 DEF TrackFlags, TrackThreads
  <2>. QED BY <2>1, <2>2, <2>3, <2>4 DEF OpenedInv
<1>8. CASE Open
  BY <1>8
  DEF Open, Goto, TrackFlags, TrackData, ShutInv, OpenedInv, TrackThreads, queueVars,
      callbackVars, apiVars, lifeVars
<1>9. CASE TriggerOpen
  BY <1>9
  DEF TriggerOpen, Goto, TrackFlags, TrackData, ShutInv, OpenedInv, TrackThreads, queueVars,
      callbackVars, apiVars, lifeVars
<1>10. CASE OpenCall
  BY <1>10
  DEF OpenCall, Goto, CallStored, See, TrackFlags, TrackData, ShutInv, OpenedInv, TrackThreads,
      queueVars, callbackVars, apiVars, lifeVars
<1>11. CASE ResetFlag
  BY <1>11
  DEF ResetFlag, Goto, TrackFlags, TrackData, ShutInv, OpenedInv, TrackThreads, queueVars,
      callbackVars, apiVars, lifeVars
<1>12. CASE ResetCallbacks
  BY <1>12
  DEF ResetCallbacks, Goto, TrackFlags, TrackData, ShutInv, OpenedInv, TrackThreads, queueVars,
      callbackVars, apiVars, lifeVars
<1>13. CASE Receive
  BY <1>13
  DEF Receive, TrackFlags, TrackData, ShutInv, OpenedInv, TrackThreads, queueVars, callbackVars,
      apiVars, lifeVars
<1>14. CASE TrackClose
  BY <1>14
  DEF TrackClose, AppCalls, Goto, See, TrackFlags, TrackData, ShutInv, OpenedInv, TrackThreads,
      queueVars, callbackVars, apiVars, lifeVars
<1>15. CASE OnOpen
  BY <1>15
  DEF OnOpen, AppCalls, See, TrackFlags, TrackData, ShutInv, OpenedInv, TrackThreads, queueVars,
      callbackVars, apiVars, lifeVars
<1>16. CASE OnMessage
  BY <1>16
  DEF OnMessage, AppCalls, Goto, TrackFlags, TrackData, ShutInv, OpenedInv, TrackThreads,
      queueVars, callbackVars, apiVars, lifeVars
<1>17. CASE OnFrame
  BY <1>17
  DEF OnFrame, AppCalls, Goto, TrackFlags, TrackData, ShutInv, OpenedInv, TrackThreads, queueVars,
      callbackVars, apiVars, lifeVars
<1>18. CASE OnAvailable
  BY <1>18
  DEF OnAvailable, AppCalls, TrackFlags, TrackData, ShutInv, OpenedInv, TrackThreads, queueVars,
      callbackVars, apiVars, lifeVars
<1>19. CASE SetDescription
  BY <1>19
  DEF SetDescription, AppCalls, TrackFlags, TrackData, ShutInv, OpenedInv, TrackThreads,
      queueVars, callbackVars, apiVars, lifeVars
<1>20. CASE TrackSend
  BY <1>20
  DEF TrackSend, AppCalls, TrackFlags, TrackData, ShutInv, OpenedInv, TrackThreads, queueVars,
      callbackVars, apiVars, lifeVars
<1>21. CASE UNCHANGED trackVars
  BY <1>21
  DEF trackVars, TrackFlags, TrackData, ShutInv, OpenedInv, TrackThreads, queueVars, callbackVars,
      apiVars, lifeVars
<1>. QED
  BY <1>1, <1>2, <1>3, <1>4, <1>5, <1>6, <1>7, <1>8, <1>9, <1>10, <1>11, <1>12, <1>13, <1>14,
      <1>15, <1>16, <1>17, <1>18, <1>19, <1>20, <1>21
  DEF TrackNext, TrackLibrary, AppOp, Flush

(* A callback that is called, by whatever step: what new entries of `seen`    *)
(* may be.                                                                    *)
LEMMA SeesOne ==
    ASSUME TrackData, NEW e, seen' = Append(seen, e)
    PROVE  \A i \in DOMAIN seen' \ DOMAIN seen : seen'[i] = e
BY DEF TrackData

LEMMA SeesNone == ASSUME seen' = seen PROVE SilentAfterClose /\ OpenBeforeMessages
BY DEF SilentAfterClose, OpenBeforeMessages

(* No step calls a callback too early or too late.                            *)
LEMMA CallsAllowed == TrackData /\ MutedInv /\ OpenedInv /\ [TrackNext]_trackVars => (SilentAfterClose /\ OpenBeforeMessages)
<1>. SUFFICES ASSUME TrackData, MutedInv, OpenedInv, [TrackNext]_trackVars PROVE SilentAfterClose /\ OpenBeforeMessages
  OBVIOUS
<1>1. CASE Incoming
  <2>1. seen' = seen
    BY <1>1 DEF Incoming
  <2>. QED BY <2>1, SeesNone
<1>2. CASE ReadSize
  <2>1. seen' = seen
    BY <1>2 DEF ReadSize
  <2>. QED BY <2>1, SeesNone
<1>3. CASE TriggerAvailable
  <2>1. seen' = seen
    BY <1>3 DEF TriggerAvailable
  <2>. QED BY <2>1, SeesNone
<1>4. ASSUME NEW t \in TrackThreads, FlushGate(t) PROVE SilentAfterClose /\ OpenBeforeMessages
  <2>1. seen' = seen
    BY <1>4 DEF FlushGate
  <2>. QED BY <2>1, SeesNone
<1>5. ASSUME NEW t \in TrackThreads, FlushCheck(t) PROVE SilentAfterClose /\ OpenBeforeMessages
  <2>1. seen' = seen
    BY <1>5 DEF FlushCheck
  <2>. QED BY <2>1, SeesNone
<1>6. ASSUME NEW t \in TrackThreads, FlushPop(t) PROVE SilentAfterClose /\ OpenBeforeMessages
  <2>1. seen' = seen
    BY <1>6 DEF FlushPop
  <2>. QED BY <2>1, SeesNone
<1>7. ASSUME NEW t \in TrackThreads, FlushCall(t) PROVE SilentAfterClose /\ OpenBeforeMessages
  <2>. DEFINE e == [what |-> inHand[t].kind, id |-> inHand[t].id]
  <2>1. /\ trStep[t] = "call" /\ UNCHANGED <<trMuted, msgCb>>
        /\ seen' = seen \/ (seen' = Append(seen, e) /\ (inHand[t].kind # "frame" => msgCb = "set"))
    BY <1>7 DEF FlushCall, Takes, See, callbackVars
  <2>2. CASE seen' = seen
    BY <2>2, SeesNone
  <2>3. CASE seen' = Append(seen, e) /\ (inHand[t].kind # "frame" => msgCb = "set")
    <3>1. e.what = inHand[t].kind
      OBVIOUS
    <3>. HIDE DEF e
    <3>2. \A i \in DOMAIN seen' \ DOMAIN seen : seen'[i] = e
      BY <2>3, SeesOne
    <3>3. SilentAfterClose
      BY <2>1, <2>3, <3>1, <3>2 DEF SilentAfterClose, MutedInv
    <3>4. openCb = "set" => trStep["proc"] = "openCall" \/ trClosed \/ \E j \in DOMAIN seen : seen[j].what = "open"
      BY <2>1 DEF OpenedInv
    <3>5. OpenBeforeMessages
      BY <3>4 DEF OpenBeforeMessages
    <3>. QED BY <3>3, <3>5
  <2>. QED BY <2>1, <2>2, <2>3
<1>8. CASE Open
  <2>1. seen' = seen
    BY <1>8 DEF Open
  <2>. QED BY <2>1, SeesNone
<1>9. CASE TriggerOpen
  <2>1. seen' = seen
    BY <1>9 DEF TriggerOpen
  <2>. QED BY <2>1, SeesNone
<1>10. CASE OpenCall
  <2>. DEFINE e == [what |-> "open", id |-> 0]
  <2>1. seen' = seen \/ (seen' = Append(seen, e) /\ openCb = "set")
    BY <1>10 DEF OpenCall, See
  <2>2. CASE seen' = seen
    BY <2>2, SeesNone
  <2>3. CASE seen' = Append(seen, e) /\ openCb = "set"
    <3>1. e.id = 0
      OBVIOUS
    <3>. HIDE DEF e
    <3>2. \A i \in DOMAIN seen' \ DOMAIN seen : seen'[i] = e
      BY <2>3, SeesOne
    <3>. QED BY <2>3, <3>1, <3>2 DEF SilentAfterClose, OpenBeforeMessages, MutedInv
  <2>. QED BY <2>1, <2>2, <2>3
<1>11. CASE ResetFlag
  <2>1. seen' = seen
    BY <1>11 DEF ResetFlag
  <2>. QED BY <2>1, SeesNone
<1>12. CASE ResetCallbacks
  <2>1. seen' = seen
    BY <1>12 DEF ResetCallbacks
  <2>. QED BY <2>1, SeesNone
<1>13. CASE Receive
  <2>1. seen' = seen
    BY <1>13 DEF Receive
  <2>. QED BY <2>1, SeesNone
<1>14. CASE TrackClose
  <2>. DEFINE e == [what |-> "closed", id |-> 0]
  <2>1. seen' = seen \/ (seen' = Append(seen, e) /\ ~trClosed)
    BY <1>14 DEF TrackClose, See
  <2>2. CASE seen' = seen
    BY <2>2, SeesNone
  <2>3. CASE seen' = Append(seen, e) /\ ~trClosed
    <3>1. e.id = 0
      OBVIOUS
    <3>. HIDE DEF e
    <3>2. \A i \in DOMAIN seen' \ DOMAIN seen : seen'[i] = e
      BY <2>3, SeesOne
    <3>. QED BY <2>3, <3>1, <3>2 DEF SilentAfterClose, OpenBeforeMessages, MutedInv
  <2>. QED BY <2>1, <2>2, <2>3
<1>15. CASE OnOpen
  <2>. DEFINE e == [what |-> "open", id |-> 0]
  <2>1. seen' = seen \/ (seen' = Append(seen, e) /\ ~trMuted')
    BY <1>15 DEF OnOpen, See
  <2>2. CASE seen' = seen
    BY <2>2, SeesNone
  <2>3. CASE seen' = Append(seen, e) /\ ~trMuted'
    <3>1. e.id = 0
      OBVIOUS
    <3>. HIDE DEF e
    <3>2. \A i \in DOMAIN seen' \ DOMAIN seen : seen'[i] = e
      BY <2>3, SeesOne
    <3>. QED BY <2>3, <3>1, <3>2 DEF SilentAfterClose, OpenBeforeMessages, MutedInv
  <2>. QED BY <2>1, <2>2, <2>3
<1>16. CASE OnMessage
  <2>1. seen' = seen
    BY <1>16 DEF OnMessage
  <2>. QED BY <2>1, SeesNone
<1>17. CASE OnFrame
  <2>1. seen' = seen
    BY <1>17 DEF OnFrame
  <2>. QED BY <2>1, SeesNone
<1>18. CASE OnAvailable
  <2>1. seen' = seen
    BY <1>18 DEF OnAvailable
  <2>. QED BY <2>1, SeesNone
<1>19. CASE SetDescription
  <2>1. seen' = seen
    BY <1>19 DEF SetDescription
  <2>. QED BY <2>1, SeesNone
<1>20. CASE TrackSend
  <2>1. seen' = seen
    BY <1>20 DEF TrackSend
  <2>. QED BY <2>1, SeesNone
<1>21. CASE UNCHANGED trackVars
  BY <1>21, SeesNone DEF trackVars
<1>. QED
  BY <1>1, <1>2, <1>3, <1>4, <1>5, <1>6, <1>7, <1>8, <1>9, <1>10, <1>11, <1>12, <1>13, <1>14,
      <1>15, <1>16, <1>17, <1>18, <1>19, <1>20, <1>21
  DEF TrackNext, TrackLibrary, AppOp, Flush

(* Where packets are: the queue q, the hands h, the packets dropped c and     *)
(* polled p, and those the callbacks have seen, s.                            *)
Ids(q) == {q[i].id : i \in DOMAIN q}
Held(h) == {h[t].id : t \in {u \in TrackThreads : h[u] # <<>>}}
DeliveredIn(s) == {s[i].id : i \in {j \in DOMAIN s : s[j].id # 0}}

Sorted(q) == \A i, j \in DOMAIN q : i < j => q[i].id < q[j].id
HandsDistinct(h) == \A t, u \in TrackThreads : t # u /\ h[t] # <<>> /\ h[u] # <<>> => h[t].id # h[u].id
UniqueIn(s) == \A i, j \in DOMAIN s : i # j /\ s[i].id # 0 => s[i].id # s[j].id
RisingIn(s) == \A i, j \in DOMAIN s : i < j /\ s[i].id # 0 /\ s[j].id # 0 => s[i].id < s[j].id

(* Five sets are a partition of 1..n.                                         *)
Parted(A, B, C, D, E, n) ==
    /\ A \cup B \cup C \cup D \cup E = 1..n
    /\ A \cap B = {} /\ A \cap C = {} /\ A \cap D = {} /\ A \cap E = {} /\ B \cap C = {}
    /\ B \cap D = {} /\ B \cap E = {} /\ C \cap D = {} /\ C \cap E = {} /\ D \cap E = {}

(* Every packet is in one place.                                              *)
PlacesInv ==
    /\ Sorted(recvQ) /\ HandsDistinct(inHand) /\ UniqueIn(seen)
    /\ Parted(Ids(recvQ), Held(inHand), dropped, DeliveredIn(seen), polled, arrived)

(* While no two threads have held a packet at once: what was delivered came   *)
(* before what is held, which came before what is queued.                     *)
InTurnInv ==
    ~overlap =>
        /\ \A t, u \in TrackThreads : inHand[t] # <<>> /\ inHand[u] # <<>> => t = u
        /\ \A x \in DeliveredIn(seen) : \A y \in Held(inHand) \cup Ids(recvQ) : x < y
        /\ \A x \in Held(inHand) : \A y \in Ids(recvQ) : x < y
        /\ RisingIn(seen)

(* A packet behind the others.                                                *)
LEMMA IdsAppend ==
    ASSUME NEW q \in Seq(QueuedPacket), NEW p \in QueuedPacket, Sorted(q), \A x \in Ids(q) : x < p.id
    PROVE  Ids(Append(q, p)) = Ids(q) \cup {p.id} /\ Sorted(Append(q, p))
<1>. DEFINE r == Append(q, p)
            n == Len(q)
<1>1. n \in Nat /\ DOMAIN q = 1..n /\ DOMAIN r = 1..(n + 1) /\ r[n + 1] = p
  OBVIOUS
<1>2. \A i \in 1..n : r[i] = q[i]
  OBVIOUS
<1>. HIDE DEF r, n
<1>3. \A i \in 1..(n + 1) : i \in 1..n \/ i = n + 1
  BY <1>1
<1>7. 1..n \subseteq 1..(n + 1) /\ n + 1 \in 1..(n + 1)
  BY <1>1
<1>4. Ids(r) = Ids(q) \cup {p.id}
  <2>1. \A x \in Ids(r) : x \in Ids(q) \cup {p.id}
    BY <1>1, <1>2, <1>3 DEF Ids
  <2>2. \A x \in Ids(q) : x \in Ids(r)
    BY <1>1, <1>2, <1>7 DEF Ids
  <2>3. p.id \in Ids(r)
    BY <1>1, <1>7 DEF Ids
  <2>. QED BY <2>1, <2>2, <2>3
<1>5. ASSUME NEW i \in 1..(n + 1), NEW j \in 1..(n + 1), i < j PROVE r[i].id < r[j].id
  <2>1. i \in 1..n /\ q[i].id \in Ids(q)
    BY <1>1, <1>5 DEF Ids
  <2>2. CASE j \in 1..n
    BY <1>1, <1>2, <1>5, <2>1, <2>2 DEF Sorted
  <2>3. CASE j = n + 1
    BY <1>1, <1>2, <2>1, <2>3
  <2>. QED BY <1>3, <2>2, <2>3
<1>6. Sorted(r)
  BY <1>1, <1>5 DEF Sorted
<1>. QED BY <1>4, <1>6 DEF r

(* The first packet is taken.                                                 *)
LEMMA IdsTail ==
    ASSUME NEW q \in Seq(QueuedPacket), q # <<>>, Sorted(q)
    PROVE  /\ Ids(Tail(q)) = Ids(q) \ {Head(q).id} /\ Head(q).id \in Ids(q) /\ Sorted(Tail(q))
           /\ \A x \in Ids(Tail(q)) : Head(q).id < x
<1>. DEFINE r == Tail(q)
            n == Len(q)
            p == Head(q)
<1>1. n \in Nat \ {0} /\ DOMAIN q = 1..n /\ DOMAIN r = 1..(n - 1) /\ p = q[1] /\ p \in QueuedPacket
  OBVIOUS
<1>2. \A i \in 1..(n - 1) : r[i] = q[i + 1]
  OBVIOUS
<1>. HIDE DEF r, n, p
<1>3. \A i \in 1..(n - 1) : i \in 1..n /\ i + 1 \in 1..n /\ 1 < i + 1
  BY <1>1
<1>4. 1 \in 1..n /\ \A i \in 1..n : i = 1 \/ (i - 1 \in 1..(n - 1) /\ (i - 1) + 1 = i)
  BY <1>1
<1>5. \A x \in Ids(r) : p.id < x /\ x \in Ids(q)
  <2>. SUFFICES ASSUME NEW i \in 1..(n - 1) PROVE p.id < r[i].id /\ r[i].id \in Ids(q)
    BY <1>1 DEF Ids
  <2>1. r[i] = q[i + 1] /\ i + 1 \in 1..n /\ 1 < i + 1
    BY <1>2, <1>3
  <2>. QED BY <1>1, <1>4, <2>1 DEF Ids, Sorted
<1>6. p.id \in Ids(q) /\ p.id \in Nat
  BY <1>1, <1>4 DEF Ids, QueuedPacket
<1>7. \A x \in Ids(q) : x = p.id \/ x \in Ids(r)
  <2>. SUFFICES ASSUME NEW i \in 1..n PROVE q[i].id = p.id \/ q[i].id \in Ids(r)
    BY <1>1 DEF Ids
  <2>1. CASE i = 1
    BY <1>1, <2>1
  <2>2. CASE i - 1 \in 1..(n - 1) /\ (i - 1) + 1 = i
    <3>1. r[i - 1] = q[i]
      BY <1>2, <2>2
    <3>. QED BY <1>1, <2>2, <3>1 DEF Ids
  <2>. QED BY <1>4, <2>1, <2>2
<1>8. Ids(r) = Ids(q) \ {p.id}
  <2>1. p.id \notin Ids(r)
    BY <1>5, <1>6
  <2>. QED BY <1>5, <1>7, <2>1
<1>9. Sorted(r)
  <2>. SUFFICES ASSUME NEW i \in 1..(n - 1), NEW j \in 1..(n - 1), i < j PROVE r[i].id < r[j].id
    BY <1>1 DEF Sorted
  <2>1. r[i] = q[i + 1] /\ r[j] = q[j + 1] /\ i + 1 < j + 1 /\ i + 1 \in 1..n /\ j + 1 \in 1..n
    BY <1>2, <1>3
  <2>. QED BY <1>1, <2>1 DEF Sorted
<1>. QED BY <1>5, <1>6, <1>8, <1>9 DEF r, p

(* A hand takes a packet, or gives it away.                                   *)
LEMMA HeldTakes ==
    ASSUME NEW h \in [TrackThreads -> QueuedPacket \cup {<<>>}], NEW t \in TrackThreads,
           NEW p \in QueuedPacket, h[t] = <<>>, HandsDistinct(h), p.id \notin Held(h)
    PROVE  /\ Held([h EXCEPT ![t] = p]) = Held(h) \cup {p.id}
           /\ HandsDistinct([h EXCEPT ![t] = p])
<1>. DEFINE g == [h EXCEPT ![t] = p]
<1>1. g[t] = p /\ p # <<>> /\ \A u \in TrackThreads : u # t => g[u] = h[u]
  BY NotEmpty
<1>. HIDE DEF g
<1>2. Held(g) = Held(h) \cup {p.id}
  BY <1>1 DEF Held
<1>3. \A u \in TrackThreads : h[u] # <<>> => h[u].id \in Held(h)
  BY DEF Held
<1>4. HandsDistinct(g)
  BY <1>1, <1>3 DEF HandsDistinct
<1>. QED BY <1>2, <1>4 DEF g

LEMMA HeldGives ==
    ASSUME NEW h \in [TrackThreads -> QueuedPacket \cup {<<>>}], NEW t \in TrackThreads,
           h[t] # <<>>, HandsDistinct(h)
    PROVE  /\ Held([h EXCEPT ![t] = <<>>]) = Held(h) \ {h[t].id} /\ h[t].id \in Held(h)
           /\ HandsDistinct([h EXCEPT ![t] = <<>>])
<1>. DEFINE g == [h EXCEPT ![t] = <<>>]
<1>1. g[t] = <<>> /\ \A u \in TrackThreads : u # t => g[u] = h[u]
  OBVIOUS
<1>. HIDE DEF g
<1>2. h[t].id \in Held(h)
  BY DEF Held
<1>3. \A x \in Held(g) : x \in Held(h) /\ x # h[t].id
  BY <1>1 DEF Held, HandsDistinct
<1>4. \A x \in Held(h) : x = h[t].id \/ x \in Held(g)
  BY <1>1 DEF Held
<1>5. HandsDistinct(g)
  BY <1>1 DEF HandsDistinct
<1>. QED BY <1>2, <1>3, <1>4, <1>5 DEF g

(* A callback is called without a packet, or with one.                        *)
LEMMA SeenBefore ==
    ASSUME NEW s \in Seq(SeenCall), NEW e \in SeenCall
    PROVE  /\ Len(s) \in Nat /\ DOMAIN s = 1..Len(s) /\ DOMAIN Append(s, e) = 1..(Len(s) + 1)
           /\ \A i \in 1..Len(s) : Append(s, e)[i] = s[i]
           /\ Append(s, e)[Len(s) + 1] = e
           /\ \A i \in 1..(Len(s) + 1) : i \in 1..Len(s) \/ i = Len(s) + 1
           /\ 1..Len(s) \subseteq 1..(Len(s) + 1) /\ Len(s) + 1 \in 1..(Len(s) + 1)
           /\ Len(s) + 1 \notin 1..Len(s)
<1>1. Len(s) \in Nat /\ DOMAIN s = 1..Len(s)
  OBVIOUS
<1>2. DOMAIN Append(s, e) = 1..(Len(s) + 1)
  OBVIOUS
<1>3. (\A i \in 1..Len(s) : Append(s, e)[i] = s[i]) /\ Append(s, e)[Len(s) + 1] = e
  OBVIOUS
<1>4. /\ \A i \in 1..(Len(s) + 1) : i \in 1..Len(s) \/ i = Len(s) + 1
      /\ 1..Len(s) \subseteq 1..(Len(s) + 1) /\ Len(s) + 1 \in 1..(Len(s) + 1)
      /\ Len(s) + 1 \notin 1..Len(s)
  BY <1>1
<1>. QED BY <1>1, <1>2, <1>3, <1>4

LEMMA SeenNothing ==
    ASSUME NEW s \in Seq(SeenCall), NEW e \in SeenCall, e.id = 0
    PROVE  /\ DeliveredIn(Append(s, e)) = DeliveredIn(s)
           /\ UniqueIn(s) => UniqueIn(Append(s, e))
           /\ RisingIn(s) => RisingIn(Append(s, e))
<1>. DEFINE r == Append(s, e)
            n == Len(s)
<1>1. /\ n \in Nat /\ DOMAIN s = 1..n /\ DOMAIN r = 1..(n + 1)
      /\ \A i \in 1..n : r[i] = s[i]
      /\ r[n + 1] = e
      /\ \A i \in 1..(n + 1) : i \in 1..n \/ i = n + 1
      /\ 1..n \subseteq 1..(n + 1)
  BY SeenBefore
<1>. HIDE DEF r, n
<1>2. DeliveredIn(r) = DeliveredIn(s)
  BY <1>1 DEF DeliveredIn
<1>3. UniqueIn(s) => UniqueIn(r)
  BY <1>1 DEF UniqueIn
<1>4. RisingIn(s) => RisingIn(r)
  BY <1>1 DEF RisingIn
<1>. QED BY <1>2, <1>3, <1>4 DEF r

LEMMA SeenPacket ==
    ASSUME NEW s \in Seq(SeenCall), NEW e \in SeenCall, e.id # 0
    PROVE  /\ DeliveredIn(Append(s, e)) = DeliveredIn(s) \cup {e.id}
           /\ UniqueIn(s) /\ e.id \notin DeliveredIn(s) => UniqueIn(Append(s, e))
           /\ RisingIn(s) /\ (\A x \in DeliveredIn(s) : x < e.id) => RisingIn(Append(s, e))
<1>. DEFINE r == Append(s, e)
            n == Len(s)
<1>1. /\ n \in Nat /\ DOMAIN s = 1..n /\ DOMAIN r = 1..(n + 1)
      /\ \A i \in 1..n : r[i] = s[i]
      /\ r[n + 1] = e
      /\ \A i \in 1..(n + 1) : i \in 1..n \/ i = n + 1
      /\ 1..n \subseteq 1..(n + 1) /\ n + 1 \in 1..(n + 1)
  BY SeenBefore
<1>. HIDE DEF r, n
<1>2. \A i \in 1..n : s[i].id # 0 => s[i].id \in DeliveredIn(s)
  BY <1>1 DEF DeliveredIn
<1>3. DeliveredIn(r) = DeliveredIn(s) \cup {e.id}
  <2>1. \A x \in DeliveredIn(r) : x \in DeliveredIn(s) \cup {e.id}
    BY <1>1, <1>2 DEF DeliveredIn
  <2>2. \A x \in DeliveredIn(s) : x \in DeliveredIn(r)
    BY <1>1 DEF DeliveredIn
  <2>3. e.id \in DeliveredIn(r)
    BY <1>1 DEF DeliveredIn
  <2>. QED BY <2>1, <2>2, <2>3
<1>4. UniqueIn(s) /\ e.id \notin DeliveredIn(s) => UniqueIn(r)
  BY <1>1, <1>2 DEF UniqueIn
<1>5. RisingIn(s) /\ (\A x \in DeliveredIn(s) : x < e.id) => RisingIn(r)
  <2>. SUFFICES ASSUME RisingIn(s), \A x \in DeliveredIn(s) : x < e.id,
                       NEW i \in 1..(n + 1), NEW j \in 1..(n + 1), i < j, r[i].id # 0, r[j].id # 0
                PROVE  r[i].id < r[j].id
    BY <1>1 DEF RisingIn
  <2>1. i \in 1..n
    BY <1>1
  <2>2. CASE j \in 1..n
    BY <1>1, <2>1, <2>2 DEF RisingIn
  <2>3. CASE j = n + 1
    BY <1>1, <1>2, <2>1, <2>3
  <2>. QED BY <1>1, <2>2, <2>3
<1>. QED BY <1>3, <1>4, <1>5 DEF r

(* A new packet in a set, and one that moves from one to another.             *)
LEMMA NewPacket ==
    ASSUME NEW A, NEW B, NEW C, NEW D, NEW E, NEW n \in Nat, Parted(A, B, C, D, E, n)
    PROVE  /\ Parted(A \cup {n + 1}, B, C, D, E, n + 1) /\ Parted(A, B, C \cup {n + 1}, D, E, n + 1)
           /\ \A x \in A : x < n + 1
<1>1. 1..(n + 1) = 1..n \cup {n + 1} /\ n + 1 \notin 1..n /\ \A x \in 1..n : x < n + 1
  OBVIOUS
<1>. QED BY <1>1 DEF Parted

LEMMA PacketMoves ==
    ASSUME NEW A, NEW B, NEW C, NEW D, NEW E, NEW n, Parted(A, B, C, D, E, n), NEW x
    PROVE  /\ x \in A => /\ Parted(A \ {x}, B \cup {x}, C, D, E, n)
                         /\ Parted(A \ {x}, B, C, D, E \cup {x}, n)
                         /\ x \notin B
           /\ x \in B => /\ Parted(A, B \ {x}, C \cup {x}, D, E, n)
                         /\ Parted(A, B \ {x}, C, D \cup {x}, E, n)
                         /\ x \notin D
BY Zenon DEF Parted

(* A step that moves no packet.                                               *)
LEMMA PlacesSame ==
    ASSUME UNCHANGED <<recvQ, inHand, dropped, seen, polled, arrived, overlap>>
    PROVE  (PlacesInv => PlacesInv') /\ (InTurnInv => InTurnInv')
BY DEF PlacesInv, InTurnInv

(* Every step keeps every packet in one place.                                *)
LEMMA PlacesStep == TrackFlags /\ TrackData /\ PlacesInv /\ [TrackNext]_trackVars => PlacesInv'
<1>. SUFFICES ASSUME TrackFlags, TrackData, PlacesInv, [TrackNext]_trackVars PROVE PlacesInv'
  OBVIOUS
<1>1. CASE Incoming
  <2>1. PICK k \in Kinds :
            LET p == [id |-> arrived + 1, kind |-> k]
            IN  \/ recvQ' = recvQ /\ dropped' = dropped \cup {arrived + 1}
                \/ recvQ' = Append(recvQ, p) /\ dropped' = dropped
    BY <1>1 DEF Incoming, Kinds
  <2>. DEFINE p == [id |-> arrived + 1, kind |-> k]
  <2>2. UNCHANGED <<inHand, seen, polled, overlap>> /\ arrived' = arrived + 1
    BY <1>1 DEF Incoming
  <2>3. p \in QueuedPacket /\ p.id = arrived + 1
    BY DEF QueuedPacket, TrackFlags
  <2>4. (recvQ' = Append(recvQ, p) /\ dropped' = dropped) \/ (recvQ' = recvQ /\ dropped' = dropped \cup {arrived + 1})
    BY <2>1
  <2>. HIDE DEF p
  <2>5. \A x \in Ids(recvQ) : x < p.id
    BY <2>3, NewPacket DEF PlacesInv, TrackFlags
  <2>6. recvQ \in Seq(QueuedPacket) /\ Sorted(recvQ)
    BY DEF TrackData, PlacesInv
  <2>7. Ids(Append(recvQ, p)) = Ids(recvQ) \cup {arrived + 1} /\ Sorted(Append(recvQ, p))
    BY <2>3, <2>5, <2>6, IdsAppend
  <2>8. Parted(Ids(recvQ'), Held(inHand), dropped', DeliveredIn(seen), polled, arrived + 1) /\ Sorted(recvQ')
    <3>1. /\ Parted(Ids(recvQ) \cup {arrived + 1}, Held(inHand), dropped, DeliveredIn(seen), polled, arrived + 1)
          /\ Parted(Ids(recvQ), Held(inHand), dropped \cup {arrived + 1}, DeliveredIn(seen), polled, arrived + 1)
      BY NewPacket DEF PlacesInv, TrackFlags
    <3>2. CASE recvQ' = Append(recvQ, p) /\ dropped' = dropped
      BY <2>7, <3>1, <3>2
    <3>3. CASE recvQ' = recvQ /\ dropped' = dropped \cup {arrived + 1}
      BY <2>6, <3>1, <3>3
    <3>. QED BY <2>4, <3>2, <3>3
  <2>. QED BY <2>2, <2>8 DEF PlacesInv
<1>2. CASE ReadSize
  <2>1. UNCHANGED <<recvQ, inHand, dropped, seen, polled, arrived, overlap>>
    BY <1>2 DEF ReadSize, queueVars
  <2>. QED BY <2>1, PlacesSame
<1>3. CASE TriggerAvailable
  <2>1. UNCHANGED <<recvQ, inHand, dropped, seen, polled, arrived, overlap>>
    BY <1>3 DEF TriggerAvailable, queueVars
  <2>. QED BY <2>1, PlacesSame
<1>4. ASSUME NEW t \in TrackThreads, FlushGate(t) PROVE PlacesInv'
  <2>1. UNCHANGED <<recvQ, inHand, dropped, seen, polled, arrived, overlap>>
    BY <1>4 DEF FlushGate, queueVars
  <2>. QED BY <2>1, PlacesSame
<1>5. ASSUME NEW t \in TrackThreads, FlushCheck(t) PROVE PlacesInv'
  <2>1. UNCHANGED <<recvQ, inHand, dropped, seen, polled, arrived, overlap>>
    BY <1>5 DEF FlushCheck, queueVars
  <2>. QED BY <2>1, PlacesSame
<1>6. ASSUME NEW t \in TrackThreads, FlushPop(t) PROVE PlacesInv'
  <2>1. UNCHANGED <<dropped, seen, polled, arrived>> /\ trStep[t] = "pop"
    BY <1>6 DEF FlushPop
  <2>2. CASE recvQ = <<>>
    BY <1>6, <2>1, <2>2, PlacesSame DEF FlushPop
  <2>3. CASE recvQ # <<>>
    <3>. DEFINE p == Head(recvQ)
    <3>1. /\ recvQ' = Tail(recvQ) /\ inHand' = [inHand EXCEPT ![t] = p]
          /\ ~overlap' => ~overlap /\ \A u \in TrackThreads \ {t} : inHand[u] = <<>>
      <4>1. recvQ' = Tail(recvQ) /\ inHand' = [inHand EXCEPT ![t] = p]
        BY <1>6, <2>3 DEF FlushPop
      <4>2. overlap' = (overlap \/ \E u \in TrackThreads \ {t} : inHand[u] # <<>>)
        BY <1>6, <2>3 DEF FlushPop
      <4>3. ~overlap' => ~overlap /\ \A u \in TrackThreads \ {t} : inHand[u] = <<>>
        BY <4>2, Zenon
      <4>. QED BY <4>1, <4>3
    <3>2. recvQ \in Seq(QueuedPacket) /\ Sorted(recvQ) /\ p \in QueuedPacket
      BY <2>3 DEF TrackData, PlacesInv
    <3>3. /\ Ids(Tail(recvQ)) = Ids(recvQ) \ {p.id} /\ p.id \in Ids(recvQ) /\ Sorted(Tail(recvQ))
          /\ \A x \in Ids(Tail(recvQ)) : p.id < x
      BY <2>3, <3>2, IdsTail
    <3>. HIDE DEF p
    <3>4. /\ Parted(Ids(recvQ) \ {p.id}, Held(inHand) \cup {p.id}, dropped, DeliveredIn(seen), polled, arrived)
          /\ p.id \notin Held(inHand)
      BY <3>3, PacketMoves DEF PlacesInv
    <3>5. inHand[t] = <<>> /\ inHand \in [TrackThreads -> QueuedPacket \cup {<<>>}] /\ HandsDistinct(inHand)
      BY <2>1 DEF TrackData, PlacesInv
    <3>6. Held(inHand') = Held(inHand) \cup {p.id} /\ HandsDistinct(inHand')
      BY <3>1, <3>2, <3>4, <3>5, HeldTakes
    <3>. QED BY <2>1, <3>1, <3>3, <3>4, <3>6 DEF PlacesInv
  <2>. QED BY <2>2, <2>3
<1>7. ASSUME NEW t \in TrackThreads, FlushCall(t) PROVE PlacesInv'
  <2>. DEFINE p == inHand[t]
              e == [what |-> p.kind, id |-> p.id]
  <2>1. /\ UNCHANGED <<recvQ, polled, arrived, overlap>> /\ inHand' = [inHand EXCEPT ![t] = <<>>]
        /\ trStep[t] = "call"
        /\ \/ seen' = Append(seen, e) /\ dropped' = dropped
           \/ seen' = seen /\ dropped' = dropped \cup {p.id}
    BY <1>7 DEF FlushCall, See
  <2>2. p # <<>> /\ p \in QueuedPacket
    BY <2>1 DEF TrackData
  <2>3. e \in SeenCall /\ e.id = p.id /\ e.id # 0
    BY <2>2 DEF SeenCall, QueuedPacket
  <2>4. inHand \in [TrackThreads -> QueuedPacket \cup {<<>>}] /\ HandsDistinct(inHand) /\ seen \in Seq(SeenCall)
    BY DEF TrackData, PlacesInv
  <2>5. Held(inHand') = Held(inHand) \ {p.id} /\ p.id \in Held(inHand) /\ HandsDistinct(inHand')
    BY <2>1, <2>2, <2>4, HeldGives
  <2>. HIDE DEF e, p
  <2>6. /\ Parted(Ids(recvQ), Held(inHand) \ {p.id}, dropped \cup {p.id}, DeliveredIn(seen), polled, arrived)
        /\ Parted(Ids(recvQ), Held(inHand) \ {p.id}, dropped, DeliveredIn(seen) \cup {p.id}, polled, arrived)
        /\ p.id \notin DeliveredIn(seen)
    BY <2>5, PacketMoves DEF PlacesInv
  <2>7. /\ DeliveredIn(Append(seen, e)) = DeliveredIn(seen) \cup {p.id}
        /\ UniqueIn(seen) => UniqueIn(Append(seen, e))
        /\ RisingIn(seen) /\ (\A x \in DeliveredIn(seen) : x < p.id) => RisingIn(Append(seen, e))
    BY <2>3, <2>4, <2>6, SeenPacket
  <2>8. CASE seen' = Append(seen, e) /\ dropped' = dropped
    BY <2>1, <2>5, <2>6, <2>7, <2>8 DEF PlacesInv
  <2>9. CASE seen' = seen /\ dropped' = dropped \cup {p.id}
    BY <2>1, <2>5, <2>6, <2>9 DEF PlacesInv
  <2>. QED BY <2>1, <2>8, <2>9
<1>8. CASE Open
  <2>1. UNCHANGED <<recvQ, inHand, dropped, seen, polled, arrived, overlap>>
    BY <1>8 DEF Open, queueVars
  <2>. QED BY <2>1, PlacesSame
<1>9. CASE TriggerOpen
  <2>1. UNCHANGED <<recvQ, inHand, dropped, seen, polled, arrived, overlap>>
    BY <1>9 DEF TriggerOpen, queueVars
  <2>. QED BY <2>1, PlacesSame
<1>10. CASE OpenCall
  <2>. DEFINE e == [what |-> "open", id |-> 0]
  <2>1. /\ UNCHANGED <<recvQ, inHand, dropped, polled, arrived, overlap>>
        /\ seen' = seen \/ seen' = Append(seen, e)
    BY <1>10 DEF OpenCall, See, queueVars
  <2>2. e \in SeenCall /\ e.id = 0
    BY DEF SeenCall
  <2>. HIDE DEF e
  <2>3. CASE seen' = seen
    BY <2>1, <2>3, PlacesSame
  <2>4. CASE seen' = Append(seen, e)
    BY <2>1, <2>2, <2>4, SeenNothing DEF TrackData, PlacesInv
  <2>. QED BY <2>1, <2>3, <2>4
<1>11. CASE ResetFlag
  <2>1. UNCHANGED <<recvQ, inHand, dropped, seen, polled, arrived, overlap>>
    BY <1>11 DEF ResetFlag, queueVars
  <2>. QED BY <2>1, PlacesSame
<1>12. CASE ResetCallbacks
  <2>1. UNCHANGED <<recvQ, inHand, dropped, seen, polled, arrived, overlap>>
    BY <1>12 DEF ResetCallbacks, queueVars
  <2>. QED BY <2>1, PlacesSame
<1>13. CASE Receive
  <2>1. /\ UNCHANGED <<inHand, dropped, seen, arrived, overlap>>
        /\ \/ recvQ' = recvQ /\ polled' = polled
           \/ recvQ # <<>> /\ recvQ' = Tail(recvQ) /\ polled' = polled \cup {Head(recvQ).id}
    BY <1>13 DEF Receive
  <2>2. CASE recvQ' = recvQ /\ polled' = polled
    BY <2>1, <2>2, PlacesSame
  <2>3. CASE recvQ # <<>> /\ recvQ' = Tail(recvQ) /\ polled' = polled \cup {Head(recvQ).id}
    <3>1. recvQ \in Seq(QueuedPacket) /\ Sorted(recvQ)
      BY DEF TrackData, PlacesInv
    <3>2. /\ Ids(recvQ') = Ids(recvQ) \ {Head(recvQ).id} /\ Head(recvQ).id \in Ids(recvQ) /\ Sorted(recvQ')
      BY <2>3, <3>1, IdsTail
    <3>3. Parted(Ids(recvQ) \ {Head(recvQ).id}, Held(inHand), dropped, DeliveredIn(seen),
                 polled \cup {Head(recvQ).id}, arrived)
      BY <3>2, PacketMoves DEF PlacesInv
    <3>. QED BY <2>1, <2>3, <3>2, <3>3 DEF PlacesInv
  <2>. QED BY <2>1, <2>2, <2>3
<1>14. CASE TrackClose
  <2>. DEFINE e == [what |-> "closed", id |-> 0]
  <2>1. /\ UNCHANGED <<recvQ, inHand, dropped, polled, arrived, overlap>>
        /\ seen' = seen \/ seen' = Append(seen, e)
    BY <1>14 DEF TrackClose, See, queueVars
  <2>2. e \in SeenCall /\ e.id = 0
    BY DEF SeenCall
  <2>. HIDE DEF e
  <2>3. CASE seen' = seen
    BY <2>1, <2>3, PlacesSame
  <2>4. CASE seen' = Append(seen, e)
    BY <2>1, <2>2, <2>4, SeenNothing DEF TrackData, PlacesInv
  <2>. QED BY <2>1, <2>3, <2>4
<1>15. CASE OnOpen
  <2>. DEFINE e == [what |-> "open", id |-> 0]
  <2>1. /\ UNCHANGED <<recvQ, inHand, dropped, polled, arrived, overlap>>
        /\ seen' = seen \/ seen' = Append(seen, e)
    BY <1>15 DEF OnOpen, See, queueVars
  <2>2. e \in SeenCall /\ e.id = 0
    BY DEF SeenCall
  <2>. HIDE DEF e
  <2>3. CASE seen' = seen
    BY <2>1, <2>3, PlacesSame
  <2>4. CASE seen' = Append(seen, e)
    BY <2>1, <2>2, <2>4, SeenNothing DEF TrackData, PlacesInv
  <2>. QED BY <2>1, <2>3, <2>4
<1>16. CASE OnMessage
  <2>1. UNCHANGED <<recvQ, inHand, dropped, seen, polled, arrived, overlap>>
    BY <1>16 DEF OnMessage, queueVars
  <2>. QED BY <2>1, PlacesSame
<1>17. CASE OnFrame
  <2>1. UNCHANGED <<recvQ, inHand, dropped, seen, polled, arrived, overlap>>
    BY <1>17 DEF OnFrame, queueVars
  <2>. QED BY <2>1, PlacesSame
<1>18. CASE OnAvailable
  <2>1. UNCHANGED <<recvQ, inHand, dropped, seen, polled, arrived, overlap>>
    BY <1>18 DEF OnAvailable, queueVars
  <2>. QED BY <2>1, PlacesSame
<1>19. CASE SetDescription
  <2>1. UNCHANGED <<recvQ, inHand, dropped, seen, polled, arrived, overlap>>
    BY <1>19 DEF SetDescription, queueVars
  <2>. QED BY <2>1, PlacesSame
<1>20. CASE TrackSend
  <2>1. UNCHANGED <<recvQ, inHand, dropped, seen, polled, arrived, overlap>>
    BY <1>20 DEF TrackSend, queueVars
  <2>. QED BY <2>1, PlacesSame
<1>21. CASE UNCHANGED trackVars
  BY <1>21, PlacesSame DEF trackVars
<1>. QED
  BY <1>1, <1>2, <1>3, <1>4, <1>5, <1>6, <1>7, <1>8, <1>9, <1>10, <1>11, <1>12, <1>13, <1>14,
      <1>15, <1>16, <1>17, <1>18, <1>19, <1>20, <1>21
  DEF TrackNext, TrackLibrary, AppOp, Flush

(* Every step keeps the packets in turn.                                      *)
LEMMA InTurnStep == TrackFlags /\ TrackData /\ PlacesInv /\ InTurnInv /\ [TrackNext]_trackVars => InTurnInv'
<1>. SUFFICES ASSUME TrackFlags, TrackData, PlacesInv, InTurnInv, [TrackNext]_trackVars PROVE InTurnInv'
  OBVIOUS
<1>1. CASE Incoming
  <2>1. PICK k \in Kinds :
            LET p == [id |-> arrived + 1, kind |-> k]
            IN  \/ recvQ' = recvQ /\ dropped' = dropped \cup {arrived + 1}
                \/ recvQ' = Append(recvQ, p) /\ dropped' = dropped
    BY <1>1 DEF Incoming, Kinds
  <2>. DEFINE p == [id |-> arrived + 1, kind |-> k]
  <2>2. UNCHANGED <<inHand, seen, polled, overlap>> /\ arrived' = arrived + 1
    BY <1>1 DEF Incoming
  <2>3. p \in QueuedPacket /\ p.id = arrived + 1
    BY DEF QueuedPacket, TrackFlags
  <2>4. (recvQ' = Append(recvQ, p) /\ dropped' = dropped) \/ (recvQ' = recvQ /\ dropped' = dropped \cup {arrived + 1})
    BY <2>1
  <2>. HIDE DEF p
  <2>5. \A x \in Ids(recvQ) : x < p.id
    BY <2>3, NewPacket DEF PlacesInv, TrackFlags
  <2>6. recvQ \in Seq(QueuedPacket) /\ Sorted(recvQ)
    BY DEF TrackData, PlacesInv
  <2>7. Ids(Append(recvQ, p)) = Ids(recvQ) \cup {arrived + 1} /\ Sorted(Append(recvQ, p))
    BY <2>3, <2>5, <2>6, IdsAppend
  <2>8. Ids(recvQ') \subseteq Ids(recvQ) \cup {arrived + 1}
    BY <2>4, <2>7
  <2>9. \A x \in DeliveredIn(seen) \cup Held(inHand) : x < arrived + 1
    <3>1. DeliveredIn(seen) \cup Held(inHand) \subseteq 1..arrived
      BY DEF PlacesInv, Parted
    <3>. QED BY <3>1 DEF TrackFlags
  <2>. QED BY <2>2, <2>8, <2>9 DEF InTurnInv
<1>2. CASE ReadSize
  <2>1. UNCHANGED <<recvQ, inHand, dropped, seen, polled, arrived, overlap>>
    BY <1>2 DEF ReadSize, queueVars
  <2>. QED BY <2>1, PlacesSame
<1>3. CASE TriggerAvailable
  <2>1. UNCHANGED <<recvQ, inHand, dropped, seen, polled, arrived, overlap>>
    BY <1>3 DEF TriggerAvailable, queueVars
  <2>. QED BY <2>1, PlacesSame
<1>4. ASSUME NEW t \in TrackThreads, FlushGate(t) PROVE InTurnInv'
  <2>1. UNCHANGED <<recvQ, inHand, dropped, seen, polled, arrived, overlap>>
    BY <1>4 DEF FlushGate, queueVars
  <2>. QED BY <2>1, PlacesSame
<1>5. ASSUME NEW t \in TrackThreads, FlushCheck(t) PROVE InTurnInv'
  <2>1. UNCHANGED <<recvQ, inHand, dropped, seen, polled, arrived, overlap>>
    BY <1>5 DEF FlushCheck, queueVars
  <2>. QED BY <2>1, PlacesSame
<1>6. ASSUME NEW t \in TrackThreads, FlushPop(t) PROVE InTurnInv'
  <2>1. UNCHANGED <<dropped, seen, polled, arrived>> /\ trStep[t] = "pop"
    BY <1>6 DEF FlushPop
  <2>2. CASE recvQ = <<>>
    BY <1>6, <2>1, <2>2, PlacesSame DEF FlushPop
  <2>3. CASE recvQ # <<>>
    <3>. DEFINE p == Head(recvQ)
    <3>1. /\ recvQ' = Tail(recvQ) /\ inHand' = [inHand EXCEPT ![t] = p]
          /\ ~overlap' => ~overlap /\ \A u \in TrackThreads \ {t} : inHand[u] = <<>>
      <4>1. recvQ' = Tail(recvQ) /\ inHand' = [inHand EXCEPT ![t] = p]
        BY <1>6, <2>3 DEF FlushPop
      <4>2. overlap' = (overlap \/ \E u \in TrackThreads \ {t} : inHand[u] # <<>>)
        BY <1>6, <2>3 DEF FlushPop
      <4>3. ~overlap' => ~overlap /\ \A u \in TrackThreads \ {t} : inHand[u] = <<>>
        BY <4>2, Zenon
      <4>. QED BY <4>1, <4>3
    <3>2. recvQ \in Seq(QueuedPacket) /\ Sorted(recvQ) /\ p \in QueuedPacket
      BY <2>3 DEF TrackData, PlacesInv
    <3>3. /\ Ids(Tail(recvQ)) = Ids(recvQ) \ {p.id} /\ p.id \in Ids(recvQ) /\ Sorted(Tail(recvQ))
          /\ \A x \in Ids(Tail(recvQ)) : p.id < x
      BY <2>3, <3>2, IdsTail
    <3>. HIDE DEF p
    <3>4. /\ Parted(Ids(recvQ) \ {p.id}, Held(inHand) \cup {p.id}, dropped, DeliveredIn(seen), polled, arrived)
          /\ p.id \notin Held(inHand)
      BY <3>3, PacketMoves DEF PlacesInv
    <3>5. inHand[t] = <<>> /\ inHand \in [TrackThreads -> QueuedPacket \cup {<<>>}] /\ HandsDistinct(inHand)
      BY <2>1 DEF TrackData, PlacesInv
    <3>6. Held(inHand') = Held(inHand) \cup {p.id} /\ HandsDistinct(inHand')
      BY <3>1, <3>2, <3>4, <3>5, HeldTakes
    <3>7. ASSUME ~overlap'
          PROVE  /\ \A u, v \in TrackThreads : inHand'[u] # <<>> /\ inHand'[v] # <<>> => u = v
                 /\ \A x \in DeliveredIn(seen) : \A y \in Held(inHand') \cup Ids(recvQ') : x < y
                 /\ \A x \in Held(inHand') : \A y \in Ids(recvQ') : x < y
                 /\ RisingIn(seen)
      <4>1. ~overlap /\ \A u \in TrackThreads : inHand[u] = <<>>
        BY <3>1, <3>5, <3>7
      <4>2. Held(inHand) = {}
        BY <4>1 DEF Held
      <4>3. \A u, v \in TrackThreads : inHand'[u] # <<>> /\ inHand'[v] # <<>> => u = v
        BY <3>1, <3>5, <4>1
      <4>4. RisingIn(seen) /\ \A x \in DeliveredIn(seen) : \A y \in Ids(recvQ) : x < y
        BY <4>1 DEF InTurnInv
      <4>. QED BY <3>1, <3>3, <3>6, <4>2, <4>3, <4>4
    <3>. QED BY <2>1, <3>7 DEF InTurnInv
  <2>. QED BY <2>2, <2>3
<1>7. ASSUME NEW t \in TrackThreads, FlushCall(t) PROVE InTurnInv'
  <2>. DEFINE p == inHand[t]
              e == [what |-> p.kind, id |-> p.id]
  <2>1. /\ UNCHANGED <<recvQ, polled, arrived, overlap>> /\ inHand' = [inHand EXCEPT ![t] = <<>>]
        /\ trStep[t] = "call"
        /\ \/ seen' = Append(seen, e) /\ dropped' = dropped
           \/ seen' = seen /\ dropped' = dropped \cup {p.id}
    BY <1>7 DEF FlushCall, See
  <2>2. p # <<>> /\ p \in QueuedPacket
    BY <2>1 DEF TrackData
  <2>3. e \in SeenCall /\ e.id = p.id /\ e.id # 0
    BY <2>2 DEF SeenCall, QueuedPacket
  <2>4. inHand \in [TrackThreads -> QueuedPacket \cup {<<>>}] /\ HandsDistinct(inHand) /\ seen \in Seq(SeenCall)
    BY DEF TrackData, PlacesInv
  <2>5. Held(inHand') = Held(inHand) \ {p.id} /\ p.id \in Held(inHand) /\ HandsDistinct(inHand')
    BY <2>1, <2>2, <2>4, HeldGives
  <2>. HIDE DEF e, p
  <2>6. /\ Parted(Ids(recvQ), Held(inHand) \ {p.id}, dropped \cup {p.id}, DeliveredIn(seen), polled, arrived)
        /\ Parted(Ids(recvQ), Held(inHand) \ {p.id}, dropped, DeliveredIn(seen) \cup {p.id}, polled, arrived)
        /\ p.id \notin DeliveredIn(seen)
    BY <2>5, PacketMoves DEF PlacesInv
  <2>7. /\ DeliveredIn(Append(seen, e)) = DeliveredIn(seen) \cup {p.id}
        /\ UniqueIn(seen) => UniqueIn(Append(seen, e))
        /\ RisingIn(seen) /\ (\A x \in DeliveredIn(seen) : x < p.id) => RisingIn(Append(seen, e))
    BY <2>3, <2>4, <2>6, SeenPacket
  <2>8. ASSUME ~overlap
        PROVE  /\ \A u, v \in TrackThreads : inHand'[u] # <<>> /\ inHand'[v] # <<>> => u = v
               /\ \A x \in DeliveredIn(seen') : \A y \in Held(inHand') \cup Ids(recvQ') : x < y
               /\ \A x \in Held(inHand') : \A y \in Ids(recvQ') : x < y
               /\ RisingIn(seen')
    <3>1. \A u \in TrackThreads : inHand'[u] = <<>>
      BY <2>1, <2>2, <2>4, <2>8 DEF InTurnInv, p
    <3>2. Held(inHand') = {}
      BY <3>1 DEF Held
    <3>3. /\ \A x \in DeliveredIn(seen) : x < p.id /\ \A y \in Ids(recvQ) : x < y
          /\ \A y \in Ids(recvQ) : p.id < y
          /\ RisingIn(seen)
      BY <2>5, <2>8 DEF InTurnInv
    <3>4. CASE seen' = Append(seen, e)
      BY <2>1, <2>7, <3>1, <3>2, <3>3, <3>4
    <3>5. CASE seen' = seen
      BY <2>1, <3>1, <3>2, <3>3, <3>5
    <3>. QED BY <2>1, <3>4, <3>5
  <2>. QED BY <2>1, <2>8 DEF InTurnInv
<1>8. CASE Open
  <2>1. UNCHANGED <<recvQ, inHand, dropped, seen, polled, arrived, overlap>>
    BY <1>8 DEF Open, queueVars
  <2>. QED BY <2>1, PlacesSame
<1>9. CASE TriggerOpen
  <2>1. UNCHANGED <<recvQ, inHand, dropped, seen, polled, arrived, overlap>>
    BY <1>9 DEF TriggerOpen, queueVars
  <2>. QED BY <2>1, PlacesSame
<1>10. CASE OpenCall
  <2>. DEFINE e == [what |-> "open", id |-> 0]
  <2>1. /\ UNCHANGED <<recvQ, inHand, dropped, polled, arrived, overlap>>
        /\ seen' = seen \/ seen' = Append(seen, e)
    BY <1>10 DEF OpenCall, See, queueVars
  <2>2. e \in SeenCall /\ e.id = 0
    BY DEF SeenCall
  <2>. HIDE DEF e
  <2>3. CASE seen' = seen
    BY <2>1, <2>3, PlacesSame
  <2>4. CASE seen' = Append(seen, e)
    BY <2>1, <2>2, <2>4, SeenNothing DEF TrackData, InTurnInv
  <2>. QED BY <2>1, <2>3, <2>4
<1>11. CASE ResetFlag
  <2>1. UNCHANGED <<recvQ, inHand, dropped, seen, polled, arrived, overlap>>
    BY <1>11 DEF ResetFlag, queueVars
  <2>. QED BY <2>1, PlacesSame
<1>12. CASE ResetCallbacks
  <2>1. UNCHANGED <<recvQ, inHand, dropped, seen, polled, arrived, overlap>>
    BY <1>12 DEF ResetCallbacks, queueVars
  <2>. QED BY <2>1, PlacesSame
<1>13. CASE Receive
  <2>1. /\ UNCHANGED <<inHand, dropped, seen, arrived, overlap>>
        /\ \/ recvQ' = recvQ /\ polled' = polled
           \/ recvQ # <<>> /\ recvQ' = Tail(recvQ) /\ polled' = polled \cup {Head(recvQ).id}
    BY <1>13 DEF Receive
  <2>2. CASE recvQ' = recvQ /\ polled' = polled
    BY <2>1, <2>2, PlacesSame
  <2>3. CASE recvQ # <<>> /\ recvQ' = Tail(recvQ) /\ polled' = polled \cup {Head(recvQ).id}
    <3>1. recvQ \in Seq(QueuedPacket) /\ Sorted(recvQ)
      BY DEF TrackData, PlacesInv
    <3>2. /\ Ids(recvQ') = Ids(recvQ) \ {Head(recvQ).id} /\ Head(recvQ).id \in Ids(recvQ) /\ Sorted(recvQ')
      BY <2>3, <3>1, IdsTail
    <3>. QED BY <2>1, <3>2 DEF InTurnInv
  <2>. QED BY <2>1, <2>2, <2>3
<1>14. CASE TrackClose
  <2>. DEFINE e == [what |-> "closed", id |-> 0]
  <2>1. /\ UNCHANGED <<recvQ, inHand, dropped, polled, arrived, overlap>>
        /\ seen' = seen \/ seen' = Append(seen, e)
    BY <1>14 DEF TrackClose, See, queueVars
  <2>2. e \in SeenCall /\ e.id = 0
    BY DEF SeenCall
  <2>. HIDE DEF e
  <2>3. CASE seen' = seen
    BY <2>1, <2>3, PlacesSame
  <2>4. CASE seen' = Append(seen, e)
    BY <2>1, <2>2, <2>4, SeenNothing DEF TrackData, InTurnInv
  <2>. QED BY <2>1, <2>3, <2>4
<1>15. CASE OnOpen
  <2>. DEFINE e == [what |-> "open", id |-> 0]
  <2>1. /\ UNCHANGED <<recvQ, inHand, dropped, polled, arrived, overlap>>
        /\ seen' = seen \/ seen' = Append(seen, e)
    BY <1>15 DEF OnOpen, See, queueVars
  <2>2. e \in SeenCall /\ e.id = 0
    BY DEF SeenCall
  <2>. HIDE DEF e
  <2>3. CASE seen' = seen
    BY <2>1, <2>3, PlacesSame
  <2>4. CASE seen' = Append(seen, e)
    BY <2>1, <2>2, <2>4, SeenNothing DEF TrackData, InTurnInv
  <2>. QED BY <2>1, <2>3, <2>4
<1>16. CASE OnMessage
  <2>1. UNCHANGED <<recvQ, inHand, dropped, seen, polled, arrived, overlap>>
    BY <1>16 DEF OnMessage, queueVars
  <2>. QED BY <2>1, PlacesSame
<1>17. CASE OnFrame
  <2>1. UNCHANGED <<recvQ, inHand, dropped, seen, polled, arrived, overlap>>
    BY <1>17 DEF OnFrame, queueVars
  <2>. QED BY <2>1, PlacesSame
<1>18. CASE OnAvailable
  <2>1. UNCHANGED <<recvQ, inHand, dropped, seen, polled, arrived, overlap>>
    BY <1>18 DEF OnAvailable, queueVars
  <2>. QED BY <2>1, PlacesSame
<1>19. CASE SetDescription
  <2>1. UNCHANGED <<recvQ, inHand, dropped, seen, polled, arrived, overlap>>
    BY <1>19 DEF SetDescription, queueVars
  <2>. QED BY <2>1, PlacesSame
<1>20. CASE TrackSend
  <2>1. UNCHANGED <<recvQ, inHand, dropped, seen, polled, arrived, overlap>>
    BY <1>20 DEF TrackSend, queueVars
  <2>. QED BY <2>1, PlacesSame
<1>21. CASE UNCHANGED trackVars
  BY <1>21, PlacesSame DEF trackVars
<1>. QED
  BY <1>1, <1>2, <1>3, <1>4, <1>5, <1>6, <1>7, <1>8, <1>9, <1>10, <1>11, <1>12, <1>13, <1>14,
      <1>15, <1>16, <1>17, <1>18, <1>19, <1>20, <1>21
  DEF TrackNext, TrackLibrary, AppOp, Flush

(* The inductive invariant.                                                   *)
TrackIInv ==
    /\ TrackFlags /\ TrackData /\ FlushedInv /\ ToldInv /\ ShutInv /\ MutedInv /\ OpenedInv
    /\ PlacesInv /\ InTurnInv

LEMMA TrackInitInv == TrackInit => TrackIInv
<1>. SUFFICES ASSUME TrackInit PROVE TrackIInv
  OBVIOUS
<1>1. TrackFlags
  BY DEF TrackInit, TrackFlags, TrackThreads, Steps
<1>2. TrackData
  BY DEF TrackInit, TrackData, TrackThreads
<1>3. FlushedInv /\ ToldInv /\ ShutInv /\ MutedInv /\ OpenedInv
  <2>1. FlushedInv /\ ToldInv /\ MutedInv
    BY DEF TrackInit, FlushedInv, ToldInv, MutedInv
  <2>2. \A u \in TrackThreads : trStep[u] = "idle"
    BY DEF TrackInit
  <2>3. ShutInv /\ OpenedInv
    BY <2>2 DEF TrackInit, ShutInv, OpenedInv, TrackThreads
  <2>. QED BY <2>1, <2>3
<1>4. \A t \in TrackThreads : inHand[t] = <<>>
  BY DEF TrackInit
<1>5. Ids(recvQ) = {} /\ DeliveredIn(seen) = {} /\ dropped = {} /\ polled = {} /\ 1..arrived = {}
  BY DEF TrackInit, Ids, DeliveredIn
<1>6. Held(inHand) = {}
  BY <1>4 DEF Held
<1>7. Sorted(recvQ) /\ UniqueIn(seen) /\ RisingIn(seen)
  BY DEF TrackInit, Sorted, UniqueIn, RisingIn
<1>8. HandsDistinct(inHand)
  BY <1>4 DEF HandsDistinct
<1>9. PlacesInv
  BY <1>5, <1>6, <1>7, <1>8 DEF PlacesInv, Parted
<1>10. InTurnInv
  BY <1>4, <1>5, <1>6, <1>7 DEF InTurnInv
<1>. QED BY <1>1, <1>2, <1>3, <1>9, <1>10 DEF TrackIInv

LEMMA TrackStep == TrackIInv /\ [TrackNext]_trackVars => TrackIInv'
BY TrackFlagsStep, TrackDataStep, FlushedStep, ToldStep, ShutStep, MutedStep, OpenedStep, PlacesStep, InTurnStep
DEF TrackIInv

(* Five sets, as PacketsAccounted lists them.                                 *)
LEMMA FiveParts ==
    ASSUME NEW A, NEW B, NEW C, NEW D, NEW E, NEW n, Parted(A, B, C, D, E, n)
    PROVE  LET parts == <<A, B, C, D, E>>
           IN /\ UNION Range(parts) = 1..n
              /\ \A i, j \in DOMAIN parts : i # j => parts[i] \cap parts[j] = {}
<1>. DEFINE parts == <<A, B, C, D, E>>
<1>1. /\ DOMAIN parts = 1..5 /\ parts[1] = A /\ parts[2] = B /\ parts[3] = C /\ parts[4] = D /\ parts[5] = E
      /\ 1..5 = {1, 2, 3, 4, 5}
  OBVIOUS
<1>. HIDE DEF parts
<1>2. Range(parts) = {A, B, C, D, E}
  BY <1>1 DEF Range
<1>3. UNION Range(parts) = 1..n
  BY <1>2 DEF Parted
<1>4. \A i, j \in {1, 2, 3, 4, 5} : i # j => parts[i] \cap parts[j] = {}
  BY <1>1 DEF Parted
<1>. QED BY <1>1, <1>3, <1>4 DEF parts

(* The track: nothing waits when it is open and all threads are done, an      *)
(* application that sleeps is told, every packet is in one place and is       *)
(* delivered once, in the order of arrival unless two threads flush at once,  *)
(* and a closed track stays shut.                                             *)
THEOREM TrackCorrect == TrackSpec => []TrackInv
<1>1. TrackIInv => TrackInv
  <2>. SUFFICES ASSUME TrackIInv PROVE TrackInv
    OBVIOUS
  <2>1. NoneWaitingWhenOpen
    BY DEF TrackIInv, NoneWaitingWhenOpen, Quiet, FlushedInv, Taken, TakenCareOf, Working
  <2>2. NoLostNotification
    BY DEF TrackIInv, NoLostNotification, Quiet, ToldInv, TrackThreads
  <2>3. PacketsAccounted
    BY FiveParts DEF TrackIInv, PacketsAccounted, PlacesInv, Ids, Held, DeliveredIn, Delivered, UniqueIn
  <2>4. DeliveredInOrder
    BY DEF TrackIInv, DeliveredInOrder, InTurnInv, RisingIn
  <2>5. ClosedStaysShut
    BY DEF TrackIInv, ClosedStaysShut, ShutInv
  <2>. QED BY <2>1, <2>2, <2>3, <2>4, <2>5 DEF TrackInv
<1>. QED BY <1>1, TrackInitInv, TrackStep, PTL DEF TrackSpec

(* No step delivers a message before the application has seen the opening,    *)
(* nor anything but frames once the callbacks were reset.                     *)
THEOREM TrackStepsCorrect == TrackSpec => TrackSteps
<1>1. TrackIInv /\ [TrackNext]_trackVars => [SilentAfterClose /\ OpenBeforeMessages]_trackVars
  BY CallsAllowed DEF TrackIInv
<1>. QED BY <1>1, TrackInitInv, TrackStep, PTL DEF TrackSpec, TrackSteps

-----------------------------------------------------------------------------
(* The receiving side of an SCTP transport.                                   *)
Content == Seq(Nat \X Nat)
ReceivedMessage == [type : Types, stream : Streams, bytes : Content]
PartialPpids == {"StringPartial", "BinaryPartial"}
EmptyPpids == {"StringEmpty", "BinaryEmpty"}

(* A message of the peer is under way, and is to be received when complete.   *)
Coming ==
    rest > 0 => /\ message.stream \in Streams /\ message.ppid \in AllPpids
                /\ message.length \in Nat /\ rest <= message.length
Due == rest > 0 /\ message.ppid \notin PartialPpids

ReceiveTypes ==
    /\ mPartialMessage \in Content /\ mPartialStringData \in Content /\ mPartialBinaryData \in Content
    /\ delivered \in Seq(ReceivedMessage) /\ intended \in Seq(ReceivedMessage)
    /\ fragments \in [Streams -> [Types -> Content]]
    /\ rest \in Nat /\ count \in Nat /\ half \in BOOLEAN /\ fragmented \in BOOLEAN
    /\ Coming

(* What was kept of a notification is its first half.                         *)
NotificationInv ==
    /\ mPartialNotification = IF half THEN <<"first">> ELSE <<>>
    /\ notified \in Seq(Seq({"first", "last"})) /\ NotificationsWhole

(* What was kept of a message are its first bytes, cut at the maximum size.   *)
PieceInv ==
    mPartialMessage = IF rest = 0 THEN <<>>
                      ELSE Upto(Bytes(count, 1, message.length - rest), MaxMessageSize)

(* One message is received for each that was sent, and no longer than the     *)
(* maximum size.                                                              *)
BalanceInv ==
    /\ Len(mPartialStringData) <= MaxMessageSize /\ Len(mPartialBinaryData) <= MaxMessageSize
    /\ Len(intended) = Len(delivered) + (IF Due THEN 1 ELSE 0)
    /\ Due => /\ intended[Len(intended)].type = TypeOf(message.ppid)
              /\ intended[Len(intended)].stream = message.stream
    /\ \A i \in 1 .. Len(delivered) :
          /\ delivered[i].type = intended[i].type /\ delivered[i].stream = intended[i].stream
          /\ Len(delivered[i].bytes) <= MaxMessageSize

(* Without fragments nothing is kept, and the messages are those that were    *)
(* sent.                                                                      *)
WholeInv ==
    ~fragmented =>
        /\ mPartialStringData = <<>> /\ mPartialBinaryData = <<>>
        /\ \A s \in Streams, t \in Types : fragments[s][t] = <<>>
        /\ rest > 0 => message.ppid \notin PartialPpids
        /\ Due => intended[Len(intended)].bytes = IF message.ppid \in EmptyPpids THEN <<>>
                                                  ELSE Upto(Bytes(count, 1, message.length), MaxMessageSize)
        /\ \A i \in 1 .. Len(delivered) : delivered[i] = intended[i]

(* The bytes of a message.                                                    *)
LEMMA BytesFacts ==
    ASSUME NEW c \in Nat, NEW f \in Nat \ {0}, NEW u \in Nat, f <= u + 1
    PROVE  /\ Bytes(c, f, u) \in Content /\ Len(Bytes(c, f, u)) = u - f + 1
           /\ \A k \in 1 .. u - f + 1 : Bytes(c, f, u)[k] = <<c, f + k - 1>>
<1>1. u - f + 1 \in Nat /\ \A k \in 1 .. u - f + 1 : f + k - 1 \in Nat
  OBVIOUS
<1>. QED BY <1>1 DEF Bytes, Content

(* Cutting at a size.                                                         *)
LEMMA UptoFacts ==
    ASSUME NEW b \in Content, NEW n \in Nat
    PROVE  /\ Upto(b, n) \in Content /\ Len(Upto(b, n)) = (IF Len(b) < n THEN Len(b) ELSE n)
           /\ \A k \in 1 .. Len(Upto(b, n)) : Upto(b, n)[k] = b[k]
<1>1. Len(b) \in Nat
  BY DEF Content
<1>2. PICK m \in Nat : m = (IF Len(b) < n THEN Len(b) ELSE n) /\ m <= Len(b)
  BY <1>1
<1>3. SubSeq(b, 1, m) \in Seq(Nat \X Nat) /\ Len(SubSeq(b, 1, m)) = m
      /\ \A k \in 1 .. m : SubSeq(b, 1, m)[k] = b[k]
  BY <1>1, <1>2 DEF Content
<1>. QED BY <1>2, <1>3 DEF Upto, Content

(* resize() to a size.                                                        *)
LEMMA ResizeFacts ==
    ASSUME NEW b \in Content, NEW n \in Nat
    PROVE  Resize(b, n) \in Content /\ Len(Resize(b, n)) = n
<1>1. \A k \in 1 .. n : (IF k <= Len(b) THEN b[k] ELSE Zero) \in Nat \X Nat
  BY DEF Content, Zero
<1>. QED BY <1>1 DEF Resize, Content

(* Equal contents.                                                            *)
LEMMA ContentEqual ==
    ASSUME NEW a \in Content, NEW b \in Content, Len(a) = Len(b), \A k \in 1 .. Len(a) : a[k] = b[k]
    PROVE  a = b
BY SeqEqual DEF Content

(* Contents one behind the other.                                             *)
LEMMA ContentConcat ==
    ASSUME NEW a \in Content, NEW b \in Content
    PROVE  /\ a \o b \in Content /\ Len(a \o b) = Len(a) + Len(b)
           /\ \A k \in 1 .. Len(a) : (a \o b)[k] = a[k]
           /\ \A k \in Len(a) + 1 .. Len(a) + Len(b) : (a \o b)[k] = b[k - Len(a)]
BY ConcatProperties DEF Content

(* Appending a piece and cutting is cutting what has come so far.             *)
LEMMA PiecesTogether ==
    ASSUME NEW c \in Nat, NEW a \in Nat, NEW f \in Nat, NEW e \in Nat, NEW m \in Nat, f = a + 1, a <= e
    PROVE  Upto(Upto(Bytes(c, 1, a), m) \o Bytes(c, f, e), m) = Upto(Bytes(c, 1, e), m)
<1>. DEFINE head == Bytes(c, 1, a)
            cut == Upto(head, m)
            n == e - a
            tail == Bytes(c, f, e)
            all == Bytes(c, 1, e)
            left == Upto(cut \o tail, m)
            right == Upto(all, m)
<1>1. head \in Content /\ Len(head) = a /\ \A k \in 1 .. a : head[k] = <<c, k>>
  <2>1. a - 1 + 1 = a /\ 1 \in Nat \ {0} /\ 1 <= a + 1 /\ \A k \in 1 .. a : 1 + k - 1 = k
    OBVIOUS
  <2>2. /\ head \in Content /\ Len(head) = a - 1 + 1
        /\ \A k \in 1 .. a - 1 + 1 : head[k] = <<c, 1 + k - 1>>
    BY <2>1, BytesFacts
  <2>. HIDE DEF head
  <2>. QED BY <2>1, <2>2
<1>2. tail \in Content /\ Len(tail) = n /\ \A k \in 1 .. n : tail[k] = <<c, a + k>>
  <2>1. e - f + 1 = n /\ f \in Nat \ {0} /\ f <= e + 1 /\ \A k \in 1 .. n : f + k - 1 = a + k
    OBVIOUS
  <2>2. /\ tail \in Content /\ Len(tail) = e - f + 1
        /\ \A k \in 1 .. e - f + 1 : tail[k] = <<c, f + k - 1>>
    BY <2>1, BytesFacts
  <2>. HIDE DEF tail
  <2>. QED BY <2>1, <2>2
<1>3. all \in Content /\ Len(all) = a + n /\ \A k \in 1 .. a + n : all[k] = <<c, k>>
  <2>1. e - 1 + 1 = a + n /\ 1 \in Nat \ {0} /\ 1 <= e + 1 /\ \A k \in 1 .. a + n : 1 + k - 1 = k
    OBVIOUS
  <2>2. /\ all \in Content /\ Len(all) = e - 1 + 1
        /\ \A k \in 1 .. e - 1 + 1 : all[k] = <<c, 1 + k - 1>>
    BY <2>1, BytesFacts
  <2>. HIDE DEF all
  <2>. QED BY <2>1, <2>2
<1>0. n \in Nat
  OBVIOUS
<1>. HIDE DEF head, tail, all, n
<1>4. cut \in Content /\ Len(cut) = (IF a < m THEN a ELSE m) /\ \A k \in 1 .. Len(cut) : cut[k] = head[k]
  BY <1>0, <1>1, UptoFacts
<1>. HIDE DEF cut
<1>5. /\ cut \o tail \in Content /\ Len(cut \o tail) = Len(cut) + n
      /\ \A k \in 1 .. Len(cut) : (cut \o tail)[k] = cut[k]
      /\ \A k \in Len(cut) + 1 .. Len(cut) + n : (cut \o tail)[k] = tail[k - Len(cut)]
  BY <1>0, <1>2, <1>4, ContentConcat
<1>6. /\ left \in Content /\ Len(left) = (IF Len(cut) + n < m THEN Len(cut) + n ELSE m)
      /\ \A k \in 1 .. Len(left) : left[k] = (cut \o tail)[k]
  BY <1>0, <1>5, UptoFacts
<1>7. /\ right \in Content /\ Len(right) = (IF a + n < m THEN a + n ELSE m)
      /\ \A k \in 1 .. Len(right) : right[k] = all[k]
  BY <1>0, <1>3, UptoFacts
<1>. HIDE DEF left, right
<1>8. Len(left) = Len(right)
  BY <1>0, <1>4, <1>6, <1>7
<1>9. ASSUME NEW k \in 1 .. Len(left) PROVE left[k] = right[k]
  <2>1. k \in 1 .. a + n /\ right[k] = <<c, k>>
    BY <1>0, <1>3, <1>7, <1>8
  <2>2. CASE k <= Len(cut)
    <3>1. k \in 1 .. a /\ k \in 1 .. Len(cut)
      BY <1>0, <1>4, <2>2
    <3>. QED BY <1>0, <1>1, <1>4, <1>5, <1>6, <2>1, <3>1
  <2>3. CASE k > Len(cut)
    <3>1. Len(cut) = a /\ k - a \in 1 .. n /\ k \in Len(cut) + 1 .. Len(cut) + n
      BY <1>0, <1>4, <1>6, <2>3
    <3>2. left[k] = tail[k - a]
      BY <1>0, <1>5, <1>6, <3>1
    <3>3. tail[k - a] = <<c, a + (k - a)>> /\ a + (k - a) = k
      BY <1>0, <1>2, <3>1
    <3>. QED BY <2>1, <3>2, <3>3
  <2>. QED BY <1>0, <1>4, <2>2, <2>3
<1>10. left = right
  BY <1>6, <1>7, <1>8, <1>9, ContentEqual
<1>. QED BY <1>10 DEF left, right, cut, head, tail, all

(* A PPID has a type.                                                         *)
LEMMA TypeOfFacts == ASSUME NEW p \in AllPpids PROVE TypeOf(p) \in Types
BY DEF AllPpids, TypeOf, Types

(* Strings, or binary messages, put together.                                 *)
LEMMA ReassembleFacts ==
    ASSUME NEW t \in Types, NEW kept \in Content, NEW next, NEW data \in Content,
           Len(kept) <= MaxMessageSize, Len(data) <= MaxMessageSize,
           Reassemble(t, kept, next, data)
    PROVE  /\ next \in Content /\ Len(next) <= MaxMessageSize
           /\ message.ppid \in PartialPpids => delivered' = delivered
           /\ message.ppid \notin PartialPpids =>
                 /\ next = <<>>
                 /\ \E b \in Content : /\ Len(b) <= MaxMessageSize /\ Recv(t, b)
                                       /\ kept = <<>> => b = IF message.ppid \in EmptyPpids THEN <<>> ELSE data
<1>1. MaxMessageSize \in Nat \ {0}
  BY SizesAssumption
<1>2. kept \o data \in Content
  BY DEF Content
<1>3. Resize(kept \o data, MaxMessageSize) \in Content /\ Len(Resize(kept \o data, MaxMessageSize)) = MaxMessageSize
  BY <1>1, <1>2, ResizeFacts
<1>4. <<>> \in Content /\ Len(<<>>) = 0
  BY DEF Content
<1>5. CASE message.ppid \in {"StringPartial", "BinaryPartial"} /\ next = Resize(kept \o data, MaxMessageSize) /\ UNCHANGED delivered
  BY <1>1, <1>3, <1>5 DEF PartialPpids
<1>6. CASE /\ message.ppid \in {"String", "Binary"} /\ next = <<>>
           /\ Recv(t, IF kept = <<>> THEN data ELSE Resize(kept \o data, MaxMessageSize))
  <2>. DEFINE b == IF kept = <<>> THEN data ELSE Resize(kept \o data, MaxMessageSize)
  <2>1. b \in Content /\ Len(b) <= MaxMessageSize
    BY <1>1, <1>3
  <2>2. message.ppid \notin PartialPpids /\ message.ppid \notin EmptyPpids
    BY <1>6 DEF PartialPpids, EmptyPpids
  <2>3. Recv(t, b) /\ (kept = <<>> => b = data)
    BY <1>6
  <2>. HIDE DEF b
  <2>. QED BY <1>1, <1>4, <1>6, <2>1, <2>2, <2>3
<1>7. CASE message.ppid \in {"StringEmpty", "BinaryEmpty"} /\ Recv(t, kept) /\ next = <<>>
  <2>1. message.ppid \notin PartialPpids /\ message.ppid \in EmptyPpids
    BY <1>7 DEF PartialPpids, EmptyPpids
  <2>. QED BY <1>1, <1>4, <1>7, <2>1
<1>. QED BY <1>5, <1>6, <1>7 DEF Reassemble

(* What processData() delivers and keeps.                                     *)
LEMMA ProcessFacts ==
    ASSUME ReceiveTypes, BalanceInv, message.ppid \in AllPpids, NEW data \in Content,
           Len(data) <= MaxMessageSize, processData(data)
    PROVE  /\ mPartialStringData' \in Content /\ Len(mPartialStringData') <= MaxMessageSize
           /\ mPartialBinaryData' \in Content /\ Len(mPartialBinaryData') <= MaxMessageSize
           /\ message.ppid \in PartialPpids => delivered' = delivered
           /\ message.ppid \notin PartialPpids =>
                 /\ mPartialStringData = <<>> => mPartialStringData' = <<>>
                 /\ mPartialBinaryData = <<>> => mPartialBinaryData' = <<>>
                 /\ \E b \in Content :
                       /\ Len(b) <= MaxMessageSize /\ Recv(TypeOf(message.ppid), b)
                       /\ mPartialStringData = <<>> /\ mPartialBinaryData = <<>> =>
                             b = IF message.ppid \in EmptyPpids THEN <<>> ELSE data
<1>1. /\ mPartialStringData \in Content /\ Len(mPartialStringData) <= MaxMessageSize
      /\ mPartialBinaryData \in Content /\ Len(mPartialBinaryData) <= MaxMessageSize
  BY DEF ReceiveTypes, BalanceInv
<1>2. TypeOf(message.ppid) \in Types
  BY TypeOfFacts
<1>3. CASE TypeOf(message.ppid) = "Control"
  <2>1. message.ppid = "Control"
    BY <1>3 DEF TypeOf, AllPpids
  <2>2. Recv(TypeOf(message.ppid), data) /\ UNCHANGED <<mPartialStringData, mPartialBinaryData>>
    BY <1>3 DEF processData, partialVars
  <2>3. message.ppid \notin PartialPpids /\ message.ppid \notin EmptyPpids
    BY <2>1 DEF PartialPpids, EmptyPpids
  <2>. QED BY <1>1, <2>2, <2>3
<1>4. CASE TypeOf(message.ppid) = "String"
  <2>1. /\ Reassemble("String", mPartialStringData, mPartialStringData', data)
        /\ UNCHANGED mPartialBinaryData
    BY <1>4 DEF processData
  <2>. QED BY <1>1, <1>2, <1>4, <2>1, ReassembleFacts
<1>5. CASE TypeOf(message.ppid) = "Binary"
  <2>1. /\ Reassemble("Binary", mPartialBinaryData, mPartialBinaryData', data)
        /\ UNCHANGED mPartialStringData
    BY <1>5 DEF processData
  <2>. QED BY <1>1, <1>2, <1>5, <2>1, ReassembleFacts
<1>. QED BY <1>2, <1>3, <1>4, <1>5 DEF Types

ReceiveInv == ReceiveTypes /\ NotificationInv /\ PieceInv /\ BalanceInv /\ WholeInv

(* The peer sends a message, a fragment or an empty message.                  *)
LEMMA PeerStep ==
    ASSUME ReceiveInv, NEW s \in Streams, NEW ppid \in Ppids, NEW n \in 1 .. MaxLength, PeerSends(s, ppid, n)
    PROVE  ReceiveInv'
<1>. DEFINE t == TypeOf(ppid)
            bytes == IF ppid \in {"StringEmpty", "BinaryEmpty"} THEN <<>> ELSE Bytes(count + 1, 1, n)
            whole == Upto(fragments[s][t] \o bytes, MaxMessageSize)
            new == [type |-> t, stream |-> s, bytes |-> whole]
<1>1. ppid \in AllPpids /\ n \in Nat \ {0} /\ MaxMessageSize \in Nat \ {0}
  BY PpidsAssumption, SizesAssumption
<1>2. /\ rest = 0 /\ rest' = n /\ count' = count + 1 /\ message' = [stream |-> s, ppid |-> ppid, length |-> n]
      /\ UNCHANGED <<mPartialMessage, mPartialNotification, mPartialStringData, mPartialBinaryData, delivered, notified, half>>
      /\ fragments' = [fragments EXCEPT ![s][t] = IF ppid \in PartialPpids THEN whole ELSE <<>>]
      /\ intended' = IF ppid \in PartialPpids THEN intended ELSE Append(intended, new)
      /\ fragmented' = (fragmented \/ ppid \in PartialPpids)
  BY DEF PeerSends, PartialPpids, partialVars
<1>3. t \in Types /\ count + 1 \in Nat /\ fragments[s][t] \in Content
  BY <1>1, TypeOfFacts DEF ReceiveInv, ReceiveTypes
<1>4. Bytes(count + 1, 1, n) \in Content
  <2>1. 1 \in Nat \ {0} /\ n \in Nat /\ 1 <= n + 1
    BY <1>1
  <2>. QED BY <1>3, <2>1, BytesFacts
<1>5. bytes \in Content /\ <<>> \in Content
  BY <1>4 DEF Content
<1>6. whole \in Content
  BY <1>1, <1>3, <1>5, ContentConcat, UptoFacts
<1>7. fragments[s][t] = <<>> =>
        whole = IF ppid \in EmptyPpids THEN <<>> ELSE Upto(Bytes(count + 1, 1, n), MaxMessageSize)
  <2>1. <<>> \o bytes = bytes
    BY <1>5, ConcatEmptySeq DEF Content
  <2>2. Upto(<<>>, MaxMessageSize) = <<>>
    BY <1>1 DEF Upto
  <2>. QED BY <2>1, <2>2 DEF EmptyPpids
<1>. HIDE DEF t, bytes, whole
<1>8. new \in ReceivedMessage /\ new.type = t /\ new.stream = s /\ new.bytes = whole
  BY <1>3, <1>6 DEF ReceivedMessage
<1>. HIDE DEF new
<1>9. /\ intended \in Seq(ReceivedMessage) /\ Len(intended) \in Nat
      /\ Append(intended, new) \in Seq(ReceivedMessage) /\ Len(Append(intended, new)) = Len(intended) + 1
      /\ Append(intended, new)[Len(intended) + 1] = new
      /\ \A i \in 1 .. Len(intended) : Append(intended, new)[i] = intended[i]
  BY <1>8 DEF ReceiveInv, ReceiveTypes
<1>10. message'.ppid = ppid /\ message'.stream = s /\ message'.length = n
  BY <1>2
<1>11. Due' <=> ppid \notin PartialPpids
  BY <1>1, <1>2, <1>10 DEF Due
<1>12. ~Due /\ Len(delivered) = Len(intended)
  BY <1>2, <1>9 DEF Due, ReceiveInv, BalanceInv
<1>13. ReceiveTypes'
  <2>1. fragments' \in [Streams -> [Types -> Content]]
    BY <1>2, <1>3, <1>5, <1>6 DEF ReceiveInv, ReceiveTypes
  <2>2. fragmented' \in BOOLEAN
    BY <1>2 DEF ReceiveInv, ReceiveTypes
  <2>3. intended' \in Seq(ReceivedMessage)
    BY <1>2, <1>9
  <2>4. Coming'
    BY <1>1, <1>2, <1>10 DEF Coming
  <2>5. rest' \in Nat /\ count' \in Nat
    BY <1>1, <1>2, <1>3
  <2>. QED BY <1>2, <2>1, <2>2, <2>3, <2>4, <2>5 DEF ReceiveInv, ReceiveTypes
<1>14. NotificationInv'
  BY <1>2 DEF ReceiveInv, NotificationInv, NotificationsWhole
<1>15. PieceInv'
  <2>1. mPartialMessage' = <<>>
    BY <1>2 DEF ReceiveInv, PieceInv
  <2>2. rest' # 0 /\ message'.length - rest' = 0
    BY <1>1, <1>2, <1>10
  <2>3. Upto(Bytes(count', 1, 0), MaxMessageSize) = <<>>
    <3>1. 1 \in Nat \ {0} /\ 0 \in Nat /\ 1 <= 0 + 1 /\ 0 - 1 + 1 = 0
      OBVIOUS
    <3>2. Bytes(count', 1, 0) \in Content /\ Len(Bytes(count', 1, 0)) = 0
      BY <1>2, <1>3, <3>1, BytesFacts
    <3>3. Upto(Bytes(count', 1, 0), MaxMessageSize) \in Content /\ Len(Upto(Bytes(count', 1, 0), MaxMessageSize)) = 0
      BY <1>1, <3>2, UptoFacts
    <3>. QED BY <3>3 DEF Content
  <2>. QED BY <2>1, <2>2, <2>3 DEF PieceInv
<1>16. BalanceInv'
  <2>1. Len(intended') = Len(delivered') + (IF Due' THEN 1 ELSE 0)
    BY <1>2, <1>9, <1>11, <1>12
  <2>2. Due' => /\ intended'[Len(intended')].type = TypeOf(message'.ppid)
                /\ intended'[Len(intended')].stream = message'.stream
    BY <1>2, <1>8, <1>9, <1>10, <1>11 DEF t
  <2>3. \A i \in 1 .. Len(delivered') :
          /\ delivered'[i].type = intended'[i].type /\ delivered'[i].stream = intended'[i].stream
          /\ Len(delivered'[i].bytes) <= MaxMessageSize
    BY <1>2, <1>9, <1>12 DEF ReceiveInv, BalanceInv
  <2>. QED BY <1>2, <2>1, <2>2, <2>3 DEF ReceiveInv, BalanceInv
<1>17. WholeInv'
  <2>. SUFFICES ASSUME ~fragmented' PROVE WholeInv'
    BY DEF WholeInv
  <2>1. ~fragmented /\ ppid \notin PartialPpids
    BY <1>2
  <2>2. \A u \in Streams, v \in Types : fragments[u][v] = <<>>
    BY <2>1 DEF ReceiveInv, WholeInv
  <2>3. \A u \in Streams, v \in Types : fragments'[u][v] = <<>>
    BY <1>2, <1>3, <2>1, <2>2 DEF ReceiveInv, ReceiveTypes
  <2>4. whole = IF ppid \in EmptyPpids THEN <<>> ELSE Upto(Bytes(count + 1, 1, n), MaxMessageSize)
    BY <1>3, <1>7, <2>2
  <2>5. intended' = Append(intended, new)
    BY <1>2, <2>1
  <2>6. intended'[Len(intended')].bytes = IF message'.ppid \in EmptyPpids THEN <<>>
                                          ELSE Upto(Bytes(count', 1, message'.length), MaxMessageSize)
    BY <1>2, <1>8, <1>9, <1>10, <2>4, <2>5
  <2>7. \A i \in 1 .. Len(delivered') : delivered'[i] = intended'[i]
    BY <1>2, <1>9, <1>12, <2>1, <2>5 DEF ReceiveInv, WholeInv
  <2>. QED BY <1>2, <1>10, <2>1, <2>3, <2>6, <2>7 DEF ReceiveInv, WholeInv
<1>. QED BY <1>13, <1>14, <1>15, <1>16, <1>17 DEF ReceiveInv

(* doRecv() gets a piece of a message.                                        *)
LEMMA PieceStep ==
    ASSUME ReceiveInv, NEW n \in 1 .. MaxPiece, RecvPiece(n)
    PROVE  ReceiveInv'
<1>. DEFINE sofar == message.length - rest
            bytes == Upto(mPartialMessage \o Bytes(count, sofar + 1, sofar + n), MaxMessageSize)
<1>1. MaxMessageSize \in Nat \ {0} /\ n \in Nat \ {0}
  BY SizesAssumption
<1>2. /\ n <= rest /\ rest' = rest - n
      /\ IF rest = n THEN mPartialMessage' = <<>> /\ processData(bytes)
         ELSE mPartialMessage' = bytes /\ UNCHANGED <<delivered, mPartialStringData, mPartialBinaryData>>
      /\ UNCHANGED <<mPartialNotification, notified, message, half, intended, fragments, fragmented, count>>
  BY DEF RecvPiece, partialVars, peerVars
<1>3. /\ rest > 0 /\ rest \in Nat /\ rest' \in Nat /\ count \in Nat /\ message.length \in Nat /\ rest <= message.length
      /\ message.ppid \in AllPpids /\ message.stream \in Streams
  BY <1>1, <1>2 DEF ReceiveInv, ReceiveTypes, Coming
<1>4. sofar \in Nat /\ sofar + n \in Nat /\ sofar + n = message.length - rest' /\ sofar + n <= message.length
  BY <1>1, <1>2, <1>3
<1>5. mPartialMessage = Upto(Bytes(count, 1, sofar), MaxMessageSize)
  BY <1>3 DEF ReceiveInv, PieceInv
<1>. HIDE DEF sofar
<1>6. bytes = Upto(Bytes(count, 1, sofar + n), MaxMessageSize)
  <2>1. Upto(Upto(Bytes(count, 1, sofar), MaxMessageSize) \o Bytes(count, sofar + 1, sofar + n), MaxMessageSize)
          = Upto(Bytes(count, 1, sofar + n), MaxMessageSize)
    <3>1. /\ count \in Nat /\ sofar \in Nat /\ sofar + 1 \in Nat /\ sofar + n \in Nat /\ MaxMessageSize \in Nat
          /\ sofar <= sofar + n
      BY <1>1, <1>3, <1>4
    <3>. QED BY <3>1, PiecesTogether
  <2>. QED BY <1>5, <2>1
<1>7. bytes \in Content /\ Len(bytes) <= MaxMessageSize
  <2>1. 1 \in Nat \ {0} /\ 1 <= (sofar + n) + 1 /\ (sofar + n) - 1 + 1 \in Nat
    BY <1>1, <1>4
  <2>2. Bytes(count, 1, sofar + n) \in Content /\ Len(Bytes(count, 1, sofar + n)) \in Nat
    BY <1>3, <1>4, <2>1, BytesFacts
  <2>. QED BY <1>1, <1>6, <2>2, UptoFacts
<1>. HIDE DEF bytes
<1>8. NotificationInv'
  BY <1>2 DEF ReceiveInv, NotificationInv, NotificationsWhole
<1>9. CASE rest # n
  <2>1. /\ mPartialMessage' = bytes /\ rest' > 0
        /\ UNCHANGED <<delivered, mPartialStringData, mPartialBinaryData, message, intended, fragments, fragmented, count>>
    BY <1>1, <1>2, <1>3, <1>9
  <2>2. Due' <=> Due
    BY <1>3, <2>1 DEF Due
  <2>3. ReceiveTypes'
    <3>1. Coming'
      BY <1>1, <1>2, <1>3, <2>1 DEF Coming
    <3>. QED BY <1>2, <1>3, <1>7, <2>1, <3>1 DEF ReceiveInv, ReceiveTypes
  <2>4. PieceInv'
    BY <1>4, <1>6, <2>1 DEF PieceInv
  <2>5. BalanceInv'
    BY <2>1, <2>2 DEF ReceiveInv, BalanceInv
  <2>6. WholeInv'
    BY <1>3, <2>1, <2>2 DEF ReceiveInv, WholeInv
  <2>. QED BY <1>8, <2>3, <2>4, <2>5, <2>6 DEF ReceiveInv
<1>10. CASE rest = n
  <2>1. mPartialMessage' = <<>> /\ rest' = 0 /\ processData(bytes) /\ ~Due' /\ sofar + n = message.length
    BY <1>2, <1>3, <1>4, <1>10 DEF Due
  <2>2. ReceiveTypes /\ BalanceInv
    BY DEF ReceiveInv
  <2>3. /\ mPartialStringData' \in Content /\ Len(mPartialStringData') <= MaxMessageSize
        /\ mPartialBinaryData' \in Content /\ Len(mPartialBinaryData') <= MaxMessageSize
    BY <1>3, <1>7, <2>1, <2>2, ProcessFacts
  <2>4. delivered \in Seq(ReceivedMessage) /\ intended \in Seq(ReceivedMessage) /\ Len(delivered) \in Nat
    BY <2>2 DEF ReceiveTypes
  <2>5. PieceInv' /\ Coming' /\ mPartialMessage' \in Content
    BY <2>1 DEF PieceInv, Coming, Content
  <2>6. CASE message.ppid \in PartialPpids
    <3>1. delivered' = delivered /\ ~Due /\ fragmented
      BY <1>3, <1>7, <2>1, <2>2, <2>6, ProcessFacts DEF Due, ReceiveInv, WholeInv
    <3>2. ReceiveTypes'
      BY <1>2, <1>3, <2>3, <2>5, <3>1 DEF ReceiveInv, ReceiveTypes
    <3>3. BalanceInv'
      BY <1>2, <2>1, <2>3, <3>1 DEF ReceiveInv, BalanceInv
    <3>4. WholeInv'
      BY <1>2, <3>1 DEF WholeInv
    <3>. QED BY <1>8, <2>5, <3>2, <3>3, <3>4 DEF ReceiveInv
  <2>7. CASE message.ppid \notin PartialPpids
    <3>1. /\ mPartialStringData = <<>> => mPartialStringData' = <<>>
          /\ mPartialBinaryData = <<>> => mPartialBinaryData' = <<>>
      BY <1>3, <1>7, <2>1, <2>2, <2>7, ProcessFacts
    <3>2. PICK b \in Content : /\ Len(b) <= MaxMessageSize /\ Recv(TypeOf(message.ppid), b)
                               /\ mPartialStringData = <<>> /\ mPartialBinaryData = <<>> =>
                                     b = IF message.ppid \in EmptyPpids THEN <<>> ELSE bytes
      BY <1>3, <1>7, <2>1, <2>2, <2>7, ProcessFacts
    <3>. DEFINE new == [type |-> TypeOf(message.ppid), stream |-> message.stream, bytes |-> b]
    <3>3. delivered' = Append(delivered, new)
      BY <3>2 DEF Recv
    <3>4. new \in ReceivedMessage /\ new.type = TypeOf(message.ppid) /\ new.stream = message.stream /\ new.bytes = b
      BY <1>3, TypeOfFacts DEF ReceivedMessage
    <3>. HIDE DEF new
    <3>5. /\ delivered' \in Seq(ReceivedMessage) /\ Len(delivered') = Len(delivered) + 1
          /\ delivered'[Len(delivered) + 1] = new
          /\ \A i \in 1 .. Len(delivered) : delivered'[i] = delivered[i]
      BY <2>4, <3>3, <3>4
    <3>6. Due /\ Len(intended) = Len(delivered) + 1
      BY <1>3, <2>2, <2>7 DEF Due, BalanceInv
    <3>7. ReceiveTypes'
      BY <1>2, <1>3, <2>3, <2>5, <3>5 DEF ReceiveInv, ReceiveTypes
    <3>8. \A i \in 1 .. Len(delivered') : i = Len(delivered) + 1 \/ i \in 1 .. Len(delivered)
      BY <2>4, <3>5
    <3>9. BalanceInv'
      <4>1. \A i \in 1 .. Len(delivered') :
              /\ delivered'[i].type = intended'[i].type /\ delivered'[i].stream = intended'[i].stream
              /\ Len(delivered'[i].bytes) <= MaxMessageSize
        BY <1>2, <2>2, <3>2, <3>4, <3>5, <3>6, <3>8 DEF BalanceInv
      <4>2. Len(intended') = Len(delivered') + (IF Due' THEN 1 ELSE 0)
        BY <1>2, <2>1, <2>4, <3>5, <3>6
      <4>. QED BY <2>1, <2>3, <4>1, <4>2 DEF BalanceInv
    <3>10. WholeInv'
      <4>. SUFFICES ASSUME ~fragmented' PROVE WholeInv'
        BY DEF WholeInv
      <4>1. ~fragmented /\ WholeInv
        BY <1>2 DEF ReceiveInv
      <4>2. mPartialStringData' = <<>> /\ mPartialBinaryData' = <<>>
        BY <3>1, <4>1 DEF WholeInv
      <4>3. b = IF message.ppid \in EmptyPpids THEN <<>> ELSE Upto(Bytes(count, 1, message.length), MaxMessageSize)
        BY <1>6, <2>1, <3>2, <4>1 DEF WholeInv
      <4>4. intended[Len(delivered) + 1].bytes = b
        BY <3>6, <4>1, <4>3 DEF WholeInv
      <4>5. intended[Len(delivered) + 1] = new
        <5>1. intended[Len(delivered) + 1] \in ReceivedMessage
          BY <2>4, <3>6
        <5>2. /\ intended[Len(delivered) + 1].type = new.type
              /\ intended[Len(delivered) + 1].stream = new.stream
          BY <2>2, <3>4, <3>6 DEF BalanceInv
        <5>. QED BY <3>4, <4>4, <5>1, <5>2 DEF ReceivedMessage
      <4>6. \A i \in 1 .. Len(delivered') : delivered'[i] = intended'[i]
        BY <1>2, <3>5, <3>8, <4>1, <4>5 DEF WholeInv
      <4>. QED BY <1>2, <2>1, <4>1, <4>2, <4>6 DEF WholeInv
    <3>. QED BY <1>8, <2>5, <3>7, <3>9, <3>10 DEF ReceiveInv
  <2>. QED BY <2>6, <2>7
<1>. QED BY <1>9, <1>10

(* doRecv() gets a piece of a notification.                                   *)
LEMMA NotificationStep ==
    ASSUME ReceiveInv, NEW first \in BOOLEAN, RecvNotification(first)
    PROVE  ReceiveInv'
<1>1. /\ half # first /\ half' = first
      /\ UNCHANGED <<mPartialMessage, mPartialStringData, mPartialBinaryData, delivered, message, rest,
                     intended, fragments, fragmented, count>>
  BY DEF RecvNotification, partialVars, peerVars
<1>2. ReceiveTypes' /\ PieceInv' /\ BalanceInv' /\ WholeInv'
  BY <1>1 DEF ReceiveInv, ReceiveTypes, Coming, PieceInv, BalanceInv, WholeInv, Due
<1>3. NotificationInv'
  <2>1. CASE first
    <3>1. mPartialNotification = <<>> /\ mPartialNotification' = Append(mPartialNotification, "first") /\ notified' = notified
      BY <1>1, <2>1 DEF RecvNotification, ReceiveInv, NotificationInv
    <3>. QED BY <1>1, <2>1, <3>1 DEF ReceiveInv, NotificationInv, NotificationsWhole
  <2>2. CASE ~first
    <3>1. /\ mPartialNotification = <<"first">> /\ mPartialNotification' = <<>>
          /\ notified' = Append(notified, Append(mPartialNotification, "last"))
      BY <1>1, <2>2 DEF RecvNotification, ReceiveInv, NotificationInv, ReceiveTypes
    <3>2. Append(mPartialNotification, "last") = <<"first", "last">> /\ <<"first", "last">> \in Seq({"first", "last"})
      <4>1. Append(<<"first">>, "last") = <<"first", "last">>
        <5>1. /\ Append(<<"first">>, "last") \in Seq({"first", "last"}) /\ Len(Append(<<"first">>, "last")) = 2
              /\ Append(<<"first">>, "last")[1] = "first" /\ Append(<<"first">>, "last")[2] = "last"
          OBVIOUS
        <5>2. /\ <<"first", "last">> \in Seq({"first", "last"}) /\ Len(<<"first", "last">>) = 2
              /\ <<"first", "last">>[1] = "first" /\ <<"first", "last">>[2] = "last"
          OBVIOUS
        <5>3. \A i \in 1 .. 2 : i = 1 \/ i = 2
          OBVIOUS
        <5>4. \A i \in 1 .. 2 : Append(<<"first">>, "last")[i] = <<"first", "last">>[i]
          BY <5>1, <5>2, <5>3
        <5>. QED BY <5>1, <5>2, <5>4, SeqEqual
      <4>2. <<"first", "last">> \in Seq({"first", "last"})
        OBVIOUS
      <4>. QED BY <3>1, <4>1, <4>2
    <3>3. notified' \in Seq(Seq({"first", "last"})) /\ \A i \in 1 .. Len(notified') : notified'[i] = <<"first", "last">>
      BY <3>1, <3>2 DEF ReceiveInv, NotificationInv, NotificationsWhole
    <3>. QED BY <1>1, <2>2, <3>1, <3>3 DEF NotificationInv, NotificationsWhole
  <2>. QED BY <2>1, <2>2
<1>. QED BY <1>2, <1>3 DEF ReceiveInv

(* What the gate keeps: a thread passes it after our first packet, or once    *)
(* the transport failed or is being destroyed.                                *)
PassInv ==
    /\ Gate!GateInv
    /\ mWrittenOnce => wrote \/ owner \in {"notify", "unregister", "done"}
    /\ lower = "passed" => mWrittenOnce \/ state = "Failed"
    /\ owner = "done" => ~registered

LEMMA GateStep == PassInv /\ [Gate!Next]_gateVars => PassInv'
<1>. SUFFICES ASSUME PassInv, [Gate!Next]_gateVars PROVE PassInv'
  OBVIOUS
<1>. USE PacketsAssumption DEF PassInv, Gate!GateInv, Gate!TypeOK
<1>1. CASE Gate!Incoming
  BY <1>1 DEF Gate!Incoming
<1>2. CASE Gate!WaitTest
  BY <1>2 DEF Gate!WaitTest, Gate!Opened
<1>3. CASE Gate!WaitSleep
  BY <1>3 DEF Gate!WaitSleep
<1>4. ASSUME NEW m \in BOOLEAN, Gate!IncomingReturns(m) PROVE PassInv'
  BY <1>4 DEF Gate!IncomingReturns
<1>5. CASE Gate!SpuriousWakeup
  BY <1>5 DEF Gate!SpuriousWakeup
<1>6. CASE Gate!HandleWrite
  BY <1>6 DEF Gate!HandleWrite, Gate!NotifyAll
<1>7. CASE Gate!CloseBegin
  BY <1>7 DEF Gate!CloseBegin
<1>8. CASE Gate!CloseFails
  BY <1>8 DEF Gate!CloseFails
<1>9. CASE Gate!CloseNotify
  BY <1>9 DEF Gate!CloseNotify, Gate!NotifyAll
<1>10. CASE Gate!DestroyFlag
  BY <1>10 DEF Gate!DestroyFlag
<1>11. CASE Gate!DestroyNotify
  <2>1. missed' \in BOOLEAN
    BY <1>11 DEF Gate!DestroyNotify
  <2>. QED BY <1>11, <2>1 DEF Gate!DestroyNotify, Gate!NotifyAll
<1>12. CASE Gate!Unregister
  BY <1>12 DEF Gate!Unregister
<1>13. CASE UNCHANGED gateVars
  BY <1>13 DEF gateVars
<1>. QED
  BY <1>1, <1>2, <1>3, <1>4, <1>5, <1>6, <1>7, <1>8, <1>9, <1>10, <1>11, <1>12, <1>13
  DEF Gate!Next, Gate!Lower, Gate!TearDown

(* What the run checks follows from the two parts.                            *)
LEMMA IncomingImplied == ReceiveInv /\ PassInv => IncomingInv
<1>. SUFFICES ASSUME ReceiveInv, PassInv PROVE IncomingInv
  OBVIOUS
<1>1. /\ delivered \in Seq(ReceivedMessage) /\ intended \in Seq(ReceivedMessage) /\ rest \in Nat
      /\ Len(delivered) \in Nat /\ Len(intended) \in Nat
      /\ Len(intended) = Len(delivered) + (IF Due THEN 1 ELSE 0)
  BY DEF ReceiveInv, ReceiveTypes, BalanceInv
<1>2. Len(delivered) <= Len(intended) /\ (rest = 0 => Len(delivered) = Len(intended))
  BY <1>1 DEF Due
<1>3. BoundariesKept
  BY <1>2 DEF BoundariesKept, ReceiveInv, BalanceInv
<1>4. WholeDeliveredAsSent
  <2>. SUFFICES ASSUME ~fragmented PROVE DeliveredAsSent
    BY DEF WholeDeliveredAsSent
  <2>1. \A i \in 1 .. Len(delivered) : delivered[i] = intended[i]
    BY DEF ReceiveInv, WholeInv
  <2>2. rest = 0 => delivered = intended
    BY <1>1, <1>2, <2>1, SeqEqual
  <2>3. /\ SubSeq(intended, 1, Len(delivered)) \in Seq(ReceivedMessage)
        /\ Len(SubSeq(intended, 1, Len(delivered))) = Len(delivered)
        /\ \A i \in 1 .. Len(delivered) : SubSeq(intended, 1, Len(delivered))[i] = intended[i]
    BY <1>1, <1>2
  <2>4. delivered = SubSeq(intended, 1, Len(delivered))
    BY <1>1, <2>1, <2>3, SeqEqual
  <2>. QED BY <2>2, <2>4 DEF DeliveredAsSent
<1>5. GateInv /\ NotificationsWhole
  BY DEF PassInv, GateInv, ReceiveInv, NotificationInv
<1>. QED BY <1>3, <1>4, <1>5 DEF IncomingInv

(* Everything an SCTP transport receives, for any sizes of messages, pieces   *)
(* and limits and any number of streams: no packet passes the gate of         *)
(* incoming() before our first one, no thread is there after the destructor;  *)
(* and the pieces, with notifications in between, become the messages that    *)
(* were sent, once, in order, on their streams and cut at the maximum size.   *)
THEOREM IncomingCorrect == IncomingSpec => []IncomingInv
<1>. DEFINE Both == ReceiveInv /\ PassInv
<1>1. IncomingInit => Both
  <2>. SUFFICES ASSUME IncomingInit PROVE Both
    OBVIOUS
  <2>1. PassInv
    <3>1. Gate!TypeOK
      <4>1. packets \in 0 .. MaxPackets /\ inputs \in Nat
        BY PacketsAssumption DEF IncomingInit, Gate!Init
      <4>. QED BY <4>1 DEF IncomingInit, Gate!Init, Gate!TypeOK
    <3>. QED BY <3>1 DEF IncomingInit, Gate!Init, PassInv, Gate!GateInv
  <2>2. ReceiveTypes
    <3>1. /\ mPartialMessage = <<>> /\ mPartialStringData = <<>> /\ mPartialBinaryData = <<>>
          /\ delivered = <<>> /\ intended = <<>> /\ rest = 0 /\ count = 0 /\ half = FALSE /\ fragmented = FALSE
          /\ fragments = [s \in Streams |-> [t \in Types |-> <<>>]]
      BY DEF IncomingInit, Init
    <3>2. <<>> \in Content /\ <<>> \in Seq(ReceivedMessage)
      BY DEF Content
    <3>3. fragments \in [Streams -> [Types -> Content]]
      BY <3>1, <3>2
    <3>4. half \in BOOLEAN /\ fragmented \in BOOLEAN
      BY <3>1
    <3>5. Coming
      <4>1. ~(rest > 0)
        BY <3>1
      <4>. QED BY <4>1 DEF Coming
    <3>. QED BY <3>1, <3>2, <3>3, <3>4, <3>5 DEF ReceiveTypes
  <2>3. NotificationInv /\ PieceInv
    BY DEF IncomingInit, Init, NotificationInv, NotificationsWhole, PieceInv
  <2>4. BalanceInv /\ WholeInv
    BY SizesAssumption DEF IncomingInit, Init, BalanceInv, WholeInv, Due
  <2>. QED BY <2>1, <2>2, <2>3, <2>4 DEF ReceiveInv
<1>2. Both /\ [IncomingNext]_<<vars, gateVars>> => Both'
  <2>. SUFFICES ASSUME Both, [IncomingNext]_<<vars, gateVars>> PROVE Both'
    OBVIOUS
  <2>1. ASSUME UNCHANGED vars PROVE ReceiveInv'
    BY <2>1 DEF vars, ReceiveInv, ReceiveTypes, Coming, NotificationInv, NotificationsWhole, PieceInv, BalanceInv,
               WholeInv, Due
  <2>2. ASSUME UNCHANGED gateVars PROVE PassInv'
    BY <2>2, GateStep
  <2>3. CASE Gate!Next /\ UNCHANGED vars
    BY <2>1, <2>3, GateStep
  <2>4. CASE Next /\ UNCHANGED gateVars
    BY <2>2, <2>4, PeerStep, PieceStep, NotificationStep DEF Next
  <2>5. CASE UNCHANGED <<vars, gateVars>>
    BY <2>1, <2>2, <2>5
  <2>. QED BY <2>3, <2>4, <2>5 DEF IncomingNext
<1>. QED BY <1>1, <1>2, IncomingImplied, PTL DEF IncomingSpec
=============================================================================
