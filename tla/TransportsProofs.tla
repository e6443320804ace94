------------------------- MODULE TransportsProofs -------------------------
(* The ICE transport, for any DSCP values and any number of changes of the    *)
(* agent, the QUIC transport, for any number of messages and stream           *)
(* identifiers, and the DTLS transport, for any number of flights, packets    *)
(* and places in its queue: their safety, whatever the threads do.            *)
EXTENDS Dtls, Ice, Quic, FiniteSetTheorems, SequenceTheorems, TLAPS

(* What the ICE transport holds, with its senders.                            *)
IceTypes ==
    /\ IceTypeOK
    /\ lib \in {"juice", "nice"} /\ trickle \in BOOLEAN /\ timer \in BOOLEAN
    /\ snd \in [Senders -> {"idle", "out"} \X Dscps]
    /\ cached \in Dscps /\ tos \in Dscps

Works == agentState \in {"connected", "completed"}

(* The timeout of a failure is over when the agent has connected, at the      *)
(* latest when its callback has run, and it is not running by then.           *)
TimerInv ==
    /\ loop = "timeout" => ~Works
    /\ loop # "process" /\ timer => ~Works
    /\ agentState = "completed" => ~timer
    /\ loop # "process" /\ iState = "failed" => ~Works

(* Callbacks of a destroyed transport: only the timeout that was running.     *)
DestroyedInv ==
    /\ ~Alive => ~timer /\ loop \in {"idle", "timeout"}
    /\ ~Alive /\ loop = "timeout" => raced
    /\ touched => ~Alive /\ raced

(* With libnice one sender at a time is between the mark and the packet.      *)
MarkInv ==
    /\ tos = cached
    /\ lib = "nice" => /\ \A s \in Senders : snd[s][1] = "out" => snd[s][2] = tos
                       /\ \A r, s \in Senders : snd[r][1] = "out" /\ snd[s][1] = "out" => r = s
    /\ MarkedAsAsked

IceIInv == IceTypes /\ TimerInv /\ ClosedIsLast /\ DestroyedInv /\ MarkInv

(* The invariant holds in the beginning.                                      *)
LEMMA IceInitInv == IceInit => IceIInv
<1>. SUFFICES ASSUME IceInit PROVE IceIInv
  OBVIOUS
<1>1. snd \in [Senders -> {"idle", "out"} \X Dscps] /\ \A s \in Senders : snd[s][1] = "idle"
  BY IceConstants DEF IceInit, Idle
<1>2. IceTypes
  <2>1. IceTypeOK
    BY IceConstants DEF IceInit, IceTypeOK, IceStates
  <2>2. trickle \in BOOLEAN /\ timer \in BOOLEAN
    BY DEF IceInit
  <2>. QED BY <1>1, <2>1, <2>2, IceConstants DEF IceInit, IceTypes
<1>3. TimerInv /\ ClosedIsLast /\ DestroyedInv
  BY DEF IceInit, TimerInv, Works, ClosedIsLast, DestroyedInv, Alive
<1>4. MarkInv
  BY <1>1 DEF IceInit, MarkInv, MarkedAsAsked
<1>. QED BY <1>2, <1>3, <1>4 DEF IceIInv

(* Every step keeps the types.                                                *)
LEMMA IceTypesStep == IceTypes /\ [IceNext]_iceVars => IceTypes'
<1>. SUFFICES ASSUME IceTypes, [IceNext]_iceVars PROVE IceTypes'
  OBVIOUS
<1>1. CASE AgentChanges
  BY <1>1, IceConstants
  DEF AgentChanges, Follows, IceTypes, IceTypeOK, IceStates, Senders, Idle, componentV, gatherV,
      sendV, ghostV
<1>2. CASE ProcessStateChange
  BY <1>2, IceConstants
  DEF ProcessStateChange, Deferred, TimerAfter, IceTypes, IceTypeOK, IceStates, Senders, Idle,
      componentV, gatherV, sendV, ghostV
<1>3. CASE TimeoutFires
  BY <1>3, IceConstants
  DEF TimeoutFires, IceTypes, IceTypeOK, IceStates, Senders, Idle, componentV, gatherV, sendV,
      ghostV
<1>4. CASE ProcessTimeout
  BY <1>4, IceConstants
  DEF ProcessTimeout, IceTypes, IceTypeOK, IceStates, Senders, Idle, componentV, gatherV, sendV,
      ghostV
<1>5. CASE Report
  BY <1>5, IceConstants
  DEF Report, IceTypes, IceTypeOK, IceStates, Senders, Idle, componentV, gatherV, sendV, ghostV
<1>6. CASE CloseIce
  BY <1>6, IceConstants
  DEF CloseIce, IceTypes, IceTypeOK, IceStates, Senders, Idle, componentV, gatherV, sendV, ghostV
<1>7. CASE Destroy
  BY <1>7, IceConstants
  DEF Destroy, IceTypes, IceTypeOK, IceStates, Senders, Idle, componentV, gatherV, sendV, ghostV
<1>8. CASE GatherStart
  BY <1>8, IceConstants
  DEF GatherStart, IceTypes, IceTypeOK, IceStates, Senders, Idle, componentV, gatherV, sendV,
      ghostV
<1>9. CASE GatherAsk
  BY <1>9, IceConstants
  DEF GatherAsk, IceTypes, IceTypeOK, IceStates, Senders, Idle, componentV, gatherV, sendV, ghostV
<1>10. CASE GatheringDone
  BY <1>10, IceConstants
  DEF GatheringDone, IceTypes, IceTypeOK, IceStates, Senders, Idle, componentV, gatherV, sendV,
      ghostV
<1>11. ASSUME NEW s \in Senders, NEW d \in Dscps, SendSet(s, d) PROVE IceTypes'
  BY <1>11, IceConstants
  DEF SendSet, Locked, IceTypes, IceTypeOK, IceStates, Senders, Idle, componentV, gatherV, sendV,
      ghostV
<1>12. ASSUME NEW s \in Senders, SendOut(s) PROVE IceTypes'
  BY <1>12, IceConstants
  DEF SendOut, IceTypes, IceTypeOK, IceStates, Senders, Idle, componentV, gatherV, sendV, ghostV
<1>13. CASE UNCHANGED iceVars
  BY <1>13
  DEF iceVars, IceTypes, IceTypeOK, IceStates, Senders, Idle, componentV, gatherV, sendV, ghostV
<1>. QED
  BY <1>1, <1>2, <1>3, <1>4, <1>5, <1>6, <1>7, <1>8, <1>9, <1>10, <1>11, <1>12, <1>13
  DEF IceNext, IceLibrary, IceSends

(* Every step keeps that the timeout is only for an agent that failed.        *)
LEMMA IceTimerStep == IceTypes /\ TimerInv /\ [IceNext]_iceVars => TimerInv'
<1>. SUFFICES ASSUME IceTypes, TimerInv, [IceNext]_iceVars PROVE TimerInv'
  OBVIOUS
<1>1. CASE AgentChanges
  BY <1>1
  DEF AgentChanges, Follows, IceTypes, IceTypeOK, IceStates, TimerInv, Works, componentV, gatherV,
      sendV, ghostV
<1>2. CASE ProcessStateChange
  BY <1>2
  DEF ProcessStateChange, Deferred, TimerAfter, IceTypes, IceTypeOK, IceStates, TimerInv, Works,
      componentV, gatherV, sendV, ghostV
<1>3. CASE TimeoutFires
  BY <1>3
  DEF TimeoutFires, IceTypes, IceTypeOK, IceStates, TimerInv, Works, componentV, gatherV, sendV,
      ghostV
<1>4. CASE ProcessTimeout
  BY <1>4
  DEF ProcessTimeout, IceTypes, IceTypeOK, IceStates, TimerInv, Works, componentV, gatherV, sendV,
      ghostV
<1>5. CASE Report
  BY <1>5
  DEF Report, IceTypes, IceTypeOK, IceStates, TimerInv, Works, componentV, gatherV, sendV, ghostV
<1>6. CASE CloseIce
  BY <1>6
  DEF CloseIce, IceTypes, IceTypeOK, IceStates, TimerInv, Works, componentV, gatherV, sendV,
      ghostV
<1>7. CASE Destroy
  BY <1>7
  DEF Destroy, IceTypes, IceTypeOK, IceStates, TimerInv, Works, componentV, gatherV, sendV, ghostV
<1>8. CASE GatherStart
  BY <1>8
  DEF GatherStart, IceTypes, IceTypeOK, IceStates, TimerInv, Works, componentV, gatherV, sendV,
      ghostV
<1>9. CASE GatherAsk
  BY <1>9
  DEF GatherAsk, IceTypes, IceTypeOK, IceStates, TimerInv, Works, componentV, gatherV, sendV,
      ghostV
<1>10. CASE GatheringDone
  BY <1>10
  DEF GatheringDone, IceTypes, IceTypeOK, IceStates, TimerInv, Works, componentV, gatherV, sendV,
      ghostV
<1>11. ASSUME NEW s \in Senders, NEW d \in Dscps, SendSet(s, d) PROVE TimerInv'
  BY <1>11
  DEF SendSet, Locked, IceTypes, IceTypeOK, IceStates, TimerInv, Works, componentV, gatherV,
      sendV, ghostV
<1>12. ASSUME NEW s \in Senders, SendOut(s) PROVE TimerInv'
  BY <1>12
  DEF SendOut, IceTypes, IceTypeOK, IceStates, TimerInv, Works, componentV, gatherV, sendV, ghostV
<1>13. CASE UNCHANGED iceVars
  BY <1>13
  DEF iceVars, IceTypes, IceTypeOK, IceStates, TimerInv, Works, componentV, gatherV, sendV, ghostV
<1>. QED
  BY <1>1, <1>2, <1>3, <1>4, <1>5, <1>6, <1>7, <1>8, <1>9, <1>10, <1>11, <1>12, <1>13
  DEF IceNext, IceLibrary, IceSends

(* Every step keeps that Closed is last, and that nothing outlives the        *)
(* transport but a timeout.                                                   *)
LEMMA IceClosedStep == IceTypes /\ ClosedIsLast /\ DestroyedInv /\ [IceNext]_iceVars => (ClosedIsLast /\ DestroyedInv)'
<1>. SUFFICES ASSUME IceTypes, ClosedIsLast, DestroyedInv, [IceNext]_iceVars PROVE (ClosedIsLast /\ DestroyedInv)'
  OBVIOUS
<1>1. CASE AgentChanges
  BY <1>1
  DEF AgentChanges, Follows, IceTypes, IceTypeOK, ClosedIsLast, DestroyedInv, Alive, componentV,
      gatherV, sendV, ghostV
<1>2. CASE ProcessStateChange
  BY <1>2
  DEF ProcessStateChange, Deferred, TimerAfter, IceTypes, IceTypeOK, ClosedIsLast, DestroyedInv,
      Alive, componentV, gatherV, sendV, ghostV
<1>3. CASE TimeoutFires
  BY <1>3
  DEF TimeoutFires, IceTypes, IceTypeOK, ClosedIsLast, DestroyedInv, Alive, componentV, gatherV,
      sendV, ghostV
<1>4. CASE ProcessTimeout
  BY <1>4
  DEF ProcessTimeout, IceTypes, IceTypeOK, ClosedIsLast, DestroyedInv, Alive, componentV, gatherV,
      sendV, ghostV
<1>5. CASE Report
  BY <1>5
  DEF Report, IceTypes, IceTypeOK, ClosedIsLast, DestroyedInv, Alive, componentV, gatherV, sendV,
      ghostV
<1>6. CASE CloseIce
  BY <1>6
  DEF CloseIce, IceTypes, IceTypeOK, ClosedIsLast, DestroyedInv, Alive, componentV, gatherV,
      sendV, ghostV
<1>7. CASE Destroy
  BY <1>7
  DEF Destroy, IceTypes, IceTypeOK, ClosedIsLast, DestroyedInv, Alive, componentV, gatherV, sendV,
      ghostV
<1>8. CASE GatherStart
  BY <1>8
  DEF GatherStart, IceTypes, IceTypeOK, ClosedIsLast, DestroyedInv, Alive, componentV, gatherV,
      sendV, ghostV
<1>9. CASE GatherAsk
  BY <1>9
  DEF GatherAsk, IceTypes, IceTypeOK, ClosedIsLast, DestroyedInv, Alive, componentV, gatherV,
      sendV, ghostV
<1>10. CASE GatheringDone
  BY <1>10
  DEF GatheringDone, IceTypes, IceTypeOK, ClosedIsLast, DestroyedInv, Alive, componentV, gatherV,
      sendV, ghostV
<1>11. ASSUME NEW s \in Senders, NEW d \in Dscps, SendSet(s, d) PROVE (ClosedIsLast /\ DestroyedInv)'
  BY <1>11
  DEF SendSet, Locked, IceTypes, IceTypeOK, ClosedIsLast, DestroyedInv, Alive, componentV,
      gatherV, sendV, ghostV
<1>12. ASSUME NEW s \in Senders, SendOut(s) PROVE (ClosedIsLast /\ DestroyedInv)'
  BY <1>12
  DEF SendOut, IceTypes, IceTypeOK, ClosedIsLast, DestroyedInv, Alive, componentV, gatherV, sendV,
      ghostV
<1>13. CASE UNCHANGED iceVars
  BY <1>13
  DEF iceVars, IceTypes, IceTypeOK, ClosedIsLast, DestroyedInv, Alive, componentV, gatherV, sendV,
      ghostV
<1>. QED
  BY <1>1, <1>2, <1>3, <1>4, <1>5, <1>6, <1>7, <1>8, <1>9, <1>10, <1>11, <1>12, <1>13
  DEF IceNext, IceLibrary, IceSends

(* Every step keeps the mark of the sender that holds the mutex.              *)
LEMMA IceMarkStep == IceTypes /\ MarkInv /\ [IceNext]_iceVars => MarkInv'
<1>. SUFFICES ASSUME IceTypes, MarkInv, [IceNext]_iceVars PROVE MarkInv'
  OBVIOUS
<1>1. CASE AgentChanges
  BY <1>1, IceConstants
  DEF AgentChanges, Follows, IceTypes, IceTypeOK, MarkInv, MarkedAsAsked, Senders, Idle,
      componentV, gatherV, sendV, ghostV
<1>2. CASE ProcessStateChange
  BY <1>2, IceConstants
  DEF ProcessStateChange, Deferred, TimerAfter, IceTypes, IceTypeOK, MarkInv, MarkedAsAsked,
      Senders, Idle, componentV, gatherV, sendV, ghostV
<1>3. CASE TimeoutFires
  BY <1>3, IceConstants
  DEF TimeoutFires, IceTypes, IceTypeOK, MarkInv, MarkedAsAsked, Senders, Idle, componentV,
      gatherV, sendV, ghostV
<1>4. CASE ProcessTimeout
  BY <1>4, IceConstants
  DEF ProcessTimeout, IceTypes, IceTypeOK, MarkInv, MarkedAsAsked, Senders, Idle, componentV,
      gatherV, sendV, ghostV
<1>5. CASE Report
  BY <1>5, IceConstants
  DEF Report, IceTypes, IceTypeOK, MarkInv, MarkedAsAsked, Senders, Idle, componentV, gatherV,
      sendV, ghostV
<1>6. CASE CloseIce
  BY <1>6, IceConstants
  DEF CloseIce, IceTypes, IceTypeOK, MarkInv, MarkedAsAsked, Senders, Idle, componentV, gatherV,
      sendV, ghostV
<1>7. CASE Destroy
  BY <1>7, IceConstants
  DEF Destroy, IceTypes, IceTypeOK, MarkInv, MarkedAsAsked, Senders, Idle, componentV, gatherV,
      sendV, ghostV
<1>8. CASE GatherStart
  BY <1>8, IceConstants
  DEF GatherStart, IceTypes, IceTypeOK, MarkInv, MarkedAsAsked, Senders, Idle, componentV,
      gatherV, sendV, ghostV
<1>9. CASE GatherAsk
  BY <1>9, IceConstants
  DEF GatherAsk, IceTypes, IceTypeOK, MarkInv, MarkedAsAsked, Senders, Idle, componentV, gatherV,
      sendV, ghostV
<1>10. CASE GatheringDone
  BY <1>10, IceConstants
  DEF GatheringDone, IceTypes, IceTypeOK, MarkInv, MarkedAsAsked, Senders, Idle, componentV,
      gatherV, sendV, ghostV
<1>11. ASSUME NEW s \in Senders, NEW d \in Dscps, SendSet(s, d) PROVE MarkInv'
  BY <1>11, IceConstants
  DEF SendSet, Locked, IceTypes, IceTypeOK, MarkInv, MarkedAsAsked, Senders, Idle, componentV,
      gatherV, sendV, ghostV
<1>12. ASSUME NEW s \in Senders, SendOut(s) PROVE MarkInv'
  BY <1>12, IceConstants
  DEF SendOut, IceTypes, IceTypeOK, MarkInv, MarkedAsAsked, Senders, Idle, componentV, gatherV,
      sendV, ghostV
<1>13. CASE UNCHANGED iceVars
  BY <1>13
  DEF iceVars, IceTypes, IceTypeOK, MarkInv, MarkedAsAsked, Senders, Idle, componentV, gatherV,
      sendV, ghostV
<1>. QED
  BY <1>1, <1>2, <1>3, <1>4, <1>5, <1>6, <1>7, <1>8, <1>9, <1>10, <1>11, <1>12, <1>13
  DEF IceNext, IceLibrary, IceSends

(* The timeout of libnice, the callbacks of the agent, closeTransports() and  *)
(* two senders: a connection that works is not reported as failed, Closed is  *)
(* last but for a callback under way, no timeout is started on a destroyed    *)
(* transport, and every packet carries its own mark.                          *)
THEOREM AgentCorrect == IceSpec => []AgentInv
<1>1. IceIInv /\ [IceNext]_iceVars => IceIInv'
  BY IceTypesStep, IceTimerStep, IceClosedStep, IceMarkStep DEF IceIInv
<1>2. IceIInv => AgentInv
  BY DEF IceIInv, AgentInv, TimerInv, Works, FailedHonest, DestroyedInv, TimeoutRemoved, MarkInv
<1>. QED BY <1>1, <1>2, IceInitInv, PTL DEF IceSpec

-----------------------------------------------------------------------------
(* The QUIC transport.                                                        *)

(* The types of the send path, ...                                            *)
QuicSendTypes ==
    /\ conn \in BOOLEAN /\ met \in BOOLEAN /\ kept \in BOOLEAN /\ late \in BOOLEAN
    /\ qQueue \in Seq(Nat) /\ qSent \in Seq(Nat) /\ pushed \in Seq(Nat)
    /\ flushCount \in Nat /\ flushJobs \in Nat /\ flush \in {"idle", "send", "count"}
    /\ app \in [AppThreads -> {"idle", "push", "count"}]

(* ... and of the streams.                                                    *)
QuicStreamTypes ==
    /\ making \in Nat /\ made \in Nat /\ twice \in BOOLEAN
    /\ streamIds \in [0..(IdSpace - 1) -> Handles \cup {None}]
    /\ streams \in [Handles -> 0..IdSpace]
    /\ closed \subseteq Handles

(* Every flush job has been counted, so that there is at most one: that of    *)
(* who made the counter one.                                                  *)
Running == IF flush = "idle" THEN 0 ELSE 1
CounterInv == flushJobs + Running <= flushCount /\ flushJobs + Running <= 1

(* Nothing is lost, and every message sent is a stream asked for.             *)
SentInv == qSent \o qQueue = pushed /\ making + made = Len(qSent)

(* Messages to come are among those the application sends.                    *)
Pushing(t) == IF app[t] = "push" THEN 1 ELSE 0
RoomInv == Len(pushed) + Pushing(1) + Pushing(2) <= NMessages

(* What waits is waited for by a job, or by the sender who will enqueue one,  *)
(* unless a flush was not enqueued or found no connection.                    *)
WaitedInv ==
    qQueue # <<>> /\ ~met /\ ~kept =>
        flushJobs > 0 \/ flush = "send" \/ \E t \in AppThreads : app[t] = "count"

(* Who sends holds the mutex of an open channel.                              *)
HoldsInv == ~late /\ \A t \in AppThreads : app[t] # "idle" => chan = "open"

(* Streams are numbered as they come: no entry is of a stream to come, none   *)
(* is there twice, and closed streams have none.                              *)
EntriesInv ==
    /\ \A i \in 0..(IdSpace - 1) : streamIds[i] <= made /\ streamIds[i] \notin closed
    /\ \A i, j \in 0..(IdSpace - 1) : i # j /\ streamIds[i] # None => streamIds[i] # streamIds[j]
    /\ \A h \in closed : h <= made
    /\ ~twice

(* Until the identifiers start again, those to come are free.                 *)
UnusedInv ==
    made <= IdSpace =>
        /\ \A i \in 0..(IdSpace - 1) : i >= made => streamIds[i] = None
        /\ \A h \in Handles : h > made => streams[h] = IdSpace

(* The number of threads about to queue a message.                            *)
LEMMA PushCount ==
    Cardinality({u \in AppThreads : app[u] = "push"}) = Pushing(1) + Pushing(2)
<1>1. CASE app[1] = "push" /\ app[2] = "push"
  <2>1. {u \in AppThreads : app[u] = "push"} = {1} \cup {2}
    BY <1>1 DEF AppThreads
  <2>2. IsFiniteSet({1}) /\ Cardinality({1}) = 1 /\ 2 \notin {1}
    BY FS_Singleton
  <2>3. Cardinality({1} \cup {2}) = Cardinality({1}) + 1
    BY <2>2, FS_AddElement, Zenon
  <2>. QED BY <1>1, <2>1, <2>2, <2>3 DEF Pushing
<1>2. CASE app[1] = "push" /\ app[2] # "push"
  <2>1. {u \in AppThreads : app[u] = "push"} = {1}
    BY <1>2 DEF AppThreads
  <2>. QED BY <1>2, <2>1, FS_Singleton DEF Pushing
<1>3. CASE app[1] # "push" /\ app[2] = "push"
  <2>1. {u \in AppThreads : app[u] = "push"} = {2}
    BY <1>3 DEF AppThreads
  <2>. QED BY <1>3, <2>1, FS_Singleton DEF Pushing
<1>4. CASE app[1] # "push" /\ app[2] # "push"
  <2>1. {u \in AppThreads : app[u] = "push"} = {}
    BY <1>4 DEF AppThreads
  <2>. QED BY <1>4, <2>1, FS_EmptySet DEF Pushing
<1>. QED BY <1>1, <1>2, <1>3, <1>4

(* Every step keeps the types of the send path.                               *)
LEMMA QuicTypesStep == QuicSendTypes /\ CounterInv /\ [QuicNext]_quicVars => QuicSendTypes'
<1>. SUFFICES ASSUME QuicSendTypes, CounterInv, [QuicNext]_quicVars PROVE QuicSendTypes'
  OBVIOUS
<1>1. CASE QuicStart
  BY <1>1
  DEF QuicStart, QuicSendTypes, CounterInv, Running, AppThreads, queueV, flushV, chanV, streamV
<1>2. CASE NewConn
  BY <1>2
  DEF NewConn, QuicSendTypes, CounterInv, Running, AppThreads, queueV, flushV, chanV, streamV
<1>3. CASE HskFailed
  BY <1>3
  DEF HskFailed, QuicSendTypes, CounterInv, Running, AppThreads, queueV, flushV, chanV, streamV
<1>4. CASE ConnEnds
  BY <1>4
  DEF ConnEnds, QuicSendTypes, CounterInv, Running, AppThreads, queueV, flushV, chanV, streamV
<1>5. CASE ChanOpen
  BY <1>5
  DEF ChanOpen, QuicSendTypes, CounterInv, Running, AppThreads, queueV, flushV, chanV, streamV
<1>6. ASSUME NEW i \in 0..(IdSpace - 1), ChanClose(i) PROVE QuicSendTypes'
  BY <1>6
  DEF ChanClose, CloseStream, Unshared, QuicSendTypes, CounterInv, Running, AppThreads, queueV,
      flushV, chanV, streamV
<1>7. ASSUME NEW t \in AppThreads, OutgoingBegins(t) PROVE QuicSendTypes'
  BY <1>7
  DEF OutgoingBegins, QuicSendTypes, CounterInv, Running, AppThreads, queueV, flushV, chanV,
      streamV
<1>8. ASSUME NEW t \in AppThreads, SendPush(t) PROVE QuicSendTypes'
  <2>1. late' \in BOOLEAN
    BY <1>8 DEF SendPush, QuicSendTypes
  <2>2. app' \in [AppThreads -> {"idle", "push", "count"}]
    BY <1>8 DEF SendPush, QuicSendTypes
  <2>3. qQueue' \in Seq(Nat) /\ pushed' \in Seq(Nat)
    <3>1. Len(pushed) + 1 \in Nat
      BY DEF QuicSendTypes
    <3>2. CASE qState = "Connected"
      <4>1. qQueue' = Append(qQueue, Len(pushed) + 1) /\ pushed' = Append(pushed, Len(pushed) + 1)
        BY <1>8, <3>2 DEF SendPush
      <4>2. qQueue \in Seq(Nat) /\ pushed \in Seq(Nat)
        BY DEF QuicSendTypes
      <4>. QED BY <3>1, <4>1, <4>2
    <3>3. CASE qState # "Connected"
      BY <1>8, <3>3 DEF SendPush, QuicSendTypes, queueV
    <3>. QED BY <3>2, <3>3
  <2>. QED BY <1>8, <2>1, <2>2, <2>3 DEF SendPush, QuicSendTypes, flushV
<1>9. ASSUME NEW t \in AppThreads, EnqueueFlush(t) PROVE QuicSendTypes'
  BY <1>9
  DEF EnqueueFlush, QuicSendTypes, CounterInv, Running, AppThreads, queueV, flushV, chanV, streamV
<1>10. CASE FlushBegins
  BY <1>10
  DEF FlushBegins, QuicSendTypes, CounterInv, Running, AppThreads, queueV, flushV, chanV, streamV
<1>11. CASE FlushSends
  BY <1>11
  DEF FlushSends, QuicSendTypes, CounterInv, Running, AppThreads, queueV, flushV, chanV, streamV
<1>12. CASE FlushStops
  BY <1>12
  DEF FlushStops, QuicSendTypes, CounterInv, Running, AppThreads, queueV, flushV, chanV, streamV
<1>13. CASE FlushEnds
  BY <1>13
  DEF FlushEnds, QuicSendTypes, CounterInv, Running, AppThreads, queueV, flushV, chanV, streamV
<1>14. CASE NewStream
  BY <1>14
  DEF NewStream, QuicSendTypes, CounterInv, Running, AppThreads, queueV, flushV, chanV, streamV
<1>15. ASSUME NEW h \in Handles, StreamCloses(h) PROVE QuicSendTypes'
  BY <1>15
  DEF StreamCloses, QuicSendTypes, CounterInv, Running, AppThreads, queueV, flushV, chanV, streamV
<1>16. CASE UNCHANGED quicVars
  BY <1>16
  DEF quicVars, QuicSendTypes, CounterInv, Running, AppThreads, queueV, flushV, chanV, streamV
<1>. QED
  BY <1>1, <1>2, <1>3, <1>4, <1>5, <1>6, <1>7, <1>8, <1>9, <1>10, <1>11, <1>12, <1>13, <1>14,
      <1>15, <1>16
  DEF QuicNext, QuicLibrary

(* Every step keeps the counter above the jobs.                               *)
LEMMA QuicCounterStep == QuicSendTypes /\ CounterInv /\ [QuicNext]_quicVars => CounterInv'
<1>. SUFFICES ASSUME QuicSendTypes, CounterInv, [QuicNext]_quicVars PROVE CounterInv'
  OBVIOUS
<1>1. CASE QuicStart
  BY <1>1
  DEF QuicStart, QuicSendTypes, CounterInv, Running, queueV, flushV, chanV, streamV
<1>2. CASE NewConn
  BY <1>2
  DEF NewConn, QuicSendTypes, CounterInv, Running, queueV, flushV, chanV, streamV
<1>3. CASE HskFailed
  BY <1>3
  DEF HskFailed, QuicSendTypes, CounterInv, Running, queueV, flushV, chanV, streamV
<1>4. CASE ConnEnds
  BY <1>4
  DEF ConnEnds, QuicSendTypes, CounterInv, Running, queueV, flushV, chanV, streamV
<1>5. CASE ChanOpen
  BY <1>5
  DEF ChanOpen, QuicSendTypes, CounterInv, Running, queueV, flushV, chanV, streamV
<1>6. ASSUME NEW i \in 0..(IdSpace - 1), ChanClose(i) PROVE CounterInv'
  BY <1>6
  DEF ChanClose, CloseStream, Unshared, QuicSendTypes, CounterInv, Running, queueV, flushV, chanV,
      streamV
<1>7. ASSUME NEW t \in AppThreads, OutgoingBegins(t) PROVE CounterInv'
  BY <1>7
  DEF OutgoingBegins, QuicSendTypes, CounterInv, Running, queueV, flushV, chanV, streamV
<1>8. ASSUME NEW t \in AppThreads, SendPush(t) PROVE CounterInv'
  BY <1>8
  DEF SendPush, QuicSendTypes, CounterInv, Running, queueV, flushV, chanV, streamV
<1>9. ASSUME NEW t \in AppThreads, EnqueueFlush(t) PROVE CounterInv'
  BY <1>9
  DEF EnqueueFlush, QuicSendTypes, CounterInv, Running, queueV, flushV, chanV, streamV
<1>10. CASE FlushBegins
  BY <1>10
  DEF FlushBegins, QuicSendTypes, CounterInv, Running, queueV, flushV, chanV, streamV
<1>11. CASE FlushSends
  BY <1>11
  DEF FlushSends, QuicSendTypes, CounterInv, Running, queueV, flushV, chanV, streamV
<1>12. CASE FlushStops
  BY <1>12
  DEF FlushStops, QuicSendTypes, CounterInv, Running, queueV, flushV, chanV, streamV
<1>13. CASE FlushEnds
  BY <1>13
  DEF FlushEnds, QuicSendTypes, CounterInv, Running, queueV, flushV, chanV, streamV
<1>14. CASE NewStream
  BY <1>14
  DEF NewStream, QuicSendTypes, CounterInv, Running, queueV, flushV, chanV, streamV
<1>15. ASSUME NEW h \in Handles, StreamCloses(h) PROVE CounterInv'
  BY <1>15
  DEF StreamCloses, QuicSendTypes, CounterInv, Running, queueV, flushV, chanV, streamV
<1>16. CASE UNCHANGED quicVars
  BY <1>16
  DEF quicVars, QuicSendTypes, CounterInv, Running, queueV, flushV, chanV, streamV
<1>. QED
  BY <1>1, <1>2, <1>3, <1>4, <1>5, <1>6, <1>7, <1>8, <1>9, <1>10, <1>11, <1>12, <1>13, <1>14,
      <1>15, <1>16
  DEF QuicNext, QuicLibrary

(* Every step keeps the number of messages.                                   *)
LEMMA QuicRoomStep == QuicSendTypes /\ RoomInv /\ [QuicNext]_quicVars => RoomInv'
<1>. SUFFICES ASSUME QuicSendTypes, RoomInv, [QuicNext]_quicVars PROVE RoomInv'
  OBVIOUS
<1>1. CASE QuicStart
  BY <1>1, QuicConstants
  DEF QuicStart, QuicSendTypes, RoomInv, Pushing, AppThreads, queueV, flushV, chanV, streamV
<1>2. CASE NewConn
  BY <1>2, QuicConstants
  DEF NewConn, QuicSendTypes, RoomInv, Pushing, AppThreads, queueV, flushV, chanV, streamV
<1>3. CASE HskFailed
  BY <1>3, QuicConstants
  DEF HskFailed, QuicSendTypes, RoomInv, Pushing, AppThreads, queueV, flushV, chanV, streamV
<1>4. CASE ConnEnds
  BY <1>4, QuicConstants
  DEF ConnEnds, QuicSendTypes, RoomInv, Pushing, AppThreads, queueV, flushV, chanV, streamV
<1>5. CASE ChanOpen
  BY <1>5, QuicConstants
  DEF ChanOpen, QuicSendTypes, RoomInv, Pushing, AppThreads, queueV, flushV, chanV, streamV
<1>6. ASSUME NEW i \in 0..(IdSpace - 1), ChanClose(i) PROVE RoomInv'
  BY <1>6, QuicConstants
  DEF ChanClose, CloseStream, Unshared, QuicSendTypes, RoomInv, Pushing, AppThreads, queueV,
      flushV, chanV, streamV
<1>7. ASSUME NEW t \in AppThreads, OutgoingBegins(t) PROVE RoomInv'
  <2>1. Len(pushed) + Pushing(1) + Pushing(2) < NMessages /\ Len(pushed) \in Nat
    <3>1. Len(pushed) + Cardinality({u \in AppThreads : app[u] = "push"}) < NMessages
      BY <1>7 DEF OutgoingBegins
    <3>2. Pushing(1) \in Nat /\ Pushing(2) \in Nat /\ Len(pushed) \in Nat
      BY DEF Pushing, QuicSendTypes
    <3>. QED BY <3>1, <3>2, PushCount
  <2>2. pushed' = pushed /\ app[t] = "idle" /\ app' = [app EXCEPT ![t] = "push"]
    BY <1>7 DEF OutgoingBegins, queueV
  <2>3. CASE t = 1
    <3>1. app'[1] = "push" /\ app'[2] = app[2]
      BY <2>2, <2>3 DEF AppThreads, QuicSendTypes
    <3>2. Pushing(1) = 0 /\ Pushing(1)' = 1 /\ Pushing(2)' = Pushing(2) /\ Pushing(2) \in Nat
      BY <2>2, <2>3, <3>1 DEF Pushing
    <3>. QED BY <2>1, <2>2, <3>2, QuicConstants DEF RoomInv
  <2>4. CASE t = 2
    <3>1. app'[2] = "push" /\ app'[1] = app[1]
      BY <2>2, <2>4 DEF AppThreads, QuicSendTypes
    <3>2. Pushing(2) = 0 /\ Pushing(2)' = 1 /\ Pushing(1)' = Pushing(1) /\ Pushing(1) \in Nat
      BY <2>2, <2>4, <3>1 DEF Pushing
    <3>. QED BY <2>1, <2>2, <3>2, QuicConstants DEF RoomInv
  <2>. QED BY <2>3, <2>4 DEF AppThreads
<1>8. ASSUME NEW t \in AppThreads, SendPush(t) PROVE RoomInv'
  <2>1. Len(pushed) \in Nat /\ Len(pushed') \in {Len(pushed), Len(pushed) + 1}
    BY <1>8 DEF SendPush, QuicSendTypes, queueV
  <2>3. app[t] = "push" /\ app'[t] # "push" /\ \A u \in AppThreads \ {t} : app'[u] = app[u]
    BY <1>8 DEF SendPush, QuicSendTypes
  <2>4. CASE t = 1
    BY <2>1, <2>3, <2>4, QuicConstants DEF RoomInv, Pushing, AppThreads
  <2>5. CASE t = 2
    BY <2>1, <2>3, <2>5, QuicConstants DEF RoomInv, Pushing, AppThreads
  <2>. QED BY <2>4, <2>5 DEF AppThreads
<1>9. ASSUME NEW t \in AppThreads, EnqueueFlush(t) PROVE RoomInv'
  BY <1>9, QuicConstants
  DEF EnqueueFlush, QuicSendTypes, RoomInv, Pushing, AppThreads, queueV, flushV, chanV, streamV
<1>10. CASE FlushBegins
  BY <1>10, QuicConstants
  DEF FlushBegins, QuicSendTypes, RoomInv, Pushing, AppThreads, queueV, flushV, chanV, streamV
<1>11. CASE FlushSends
  BY <1>11, QuicConstants
  DEF FlushSends, QuicSendTypes, RoomInv, Pushing, AppThreads, queueV, flushV, chanV, streamV
<1>12. CASE FlushStops
  BY <1>12, QuicConstants
  DEF FlushStops, QuicSendTypes, RoomInv, Pushing, AppThreads, queueV, flushV, chanV, streamV
<1>13. CASE FlushEnds
  BY <1>13, QuicConstants
  DEF FlushEnds, QuicSendTypes, RoomInv, Pushing, AppThreads, queueV, flushV, chanV, streamV
<1>14. CASE NewStream
  BY <1>14, QuicConstants
  DEF NewStream, QuicSendTypes, RoomInv, Pushing, AppThreads, queueV, flushV, chanV, streamV
<1>15. ASSUME NEW h \in Handles, StreamCloses(h) PROVE RoomInv'
  BY <1>15, QuicConstants
  DEF StreamCloses, QuicSendTypes, RoomInv, Pushing, AppThreads, queueV, flushV, chanV, streamV
<1>16. CASE UNCHANGED quicVars
  BY <1>16
  DEF quicVars, QuicSendTypes, RoomInv, Pushing, AppThreads, queueV, flushV, chanV, streamV
<1>. QED
  BY <1>1, <1>2, <1>3, <1>4, <1>5, <1>6, <1>7, <1>8, <1>9, <1>10, <1>11, <1>12, <1>13, <1>14,
      <1>15, <1>16
  DEF QuicNext, QuicLibrary

(* Every step keeps somebody waiting for what is queued.                      *)
LEMMA QuicWaitedStep == QuicSendTypes /\ WaitedInv /\ [QuicNext]_quicVars => WaitedInv'
<1>. SUFFICES ASSUME QuicSendTypes, WaitedInv, [QuicNext]_quicVars PROVE WaitedInv'
  OBVIOUS
<1>1. CASE QuicStart
  BY <1>1
  DEF QuicStart, QuicSendTypes, WaitedInv, AppThreads, queueV, flushV, chanV, streamV
<1>2. CASE NewConn
  BY <1>2
  DEF NewConn, QuicSendTypes, WaitedInv, AppThreads, queueV, flushV, chanV, streamV
<1>3. CASE HskFailed
  BY <1>3
  DEF HskFailed, QuicSendTypes, WaitedInv, AppThreads, queueV, flushV, chanV, streamV
<1>4. CASE ConnEnds
  BY <1>4
  DEF ConnEnds, QuicSendTypes, WaitedInv, AppThreads, queueV, flushV, chanV, streamV
<1>5. CASE ChanOpen
  BY <1>5
  DEF ChanOpen, QuicSendTypes, WaitedInv, AppThreads, queueV, flushV, chanV, streamV
<1>6. ASSUME NEW i \in 0..(IdSpace - 1), ChanClose(i) PROVE WaitedInv'
  BY <1>6
  DEF ChanClose, CloseStream, Unshared, QuicSendTypes, WaitedInv, AppThreads, queueV, flushV,
      chanV, streamV
<1>7. ASSUME NEW t \in AppThreads, OutgoingBegins(t) PROVE WaitedInv'
  BY <1>7
  DEF OutgoingBegins, QuicSendTypes, WaitedInv, AppThreads, queueV, flushV, chanV, streamV
<1>8. ASSUME NEW t \in AppThreads, SendPush(t) PROVE WaitedInv'
  BY <1>8
  DEF SendPush, QuicSendTypes, WaitedInv, AppThreads, queueV, flushV, chanV, streamV
<1>9. ASSUME NEW t \in AppThreads, EnqueueFlush(t) PROVE WaitedInv'
  <2>1. CASE flushCount = 0
    <3>1. flushJobs' > 0
      BY <1>9, <2>1 DEF EnqueueFlush, QuicSendTypes
    <3>. QED BY <3>1 DEF WaitedInv
  <2>2. CASE flushCount # 0
    <3>1. met'
      <4>1. flushCount > 0
        BY <2>2 DEF QuicSendTypes
      <4>. QED BY <1>9, <4>1, Zenon DEF EnqueueFlush
    <3>. QED BY <3>1 DEF WaitedInv
  <2>. QED BY <2>1, <2>2
<1>10. CASE FlushBegins
  BY <1>10
  DEF FlushBegins, QuicSendTypes, WaitedInv, AppThreads, queueV, flushV, chanV, streamV
<1>11. CASE FlushSends
  BY <1>11
  DEF FlushSends, QuicSendTypes, WaitedInv, AppThreads, queueV, flushV, chanV, streamV
<1>12. CASE FlushStops
  BY <1>12
  DEF FlushStops, QuicSendTypes, WaitedInv, AppThreads, queueV, flushV, chanV, streamV
<1>13. CASE FlushEnds
  BY <1>13
  DEF FlushEnds, QuicSendTypes, WaitedInv, AppThreads, queueV, flushV, chanV, streamV
<1>14. CASE NewStream
  BY <1>14
  DEF NewStream, QuicSendTypes, WaitedInv, AppThreads, queueV, flushV, chanV, streamV
<1>15. ASSUME NEW h \in Handles, StreamCloses(h) PROVE WaitedInv'
  BY <1>15
  DEF StreamCloses, QuicSendTypes, WaitedInv, AppThreads, queueV, flushV, chanV, streamV
<1>16. CASE UNCHANGED quicVars
  BY <1>16
  DEF quicVars, QuicSendTypes, WaitedInv, AppThreads, queueV, flushV, chanV, streamV
<1>. QED
  BY <1>1, <1>2, <1>3, <1>4, <1>5, <1>6, <1>7, <1>8, <1>9, <1>10, <1>11, <1>12, <1>13, <1>14,
      <1>15, <1>16
  DEF QuicNext, QuicLibrary

(* Every step keeps the mutex of the channel.                                 *)
LEMMA QuicHoldsStep == QuicSendTypes /\ HoldsInv /\ [QuicNext]_quicVars => HoldsInv'
<1>. SUFFICES ASSUME QuicSendTypes, HoldsInv, [QuicNext]_quicVars PROVE HoldsInv'
  OBVIOUS
<1>1. CASE QuicStart
  BY <1>1
  DEF QuicStart, QuicSendTypes, HoldsInv, Unlocked, AppThreads, queueV, flushV, chanV, streamV
<1>2. CASE NewConn
  BY <1>2
  DEF NewConn, QuicSendTypes, HoldsInv, Unlocked, AppThreads, queueV, flushV, chanV, streamV
<1>3. CASE HskFailed
  BY <1>3
  DEF HskFailed, QuicSendTypes, HoldsInv, Unlocked, AppThreads, queueV, flushV, chanV, streamV
<1>4. CASE ConnEnds
  BY <1>4
  DEF ConnEnds, QuicSendTypes, HoldsInv, Unlocked, AppThreads, queueV, flushV, chanV, streamV
<1>5. CASE ChanOpen
  BY <1>5
  DEF ChanOpen, QuicSendTypes, HoldsInv, Unlocked, AppThreads, queueV, flushV, chanV, streamV
<1>6. ASSUME NEW i \in 0..(IdSpace - 1), ChanClose(i) PROVE HoldsInv'
  BY <1>6
  DEF ChanClose, CloseStream, Unshared, QuicSendTypes, HoldsInv, Unlocked, AppThreads, queueV,
      flushV, chanV, streamV
<1>7. ASSUME NEW t \in AppThreads, OutgoingBegins(t) PROVE HoldsInv'
  BY <1>7
  DEF OutgoingBegins, QuicSendTypes, HoldsInv, Unlocked, AppThreads, queueV, flushV, chanV,
      streamV
<1>8. ASSUME NEW t \in AppThreads, SendPush(t) PROVE HoldsInv'
  BY <1>8
  DEF SendPush, QuicSendTypes, HoldsInv, Unlocked, AppThreads, queueV, flushV, chanV, streamV
<1>9. ASSUME NEW t \in AppThreads, EnqueueFlush(t) PROVE HoldsInv'
  BY <1>9
  DEF EnqueueFlush, QuicSendTypes, HoldsInv, Unlocked, AppThreads, queueV, flushV, chanV, streamV
<1>10. CASE FlushBegins
  BY <1>10
  DEF FlushBegins, QuicSendTypes, HoldsInv, Unlocked, AppThreads, queueV, flushV, chanV, streamV
<1>11. CASE FlushSends
  BY <1>11
  DEF FlushSends, QuicSendTypes, HoldsInv, Unlocked, AppThreads, queueV, flushV, chanV, streamV
<1>12. CASE FlushStops
  BY <1>12
  DEF FlushStops, QuicSendTypes, HoldsInv, Unlocked, AppThreads, queueV, flushV, chanV, streamV
<1>13. CASE FlushEnds
  BY <1>13
  DEF FlushEnds, QuicSendTypes, HoldsInv, Unlocked, AppThreads, queueV, flushV, chanV, streamV
<1>14. CASE NewStream
  BY <1>14
  DEF NewStream, QuicSendTypes, HoldsInv, Unlocked, AppThreads, queueV, flushV, chanV, streamV
<1>15. ASSUME NEW h \in Handles, StreamCloses(h) PROVE HoldsInv'
  BY <1>15
  DEF StreamCloses, QuicSendTypes, HoldsInv, Unlocked, AppThreads, queueV, flushV, chanV, streamV
<1>16. CASE UNCHANGED quicVars
  BY <1>16
  DEF quicVars, QuicSendTypes, HoldsInv, Unlocked, AppThreads, queueV, flushV, chanV, streamV
<1>. QED
  BY <1>1, <1>2, <1>3, <1>4, <1>5, <1>6, <1>7, <1>8, <1>9, <1>10, <1>11, <1>12, <1>13, <1>14,
      <1>15, <1>16
  DEF QuicNext, QuicLibrary


(* The queue loses its head to what was sent, and grows at its end.           *)
LEMMA QuicQueues ==
    ASSUME NEW s \in Seq(Nat), NEW p \in Seq(Nat), NEW x \in Nat
    PROVE  /\ s \o Append(p, x) = Append(s \o p, x)
           /\ p # <<>> => Append(s, Head(p)) \o Tail(p) = s \o p
<1>1. s \o Append(p, x) = Append(s \o p, x)
  OBVIOUS
<1>2. ASSUME p # <<>> PROVE Append(s, Head(p)) \o Tail(p) = s \o p
  <2>. DEFINE l == Append(s, Head(p)) \o Tail(p)
              r == s \o p
  <2>1. Head(p) \in Nat /\ Tail(p) \in Seq(Nat) /\ Len(Tail(p)) = Len(p) - 1 /\ Len(p) \in Nat \ {0}
    BY <1>2
  <2>2. l \in Seq(Nat) /\ r \in Seq(Nat) /\ Len(l) = Len(r) /\ Len(r) = Len(s) + Len(p) /\ Len(s) \in Nat
    BY <2>1
  <2>3. ASSUME NEW i \in 1..Len(r) PROVE l[i] = r[i]
    <3>1. CASE i <= Len(s)
      BY <2>1, <2>2, <2>3, <3>1
    <3>2. CASE i = Len(s) + 1
      BY <2>1, <2>2, <2>3, <3>2
    <3>3. CASE i > Len(s) + 1
      BY <2>1, <2>2, <2>3, <3>3
    <3>. QED BY <2>2, <3>1, <3>2, <3>3
  <2>. HIDE DEF l, r
  <2>4. l = r
    BY <2>2, <2>3, SeqEqual
  <2>. QED BY <2>4 DEF l, r
<1>. QED BY <1>1, <1>2

(* nextStreamId is a stream's number until the numbers run out.               *)
LEMMA NextIdFacts ==
    ASSUME made \in Nat
    PROVE  NextId \in 0..(IdSpace - 1) /\ (made < IdSpace => NextId = made)
BY QuicConstants DEF NextId

(* There is a handle for every stream.                                        *)
LEMMA RoomForStreams ==
    ASSUME QuicSendTypes, QuicStreamTypes, SentInv, RoomInv
    PROVE  making + made <= NMessages
<1>1. Len(pushed) = Len(qSent) + Len(qQueue) /\ Len(qQueue) \in Nat /\ Len(qSent) \in Nat
  BY DEF QuicSendTypes, SentInv
<1>2. Pushing(1) \in Nat /\ Pushing(2) \in Nat
  BY DEF Pushing
<1>. QED BY <1>1, <1>2, QuicConstants DEF SentInv, RoomInv, QuicStreamTypes

(* Every step keeps the messages in order.                                    *)
LEMMA QuicSentStep == QuicSendTypes /\ QuicStreamTypes /\ SentInv /\ [QuicNext]_quicVars => SentInv'
<1>. SUFFICES ASSUME QuicSendTypes, QuicStreamTypes, SentInv, [QuicNext]_quicVars PROVE SentInv'
  OBVIOUS
<1>1. CASE QuicStart
  BY <1>1
  DEF QuicStart, QuicSendTypes, QuicStreamTypes, SentInv, queueV, flushV, chanV, streamV
<1>2. CASE NewConn
  BY <1>2
  DEF NewConn, QuicSendTypes, QuicStreamTypes, SentInv, queueV, flushV, chanV, streamV
<1>3. CASE HskFailed
  BY <1>3
  DEF HskFailed, QuicSendTypes, QuicStreamTypes, SentInv, queueV, flushV, chanV, streamV
<1>4. CASE ConnEnds
  BY <1>4
  DEF ConnEnds, QuicSendTypes, QuicStreamTypes, SentInv, queueV, flushV, chanV, streamV
<1>5. CASE ChanOpen
  BY <1>5
  DEF ChanOpen, QuicSendTypes, QuicStreamTypes, SentInv, queueV, flushV, chanV, streamV
<1>6. ASSUME NEW i \in 0..(IdSpace - 1), ChanClose(i) PROVE SentInv'
  BY <1>6
  DEF ChanClose, CloseStream, Unshared, QuicSendTypes, QuicStreamTypes, SentInv, queueV, flushV,
      chanV, streamV
<1>7. ASSUME NEW t \in AppThreads, OutgoingBegins(t) PROVE SentInv'
  BY <1>7
  DEF OutgoingBegins, QuicSendTypes, QuicStreamTypes, SentInv, queueV, flushV, chanV, streamV
<1>8. ASSUME NEW t \in AppThreads, SendPush(t) PROVE SentInv'
  <2>1. qSent' = qSent /\ making' = making /\ made' = made
    BY <1>8 DEF SendPush, flushV, streamV
  <2>2. CASE qState = "Connected"
    <3>1. qQueue' = Append(qQueue, Len(pushed) + 1) /\ pushed' = Append(pushed, Len(pushed) + 1)
      BY <1>8, <2>2 DEF SendPush
    <3>2. qSent \in Seq(Nat) /\ qQueue \in Seq(Nat) /\ pushed \in Seq(Nat) /\ Len(pushed) + 1 \in Nat
      BY DEF QuicSendTypes
    <3>3. qSent \o Append(qQueue, Len(pushed) + 1) = Append(qSent \o qQueue, Len(pushed) + 1)
      BY <3>2, QuicQueues, Zenon
    <3>. QED BY <2>1, <3>1, <3>3 DEF SentInv
  <2>3. CASE qState # "Connected"
    BY <1>8, <2>1, <2>3 DEF SendPush, SentInv, queueV
  <2>. QED BY <2>2, <2>3
<1>9. ASSUME NEW t \in AppThreads, EnqueueFlush(t) PROVE SentInv'
  BY <1>9
  DEF EnqueueFlush, QuicSendTypes, QuicStreamTypes, SentInv, queueV, flushV, chanV, streamV
<1>10. CASE FlushBegins
  BY <1>10
  DEF FlushBegins, QuicSendTypes, QuicStreamTypes, SentInv, queueV, flushV, chanV, streamV
<1>11. CASE FlushSends
  <2>1. /\ qSent' = Append(qSent, Head(qQueue)) /\ qQueue' = Tail(qQueue) /\ qQueue # <<>>
        /\ making' = making + 1 /\ made' = made /\ pushed' = pushed
    BY <1>11 DEF FlushSends
  <2>2. qSent \in Seq(Nat) /\ qQueue \in Seq(Nat)
    BY DEF QuicSendTypes
  <2>3. Append(qSent, Head(qQueue)) \o Tail(qQueue) = qSent \o qQueue
    <3>1. 0 \in Nat
      OBVIOUS
    <3>. QED BY <2>1, <2>2, <3>1, QuicQueues, Zenon
  <2>4. Len(qSent') = Len(qSent) + 1
    BY <2>1, <2>2
  <2>. QED BY <2>1, <2>3, <2>4 DEF SentInv, QuicStreamTypes
<1>12. CASE FlushStops
  BY <1>12
  DEF FlushStops, QuicSendTypes, QuicStreamTypes, SentInv, queueV, flushV, chanV, streamV
<1>13. CASE FlushEnds
  BY <1>13
  DEF FlushEnds, QuicSendTypes, QuicStreamTypes, SentInv, queueV, flushV, chanV, streamV
<1>14. CASE NewStream
  <2>1. making > 0 /\ making' = making - 1 /\ made' = made + 1
    BY <1>14 DEF NewStream
  <2>2. qSent' = qSent /\ qQueue' = qQueue /\ pushed' = pushed
    BY <1>14 DEF NewStream, queueV, flushV
  <2>. QED BY <2>1, <2>2 DEF SentInv, QuicStreamTypes
<1>15. ASSUME NEW h \in Handles, StreamCloses(h) PROVE SentInv'
  BY <1>15
  DEF StreamCloses, QuicSendTypes, QuicStreamTypes, SentInv, queueV, flushV, chanV, streamV
<1>16. CASE UNCHANGED quicVars
  BY <1>16
  DEF quicVars, QuicSendTypes, QuicStreamTypes, SentInv, queueV, flushV, chanV, streamV
<1>. QED
  BY <1>1, <1>2, <1>3, <1>4, <1>5, <1>6, <1>7, <1>8, <1>9, <1>10, <1>11, <1>12, <1>13, <1>14,
      <1>15, <1>16
  DEF QuicNext, QuicLibrary

(* Every step keeps the types of the streams.                                 *)
LEMMA QuicStreamTypesStep == QuicSendTypes /\ QuicStreamTypes /\ SentInv /\ RoomInv /\ [QuicNext]_quicVars => QuicStreamTypes'
<1>. SUFFICES ASSUME QuicSendTypes, QuicStreamTypes, SentInv, RoomInv, [QuicNext]_quicVars PROVE QuicStreamTypes'
  OBVIOUS
<1>1. CASE QuicStart
  BY <1>1, QuicConstants
  DEF QuicStart, QuicSendTypes, QuicStreamTypes, Handles, None, queueV, flushV, chanV, streamV
<1>2. CASE NewConn
  BY <1>2, QuicConstants
  DEF NewConn, QuicSendTypes, QuicStreamTypes, Handles, None, queueV, flushV, chanV, streamV
<1>3. CASE HskFailed
  BY <1>3, QuicConstants
  DEF HskFailed, QuicSendTypes, QuicStreamTypes, Handles, None, queueV, flushV, chanV, streamV
<1>4. CASE ConnEnds
  BY <1>4, QuicConstants
  DEF ConnEnds, QuicSendTypes, QuicStreamTypes, Handles, None, queueV, flushV, chanV, streamV
<1>5. CASE ChanOpen
  BY <1>5, QuicConstants
  DEF ChanOpen, QuicSendTypes, QuicStreamTypes, Handles, None, queueV, flushV, chanV, streamV
<1>6. ASSUME NEW i \in 0..(IdSpace - 1), ChanClose(i) PROVE QuicStreamTypes'
  <2>1. CASE streamIds[i] = None
    BY <1>6, <2>1 DEF ChanClose, CloseStream, QuicStreamTypes, streamV
  <2>2. CASE streamIds[i] # None
    <3>1. streamIds[i] \in Handles
      BY <2>2 DEF QuicStreamTypes
    <3>2. twice' \in BOOLEAN
      BY <1>6, <2>2 DEF ChanClose, CloseStream, QuicStreamTypes
    <3>3. closed' \subseteq Handles /\ making' = making /\ made' = made
      BY <1>6, <2>2, <3>1 DEF ChanClose, CloseStream, QuicStreamTypes
    <3>4. streamIds' \in [0..(IdSpace - 1) -> Handles \cup {None}]
      BY <1>6, <2>2 DEF ChanClose, CloseStream, QuicStreamTypes
    <3>5. streams' \in [Handles -> 0..IdSpace]
      BY <1>6, <2>2, QuicConstants DEF ChanClose, CloseStream, QuicStreamTypes
    <3>. QED BY <3>2, <3>3, <3>4, <3>5 DEF QuicStreamTypes
  <2>. QED BY <2>1, <2>2
<1>7. ASSUME NEW t \in AppThreads, OutgoingBegins(t) PROVE QuicStreamTypes'
  BY <1>7, QuicConstants
  DEF OutgoingBegins, QuicSendTypes, QuicStreamTypes, Handles, None, queueV, flushV, chanV,
      streamV
<1>8. ASSUME NEW t \in AppThreads, SendPush(t) PROVE QuicStreamTypes'
  BY <1>8, QuicConstants
  DEF SendPush, QuicSendTypes, QuicStreamTypes, Handles, None, queueV, flushV, chanV, streamV
<1>9. ASSUME NEW t \in AppThreads, EnqueueFlush(t) PROVE QuicStreamTypes'
  BY <1>9, QuicConstants
  DEF EnqueueFlush, QuicSendTypes, QuicStreamTypes, Handles, None, queueV, flushV, chanV, streamV
<1>10. CASE FlushBegins
  BY <1>10, QuicConstants
  DEF FlushBegins, QuicSendTypes, QuicStreamTypes, Handles, None, queueV, flushV, chanV, streamV
<1>11. CASE FlushSends
  BY <1>11, QuicConstants
  DEF FlushSends, QuicSendTypes, QuicStreamTypes, Handles, None, queueV, flushV, chanV, streamV
<1>12. CASE FlushStops
  BY <1>12, QuicConstants
  DEF FlushStops, QuicSendTypes, QuicStreamTypes, Handles, None, queueV, flushV, chanV, streamV
<1>13. CASE FlushEnds
  BY <1>13, QuicConstants
  DEF FlushEnds, QuicSendTypes, QuicStreamTypes, Handles, None, queueV, flushV, chanV, streamV
<1>14. CASE NewStream
  <2>1. making > 0 /\ making' = making - 1 /\ made' = made + 1
    BY <1>14 DEF NewStream
  <2>2. made + 1 \in Handles
    BY <2>1, RoomForStreams, QuicConstants DEF QuicStreamTypes, Handles
  <2>3. NextId \in 0..(IdSpace - 1)
    BY NextIdFacts DEF QuicStreamTypes
  <2>4. NextId \in 0..IdSpace
    BY <2>3, QuicConstants
  <2>5. streamIds' \in [0..(IdSpace - 1) -> Handles \cup {None}] /\ streams' \in [Handles -> 0..IdSpace]
    BY <1>14, <2>2, <2>4 DEF NewStream, QuicStreamTypes
  <2>. QED BY <1>14, <2>1, <2>5 DEF NewStream, QuicStreamTypes
<1>15. ASSUME NEW h \in Handles, StreamCloses(h) PROVE QuicStreamTypes'
  BY <1>15, QuicConstants
  DEF StreamCloses, QuicSendTypes, QuicStreamTypes, Handles, None, queueV, flushV, chanV, streamV
<1>16. CASE UNCHANGED quicVars
  BY <1>16
  DEF quicVars, QuicSendTypes, QuicStreamTypes, Handles, None, queueV, flushV, chanV, streamV
<1>. QED
  BY <1>1, <1>2, <1>3, <1>4, <1>5, <1>6, <1>7, <1>8, <1>9, <1>10, <1>11, <1>12, <1>13, <1>14,
      <1>15, <1>16
  DEF QuicNext, QuicLibrary

(* Every step keeps the entries of different streams different.               *)
LEMMA QuicEntriesStep == QuicStreamTypes /\ EntriesInv /\ [QuicNext]_quicVars => EntriesInv'
<1>. SUFFICES ASSUME QuicStreamTypes, EntriesInv, [QuicNext]_quicVars PROVE EntriesInv'
  OBVIOUS
<1>1. CASE QuicStart
  BY <1>1
  DEF QuicStart, QuicStreamTypes, EntriesInv, Handles, None, queueV, flushV, chanV, streamV
<1>2. CASE NewConn
  BY <1>2
  DEF NewConn, QuicStreamTypes, EntriesInv, Handles, None, queueV, flushV, chanV, streamV
<1>3. CASE HskFailed
  BY <1>3
  DEF HskFailed, QuicStreamTypes, EntriesInv, Handles, None, queueV, flushV, chanV, streamV
<1>4. CASE ConnEnds
  BY <1>4
  DEF ConnEnds, QuicStreamTypes, EntriesInv, Handles, None, queueV, flushV, chanV, streamV
<1>5. CASE ChanOpen
  BY <1>5
  DEF ChanOpen, QuicStreamTypes, EntriesInv, Handles, None, queueV, flushV, chanV, streamV
<1>6. ASSUME NEW i \in 0..(IdSpace - 1), ChanClose(i) PROVE EntriesInv'
  <2>1. CASE streamIds[i] = None
    BY <1>6, <2>1 DEF ChanClose, CloseStream, EntriesInv, streamV
  <2>2. CASE streamIds[i] # None
    <3>1. /\ twice' = (twice \/ streamIds[i] \in closed) /\ closed' = closed \cup {streamIds[i]}
          /\ streamIds' = [streamIds EXCEPT ![i] = None] /\ made' = made
      BY <1>6, <2>2 DEF ChanClose, CloseStream
    <3>2. ~twice'
      BY <3>1 DEF EntriesInv
    <3>3. \A h \in closed' : h <= made'
      BY <3>1 DEF EntriesInv
    <3>4. \A j \in 0..(IdSpace - 1) : j # i => streamIds'[j] = streamIds[j]
      BY <3>1 DEF QuicStreamTypes
    <3>5. streamIds'[i] = None /\ None \notin closed' /\ None <= made
      BY <2>2, <3>1 DEF QuicStreamTypes, Handles, None
    <3>6. \A j \in 0..(IdSpace - 1) : streamIds'[j] <= made' /\ streamIds'[j] \notin closed'
      BY <2>2, <3>1, <3>4, <3>5 DEF EntriesInv
    <3>7. \A j, k \in 0..(IdSpace - 1) : j # k /\ streamIds'[j] # None => streamIds'[j] # streamIds'[k]
      BY <3>4, <3>5 DEF EntriesInv
    <3>. QED BY <3>2, <3>3, <3>6, <3>7 DEF EntriesInv
  <2>. QED BY <2>1, <2>2
<1>7. ASSUME NEW t \in AppThreads, OutgoingBegins(t) PROVE EntriesInv'
  BY <1>7
  DEF OutgoingBegins, QuicStreamTypes, EntriesInv, Handles, None, queueV, flushV, chanV, streamV
<1>8. ASSUME NEW t \in AppThreads, SendPush(t) PROVE EntriesInv'
  BY <1>8
  DEF SendPush, QuicStreamTypes, EntriesInv, Handles, None, queueV, flushV, chanV, streamV
<1>9. ASSUME NEW t \in AppThreads, EnqueueFlush(t) PROVE EntriesInv'
  BY <1>9
  DEF EnqueueFlush, QuicStreamTypes, EntriesInv, Handles, None, queueV, flushV, chanV, streamV
<1>10. CASE FlushBegins
  BY <1>10
  DEF FlushBegins, QuicStreamTypes, EntriesInv, Handles, None, queueV, flushV, chanV, streamV
<1>11. CASE FlushSends
  BY <1>11
  DEF FlushSends, QuicStreamTypes, EntriesInv, Handles, None, queueV, flushV, chanV, streamV
<1>12. CASE FlushStops
  BY <1>12
  DEF FlushStops, QuicStreamTypes, EntriesInv, Handles, None, queueV, flushV, chanV, streamV
<1>13. CASE FlushEnds
  BY <1>13
  DEF FlushEnds, QuicStreamTypes, EntriesInv, Handles, None, queueV, flushV, chanV, streamV
<1>14. CASE NewStream
  <2>1. made' = made + 1 /\ streamIds' = [streamIds EXCEPT ![NextId] = made + 1]
        /\ closed' = closed /\ twice' = twice
    BY <1>14 DEF NewStream
  <2>2. NextId \in 0..(IdSpace - 1) /\ made \in Nat
    BY NextIdFacts DEF QuicStreamTypes
  <2>3. streamIds'[NextId] = made + 1 /\ \A j \in 0..(IdSpace - 1) : j # NextId => streamIds'[j] = streamIds[j]
    BY <2>1, <2>2 DEF QuicStreamTypes
  <2>. HIDE DEF NextId
  <2>4. \A j \in 0..(IdSpace - 1) : streamIds[j] \in Nat
    BY DEF QuicStreamTypes, Handles, None
  <2>5. \A h \in closed : h \in Nat
    BY DEF QuicStreamTypes, Handles
  <2>6. made + 1 \notin closed /\ made + 1 # None
    BY <2>2, <2>5 DEF EntriesInv, None
  <2>7. \A j \in 0..(IdSpace - 1) : streamIds'[j] <= made' /\ streamIds'[j] \notin closed'
    BY <2>1, <2>2, <2>3, <2>4, <2>6 DEF EntriesInv
  <2>8. \A j, k \in 0..(IdSpace - 1) : j # k /\ streamIds'[j] # None => streamIds'[j] # streamIds'[k]
    BY <2>2, <2>3, <2>4 DEF EntriesInv
  <2>. QED BY <2>1, <2>2, <2>5, <2>7, <2>8 DEF EntriesInv
<1>15. ASSUME NEW h \in Handles, StreamCloses(h) PROVE EntriesInv'
  BY <1>15
  DEF StreamCloses, QuicStreamTypes, EntriesInv, Handles, None, queueV, flushV, chanV, streamV
<1>16. CASE UNCHANGED quicVars
  BY <1>16
  DEF quicVars, QuicStreamTypes, EntriesInv, Handles, None, queueV, flushV, chanV, streamV
<1>. QED
  BY <1>1, <1>2, <1>3, <1>4, <1>5, <1>6, <1>7, <1>8, <1>9, <1>10, <1>11, <1>12, <1>13, <1>14,
      <1>15, <1>16
  DEF QuicNext, QuicLibrary

(* Every step keeps the two maps in agreement.                                *)
LEMMA QuicMapsStep == QuicStreamTypes /\ EntriesInv /\ MapsAgree /\ UnusedInv /\ [QuicNext]_quicVars => (MapsAgree /\ UnusedInv)'
<1>. SUFFICES ASSUME QuicStreamTypes, EntriesInv, MapsAgree, UnusedInv, [QuicNext]_quicVars PROVE (MapsAgree /\ UnusedInv)'
  OBVIOUS
<1>1. CASE QuicStart
  BY <1>1
  DEF QuicStart, QuicStreamTypes, MapsAgree, UnusedInv, Handles, None, queueV, flushV, chanV,
      streamV
<1>2. CASE NewConn
  BY <1>2
  DEF NewConn, QuicStreamTypes, MapsAgree, UnusedInv, Handles, None, queueV, flushV, chanV,
      streamV
<1>3. CASE HskFailed
  BY <1>3
  DEF HskFailed, QuicStreamTypes, MapsAgree, UnusedInv, Handles, None, queueV, flushV, chanV,
      streamV
<1>4. CASE ConnEnds
  BY <1>4
  DEF ConnEnds, QuicStreamTypes, MapsAgree, UnusedInv, Handles, None, queueV, flushV, chanV,
      streamV
<1>5. CASE ChanOpen
  BY <1>5
  DEF ChanOpen, QuicStreamTypes, MapsAgree, UnusedInv, Handles, None, queueV, flushV, chanV,
      streamV
<1>6. ASSUME NEW i \in 0..(IdSpace - 1), ChanClose(i) PROVE (MapsAgree /\ UnusedInv)'
  <2>1. CASE streamIds[i] = None
    BY <1>6, <2>1 DEF ChanClose, CloseStream, MapsAgree, UnusedInv, streamV
  <2>2. CASE streamIds[i] # None
    <3>. DEFINE g == streamIds[i]
    <3>1. g \in Handles /\ made' = made
      BY <1>6, <2>2 DEF ChanClose, CloseStream, QuicStreamTypes
    <3>2. streamIds'[i] = None /\ \A j \in 0..(IdSpace - 1) : j # i => streamIds'[j] = streamIds[j]
      BY <1>6, <2>2 DEF ChanClose, CloseStream, QuicStreamTypes
    <3>3. streams'[g] = IdSpace /\ \A h \in Handles : h # g => streams'[h] = streams[h]
      BY <1>6, <2>2, <3>1 DEF ChanClose, CloseStream, QuicStreamTypes
    <3>4. \A j \in 0..(IdSpace - 1) : j # i => streamIds[j] # g
      BY <2>2 DEF EntriesInv
    <3>5. None \notin Handles /\ IdSpace \notin 0..(IdSpace - 1)
      BY QuicConstants DEF None, Handles
    <3>6. UnusedInv'
      BY <3>1, <3>2, <3>3 DEF UnusedInv
    <3>7. MapsAgree'
      <4>. SUFFICES ASSUME made <= IdSpace, NEW j \in 0..(IdSpace - 1), NEW h \in Handles
                    PROVE  (streamIds'[j] = h) = (streams'[h] = j)
        BY <3>1 DEF MapsAgree
      <4>1. (streamIds[j] = h) = (streams[h] = j)
        BY DEF MapsAgree
      <4>2. (streamIds[i] = h) = (streams[h] = i)
        BY DEF MapsAgree
      <4>3. CASE j = i
        BY <3>1, <3>2, <3>3, <3>5, <4>2, <4>3
      <4>4. CASE j # i
        BY <3>1, <3>2, <3>3, <3>4, <3>5, <4>1, <4>4
      <4>. QED BY <4>3, <4>4
    <3>. QED BY <3>6, <3>7
  <2>. QED BY <2>1, <2>2
<1>7. ASSUME NEW t \in AppThreads, OutgoingBegins(t) PROVE (MapsAgree /\ UnusedInv)'
  BY <1>7
  DEF OutgoingBegins, QuicStreamTypes, MapsAgree, UnusedInv, Handles, None, queueV, flushV, chanV,
      streamV
<1>8. ASSUME NEW t \in AppThreads, SendPush(t) PROVE (MapsAgree /\ UnusedInv)'
  BY <1>8
  DEF SendPush, QuicStreamTypes, MapsAgree, UnusedInv, Handles, None, queueV, flushV, chanV,
      streamV
<1>9. ASSUME NEW t \in AppThreads, EnqueueFlush(t) PROVE (MapsAgree /\ UnusedInv)'
  BY <1>9
  DEF EnqueueFlush, QuicStreamTypes, MapsAgree, UnusedInv, Handles, None, queueV, flushV, chanV,
      streamV
<1>10. CASE FlushBegins
  BY <1>10
  DEF FlushBegins, QuicStreamTypes, MapsAgree, UnusedInv, Handles, None, queueV, flushV, chanV,
      streamV
<1>11. CASE FlushSends
  BY <1>11
  DEF FlushSends, QuicStreamTypes, MapsAgree, UnusedInv, Handles, None, queueV, flushV, chanV,
      streamV
<1>12. CASE FlushStops
  BY <1>12
  DEF FlushStops, QuicStreamTypes, MapsAgree, UnusedInv, Handles, None, queueV, flushV, chanV,
      streamV
<1>13. CASE FlushEnds
  BY <1>13
  DEF FlushEnds, QuicStreamTypes, MapsAgree, UnusedInv, Handles, None, queueV, flushV, chanV,
      streamV
<1>14. CASE NewStream
  BY <1>14, NextIdFacts, QuicConstants
  DEF NewStream, QuicStreamTypes, MapsAgree, UnusedInv, Handles, None
<1>15. ASSUME NEW h \in Handles, StreamCloses(h) PROVE (MapsAgree /\ UnusedInv)'
  BY <1>15
  DEF StreamCloses, QuicStreamTypes, MapsAgree, UnusedInv, Handles, None, queueV, flushV, chanV,
      streamV
<1>16. CASE UNCHANGED quicVars
  BY <1>16
  DEF quicVars, QuicStreamTypes, MapsAgree, UnusedInv, Handles, None, queueV, flushV, chanV,
      streamV
<1>. QED
  BY <1>1, <1>2, <1>3, <1>4, <1>5, <1>6, <1>7, <1>8, <1>9, <1>10, <1>11, <1>12, <1>13, <1>14,
      <1>15, <1>16
  DEF QuicNext, QuicLibrary


(* The inductive invariant of the QUIC transport.                             *)
QuicIInv ==
    /\ QuicSendTypes /\ CounterInv /\ RoomInv /\ WaitedInv /\ HoldsInv
    /\ QuicStreamTypes /\ SentInv /\ EntriesInv /\ MapsAgree /\ UnusedInv

(* The invariant holds in the beginning.                                      *)
LEMMA QuicInitInv == QuicInit => QuicIInv
<1>. SUFFICES ASSUME QuicInit PROVE QuicIInv
  OBVIOUS
<1>1. QuicSendTypes
  <2>1. conn \in BOOLEAN /\ met \in BOOLEAN /\ kept \in BOOLEAN /\ late \in BOOLEAN
    BY DEF QuicInit
  <2>2. app \in [AppThreads -> {"idle", "push", "count"}]
    BY DEF QuicInit
  <2>. QED BY <2>1, <2>2 DEF QuicInit, QuicSendTypes
<1>2. CounterInv /\ WaitedInv /\ HoldsInv
  BY DEF QuicInit, CounterInv, Running, WaitedInv, HoldsInv
<1>3. RoomInv
  BY QuicConstants DEF QuicInit, RoomInv, Pushing, AppThreads
<1>4. QuicStreamTypes /\ \A i \in 0..(IdSpace - 1) : streamIds[i] = None
  <2>1. twice \in BOOLEAN
    BY DEF QuicInit
  <2>2. streamIds \in [0..(IdSpace - 1) -> Handles \cup {None}] /\ \A i \in 0..(IdSpace - 1) : streamIds[i] = None
    BY DEF QuicInit
  <2>3. streams \in [Handles -> 0..IdSpace]
    BY QuicConstants DEF QuicInit
  <2>. QED BY <2>1, <2>2, <2>3 DEF QuicInit, QuicStreamTypes
<1>5. SentInv
  BY DEF QuicInit, SentInv
<1>6. EntriesInv
  BY <1>4 DEF QuicInit, EntriesInv, None
<1>7. MapsAgree /\ UnusedInv
  <2>1. IdSpace \notin 0..(IdSpace - 1) /\ None \notin Handles
    BY QuicConstants DEF Handles, None
  <2>2. \A h \in Handles : streams[h] = IdSpace
    BY DEF QuicInit
  <2>. QED BY <1>4, <2>1, <2>2 DEF MapsAgree, UnusedInv
<1>. QED BY <1>1, <1>2, <1>3, <1>4, <1>5, <1>6, <1>7 DEF QuicIInv

(* Senders, the flush job, the callbacks of lsquic and close(), for any number *)
(* of messages and of stream identifiers: messages leave in order, none is left *)
(* behind but by overlapping sends or for want of a connection, a closed channel *)
(* sends nothing, no stream is closed twice, and the maps agree until the      *)
(* identifiers start again.                                                    *)
THEOREM QuicCorrect == QuicSpec => []QuicInv
<1>1. QuicIInv /\ [QuicNext]_quicVars => QuicIInv'
  BY QuicTypesStep, QuicCounterStep, QuicRoomStep, QuicWaitedStep, QuicHoldsStep, QuicSentStep,
     QuicStreamTypesStep, QuicEntriesStep, QuicMapsStep
  DEF QuicIInv
<1>2. QuicIInv => QuicInv
  <2>. SUFFICES ASSUME QuicIInv PROVE QuicInv
    OBVIOUS
  <2>1. IsPrefix(qSent, pushed)
    <3>1. qSent \in Seq(Nat) /\ qQueue \in Seq(Nat) /\ pushed = qSent \o qQueue
      BY DEF QuicIInv, QuicSendTypes, SentInv
    <3>2. Len(qSent) <= Len(pushed) /\ SubSeq(qSent, 1, Len(qSent)) = SubSeq(pushed, 1, Len(qSent))
      BY <3>1
    <3>. QED BY <3>2 DEF IsPrefix
  <2>2. QuicNoneStranded
    BY DEF QuicIInv, QuicSendTypes, WaitedInv, QuicNoneStranded
  <2>3. ClosedSilent /\ ClosedOnce
    BY DEF QuicIInv, HoldsInv, EntriesInv, ClosedSilent, ClosedOnce
  <2>. QED BY <2>1, <2>2, <2>3 DEF QuicIInv, SentInv, QuicInv, QuicOrder
<1>. QED BY <1>1, <1>2, QuicInitInv, PTL DEF QuicSpec

-----------------------------------------------------------------------------
(* The DTLS transport.                                                        *)

(* The build, and where the threads are.                                      *)
DtlsControl ==
    /\ backend \in Backends /\ srtp \in {"none", "agreed", "missing"} /\ topic \in {"receive", "send"}
    /\ dState \in {"Disconnected", "Connecting", "Connected", "Failed"}
    /\ recvPc \in {"idle", "loop", "keys", "announce", "final", "return"}
    /\ agent \in {"idle", "push", "check", "enqueue"}
    /\ owner \in {"idle", "check", "enqueue", "done"}
    /\ keys \in BOOLEAN /\ refused \in BOOLEAN /\ dStopped \in BOOLEAN

(* The counters.  A timer takes one from mPendingRecvCount that nobody added, *)
(* so that it counts too few jobs, never too many.                            *)
DtlsCounts ==
    /\ dPending \in Int /\ dJobs \in Nat /\ dPending <= dJobs
    /\ fresh \in Nat /\ stale \in Nat /\ arrived \in Nat /\ dEnded \in Nat

(* A job that reads is one of an active transport, and a transport is ended   *)
(* once.                                                                      *)
Reads == recvPc \notin {"idle", "return"}
EndInv ==
    /\ Reads => DtlsActive
    /\ dEnded <= 1 /\ (dEnded = 1 => dState = "Disconnected")

(* What is queued is waited for by a job, or by the agent which will enqueue  *)
(* one.                                                                       *)
DtlsWaited ==
    /\ arrived = 0 => dQueue = <<>> /\ agent # "push"
    /\ DtlsActive /\ dQueue # <<>> => dJobs > 0 \/ Reads \/ agent \in {"check", "enqueue"}
    /\ backend = "pull" => held = <<>>

(* OpenSSL has the keys when it announces the connection.                     *)
KeysInv ==
    /\ backend = "openssl" /\ srtp # "none" /\ (recvPc = "announce" \/ dState = "Connected") => keys
    /\ KeysBeforeConnected

(* The result is that of the last sender: the others know they were crossed.  *)
ResultInv ==
    /\ result \in BOOLEAN /\ writer \in [Writers -> {"idle", "return"} \X BOOLEAN \X BOOLEAN]
    /\ \A w \in Writers : writer[w] # Resting /\ ~writer[w][3] => result = writer[w][2]
    /\ OwnResult

(* The triples of a sender.                                                   *)
LEMMA TripleIn ==
    ASSUME NEW r \in BOOLEAN, NEW c \in BOOLEAN
    PROVE  <<"return", r, c>> \in {"idle", "return"} \X BOOLEAN \X BOOLEAN
OBVIOUS

(* What a packet may change: an old deadline, and where the job goes on.       *)
LEMMA PacketSteps ==
    ASSUME RecvPacket
    PROVE  /\ recvPc = "loop" /\ recvPc' \in {"loop", "keys", "announce", "final"}
           /\ (fresh' = fresh /\ stale' = stale) \/ (fresh' = 0 /\ stale' = stale + fresh)
           /\ UNCHANGED <<backend, srtp, topic, dState, agent, owner, keys, refused, dStopped, dPending, dJobs,
                          arrived, dEnded>>
<1>1. recvPc = "loop" /\ UNCHANGED <<buildV, dState, keys, owner, dStopped, dEnded, refused, counterV, agentV>>
  BY DEF RecvPacket
<1>2. CASE Demux(Head(dQueue)[1])
  BY <1>1, <1>2 DEF RecvPacket, timerV, buildV, counterV, agentV
<1>3. ASSUME NEW p, TakeFlight(p) PROVE recvPc' \in {"loop", "keys", "announce"} /\ fresh' = 0 /\ stale' = stale + fresh
  BY <1>3 DEF TakeFlight, Finished
<1>4. ASSUME NEW p, TakeOther(p) PROVE recvPc' \in {"loop", "final"} /\ fresh' = fresh /\ stale' = stale
  BY <1>4 DEF TakeOther, timerV
<1>5. ASSUME NEW p, NEW recs, TakeRecords(p, recs)
      PROVE  recvPc' \in {"loop", "final"} /\ fresh' = fresh /\ stale' = stale
  BY <1>5 DEF TakeRecords, timerV
<1>6. CASE ~Demux(Head(dQueue)[1])
  <2>1. TakeFlight(Head(dQueue)[1]) \/ TakeOther(Head(dQueue)[1]) \/ TakeRecords(Head(dQueue)[1], held \o Head(dQueue)[2])
    BY <1>6 DEF RecvPacket
  <2>. QED BY <1>1, <1>3, <1>4, <1>5, <2>1 DEF buildV, counterV, agentV
<1>. QED BY <1>2, <1>6

(* Every step keeps the threads at their steps.                               *)
LEMMA DtlsControlStep == DtlsControl /\ [DtlsNext]_dtlsVars => DtlsControl'
<1>. SUFFICES ASSUME DtlsControl, [DtlsNext]_dtlsVars PROVE DtlsControl'
  OBVIOUS
<1>1. CASE AgentCheck
  BY <1>1
  DEF AgentCheck, CheckCount, DtlsControl, Backends, libraryV, timerV, counterV, inV, agentV,
      outV, writeV, buildV
<1>2. CASE AgentEnqueue
  BY <1>2
  DEF AgentEnqueue, Enqueue, DtlsControl, Backends, libraryV, timerV, counterV, inV, agentV, outV,
      writeV, buildV
<1>3. CASE OwnerCheck
  BY <1>3
  DEF OwnerCheck, CheckCount, DtlsControl, Backends, libraryV, timerV, counterV, inV, agentV,
      outV, writeV, buildV
<1>4. CASE OwnerEnqueue
  BY <1>4
  DEF OwnerEnqueue, Enqueue, DtlsControl, Backends, libraryV, timerV, counterV, inV, agentV, outV,
      writeV, buildV
<1>5. CASE DtlsPush
  BY <1>5
  DEF DtlsPush, DtlsControl, Backends, libraryV, timerV, counterV, inV, agentV, outV, writeV,
      buildV
<1>6. CASE JobStart
  BY <1>6
  DEF JobStart, Begin, DtlsActive, DtlsControl, Backends, libraryV, timerV, counterV, inV, agentV,
      outV, writeV, buildV
<1>7. CASE RecvEmpty
  BY <1>7
  DEF RecvEmpty, HandleTimeout, DtlsControl, Backends, libraryV, timerV, counterV, inV, agentV,
      outV, writeV, buildV
<1>8. CASE RecvReturn
  BY <1>8
  DEF RecvReturn, DtlsControl, Backends, libraryV, timerV, counterV, inV, agentV, outV, writeV,
      buildV
<1>9. CASE RecvPacket
  BY <1>9, PacketSteps DEF DtlsControl
<1>10. CASE PostHandshake
  BY <1>10
  DEF PostHandshake, DtlsControl, Backends, libraryV, timerV, counterV, inV, agentV, outV, writeV,
      buildV
<1>11. CASE Announce
  BY <1>11
  DEF Announce, DtlsControl, Backends, libraryV, timerV, counterV, inV, agentV, outV, writeV,
      buildV
<1>12. CASE RecvFinal
  BY <1>12
  DEF RecvFinal, DtlsActive, DtlsControl, Backends, libraryV, timerV, counterV, inV, agentV, outV,
      writeV, buildV
<1>13. CASE Deadline
  BY <1>13
  DEF Deadline, DtlsControl, Backends, libraryV, timerV, counterV, inV, agentV, outV, writeV,
      buildV
<1>14. CASE TimerFires
  BY <1>14
  DEF TimerFires, Begin, DtlsActive, DtlsControl, Backends, libraryV, timerV, counterV, inV,
      agentV, outV, writeV, buildV
<1>15. CASE DtlsStart
  BY <1>15
  DEF DtlsStart, StartPush, StartPull, Enqueue, DtlsControl, Backends, libraryV, timerV, counterV,
      inV, agentV, outV, writeV, buildV
<1>16. CASE DtlsStop
  BY <1>16
  DEF DtlsStop, DtlsControl, Backends, libraryV, timerV, counterV, inV, agentV, outV, writeV,
      buildV
<1>17. CASE DtlsArrive
  BY <1>17
  DEF DtlsArrive, DtlsActive, DtlsControl, Backends, libraryV, timerV, counterV, inV, agentV,
      outV, writeV, buildV
<1>18. CASE SendMedia
  BY <1>18
  DEF SendMedia, DtlsControl, Backends, libraryV, timerV, counterV, inV, agentV, outV, writeV,
      buildV
<1>19. ASSUME NEW w \in Writers, SendRecord(w) PROVE DtlsControl'
  BY <1>19
  DEF SendRecord, Outgoing, DtlsControl, Backends, libraryV, timerV, counterV, inV, agentV, outV,
      writeV, buildV
<1>20. ASSUME NEW w \in Writers, SendReturns(w) PROVE DtlsControl'
  BY <1>20
  DEF SendReturns, DtlsControl, Backends, libraryV, timerV, counterV, inV, agentV, outV, writeV,
      buildV
<1>21. CASE UNCHANGED dtlsVars
  BY <1>21
  DEF dtlsVars, DtlsControl, Backends, libraryV, timerV, counterV, inV, agentV, outV, writeV,
      buildV
<1>. QED
  BY <1>1, <1>2, <1>3, <1>4, <1>5, <1>6, <1>7, <1>8, <1>9, <1>10, <1>11, <1>12, <1>13, <1>14,
      <1>15, <1>16, <1>17, <1>18, <1>19, <1>20, <1>21
  DEF DtlsNext, DtlsLibrary

(* Every step keeps the counter at most the number of jobs.                   *)
LEMMA DtlsCountsStep == DtlsCounts /\ [DtlsNext]_dtlsVars => DtlsCounts'
<1>. SUFFICES ASSUME DtlsCounts, [DtlsNext]_dtlsVars PROVE DtlsCounts'
  OBVIOUS
<1>1. CASE AgentCheck
  BY <1>1
  DEF AgentCheck, CheckCount, DtlsCounts, libraryV, timerV, counterV, inV, agentV, outV, writeV,
      buildV
<1>2. CASE AgentEnqueue
  BY <1>2
  DEF AgentEnqueue, Enqueue, DtlsCounts, libraryV, timerV, counterV, inV, agentV, outV, writeV,
      buildV
<1>3. CASE OwnerCheck
  BY <1>3
  DEF OwnerCheck, CheckCount, DtlsCounts, libraryV, timerV, counterV, inV, agentV, outV, writeV,
      buildV
<1>4. CASE OwnerEnqueue
  BY <1>4
  DEF OwnerEnqueue, Enqueue, DtlsCounts, libraryV, timerV, counterV, inV, agentV, outV, writeV,
      buildV
<1>5. CASE DtlsPush
  BY <1>5
  DEF DtlsPush, DtlsCounts, libraryV, timerV, counterV, inV, agentV, outV, writeV, buildV
<1>6. CASE JobStart
  BY <1>6
  DEF JobStart, Begin, DtlsActive, DtlsCounts, libraryV, timerV, counterV, inV, agentV, outV,
      writeV, buildV
<1>7. CASE RecvEmpty
  BY <1>7
  DEF RecvEmpty, HandleTimeout, DtlsCounts, libraryV, timerV, counterV, inV, agentV, outV, writeV,
      buildV
<1>8. CASE RecvReturn
  BY <1>8
  DEF RecvReturn, DtlsCounts, libraryV, timerV, counterV, inV, agentV, outV, writeV, buildV
<1>9. CASE RecvPacket
  BY <1>9, PacketSteps DEF DtlsCounts
<1>10. CASE PostHandshake
  BY <1>10
  DEF PostHandshake, DtlsCounts, libraryV, timerV, counterV, inV, agentV, outV, writeV, buildV
<1>11. CASE Announce
  BY <1>11
  DEF Announce, DtlsCounts, libraryV, timerV, counterV, inV, agentV, outV, writeV, buildV
<1>12. CASE RecvFinal
  BY <1>12
  DEF RecvFinal, DtlsActive, DtlsCounts, libraryV, timerV, counterV, inV, agentV, outV, writeV,
      buildV
<1>13. CASE Deadline
  BY <1>13
  DEF Deadline, DtlsCounts, libraryV, timerV, counterV, inV, agentV, outV, writeV, buildV
<1>14. CASE TimerFires
  BY <1>14
  DEF TimerFires, Begin, DtlsActive, DtlsCounts, libraryV, timerV, counterV, inV, agentV, outV,
      writeV, buildV
<1>15. CASE DtlsStart
  BY <1>15
  DEF DtlsStart, StartPush, StartPull, Enqueue, DtlsCounts, libraryV, timerV, counterV, inV,
      agentV, outV, writeV, buildV
<1>16. CASE DtlsStop
  BY <1>16
  DEF DtlsStop, DtlsCounts, libraryV, timerV, counterV, inV, agentV, outV, writeV, buildV
<1>17. CASE DtlsArrive
  BY <1>17
  DEF DtlsArrive, DtlsActive, DtlsCounts, libraryV, timerV, counterV, inV, agentV, outV, writeV,
      buildV
<1>18. CASE SendMedia
  BY <1>18
  DEF SendMedia, DtlsCounts, libraryV, timerV, counterV, inV, agentV, outV, writeV, buildV
<1>19. ASSUME NEW w \in Writers, SendRecord(w) PROVE DtlsCounts'
  BY <1>19
  DEF SendRecord, Outgoing, DtlsCounts, libraryV, timerV, counterV, inV, agentV, outV, writeV,
      buildV
<1>20. ASSUME NEW w \in Writers, SendReturns(w) PROVE DtlsCounts'
  BY <1>20
  DEF SendReturns, DtlsCounts, libraryV, timerV, counterV, inV, agentV, outV, writeV, buildV
<1>21. CASE UNCHANGED dtlsVars
  BY <1>21
  DEF dtlsVars, DtlsCounts, libraryV, timerV, counterV, inV, agentV, outV, writeV, buildV
<1>. QED
  BY <1>1, <1>2, <1>3, <1>4, <1>5, <1>6, <1>7, <1>8, <1>9, <1>10, <1>11, <1>12, <1>13, <1>14,
      <1>15, <1>16, <1>17, <1>18, <1>19, <1>20, <1>21
  DEF DtlsNext, DtlsLibrary

(* Every step keeps that a transport is ended once.                           *)
LEMMA DtlsEndStep == DtlsControl /\ DtlsCounts /\ EndInv /\ [DtlsNext]_dtlsVars => EndInv'
<1>. SUFFICES ASSUME DtlsControl, DtlsCounts, EndInv, [DtlsNext]_dtlsVars PROVE EndInv'
  OBVIOUS
<1>1. CASE AgentCheck
  BY <1>1
  DEF AgentCheck, CheckCount, DtlsControl, DtlsCounts, EndInv, Reads, DtlsActive, libraryV,
      timerV, counterV, inV, agentV, outV, writeV, buildV
<1>2. CASE AgentEnqueue
  BY <1>2
  DEF AgentEnqueue, Enqueue, DtlsControl, DtlsCounts, EndInv, Reads, DtlsActive, libraryV, timerV,
      counterV, inV, agentV, outV, writeV, buildV
<1>3. CASE OwnerCheck
  BY <1>3
  DEF OwnerCheck, CheckCount, DtlsControl, DtlsCounts, EndInv, Reads, DtlsActive, libraryV,
      timerV, counterV, inV, agentV, outV, writeV, buildV
<1>4. CASE OwnerEnqueue
  BY <1>4
  DEF OwnerEnqueue, Enqueue, DtlsControl, DtlsCounts, EndInv, Reads, DtlsActive, libraryV, timerV,
      counterV, inV, agentV, outV, writeV, buildV
<1>5. CASE DtlsPush
  BY <1>5
  DEF DtlsPush, DtlsControl, DtlsCounts, EndInv, Reads, DtlsActive, libraryV, timerV, counterV,
      inV, agentV, outV, writeV, buildV
<1>6. CASE JobStart
  BY <1>6
  DEF JobStart, Begin, DtlsActive, DtlsControl, DtlsCounts, EndInv, Reads, DtlsActive, libraryV,
      timerV, counterV, inV, agentV, outV, writeV, buildV
<1>7. CASE RecvEmpty
  BY <1>7
  DEF RecvEmpty, HandleTimeout, DtlsControl, DtlsCounts, EndInv, Reads, DtlsActive, libraryV,
      timerV, counterV, inV, agentV, outV, writeV, buildV
<1>8. CASE RecvReturn
  BY <1>8
  DEF RecvReturn, DtlsControl, DtlsCounts, EndInv, Reads, DtlsActive, libraryV, timerV, counterV,
      inV, agentV, outV, writeV, buildV
<1>9. CASE RecvPacket
  BY <1>9
  DEF RecvPacket, TakeFlight, TakeOther, TakeRecords, Finished, Unread, DtlsControl, DtlsCounts,
      EndInv, Reads, DtlsActive, libraryV, timerV, counterV, inV, agentV, outV, writeV, buildV
<1>10. CASE PostHandshake
  BY <1>10
  DEF PostHandshake, DtlsControl, DtlsCounts, EndInv, Reads, DtlsActive, libraryV, timerV,
      counterV, inV, agentV, outV, writeV, buildV
<1>11. CASE Announce
  BY <1>11
  DEF Announce, DtlsControl, DtlsCounts, EndInv, Reads, DtlsActive, libraryV, timerV, counterV,
      inV, agentV, outV, writeV, buildV
<1>12. CASE RecvFinal
  BY <1>12
  DEF RecvFinal, DtlsActive, DtlsControl, DtlsCounts, EndInv, Reads, DtlsActive, libraryV, timerV,
      counterV, inV, agentV, outV, writeV, buildV
<1>13. CASE Deadline
  BY <1>13
  DEF Deadline, DtlsControl, DtlsCounts, EndInv, Reads, DtlsActive, libraryV, timerV, counterV,
      inV, agentV, outV, writeV, buildV
<1>14. CASE TimerFires
  BY <1>14
  DEF TimerFires, Begin, DtlsActive, DtlsControl, DtlsCounts, EndInv, Reads, DtlsActive, libraryV,
      timerV, counterV, inV, agentV, outV, writeV, buildV
<1>15. CASE DtlsStart
  BY <1>15
  DEF DtlsStart, StartPush, StartPull, Enqueue, DtlsControl, DtlsCounts, EndInv, Reads,
      DtlsActive, libraryV, timerV, counterV, inV, agentV, outV, writeV, buildV
<1>16. CASE DtlsStop
  BY <1>16
  DEF DtlsStop, DtlsControl, DtlsCounts, EndInv, Reads, DtlsActive, libraryV, timerV, counterV,
      inV, agentV, outV, writeV, buildV
<1>17. CASE DtlsArrive
  BY <1>17
  DEF DtlsArrive, DtlsActive, DtlsControl, DtlsCounts, EndInv, Reads, DtlsActive, libraryV,
      timerV, counterV, inV, agentV, outV, writeV, buildV
<1>18. CASE SendMedia
  BY <1>18
  DEF SendMedia, DtlsControl, DtlsCounts, EndInv, Reads, DtlsActive, libraryV, timerV, counterV,
      inV, agentV, outV, writeV, buildV
<1>19. ASSUME NEW w \in Writers, SendRecord(w) PROVE EndInv'
  BY <1>19
  DEF SendRecord, Outgoing, DtlsControl, DtlsCounts, EndInv, Reads, DtlsActive, libraryV, timerV,
      counterV, inV, agentV, outV, writeV, buildV
<1>20. ASSUME NEW w \in Writers, SendReturns(w) PROVE EndInv'
  BY <1>20
  DEF SendReturns, DtlsControl, DtlsCounts, EndInv, Reads, DtlsActive, libraryV, timerV, counterV,
      inV, agentV, outV, writeV, buildV
<1>21. CASE UNCHANGED dtlsVars
  BY <1>21
  DEF dtlsVars, DtlsControl, DtlsCounts, EndInv, Reads, DtlsActive, libraryV, timerV, counterV,
      inV, agentV, outV, writeV, buildV
<1>. QED
  BY <1>1, <1>2, <1>3, <1>4, <1>5, <1>6, <1>7, <1>8, <1>9, <1>10, <1>11, <1>12, <1>13, <1>14,
      <1>15, <1>16, <1>17, <1>18, <1>19, <1>20, <1>21
  DEF DtlsNext, DtlsLibrary

(* Every step keeps somebody waiting for what is queued.                      *)
LEMMA DtlsWaitedStep == DtlsControl /\ DtlsCounts /\ EndInv /\ DtlsWaited /\ [DtlsNext]_dtlsVars => DtlsWaited'
<1>. SUFFICES ASSUME DtlsControl, DtlsCounts, EndInv, DtlsWaited, [DtlsNext]_dtlsVars PROVE DtlsWaited'
  OBVIOUS
<1>1. CASE AgentCheck
  BY <1>1
  DEF AgentCheck, CheckCount, DtlsControl, DtlsCounts, EndInv, DtlsWaited, Reads, DtlsActive,
      Backends, libraryV, timerV, counterV, inV, agentV, outV, writeV, buildV
<1>2. CASE AgentEnqueue
  BY <1>2
  DEF AgentEnqueue, Enqueue, DtlsControl, DtlsCounts, EndInv, DtlsWaited, Reads, DtlsActive,
      Backends, libraryV, timerV, counterV, inV, agentV, outV, writeV, buildV
<1>3. CASE OwnerCheck
  BY <1>3
  DEF OwnerCheck, CheckCount, DtlsControl, DtlsCounts, EndInv, DtlsWaited, Reads, DtlsActive,
      Backends, libraryV, timerV, counterV, inV, agentV, outV, writeV, buildV
<1>4. CASE OwnerEnqueue
  BY <1>4
  DEF OwnerEnqueue, Enqueue, DtlsControl, DtlsCounts, EndInv, DtlsWaited, Reads, DtlsActive,
      Backends, libraryV, timerV, counterV, inV, agentV, outV, writeV, buildV
<1>5. CASE DtlsPush
  BY <1>5
  DEF DtlsPush, DtlsControl, DtlsCounts, EndInv, DtlsWaited, Reads, DtlsActive, Backends,
      libraryV, timerV, counterV, inV, agentV, outV, writeV, buildV
<1>6. CASE JobStart
  BY <1>6
  DEF JobStart, Begin, DtlsActive, DtlsControl, DtlsCounts, EndInv, DtlsWaited, Reads, DtlsActive,
      Backends, libraryV, timerV, counterV, inV, agentV, outV, writeV, buildV
<1>7. CASE RecvEmpty
  BY <1>7
  DEF RecvEmpty, HandleTimeout, DtlsControl, DtlsCounts, EndInv, DtlsWaited, Reads, DtlsActive,
      Backends, libraryV, timerV, counterV, inV, agentV, outV, writeV, buildV
<1>8. CASE RecvReturn
  BY <1>8
  DEF RecvReturn, DtlsControl, DtlsCounts, EndInv, DtlsWaited, Reads, DtlsActive, Backends,
      libraryV, timerV, counterV, inV, agentV, outV, writeV, buildV
<1>9. CASE RecvPacket
  BY <1>9
  DEF RecvPacket, TakeFlight, TakeOther, TakeRecords, Finished, Unread, DtlsControl, DtlsCounts,
      EndInv, DtlsWaited, Reads, DtlsActive, Backends, libraryV, timerV, counterV, inV, agentV,
      outV, writeV, buildV
<1>10. CASE PostHandshake
  BY <1>10
  DEF PostHandshake, DtlsControl, DtlsCounts, EndInv, DtlsWaited, Reads, DtlsActive, Backends,
      libraryV, timerV, counterV, inV, agentV, outV, writeV, buildV
<1>11. CASE Announce
  BY <1>11
  DEF Announce, DtlsControl, DtlsCounts, EndInv, DtlsWaited, Reads, DtlsActive, Backends,
      libraryV, timerV, counterV, inV, agentV, outV, writeV, buildV
<1>12. CASE RecvFinal
  BY <1>12
  DEF RecvFinal, DtlsActive, DtlsControl, DtlsCounts, EndInv, DtlsWaited, Reads, DtlsActive,
      Backends, libraryV, timerV, counterV, inV, agentV, outV, writeV, buildV
<1>13. CASE Deadline
  BY <1>13
  DEF Deadline, DtlsControl, DtlsCounts, EndInv, DtlsWaited, Reads, DtlsActive, Backends,
      libraryV, timerV, counterV, inV, agentV, outV, writeV, buildV
<1>14. CASE TimerFires
  BY <1>14
  DEF TimerFires, Begin, DtlsActive, DtlsControl, DtlsCounts, EndInv, DtlsWaited, Reads,
      DtlsActive, Backends, libraryV, timerV, counterV, inV, agentV, outV, writeV, buildV
<1>15. CASE DtlsStart
  BY <1>15
  DEF DtlsStart, StartPush, StartPull, Enqueue, DtlsControl, DtlsCounts, EndInv, DtlsWaited,
      Reads, DtlsActive, Backends, libraryV, timerV, counterV, inV, agentV, outV, writeV, buildV
<1>16. CASE DtlsStop
  BY <1>16
  DEF DtlsStop, DtlsControl, DtlsCounts, EndInv, DtlsWaited, Reads, DtlsActive, Backends,
      libraryV, timerV, counterV, inV, agentV, outV, writeV, buildV
<1>17. CASE DtlsArrive
  BY <1>17
  DEF DtlsArrive, DtlsActive, DtlsControl, DtlsCounts, EndInv, DtlsWaited, Reads, DtlsActive,
      Backends, libraryV, timerV, counterV, inV, agentV, outV, writeV, buildV
<1>18. CASE SendMedia
  BY <1>18
  DEF SendMedia, DtlsControl, DtlsCounts, EndInv, DtlsWaited, Reads, DtlsActive, Backends,
      libraryV, timerV, counterV, inV, agentV, outV, writeV, buildV
<1>19. ASSUME NEW w \in Writers, SendRecord(w) PROVE DtlsWaited'
  BY <1>19
  DEF SendRecord, Outgoing, DtlsControl, DtlsCounts, EndInv, DtlsWaited, Reads, DtlsActive,
      Backends, libraryV, timerV, counterV, inV, agentV, outV, writeV, buildV
<1>20. ASSUME NEW w \in Writers, SendReturns(w) PROVE DtlsWaited'
  BY <1>20
  DEF SendReturns, DtlsControl, DtlsCounts, EndInv, DtlsWaited, Reads, DtlsActive, Backends,
      libraryV, timerV, counterV, inV, agentV, outV, writeV, buildV
<1>21. CASE UNCHANGED dtlsVars
  BY <1>21
  DEF dtlsVars, DtlsControl, DtlsCounts, EndInv, DtlsWaited, Reads, DtlsActive, Backends,
      libraryV, timerV, counterV, inV, agentV, outV, writeV, buildV
<1>. QED
  BY <1>1, <1>2, <1>3, <1>4, <1>5, <1>6, <1>7, <1>8, <1>9, <1>10, <1>11, <1>12, <1>13, <1>14,
      <1>15, <1>16, <1>17, <1>18, <1>19, <1>20, <1>21
  DEF DtlsNext, DtlsLibrary

(* Every step keeps the keys before the announcement.                         *)
LEMMA DtlsKeysStep == DtlsControl /\ KeysInv /\ [DtlsNext]_dtlsVars => KeysInv'
<1>. SUFFICES ASSUME DtlsControl, KeysInv, [DtlsNext]_dtlsVars PROVE KeysInv'
  OBVIOUS
<1>1. CASE AgentCheck
  BY <1>1
  DEF AgentCheck, CheckCount, DtlsControl, KeysInv, KeysBeforeConnected, Backends, libraryV,
      timerV, counterV, inV, agentV, outV, writeV, buildV
<1>2. CASE AgentEnqueue
  BY <1>2
  DEF AgentEnqueue, Enqueue, DtlsControl, KeysInv, KeysBeforeConnected, Backends, libraryV,
      timerV, counterV, inV, agentV, outV, writeV, buildV
<1>3. CASE OwnerCheck
  BY <1>3
  DEF OwnerCheck, CheckCount, DtlsControl, KeysInv, KeysBeforeConnected, Backends, libraryV,
      timerV, counterV, inV, agentV, outV, writeV, buildV
<1>4. CASE OwnerEnqueue
  BY <1>4
  DEF OwnerEnqueue, Enqueue, DtlsControl, KeysInv, KeysBeforeConnected, Backends, libraryV,
      timerV, counterV, inV, agentV, outV, writeV, buildV
<1>5. CASE DtlsPush
  BY <1>5
  DEF DtlsPush, DtlsControl, KeysInv, KeysBeforeConnected, Backends, libraryV, timerV, counterV,
      inV, agentV, outV, writeV, buildV
<1>6. CASE JobStart
  BY <1>6
  DEF JobStart, Begin, DtlsActive, DtlsControl, KeysInv, KeysBeforeConnected, Backends, libraryV,
      timerV, counterV, inV, agentV, outV, writeV, buildV
<1>7. CASE RecvEmpty
  BY <1>7
  DEF RecvEmpty, HandleTimeout, DtlsControl, KeysInv, KeysBeforeConnected, Backends, libraryV,
      timerV, counterV, inV, agentV, outV, writeV, buildV
<1>8. CASE RecvReturn
  BY <1>8
  DEF RecvReturn, DtlsControl, KeysInv, KeysBeforeConnected, Backends, libraryV, timerV, counterV,
      inV, agentV, outV, writeV, buildV
<1>9. CASE RecvPacket
  BY <1>9
  DEF RecvPacket, TakeFlight, TakeOther, TakeRecords, Finished, Unread, DtlsControl, KeysInv,
      KeysBeforeConnected, Backends, libraryV, timerV, counterV, inV, agentV, outV, writeV, buildV
<1>10. CASE PostHandshake
  BY <1>10
  DEF PostHandshake, DtlsControl, KeysInv, KeysBeforeConnected, Backends, libraryV, timerV,
      counterV, inV, agentV, outV, writeV, buildV
<1>11. CASE Announce
  BY <1>11
  DEF Announce, DtlsControl, KeysInv, KeysBeforeConnected, Backends, libraryV, timerV, counterV,
      inV, agentV, outV, writeV, buildV
<1>12. CASE RecvFinal
  BY <1>12
  DEF RecvFinal, DtlsActive, DtlsControl, KeysInv, KeysBeforeConnected, Backends, libraryV,
      timerV, counterV, inV, agentV, outV, writeV, buildV
<1>13. CASE Deadline
  BY <1>13
  DEF Deadline, DtlsControl, KeysInv, KeysBeforeConnected, Backends, libraryV, timerV, counterV,
      inV, agentV, outV, writeV, buildV
<1>14. CASE TimerFires
  BY <1>14
  DEF TimerFires, Begin, DtlsActive, DtlsControl, KeysInv, KeysBeforeConnected, Backends,
      libraryV, timerV, counterV, inV, agentV, outV, writeV, buildV
<1>15. CASE DtlsStart
  BY <1>15
  DEF DtlsStart, StartPush, StartPull, Enqueue, DtlsControl, KeysInv, KeysBeforeConnected,
      Backends, libraryV, timerV, counterV, inV, agentV, outV, writeV, buildV
<1>16. CASE DtlsStop
  BY <1>16
  DEF DtlsStop, DtlsControl, KeysInv, KeysBeforeConnected, Backends, libraryV, timerV, counterV,
      inV, agentV, outV, writeV, buildV
<1>17. CASE DtlsArrive
  BY <1>17
  DEF DtlsArrive, DtlsActive, DtlsControl, KeysInv, KeysBeforeConnected, Backends, libraryV,
      timerV, counterV, inV, agentV, outV, writeV, buildV
<1>18. CASE SendMedia
  BY <1>18
  DEF SendMedia, DtlsControl, KeysInv, KeysBeforeConnected, Backends, libraryV, timerV, counterV,
      inV, agentV, outV, writeV, buildV
<1>19. ASSUME NEW w \in Writers, SendRecord(w) PROVE KeysInv'
  BY <1>19
  DEF SendRecord, Outgoing, DtlsControl, KeysInv, KeysBeforeConnected, Backends, libraryV, timerV,
      counterV, inV, agentV, outV, writeV, buildV
<1>20. ASSUME NEW w \in Writers, SendReturns(w) PROVE KeysInv'
  BY <1>20
  DEF SendReturns, DtlsControl, KeysInv, KeysBeforeConnected, Backends, libraryV, timerV,
      counterV, inV, agentV, outV, writeV, buildV
<1>21. CASE UNCHANGED dtlsVars
  BY <1>21
  DEF dtlsVars, DtlsControl, KeysInv, KeysBeforeConnected, Backends, libraryV, timerV, counterV,
      inV, agentV, outV, writeV, buildV
<1>. QED
  BY <1>1, <1>2, <1>3, <1>4, <1>5, <1>6, <1>7, <1>8, <1>9, <1>10, <1>11, <1>12, <1>13, <1>14,
      <1>15, <1>16, <1>17, <1>18, <1>19, <1>20, <1>21
  DEF DtlsNext, DtlsLibrary

(* Every step keeps the results of the senders.                               *)
LEMMA DtlsResultStep == ResultInv /\ [DtlsNext]_dtlsVars => ResultInv'
<1>. SUFFICES ASSUME ResultInv, [DtlsNext]_dtlsVars PROVE ResultInv'
  OBVIOUS
<1>1. CASE AgentCheck
  BY <1>1
  DEF AgentCheck, CheckCount, ResultInv, OwnResult, Resting, Writers, libraryV, timerV, counterV,
      inV, agentV, outV, writeV, buildV
<1>2. CASE AgentEnqueue
  BY <1>2
  DEF AgentEnqueue, Enqueue, ResultInv, OwnResult, Resting, Writers, libraryV, timerV, counterV,
      inV, agentV, outV, writeV, buildV
<1>3. CASE OwnerCheck
  BY <1>3
  DEF OwnerCheck, CheckCount, ResultInv, OwnResult, Resting, Writers, libraryV, timerV, counterV,
      inV, agentV, outV, writeV, buildV
<1>4. CASE OwnerEnqueue
  BY <1>4
  DEF OwnerEnqueue, Enqueue, ResultInv, OwnResult, Resting, Writers, libraryV, timerV, counterV,
      inV, agentV, outV, writeV, buildV
<1>5. CASE DtlsPush
  BY <1>5
  DEF DtlsPush, ResultInv, OwnResult, Resting, Writers, libraryV, timerV, counterV, inV, agentV,
      outV, writeV, buildV
<1>6. CASE JobStart
  BY <1>6
  DEF JobStart, Begin, DtlsActive, ResultInv, OwnResult, Resting, Writers, libraryV, timerV,
      counterV, inV, agentV, outV, writeV, buildV
<1>7. CASE RecvEmpty
  BY <1>7
  DEF RecvEmpty, HandleTimeout, ResultInv, OwnResult, Resting, Writers, libraryV, timerV,
      counterV, inV, agentV, outV, writeV, buildV
<1>8. CASE RecvReturn
  BY <1>8
  DEF RecvReturn, ResultInv, OwnResult, Resting, Writers, libraryV, timerV, counterV, inV, agentV,
      outV, writeV, buildV
<1>9. CASE RecvPacket
  BY <1>9
  DEF RecvPacket, TakeFlight, TakeOther, TakeRecords, Finished, Unread, ResultInv, OwnResult,
      Resting, Writers, libraryV, timerV, counterV, inV, agentV, outV, writeV, buildV
<1>10. CASE PostHandshake
  BY <1>10
  DEF PostHandshake, ResultInv, OwnResult, Resting, Writers, libraryV, timerV, counterV, inV,
      agentV, outV, writeV, buildV
<1>11. CASE Announce
  BY <1>11
  DEF Announce, ResultInv, OwnResult, Resting, Writers, libraryV, timerV, counterV, inV, agentV,
      outV, writeV, buildV
<1>12. CASE RecvFinal
  BY <1>12
  DEF RecvFinal, DtlsActive, ResultInv, OwnResult, Resting, Writers, libraryV, timerV, counterV,
      inV, agentV, outV, writeV, buildV
<1>13. CASE Deadline
  BY <1>13
  DEF Deadline, ResultInv, OwnResult, Resting, Writers, libraryV, timerV, counterV, inV, agentV,
      outV, writeV, buildV
<1>14. CASE TimerFires
  BY <1>14
  DEF TimerFires, Begin, DtlsActive, ResultInv, OwnResult, Resting, Writers, libraryV, timerV,
      counterV, inV, agentV, outV, writeV, buildV
<1>15. CASE DtlsStart
  BY <1>15
  DEF DtlsStart, StartPush, StartPull, Enqueue, ResultInv, OwnResult, Resting, Writers, libraryV,
      timerV, counterV, inV, agentV, outV, writeV, buildV
<1>16. CASE DtlsStop
  BY <1>16
  DEF DtlsStop, ResultInv, OwnResult, Resting, Writers, libraryV, timerV, counterV, inV, agentV,
      outV, writeV, buildV
<1>17. CASE DtlsArrive
  BY <1>17
  DEF DtlsArrive, DtlsActive, ResultInv, OwnResult, Resting, Writers, libraryV, timerV, counterV,
      inV, agentV, outV, writeV, buildV
<1>18. CASE SendMedia
  BY <1>18
  DEF SendMedia, ResultInv, OwnResult, Resting, Writers, libraryV, timerV, counterV, inV, agentV,
      outV, writeV, buildV
<1>19. ASSUME NEW w \in Writers, SendRecord(w) PROVE ResultInv'
  <2>1. PICK r \in BOOLEAN :
          /\ result' = r /\ misread' = misread
          /\ writer' = [v \in Writers |-> IF v = w THEN <<"return", r, FALSE>>
                                          ELSE IF writer[v] = Resting THEN Resting ELSE <<"return", writer[v][2], TRUE>>]
    BY <1>19 DEF SendRecord, Outgoing
  <2>2. writer'[w] = <<"return", r, FALSE>>
    BY <2>1
  <2>3. ASSUME NEW v \in Writers, v # w
        PROVE  writer'[v] = Resting \/ (writer'[v] \in {"idle", "return"} \X BOOLEAN \X BOOLEAN /\ writer'[v][3])
    <3>1. writer'[v] = IF writer[v] = Resting THEN Resting ELSE <<"return", writer[v][2], TRUE>>
      BY <2>1, <2>3
    <3>2. writer[v][2] \in BOOLEAN
      BY <2>3 DEF ResultInv
    <3>3. CASE writer[v] # Resting
      <4>1. writer'[v] = <<"return", writer[v][2], TRUE>>
        BY <3>1, <3>3
      <4>2. <<"return", writer[v][2], TRUE>> \in {"idle", "return"} \X BOOLEAN \X BOOLEAN
        BY <3>2, TripleIn
      <4>3. <<"return", writer[v][2], TRUE>>[3]
        OBVIOUS
      <4>. QED BY <4>1, <4>2, <4>3, Zenon
    <3>. QED BY <3>1, <3>3
  <2>4. Resting \in {"idle", "return"} \X BOOLEAN \X BOOLEAN
    BY DEF Resting
  <2>5. writer' \in [Writers -> {"idle", "return"} \X BOOLEAN \X BOOLEAN]
    <3>1. \A v \in Writers : writer'[v] \in {"idle", "return"} \X BOOLEAN \X BOOLEAN
      <4>1. writer'[w] \in {"idle", "return"} \X BOOLEAN \X BOOLEAN
        BY <2>1, <2>2
      <4>. QED BY <2>3, <2>4, <4>1
    <3>. QED BY <2>1, <3>1
  <2>6. \A v \in Writers : writer'[v] # Resting /\ ~writer'[v][3] => result' = writer'[v][2]
    BY <2>1, <2>2, <2>3
  <2>. QED BY <2>1, <2>5, <2>6 DEF ResultInv, OwnResult
<1>20. ASSUME NEW w \in Writers, SendReturns(w) PROVE ResultInv'
  BY <1>20
  DEF SendReturns, ResultInv, OwnResult, Resting, Writers, libraryV, timerV, counterV, inV,
      agentV, outV, writeV, buildV
<1>21. CASE UNCHANGED dtlsVars
  BY <1>21
  DEF dtlsVars, ResultInv, OwnResult, Resting, Writers, libraryV, timerV, counterV, inV, agentV,
      outV, writeV, buildV
<1>. QED
  BY <1>1, <1>2, <1>3, <1>4, <1>5, <1>6, <1>7, <1>8, <1>9, <1>10, <1>11, <1>12, <1>13, <1>14,
      <1>15, <1>16, <1>17, <1>18, <1>19, <1>20, <1>21
  DEF DtlsNext, DtlsLibrary


(* What travels: records, packets, and packets with their records.            *)
DtlsRecord == {"record", "close"} \X Nat
DtlsPacket == {"none", "flight", "bad", "data", "close", "media"} \X Nat
DtlsEntry == DtlsPacket \X Seq(DtlsRecord)

DtlsData ==
    /\ dQueue \in Seq(DtlsEntry) /\ packet \in DtlsPacket /\ missing \in 0..Flights
    /\ held \in Seq(DtlsRecord) /\ brought \in Seq(DtlsRecord) /\ delivered \in Seq(DtlsRecord)

(* A job that reads while the handshake goes on waits for a flight, and the   *)
(* others have announced the connection when they derive the keys.            *)
LoopInv ==
    /\ dState = "Connecting" /\ recvPc \notin {"keys", "announce", "final"} => missing > 0
    /\ backend = "pull" /\ recvPc = "keys" => dState = "Connected"
    /\ arrived = 0 => missing = Flights

(* Records come after the handshake of the peer, in packets of their kind.    *)
RecordsInv ==
    /\ packet[1] \in {"data", "close"} => missing = 0
    /\ \A k \in 1..Len(dQueue) : dQueue[k][2] # <<>> => missing = 0 /\ dQueue[k][1][1] # "media"
    /\ arrived = 0 => brought = <<>> /\ delivered = <<>> /\ held = <<>>

(* f[k]: how many records come before those of the k-th packet of the queue q. *)
(* What was brought, b, is what was delivered, d, then what the library holds, *)
(* h, then the queue.                                                         *)
Offsets(f, q, d, h, b) ==
    /\ f \in [1..(Len(q) + 1) -> Nat]
    /\ f[1] = Len(d) + Len(h) /\ f[Len(q) + 1] = Len(b)
    /\ \A k \in 1..(Len(q) + 1) : f[k] <= Len(b)
    /\ \A k \in 1..Len(q) :
          /\ f[k + 1] = f[k] + Len(q[k][2])
          /\ \A i \in 1..Len(q[k][2]) : q[k][2][i] = b[f[k] + i]
    /\ \A i \in 1..Len(h) : h[i] = b[Len(d) + i]
Begins(d, b) == Len(d) <= Len(b) /\ \A i \in 1..Len(d) : d[i] = b[i]
Ordered(q, d, h, b) == \E f : Offsets(f, q, d, h, b)

Delivering == DtlsActive /\ recvPc # "final"
OrderInv == Begins(delivered, brought) /\ (Delivering => Ordered(dQueue, delivered, held, brought))

(* What DtlsPush puts into the queue.                                         *)
Numbered(p, n) == [i \in DOMAIN Records(p) |-> <<Records(p)[i], n + i>>]

(* The records of a packet, with their numbers, are a sequence of records.    *)
LEMMA NumberedRecords ==
    ASSUME NEW p \in DtlsPacket, NEW n \in Nat
    PROVE  /\ Numbered(p, n) \in Seq(DtlsRecord)
           /\ Numbered(p, n) # <<>> => p[1] \in {"data", "close"}
<1>1. CASE p[1] = "close"
  <2>1. Records(p) = <<"close">> /\ DOMAIN Records(p) = 1..1
    BY <1>1 DEF Records
  <2>2. \A i \in 1..1 : <<Records(p)[i], n + i>> \in DtlsRecord
    BY <2>1 DEF DtlsRecord
  <2>. QED BY <1>1, <2>1, <2>2 DEF Numbered
<1>2. CASE p[1] = "data"
  <2>1. p[2] \in Nat /\ Records(p) = [i \in 1..p[2] |-> "record"]
    BY <1>2 DEF Records, DtlsPacket
  <2>2. \A i \in 1..p[2] : <<Records(p)[i], n + i>> \in DtlsRecord
    BY <2>1 DEF DtlsRecord
  <2>3. Numbered(p, n) = [i \in 1..p[2] |-> <<Records(p)[i], n + i>>]
    BY <2>1 DEF Numbered
  <2>4. Numbered(p, n) \in [1..p[2] -> DtlsRecord]
    BY <2>2, <2>3
  <2>5. Numbered(p, n) \in Seq(DtlsRecord)
    <3>. DEFINE g == Numbered(p, n)
                m == p[2]
    <3>1. m \in Nat /\ g \in [1..m -> DtlsRecord]
      BY <2>1, <2>4
    <3>. HIDE DEF g, m
    <3>2. g \in Seq(DtlsRecord)
      BY <3>1
    <3>. QED BY <3>2 DEF g
  <2>. QED BY <1>2, <2>5
<1>3. CASE p[1] \notin {"data", "close"}
  <2>1. Records(p) = <<>>
    BY <1>3 DEF Records
  <2>2. Numbered(p, n) = <<>>
    BY <2>1 DEF Numbered
  <2>. QED BY <2>2
<1>. QED BY <1>1, <1>2, <1>3

(* What is read of some records, and what is left of them, are these records. *)
Readable(recs) == SubSeq(recs, 1, Len(recs) - Len(Unread(recs)))
LEMMA ReadAndUnread ==
    ASSUME NEW recs \in Seq(DtlsRecord)
    PROVE  /\ Unread(recs) \in Seq(DtlsRecord) /\ Readable(recs) \in Seq(DtlsRecord)
           /\ Len(Readable(recs)) + Len(Unread(recs)) = Len(recs)
           /\ \A i \in 1..Len(Readable(recs)) : Readable(recs)[i] = recs[i]
           /\ \A i \in 1..Len(Unread(recs)) : Unread(recs)[i] = recs[Len(Readable(recs)) + i]
<1>1. Len(recs) \in Nat /\ Unread(recs) \in Seq(DtlsRecord) /\ Len(Unread(recs)) \in 0..Len(recs)
  BY DEF Unread
<1>2. Readable(recs) \in Seq(DtlsRecord) /\ Len(Readable(recs)) = Len(recs) - Len(Unread(recs))
      /\ \A i \in 1..Len(Readable(recs)) : Readable(recs)[i] = recs[i]
  BY <1>1 DEF Readable
<1>3. \A i \in 1..Len(Unread(recs)) : Unread(recs)[i] = recs[Len(Readable(recs)) + i]
  <2>1. CASE backend = "openssl" /\ recs # <<>>
    <3>1. Unread(recs) = Tail(recs) /\ Len(Readable(recs)) = 1
      BY <1>2, <2>1 DEF Unread
    <3>. QED BY <2>1, <3>1
  <2>2. CASE ~(backend = "openssl" /\ recs # <<>>)
    BY <2>2 DEF Unread
  <2>. QED BY <2>1, <2>2
<1>4. Len(Readable(recs)) + Len(Unread(recs)) = Len(recs)
  <2>1. Len(Unread(recs)) \in Nat
    BY <1>1
  <2>. QED BY <1>1, <1>2, <2>1
<1>. QED BY <1>1, <1>2, <1>3, <1>4

(* push() queues the packet with its records, or drops it.                    *)
LEMMA PushEffect ==
    ASSUME DtlsData, DtlsPush
    PROVE  /\ dQueue' \in Seq(DtlsEntry) /\ brought' \in Seq(DtlsRecord)
           /\ \/ dQueue' = dQueue /\ brought' = brought
              \/ /\ dQueue' = Append(dQueue, <<packet, Numbered(packet, Len(brought))>>)
                 /\ brought' = brought \o Numbered(packet, Len(brought))
<1>. DEFINE recs == Numbered(packet, Len(brought))
<1>1. recs \in Seq(DtlsRecord)
  BY NumberedRecords DEF DtlsData
<1>2. \/ dQueue' = dQueue /\ brought' = brought
      \/ dQueue' = Append(dQueue, <<packet, recs>>) /\ brought' = brought \o recs
  BY DEF DtlsPush, Numbered
<1>. HIDE DEF recs
<1>3. <<packet, recs>> \in DtlsEntry
  BY <1>1 DEF DtlsEntry, DtlsData
<1>4. dQueue' \in Seq(DtlsEntry) /\ brought' \in Seq(DtlsRecord)
  <2>1. CASE dQueue' = dQueue /\ brought' = brought
    BY <2>1 DEF DtlsData
  <2>2. CASE dQueue' = Append(dQueue, <<packet, recs>>) /\ brought' = brought \o recs
    <3>1. dQueue \in Seq(DtlsEntry) /\ brought \in Seq(DtlsRecord)
      BY DEF DtlsData
    <3>2. Append(dQueue, <<packet, recs>>) \in Seq(DtlsEntry)
      BY <1>3, <3>1
    <3>. QED BY <1>1, <2>2, <3>1, <3>2
  <2>. QED BY <1>2, <2>1, <2>2
<1>. QED BY <1>2, <1>4 DEF recs

(* Every step keeps the types of what travels.                                *)
LEMMA DtlsDataStep == DtlsControl /\ DtlsData /\ LoopInv /\ [DtlsNext]_dtlsVars => DtlsData'
<1>. SUFFICES ASSUME DtlsControl, DtlsData, LoopInv, [DtlsNext]_dtlsVars PROVE DtlsData'
  OBVIOUS
<1>1. CASE AgentCheck
  BY <1>1
  DEF AgentCheck, CheckCount, DtlsData, libraryV, timerV, counterV, inV, agentV, outV, writeV,
      buildV
<1>2. CASE AgentEnqueue
  BY <1>2
  DEF AgentEnqueue, Enqueue, DtlsData, libraryV, timerV, counterV, inV, agentV, outV, writeV,
      buildV
<1>3. CASE OwnerCheck
  BY <1>3
  DEF OwnerCheck, CheckCount, DtlsData, libraryV, timerV, counterV, inV, agentV, outV, writeV,
      buildV
<1>4. CASE OwnerEnqueue
  BY <1>4
  DEF OwnerEnqueue, Enqueue, DtlsData, libraryV, timerV, counterV, inV, agentV, outV, writeV,
      buildV
<1>5. CASE DtlsPush
  <2>1. packet' = NoPacket /\ UNCHANGED <<missing, held, delivered>>
    BY <1>5 DEF DtlsPush, libraryV, outV
  <2>2. NoPacket \in DtlsPacket
    BY DEF NoPacket, DtlsPacket
  <2>3. dQueue' \in Seq(DtlsEntry) /\ brought' \in Seq(DtlsRecord)
    BY <1>5, PushEffect DEF DtlsData
  <2>. QED BY <2>1, <2>2, <2>3 DEF DtlsData
<1>6. CASE JobStart
  BY <1>6
  DEF JobStart, Begin, DtlsActive, DtlsData, libraryV, timerV, counterV, inV, agentV, outV,
      writeV, buildV
<1>7. CASE RecvEmpty
  BY <1>7
  DEF RecvEmpty, HandleTimeout, DtlsData, libraryV, timerV, counterV, inV, agentV, outV, writeV,
      buildV
<1>8. CASE RecvReturn
  BY <1>8
  DEF RecvReturn, DtlsData, libraryV, timerV, counterV, inV, agentV, outV, writeV, buildV
<1>9. CASE RecvPacket
  <2>1. dQueue' \in Seq(DtlsEntry) /\ packet' = packet /\ brought' = brought
    BY <1>9 DEF RecvPacket, DtlsData, agentV
  <2>2. Head(dQueue) \in DtlsEntry /\ dQueue # <<>>
    BY <1>9 DEF RecvPacket, DtlsData
  <2>3. Head(dQueue)[2] \in Seq(DtlsRecord)
    BY <2>2 DEF DtlsEntry
  <2>4. held \o Head(dQueue)[2] \in Seq(DtlsRecord)
    BY <2>3 DEF DtlsData
  <2>5. missing' \in 0..Flights /\ held' \in Seq(DtlsRecord) /\ delivered' \in Seq(DtlsRecord)
    <3>1. CASE UNCHANGED <<missing, held, delivered>>
      BY <3>1 DEF DtlsData
    <3>2. ASSUME NEW p, TakeFlight(p) PROVE missing' \in 0..Flights /\ held' \in Seq(DtlsRecord) /\ delivered' \in Seq(DtlsRecord)
      <4>1. missing > 0
        BY <1>9, <3>2 DEF RecvPacket, LoopInv, TakeFlight
      <4>. QED BY <3>2, <4>1, DtlsConstants DEF TakeFlight, DtlsData
    <3>3. ASSUME NEW p, NEW recs \in Seq(DtlsRecord), TakeRecords(p, recs) PROVE missing' \in 0..Flights /\ held' \in Seq(DtlsRecord) /\ delivered' \in Seq(DtlsRecord)
      <4>1. missing' = missing /\ held' = Unread(recs) /\ delivered' \in {delivered, delivered \o Readable(recs)}
        BY <3>3 DEF TakeRecords, Readable
      <4>2. delivered \o Readable(recs) \in Seq(DtlsRecord)
        BY ReadAndUnread DEF DtlsData
      <4>. QED BY <4>1, <4>2, ReadAndUnread DEF DtlsData
    <3>4. ASSUME NEW p, TakeOther(p) PROVE UNCHANGED <<missing, held, delivered>>
      BY <3>4 DEF TakeOther
    <3>. QED BY <1>9, <2>4, <3>1, <3>2, <3>3, <3>4 DEF RecvPacket
  <2>. QED BY <2>1, <2>5 DEF DtlsData
<1>10. CASE PostHandshake
  BY <1>10
  DEF PostHandshake, DtlsData, libraryV, timerV, counterV, inV, agentV, outV, writeV, buildV
<1>11. CASE Announce
  BY <1>11
  DEF Announce, DtlsData, libraryV, timerV, counterV, inV, agentV, outV, writeV, buildV
<1>12. CASE RecvFinal
  BY <1>12
  DEF RecvFinal, DtlsActive, DtlsData, libraryV, timerV, counterV, inV, agentV, outV, writeV,
      buildV
<1>13. CASE Deadline
  BY <1>13
  DEF Deadline, DtlsData, libraryV, timerV, counterV, inV, agentV, outV, writeV, buildV
<1>14. CASE TimerFires
  BY <1>14
  DEF TimerFires, Begin, DtlsActive, DtlsData, libraryV, timerV, counterV, inV, agentV, outV,
      writeV, buildV
<1>15. CASE DtlsStart
  BY <1>15
  DEF DtlsStart, StartPush, StartPull, Enqueue, DtlsData, libraryV, timerV, counterV, inV, agentV,
      outV, writeV, buildV
<1>16. CASE DtlsStop
  BY <1>16
  DEF DtlsStop, DtlsData, libraryV, timerV, counterV, inV, agentV, outV, writeV, buildV
<1>17. CASE DtlsArrive
  <2>1. packet' \in Packets /\ UNCHANGED <<dQueue, missing, held, brought, delivered>>
    BY <1>17 DEF DtlsArrive, libraryV, inV, outV
  <2>2. Packets \subseteq DtlsPacket
    BY DtlsConstants DEF Packets, DtlsPacket, DtlsData
  <2>. QED BY <2>1, <2>2 DEF DtlsData
<1>18. CASE SendMedia
  BY <1>18
  DEF SendMedia, DtlsData, libraryV, timerV, counterV, inV, agentV, outV, writeV, buildV
<1>19. ASSUME NEW w \in Writers, SendRecord(w) PROVE DtlsData'
  BY <1>19
  DEF SendRecord, Outgoing, DtlsData, libraryV, timerV, counterV, inV, agentV, outV, writeV,
      buildV
<1>20. ASSUME NEW w \in Writers, SendReturns(w) PROVE DtlsData'
  BY <1>20
  DEF SendReturns, DtlsData, libraryV, timerV, counterV, inV, agentV, outV, writeV, buildV
<1>21. CASE UNCHANGED dtlsVars
  BY <1>21
  DEF dtlsVars, DtlsData, libraryV, timerV, counterV, inV, agentV, outV, writeV, buildV
<1>. QED
  BY <1>1, <1>2, <1>3, <1>4, <1>5, <1>6, <1>7, <1>8, <1>9, <1>10, <1>11, <1>12, <1>13, <1>14,
      <1>15, <1>16, <1>17, <1>18, <1>19, <1>20, <1>21
  DEF DtlsNext, DtlsLibrary

(* Every step keeps the job waiting for a flight.                             *)
LEMMA DtlsLoopStep == DtlsControl /\ DtlsCounts /\ DtlsData /\ EndInv /\ DtlsWaited /\ LoopInv /\ [DtlsNext]_dtlsVars => LoopInv'
<1>. SUFFICES ASSUME DtlsControl, DtlsCounts, DtlsData, EndInv, DtlsWaited, LoopInv, [DtlsNext]_dtlsVars PROVE LoopInv'
  OBVIOUS
<1>1. CASE AgentCheck
  BY <1>1, DtlsConstants
  DEF AgentCheck, CheckCount, DtlsControl, DtlsCounts, DtlsData, EndInv, Reads, DtlsActive,
      LoopInv, Backends, libraryV, timerV, counterV, inV, agentV, outV, writeV, buildV
<1>2. CASE AgentEnqueue
  BY <1>2, DtlsConstants
  DEF AgentEnqueue, Enqueue, DtlsControl, DtlsCounts, DtlsData, EndInv, Reads, DtlsActive,
      LoopInv, Backends, libraryV, timerV, counterV, inV, agentV, outV, writeV, buildV
<1>3. CASE OwnerCheck
  BY <1>3, DtlsConstants
  DEF OwnerCheck, CheckCount, DtlsControl, DtlsCounts, DtlsData, EndInv, Reads, DtlsActive,
      LoopInv, Backends, libraryV, timerV, counterV, inV, agentV, outV, writeV, buildV
<1>4. CASE OwnerEnqueue
  BY <1>4, DtlsConstants
  DEF OwnerEnqueue, Enqueue, DtlsControl, DtlsCounts, DtlsData, EndInv, Reads, DtlsActive,
      LoopInv, Backends, libraryV, timerV, counterV, inV, agentV, outV, writeV, buildV
<1>5. CASE DtlsPush
  BY <1>5, DtlsConstants
  DEF DtlsPush, DtlsControl, DtlsCounts, DtlsData, EndInv, Reads, DtlsActive, LoopInv, Backends,
      libraryV, timerV, counterV, inV, agentV, outV, writeV, buildV
<1>6. CASE JobStart
  BY <1>6, DtlsConstants
  DEF JobStart, Begin, DtlsActive, DtlsControl, DtlsCounts, DtlsData, EndInv, Reads, DtlsActive,
      LoopInv, Backends, libraryV, timerV, counterV, inV, agentV, outV, writeV, buildV
<1>7. CASE RecvEmpty
  BY <1>7, DtlsConstants
  DEF RecvEmpty, HandleTimeout, DtlsControl, DtlsCounts, DtlsData, EndInv, Reads, DtlsActive,
      LoopInv, Backends, libraryV, timerV, counterV, inV, agentV, outV, writeV, buildV
<1>8. CASE RecvReturn
  BY <1>8, DtlsConstants
  DEF RecvReturn, DtlsControl, DtlsCounts, DtlsData, EndInv, Reads, DtlsActive, LoopInv, Backends,
      libraryV, timerV, counterV, inV, agentV, outV, writeV, buildV
<1>9. CASE RecvPacket
  <2>1. /\ recvPc = "loop" /\ UNCHANGED <<backend, dState, arrived>>
        /\ arrived # 0
    BY <1>9, PacketSteps DEF RecvPacket, DtlsWaited
  <2>2. missing > 0 \/ dState # "Connecting"
    BY <2>1 DEF LoopInv
  <2>3. CASE recvPc' = recvPc /\ missing' = missing
    BY <2>1, <2>3 DEF LoopInv
  <2>4. ASSUME NEW p, TakeFlight(p) PROVE LoopInv'
    BY <2>1, <2>2, <2>4 DEF TakeFlight, Finished, LoopInv, DtlsData, DtlsControl, Backends
  <2>5. ASSUME NEW p, TakeOther(p) PROVE LoopInv'
    BY <2>1, <2>2, <2>5 DEF TakeOther, LoopInv
  <2>6. ASSUME NEW p, NEW recs, TakeRecords(p, recs) PROVE LoopInv'
    BY <2>1, <2>6 DEF TakeRecords, LoopInv
  <2>. QED BY <1>9, <2>3, <2>4, <2>5, <2>6 DEF RecvPacket
<1>10. CASE PostHandshake
  BY <1>10, DtlsConstants
  DEF PostHandshake, DtlsControl, DtlsCounts, DtlsData, EndInv, Reads, DtlsActive, LoopInv,
      Backends, libraryV, timerV, counterV, inV, agentV, outV, writeV, buildV
<1>11. CASE Announce
  BY <1>11, DtlsConstants
  DEF Announce, DtlsControl, DtlsCounts, DtlsData, EndInv, Reads, DtlsActive, LoopInv, Backends,
      libraryV, timerV, counterV, inV, agentV, outV, writeV, buildV
<1>12. CASE RecvFinal
  BY <1>12, DtlsConstants
  DEF RecvFinal, DtlsActive, DtlsControl, DtlsCounts, DtlsData, EndInv, Reads, DtlsActive,
      LoopInv, Backends, libraryV, timerV, counterV, inV, agentV, outV, writeV, buildV
<1>13. CASE Deadline
  BY <1>13, DtlsConstants
  DEF Deadline, DtlsControl, DtlsCounts, DtlsData, EndInv, Reads, DtlsActive, LoopInv, Backends,
      libraryV, timerV, counterV, inV, agentV, outV, writeV, buildV
<1>14. CASE TimerFires
  BY <1>14, DtlsConstants
  DEF TimerFires, Begin, DtlsActive, DtlsControl, DtlsCounts, DtlsData, EndInv, Reads, DtlsActive,
      LoopInv, Backends, libraryV, timerV, counterV, inV, agentV, outV, writeV, buildV
<1>15. CASE DtlsStart
  BY <1>15, DtlsConstants
  DEF DtlsStart, StartPush, StartPull, Enqueue, DtlsControl, DtlsCounts, DtlsData, EndInv, Reads,
      DtlsActive, LoopInv, Backends, libraryV, timerV, counterV, inV, agentV, outV, writeV, buildV
<1>16. CASE DtlsStop
  BY <1>16, DtlsConstants
  DEF DtlsStop, DtlsControl, DtlsCounts, DtlsData, EndInv, Reads, DtlsActive, LoopInv, Backends,
      libraryV, timerV, counterV, inV, agentV, outV, writeV, buildV
<1>17. CASE DtlsArrive
  BY <1>17, DtlsConstants
  DEF DtlsArrive, DtlsActive, DtlsControl, DtlsCounts, DtlsData, EndInv, Reads, DtlsActive,
      LoopInv, Backends, libraryV, timerV, counterV, inV, agentV, outV, writeV, buildV
<1>18. CASE SendMedia
  BY <1>18, DtlsConstants
  DEF SendMedia, DtlsControl, DtlsCounts, DtlsData, EndInv, Reads, DtlsActive, LoopInv, Backends,
      libraryV, timerV, counterV, inV, agentV, outV, writeV, buildV
<1>19. ASSUME NEW w \in Writers, SendRecord(w) PROVE LoopInv'
  BY <1>19, DtlsConstants
  DEF SendRecord, Outgoing, DtlsControl, DtlsCounts, DtlsData, EndInv, Reads, DtlsActive, LoopInv,
      Backends, libraryV, timerV, counterV, inV, agentV, outV, writeV, buildV
<1>20. ASSUME NEW w \in Writers, SendReturns(w) PROVE LoopInv'
  BY <1>20, DtlsConstants
  DEF SendReturns, DtlsControl, DtlsCounts, DtlsData, EndInv, Reads, DtlsActive, LoopInv,
      Backends, libraryV, timerV, counterV, inV, agentV, outV, writeV, buildV
<1>21. CASE UNCHANGED dtlsVars
  BY <1>21
  DEF dtlsVars, DtlsControl, DtlsCounts, DtlsData, EndInv, Reads, DtlsActive, LoopInv, Backends,
      libraryV, timerV, counterV, inV, agentV, outV, writeV, buildV
<1>. QED
  BY <1>1, <1>2, <1>3, <1>4, <1>5, <1>6, <1>7, <1>8, <1>9, <1>10, <1>11, <1>12, <1>13, <1>14,
      <1>15, <1>16, <1>17, <1>18, <1>19, <1>20, <1>21
  DEF DtlsNext, DtlsLibrary

(* Every step keeps records after the handshake.                              *)
LEMMA DtlsRecordsStep == DtlsControl /\ DtlsCounts /\ DtlsData /\ DtlsWaited /\ LoopInv /\ RecordsInv /\ [DtlsNext]_dtlsVars => RecordsInv'
<1>. SUFFICES ASSUME DtlsControl, DtlsCounts, DtlsData, DtlsWaited, LoopInv, RecordsInv, [DtlsNext]_dtlsVars PROVE RecordsInv'
  OBVIOUS
<1>1. CASE AgentCheck
  BY <1>1
  DEF AgentCheck, CheckCount, RecordsInv, libraryV, timerV, counterV, inV, agentV, outV, writeV,
      buildV
<1>2. CASE AgentEnqueue
  BY <1>2
  DEF AgentEnqueue, Enqueue, RecordsInv, libraryV, timerV, counterV, inV, agentV, outV, writeV,
      buildV
<1>3. CASE OwnerCheck
  BY <1>3
  DEF OwnerCheck, CheckCount, RecordsInv, libraryV, timerV, counterV, inV, agentV, outV, writeV,
      buildV
<1>4. CASE OwnerEnqueue
  BY <1>4
  DEF OwnerEnqueue, Enqueue, RecordsInv, libraryV, timerV, counterV, inV, agentV, outV, writeV,
      buildV
<1>5. CASE DtlsPush
  <2>. DEFINE recs == Numbered(packet, Len(brought))
  <2>1. missing' = missing /\ packet' = NoPacket /\ arrived' = arrived /\ arrived # 0
    BY <1>5 DEF DtlsPush, libraryV, DtlsWaited
  <2>2. recs # <<>> => missing = 0 /\ packet[1] # "media"
    <3>1. packet \in DtlsPacket /\ Len(brought) \in Nat
      BY DEF DtlsData
    <3>2. recs # <<>> => packet[1] \in {"data", "close"}
      BY <3>1, NumberedRecords
    <3>. QED BY <3>2 DEF RecordsInv
  <2>3. dQueue' = dQueue \/ dQueue' = Append(dQueue, <<packet, recs>>)
    BY <1>5, PushEffect
  <2>. HIDE DEF recs
  <2>4. \A k \in 1..Len(dQueue') : dQueue'[k][2] # <<>> => missing' = 0 /\ dQueue'[k][1][1] # "media"
    <3>1. CASE dQueue' = dQueue
      BY <2>1, <3>1 DEF RecordsInv
    <3>2. CASE dQueue' = Append(dQueue, <<packet, recs>>)
      <4>. SUFFICES ASSUME NEW k \in 1..Len(dQueue'), dQueue'[k][2] # <<>>
                    PROVE  missing' = 0 /\ dQueue'[k][1][1] # "media"
        OBVIOUS
      <4>1. CASE k \in 1..Len(dQueue)
        <5>1. dQueue'[k] = dQueue[k]
          BY <3>2, <4>1 DEF DtlsData
        <5>. QED BY <2>1, <4>1, <5>1 DEF RecordsInv
      <4>2. CASE k = Len(dQueue) + 1
        <5>1. dQueue'[k] = <<packet, recs>>
          BY <3>2, <4>2 DEF DtlsData
        <5>. QED BY <2>1, <2>2, <5>1
      <4>. QED BY <3>2, <4>1, <4>2 DEF DtlsData
    <3>. QED BY <2>3, <3>1, <3>2
  <2>5. NoPacket[1] \notin {"data", "close"}
    BY DEF NoPacket
  <2>. QED BY <2>1, <2>4, <2>5 DEF RecordsInv
<1>6. CASE JobStart
  BY <1>6
  DEF JobStart, Begin, DtlsActive, RecordsInv, libraryV, timerV, counterV, inV, agentV, outV,
      writeV, buildV
<1>7. CASE RecvEmpty
  BY <1>7
  DEF RecvEmpty, HandleTimeout, RecordsInv, libraryV, timerV, counterV, inV, agentV, outV, writeV,
      buildV
<1>8. CASE RecvReturn
  BY <1>8
  DEF RecvReturn, RecordsInv, libraryV, timerV, counterV, inV, agentV, outV, writeV, buildV
<1>9. CASE RecvPacket
  <2>1. recvPc = "loop" /\ UNCHANGED <<packet, arrived, brought>> /\ dQueue' = Tail(dQueue) /\ arrived # 0
    BY <1>9 DEF RecvPacket, DtlsWaited, agentV
  <2>2. missing = 0 => missing' = 0
    <3>1. missing = 0 => dState # "Connecting"
      BY <2>1 DEF LoopInv
    <3>. QED BY <1>9, <3>1 DEF RecvPacket, TakeFlight, TakeOther, TakeRecords
  <2>3. \A k \in 1..Len(dQueue') : k + 1 \in 1..Len(dQueue) /\ dQueue'[k] = dQueue[k + 1]
    BY <1>9, <2>1 DEF RecvPacket, DtlsData
  <2>4. \A k \in 1..Len(dQueue') : dQueue'[k][2] # <<>> => missing' = 0 /\ dQueue'[k][1][1] # "media"
    BY <2>2, <2>3 DEF RecordsInv
  <2>5. arrived' # 0 /\ (packet'[1] \in {"data", "close"} => missing' = 0)
    BY <2>1, <2>2 DEF RecordsInv
  <2>. QED BY <2>4, <2>5 DEF RecordsInv
<1>10. CASE PostHandshake
  BY <1>10
  DEF PostHandshake, RecordsInv, libraryV, timerV, counterV, inV, agentV, outV, writeV, buildV
<1>11. CASE Announce
  BY <1>11
  DEF Announce, RecordsInv, libraryV, timerV, counterV, inV, agentV, outV, writeV, buildV
<1>12. CASE RecvFinal
  BY <1>12
  DEF RecvFinal, DtlsActive, RecordsInv, libraryV, timerV, counterV, inV, agentV, outV, writeV,
      buildV
<1>13. CASE Deadline
  BY <1>13
  DEF Deadline, RecordsInv, libraryV, timerV, counterV, inV, agentV, outV, writeV, buildV
<1>14. CASE TimerFires
  BY <1>14
  DEF TimerFires, Begin, DtlsActive, RecordsInv, libraryV, timerV, counterV, inV, agentV, outV,
      writeV, buildV
<1>15. CASE DtlsStart
  BY <1>15
  DEF DtlsStart, StartPush, StartPull, Enqueue, RecordsInv, libraryV, timerV, counterV, inV,
      agentV, outV, writeV, buildV
<1>16. CASE DtlsStop
  BY <1>16
  DEF DtlsStop, RecordsInv, libraryV, timerV, counterV, inV, agentV, outV, writeV, buildV
<1>17. CASE DtlsArrive
  <2>1. packet' \in Packets /\ arrived' = arrived + 1 /\ UNCHANGED <<dQueue, missing>>
    BY <1>17 DEF DtlsArrive, libraryV, inV
  <2>2. packet'[1] \in {"data", "close"} => missing = 0
    BY <2>1 DEF Packets
  <2>. QED BY <2>1, <2>2 DEF RecordsInv, DtlsCounts
<1>18. CASE SendMedia
  BY <1>18
  DEF SendMedia, RecordsInv, libraryV, timerV, counterV, inV, agentV, outV, writeV, buildV
<1>19. ASSUME NEW w \in Writers, SendRecord(w) PROVE RecordsInv'
  BY <1>19
  DEF SendRecord, Outgoing, RecordsInv, libraryV, timerV, counterV, inV, agentV, outV, writeV,
      buildV
<1>20. ASSUME NEW w \in Writers, SendReturns(w) PROVE RecordsInv'
  BY <1>20
  DEF SendReturns, RecordsInv, libraryV, timerV, counterV, inV, agentV, outV, writeV, buildV
<1>21. CASE UNCHANGED dtlsVars
  BY <1>21
  DEF dtlsVars, RecordsInv, libraryV, timerV, counterV, inV, agentV, outV, writeV, buildV
<1>. QED
  BY <1>1, <1>2, <1>3, <1>4, <1>5, <1>6, <1>7, <1>8, <1>9, <1>10, <1>11, <1>12, <1>13, <1>14,
      <1>15, <1>16, <1>17, <1>18, <1>19, <1>20, <1>21
  DEF DtlsNext, DtlsLibrary

(* A packet that is queued comes after all records.                           *)
LEMMA OrderedAppend ==
    ASSUME NEW q \in Seq(DtlsEntry), NEW d \in Seq(DtlsRecord), NEW h \in Seq(DtlsRecord),
           NEW b \in Seq(DtlsRecord), NEW recs \in Seq(DtlsRecord), NEW p, Ordered(q, d, h, b)
    PROVE  Ordered(Append(q, <<p, recs>>), d, h, b \o recs)
<1>. DEFINE n == Len(q)
            nb == Len(b)
            nr == Len(recs)
            q2 == Append(q, <<p, recs>>)
            b2 == b \o recs
<1>1. n \in Nat /\ nb \in Nat /\ nr \in Nat /\ Len(d) \in Nat /\ Len(h) \in Nat
  OBVIOUS
<1>2. Len(q2) = n + 1 /\ Len(b2) = nb + nr
  OBVIOUS
<1>3. \A i \in 1..nb : b2[i] = b[i]
  OBVIOUS
<1>4. \A i \in 1..nr : b2[nb + i] = recs[i]
  OBVIOUS
<1>5. \A k \in 1..n : q2[k] = q[k]
  OBVIOUS
<1>6. q2[n + 1] = <<p, recs>>
  OBVIOUS
<1>7. \A k \in 1..n : Len(q[k][2]) \in Nat
  <2>. SUFFICES ASSUME NEW k \in 1..n PROVE Len(q[k][2]) \in Nat
    OBVIOUS
  <2>1. q[k] \in DtlsEntry
    OBVIOUS
  <2>. QED BY <2>1 DEF DtlsEntry
<1>8. PICK f : Offsets(f, q, d, h, b)
  BY DEF Ordered
<1>9. /\ f \in [1..(n + 1) -> Nat] /\ f[1] = Len(d) + Len(h) /\ f[n + 1] = nb
      /\ \A k \in 1..(n + 1) : f[k] <= nb
      /\ \A k \in 1..n : f[k + 1] = f[k] + Len(q[k][2])
      /\ \A k \in 1..n : \A i \in 1..Len(q[k][2]) : q[k][2][i] = b[f[k] + i]
      /\ \A i \in 1..Len(h) : h[i] = b[Len(d) + i]
  BY <1>8 DEF Offsets
<1>. DEFINE g == [k \in 1..(n + 2) |-> IF k = n + 2 THEN nb + nr ELSE f[k]]
<1>. HIDE DEF n, nb, nr, q2, b2
<1>10. /\ g \in [1..(n + 2) -> Nat] /\ g[n + 2] = nb + nr
       /\ \A k \in 1..(n + 1) : g[k] = f[k] /\ g[k] \in Nat
  BY <1>1, <1>9
<1>. HIDE DEF g
<1>11. 1 \in 1..(n + 1) /\ n + 1 \in 1..(n + 1)
  BY <1>1
<1>12. g[1] = Len(d) + Len(h) /\ g[n + 1] = nb
  BY <1>9, <1>10, <1>11
<1>13. \A k \in 1..(n + 2) : g[k] <= nb + nr
  <2>. SUFFICES ASSUME NEW k \in 1..(n + 2) PROVE g[k] <= nb + nr
    OBVIOUS
  <2>1. CASE k = n + 2
    BY <1>1, <1>10, <2>1
  <2>2. CASE k \in 1..(n + 1)
    <3>1. g[k] \in Nat /\ g[k] <= nb
      BY <1>9, <1>10, <2>2
    <3>. QED BY <1>1, <3>1
  <2>. QED BY <1>1, <2>1, <2>2
<1>14. ASSUME NEW k \in 1..(n + 1)
       PROVE  g[k + 1] = g[k] + Len(q2[k][2]) /\ \A i \in 1..Len(q2[k][2]) : q2[k][2][i] = b2[g[k] + i]
  <2>1. CASE k \in 1..n
    <3>1. k \in 1..(n + 1) /\ k + 1 \in 1..(n + 1)
      BY <1>1, <2>1
    <3>2. g[k] = f[k] /\ g[k + 1] = f[k + 1] /\ f[k] \in Nat /\ f[k + 1] <= nb
      BY <1>9, <1>10, <3>1
    <3>3. q2[k] = q[k] /\ Len(q[k][2]) \in Nat /\ f[k + 1] = f[k] + Len(q[k][2])
      BY <1>5, <1>7, <1>9, <2>1
    <3>4. ASSUME NEW i \in 1..Len(q[k][2]) PROVE q[k][2][i] = b2[f[k] + i]
      <4>. DEFINE m == Len(q[k][2])
                  x == f[k]
                  y == f[k + 1]
      <4>1. f[k] + i \in 1..nb
        <5>1. m \in Nat /\ x \in Nat /\ y = x + m /\ y <= nb /\ nb \in Nat /\ i \in 1..m
          BY <1>1, <3>2, <3>3
        <5>. HIDE DEF m, x, y
        <5>2. x + i \in 1..nb
          BY <5>1
        <5>. QED BY <5>2 DEF x
      <4>2. q[k][2][i] = b[f[k] + i]
        BY <1>9, <2>1
      <4>. QED BY <1>3, <4>1, <4>2
    <3>. QED BY <3>2, <3>3, <3>4
  <2>2. CASE k = n + 1
    <3>1. q2[k][2] = recs /\ Len(q2[k][2]) = nr
      BY <1>6, <2>2 DEF nr
    <3>2. g[k] = nb /\ g[k + 1] = nb + nr
      <4>1. k + 1 = n + 2
        BY <1>1, <2>2
      <4>. QED BY <1>10, <1>12, <2>2, <4>1
    <3>. QED BY <1>4, <3>1, <3>2
  <2>. QED BY <1>1, <2>1, <2>2
<1>15. \A i \in 1..Len(h) : h[i] = b2[Len(d) + i]
  <2>. SUFFICES ASSUME NEW i \in 1..Len(h) PROVE h[i] = b2[Len(d) + i]
    OBVIOUS
  <2>1. Len(d) + Len(h) <= nb
    BY <1>9, <1>11
  <2>2. Len(d) + i \in 1..nb
    BY <1>1, <2>1
  <2>. QED BY <1>3, <1>9, <2>2
<1>16. Offsets(g, q2, d, h, b2)
  <2>1. Len(q2) + 1 = n + 2
    BY <1>1, <1>2
  <2>. QED BY <1>2, <1>10, <1>12, <1>13, <1>14, <1>15, <2>1 DEF Offsets
<1>17. Ordered(q2, d, h, b2)
  BY <1>16 DEF Ordered
<1>. QED BY <1>17 DEF q2, b2

(* What begins a sequence begins a longer one.                                *)
LEMMA BeginsAppend ==
    ASSUME NEW d \in Seq(DtlsRecord), NEW b \in Seq(DtlsRecord), NEW recs \in Seq(DtlsRecord), Begins(d, b)
    PROVE  Begins(d, b \o recs)
<1>1. Len(d) \in Nat /\ Len(b) \in Nat /\ Len(recs) \in Nat /\ Len(b \o recs) = Len(b) + Len(recs)
  OBVIOUS
<1>2. \A i \in 1..Len(b) : (b \o recs)[i] = b[i]
  OBVIOUS
<1>. QED BY <1>1, <1>2 DEF Begins

Splits(read, left, all) ==
    /\ Len(read) + Len(left) = Len(all)
    /\ \A i \in 1..Len(read) : read[i] = all[i]
    /\ \A i \in 1..Len(left) : left[i] = all[Len(read) + i]

(* The next packet is taken: with the records the library had, its records    *)
(* are the next ones.  Some of them are read, the others held.                *)
LEMMA OrderedTail ==
    ASSUME NEW q \in Seq(DtlsEntry), NEW d \in Seq(DtlsRecord), NEW h \in Seq(DtlsRecord),
           NEW b \in Seq(DtlsRecord), q # <<>>, Begins(d, b), Ordered(q, d, h, b),
           NEW read \in Seq(DtlsRecord), NEW left \in Seq(DtlsRecord), Splits(read, left, h \o Head(q)[2])
    PROVE  Begins(d \o read, b) /\ Ordered(Tail(q), d \o read, left, b)
<1>. DEFINE n == Len(q)
            r == Head(q)[2]
            q2 == Tail(q)
            d2 == d \o read
            all == h \o r
<1>1. n \in Nat \ {0} /\ Len(q2) = n - 1 /\ \A k \in 1..(n - 1) : q2[k] = q[k + 1]
  OBVIOUS
<1>2. r = q[1][2] /\ r \in Seq(DtlsRecord)
  <2>1. Head(q) = q[1] /\ q[1] \in DtlsEntry
    OBVIOUS
  <2>. QED BY <2>1 DEF DtlsEntry
<1>3. /\ Len(r) \in Nat /\ Len(h) \in Nat /\ Len(d) \in Nat /\ Len(b) \in Nat
      /\ Len(read) \in Nat /\ Len(left) \in Nat
  BY <1>2
<1>. HIDE DEF r
<1>23. /\ Len(read) + Len(left) = Len(all)
       /\ \A i \in 1..Len(read) : read[i] = all[i]
       /\ \A i \in 1..Len(left) : left[i] = all[Len(read) + i]
  BY DEF Splits, r
<1>4. Len(all) = Len(h) + Len(r)
  BY <1>2
<1>5. \A i \in 1..Len(h) : all[i] = h[i]
  BY <1>2
<1>6. \A i \in 1..Len(r) : all[Len(h) + i] = r[i]
  BY <1>2
<1>7. Len(d2) = Len(d) + Len(read) /\ \A i \in 1..Len(d) : d2[i] = d[i]
  OBVIOUS
<1>8. \A i \in 1..Len(read) : d2[Len(d) + i] = read[i]
  OBVIOUS
<1>9. PICK f : Offsets(f, q, d, h, b)
  BY DEF Ordered
<1>10. /\ f \in [1..(n + 1) -> Nat] /\ f[1] = Len(d) + Len(h) /\ f[n + 1] = Len(b)
       /\ \A k \in 1..(n + 1) : f[k] <= Len(b)
       /\ \A k \in 1..n : f[k + 1] = f[k] + Len(q[k][2])
       /\ \A k \in 1..n : \A i \in 1..Len(q[k][2]) : q[k][2][i] = b[f[k] + i]
       /\ \A i \in 1..Len(h) : h[i] = b[Len(d) + i]
  BY <1>9 DEF Offsets
<1>. HIDE DEF n, q2, d2, all
<1>11. 1 \in 1..n /\ 1 \in 1..(n + 1) /\ 1 + 1 = 2 /\ 2 \in 1..(n + 1)
  BY <1>1
<1>12. f[2] = f[1] + Len(r)
  BY <1>2, <1>10, <1>11
<1>13. \A i \in 1..Len(r) : r[i] = b[f[1] + i]
  BY <1>2, <1>10, <1>11
<1>14. f[2] <= Len(b) /\ f[2] = Len(d2) + Len(left)
  <2>1. f[2] <= Len(b)
    BY <1>10, <1>11
  <2>2. f[2] = Len(d) + Len(h) + Len(r)
    BY <1>10, <1>12
  <2>3. Len(d2) = Len(d) + Len(read)
    BY <1>7
  <2>4. Len(read) + Len(left) = Len(h) + Len(r)
    BY <1>4, <1>23
  <2>5. Len(d) + Len(h) + Len(r) = (Len(d) + Len(read)) + Len(left)
    <3>. DEFINE u == Len(d)
                v == Len(h)
                w == Len(r)
                x == Len(read)
                y == Len(left)
    <3>1. u \in Nat /\ v \in Nat /\ w \in Nat /\ x \in Nat /\ y \in Nat
      BY <1>3
    <3>2. x + y = v + w
      BY <2>4
    <3>. HIDE DEF u, v, w, x, y
    <3>3. u + v + w = (u + x) + y
      BY <3>1, <3>2
    <3>. QED BY <3>3 DEF u, v, w, x, y
  <2>. QED BY <2>1, <2>2, <2>3, <2>5
<1>15. \A i \in 1..Len(all) : all[i] = b[Len(d) + i]
  <2>. SUFFICES ASSUME NEW i \in 1..Len(all) PROVE all[i] = b[Len(d) + i]
    OBVIOUS
  <2>1. CASE i <= Len(h)
    <3>1. i \in 1..Len(h)
      BY <1>3, <1>4, <2>1
    <3>. QED BY <1>5, <1>10, <3>1
  <2>2. CASE i > Len(h)
    <3>1. i - Len(h) \in 1..Len(r) /\ i = Len(h) + (i - Len(h))
      BY <1>3, <1>4, <2>2
    <3>2. all[i] = r[i - Len(h)]
      BY <1>6, <3>1
    <3>3. r[i - Len(h)] = b[f[1] + (i - Len(h))]
      BY <1>13, <3>1
    <3>4. f[1] + (i - Len(h)) = Len(d) + i
      BY <1>3, <1>4, <1>10
    <3>. QED BY <3>2, <3>3, <3>4
  <2>. QED BY <1>3, <1>4, <2>1, <2>2
<1>16. Begins(d2, b)
  <2>1. Len(d2) <= Len(b)
    BY <1>3, <1>7, <1>14
  <2>2. ASSUME NEW i \in 1..Len(d2) PROVE d2[i] = b[i]
    <3>1. CASE i <= Len(d)
      <4>1. i \in 1..Len(d)
        BY <1>3, <1>7, <3>1
      <4>. QED BY <1>7, <4>1 DEF Begins
    <3>2. CASE i > Len(d)
      <4>. DEFINE j == i - Len(d)
      <4>1. j \in 1..Len(read) /\ j \in 1..Len(all) /\ Len(d) + j = i
        BY <1>3, <1>4, <1>7, <1>23, <3>2
      <4>. HIDE DEF j
      <4>2. d2[Len(d) + j] = read[j] /\ read[j] = all[j] /\ all[j] = b[Len(d) + j]
        BY <1>8, <1>15, <1>23, <4>1
      <4>. QED BY <4>1, <4>2
    <3>. QED BY <1>3, <1>7, <3>1, <3>2
  <2>. QED BY <2>1, <2>2 DEF Begins
<1>17. \A i \in 1..Len(left) : left[i] = b[Len(d2) + i]
  <2>. SUFFICES ASSUME NEW i \in 1..Len(left) PROVE left[i] = b[Len(d2) + i]
    OBVIOUS
  <2>1. Len(read) + i \in 1..Len(all) /\ Len(d) + (Len(read) + i) = Len(d2) + i
    BY <1>3, <1>7, <1>23
  <2>2. left[i] = all[Len(read) + i] /\ all[Len(read) + i] = b[Len(d) + (Len(read) + i)]
    BY <1>15, <1>23, <2>1
  <2>. QED BY <2>1, <2>2
<1>. DEFINE g == [k \in 1..n |-> f[k + 1]]
<1>18. \A k \in 1..n : k + 1 \in 1..(n + 1)
  BY <1>1
<1>19. g \in [1..n -> Nat] /\ \A k \in 1..n : g[k] = f[k + 1] /\ g[k] <= Len(b)
  BY <1>10, <1>18
<1>. HIDE DEF g
<1>20. g[1] = Len(d2) + Len(left) /\ g[n] = Len(b)
  <2>1. 1 \in 1..n /\ n \in 1..n
    BY <1>1
  <2>. QED BY <1>10, <1>11, <1>14, <1>19, <2>1
<1>21. ASSUME NEW k \in 1..(n - 1)
       PROVE  g[k + 1] = g[k] + Len(q2[k][2]) /\ \A i \in 1..Len(q2[k][2]) : q2[k][2][i] = b[g[k] + i]
  <2>1. k \in 1..n /\ k + 1 \in 1..n /\ q2[k] = q[k + 1]
    BY <1>1
  <2>2. g[k] = f[k + 1] /\ g[k + 1] = f[(k + 1) + 1]
    BY <1>19, <2>1
  <2>3. f[(k + 1) + 1] = f[k + 1] + Len(q[k + 1][2])
    BY <1>10, <2>1
  <2>4. \A i \in 1..Len(q[k + 1][2]) : q[k + 1][2][i] = b[f[k + 1] + i]
    BY <1>10, <2>1
  <2>. QED BY <2>1, <2>2, <2>3, <2>4
<1>22. Offsets(g, q2, d2, left, b)
  <2>1. Len(q2) + 1 = n /\ Len(q2) = n - 1
    BY <1>1
  <2>. QED BY <1>17, <1>19, <1>20, <1>21, <2>1 DEF Offsets
<1>. QED BY <1>16, <1>22 DEF Ordered, q2, d2

(* Where there is nothing the order is right.                                 *)
LEMMA OrderedNothing == Begins(<<>>, <<>>) /\ Ordered(<<>>, <<>>, <<>>, <<>>)
<1>. DEFINE g == [k \in 1..1 |-> 0]
<1>1. Offsets(g, <<>>, <<>>, <<>>, <<>>)
  BY DEF Offsets
<1>2. Begins(<<>>, <<>>)
  BY DEF Begins
<1>. QED BY <1>1, <1>2 DEF Ordered

(* A step that moves no record keeps their order.                             *)
LEMMA OrderSame ==
    ASSUME OrderInv, UNCHANGED <<dQueue, delivered, held, brought>>, Delivering' => Delivering
    PROVE  OrderInv'
BY DEF OrderInv

(* Every step keeps the order of the records.                                 *)
LEMMA DtlsOrderStep == DtlsControl /\ DtlsCounts /\ DtlsData /\ EndInv /\ DtlsWaited /\ LoopInv /\ RecordsInv /\ OrderInv /\ [DtlsNext]_dtlsVars => OrderInv'
<1>. SUFFICES ASSUME DtlsControl, DtlsCounts, DtlsData, EndInv, DtlsWaited, LoopInv, RecordsInv, OrderInv, [DtlsNext]_dtlsVars PROVE OrderInv'
  OBVIOUS
<1>1. CASE AgentCheck
  <2>1. UNCHANGED <<dQueue, delivered, held, brought>>
    BY <1>1 DEF AgentCheck, CheckCount, libraryV, timerV, counterV, inV, agentV, outV, writeV, buildV
  <2>2. Delivering' => Delivering
    BY <1>1 DEF AgentCheck, CheckCount, Delivering, DtlsActive, EndInv, Reads, libraryV, timerV, counterV, inV, agentV, outV, writeV, buildV
  <2>. QED BY <2>1, <2>2, OrderSame
<1>2. CASE AgentEnqueue
  <2>1. UNCHANGED <<dQueue, delivered, held, brought>>
    BY <1>2 DEF AgentEnqueue, Enqueue, libraryV, timerV, counterV, inV, agentV, outV, writeV, buildV
  <2>2. Delivering' => Delivering
    BY <1>2 DEF AgentEnqueue, Enqueue, Delivering, DtlsActive, EndInv, Reads, libraryV, timerV, counterV, inV, agentV, outV, writeV, buildV
  <2>. QED BY <2>1, <2>2, OrderSame
<1>3. CASE OwnerCheck
  <2>1. UNCHANGED <<dQueue, delivered, held, brought>>
    BY <1>3 DEF OwnerCheck, CheckCount, libraryV, timerV, counterV, inV, agentV, outV, writeV, buildV
  <2>2. Delivering' => Delivering
    BY <1>3 DEF OwnerCheck, CheckCount, Delivering, DtlsActive, EndInv, Reads, libraryV, timerV, counterV, inV, agentV, outV, writeV, buildV
  <2>. QED BY <2>1, <2>2, OrderSame
<1>4. CASE OwnerEnqueue
  <2>1. UNCHANGED <<dQueue, delivered, held, brought>>
    BY <1>4 DEF OwnerEnqueue, Enqueue, libraryV, timerV, counterV, inV, agentV, outV, writeV, buildV
  <2>2. Delivering' => Delivering
    BY <1>4 DEF OwnerEnqueue, Enqueue, Delivering, DtlsActive, EndInv, Reads, libraryV, timerV, counterV, inV, agentV, outV, writeV, buildV
  <2>. QED BY <2>1, <2>2, OrderSame
<1>5. CASE DtlsPush
  <2>. DEFINE recs == Numbered(packet, Len(brought))
  <2>1. UNCHANGED <<delivered, held, dState, recvPc>>
    BY <1>5 DEF DtlsPush, libraryV, outV
  <2>2. Delivering' = Delivering
    BY <2>1 DEF Delivering, DtlsActive
  <2>3. CASE dQueue' = dQueue /\ brought' = brought
    BY <2>1, <2>2, <2>3, OrderSame
  <2>4. CASE dQueue' = Append(dQueue, <<packet, recs>>) /\ brought' = brought \o recs
    <3>1. recs \in Seq(DtlsRecord)
      BY NumberedRecords DEF DtlsData
    <3>. HIDE DEF recs
    <3>2. Begins(delivered, brought \o recs)
      BY <3>1, BeginsAppend DEF DtlsData, OrderInv
    <3>3. Delivering => Ordered(Append(dQueue, <<packet, recs>>), delivered, held, brought \o recs)
      BY <3>1, OrderedAppend DEF DtlsData, OrderInv
    <3>. QED BY <2>1, <2>2, <2>4, <3>2, <3>3 DEF OrderInv
  <2>. QED BY <1>5, <2>3, <2>4, PushEffect
<1>6. CASE JobStart
  <2>1. UNCHANGED <<dQueue, delivered, held, brought>>
    BY <1>6 DEF JobStart, Begin, DtlsActive, libraryV, timerV, counterV, inV, agentV, outV, writeV, buildV
  <2>2. Delivering' => Delivering
    BY <1>6 DEF JobStart, Begin, Delivering, DtlsActive, EndInv, Reads, libraryV, timerV, counterV, inV, agentV, outV, writeV, buildV
  <2>. QED BY <2>1, <2>2, OrderSame
<1>7. CASE RecvEmpty
  <2>1. UNCHANGED <<dQueue, delivered, held, brought>>
    BY <1>7 DEF RecvEmpty, HandleTimeout, libraryV, timerV, counterV, inV, agentV, outV, writeV, buildV
  <2>2. Delivering' => Delivering
    BY <1>7 DEF RecvEmpty, HandleTimeout, Delivering, DtlsActive, EndInv, Reads, libraryV, timerV, counterV, inV, agentV, outV, writeV, buildV
  <2>. QED BY <2>1, <2>2, OrderSame
<1>8. CASE RecvReturn
  <2>1. UNCHANGED <<dQueue, delivered, held, brought>>
    BY <1>8 DEF RecvReturn, libraryV, timerV, counterV, inV, agentV, outV, writeV, buildV
  <2>2. Delivering' => Delivering
    BY <1>8 DEF RecvReturn, Delivering, DtlsActive, EndInv, Reads, libraryV, timerV, counterV, inV, agentV, outV, writeV, buildV
  <2>. QED BY <2>1, <2>2, OrderSame
<1>9. CASE RecvPacket
  <2>. DEFINE r == Head(dQueue)[2]
              all == held \o r
  <2>1. /\ recvPc = "loop" /\ dQueue # <<>> /\ dQueue' = Tail(dQueue) /\ dState' = dState /\ brought' = brought
    BY <1>9 DEF RecvPacket, agentV
  <2>2. DtlsActive /\ Delivering /\ Ordered(dQueue, delivered, held, brought)
    BY <2>1 DEF EndInv, Reads, Delivering, OrderInv
  <2>3. Head(dQueue) = dQueue[1] /\ 1 \in 1..Len(dQueue) /\ dQueue[1] \in DtlsEntry
    BY <2>1 DEF DtlsData
  <2>4. r \in Seq(DtlsRecord) /\ all \in Seq(DtlsRecord)
    BY <2>3 DEF DtlsEntry, DtlsData
  <2>9. /\ dQueue \in Seq(DtlsEntry) /\ delivered \in Seq(DtlsRecord) /\ held \in Seq(DtlsRecord)
        /\ brought \in Seq(DtlsRecord) /\ Begins(delivered, brought)
    BY DEF DtlsData, OrderInv
  <2>5. CASE r = <<>> /\ UNCHANGED <<held, delivered>>
    <3>1. delivered \o <<>> = delivered /\ <<>> \in Seq(DtlsRecord)
      BY DEF DtlsData
    <3>2. Splits(<<>>, held, all)
      <4>1. all = held /\ Len(<<>>) = 0 /\ Len(held) \in Nat
        BY <2>5 DEF DtlsData
      <4>. QED BY <4>1 DEF Splits
    <3>3. Begins(delivered \o <<>>, brought) /\ Ordered(Tail(dQueue), delivered \o <<>>, held, brought)
      BY <2>1, <2>2, <2>9, <3>1, <3>2, OrderedTail
    <3>. QED BY <2>1, <2>5, <3>1, <3>3 DEF OrderInv
  <2>6. CASE Demux(Head(dQueue)[1])
    <3>1. r = <<>>
      BY <2>3, <2>6 DEF RecordsInv, Demux
    <3>. QED BY <1>9, <2>5, <2>6, <3>1 DEF RecvPacket
  <2>7. ASSUME NEW p, TakeFlight(p) \/ TakeOther(p) PROVE OrderInv'
    <3>1. UNCHANGED <<held, delivered>> /\ dState = "Connecting"
      BY <2>7 DEF TakeFlight, TakeOther
    <3>2. missing > 0
      BY <2>1, <3>1 DEF LoopInv
    <3>3. r = <<>>
      BY <2>3, <3>2 DEF RecordsInv, DtlsData
    <3>. QED BY <2>5, <3>1, <3>3
  <2>8. ASSUME NEW p, TakeRecords(p, all) PROVE OrderInv'
    <3>. HIDE DEF all
    <3>1. /\ held' = Unread(all)
          /\ (delivered' = delivered /\ recvPc' = "final") \/ delivered' = delivered \o Readable(all)
      BY <2>8 DEF TakeRecords, Readable
    <3>2. CASE delivered' = delivered /\ recvPc' = "final"
      BY <2>1, <3>2 DEF OrderInv, Delivering
    <3>3. CASE delivered' = delivered \o Readable(all)
      <4>1. Splits(Readable(all), Unread(all), held \o Head(dQueue)[2])
        BY <2>4, ReadAndUnread DEF all, Splits
      <4>2. Readable(all) \in Seq(DtlsRecord) /\ Unread(all) \in Seq(DtlsRecord)
        BY <2>4, ReadAndUnread
      <4>3. Begins(delivered \o Readable(all), brought)
            /\ Ordered(Tail(dQueue), delivered \o Readable(all), Unread(all), brought)
        BY <2>1, <2>2, <2>9, <4>1, <4>2, OrderedTail
      <4>. QED BY <2>1, <3>1, <3>3, <4>3 DEF OrderInv
    <3>. QED BY <3>1, <3>2, <3>3
  <2>. QED BY <1>9, <2>6, <2>7, <2>8 DEF RecvPacket
<1>10. CASE PostHandshake
  <2>1. UNCHANGED <<dQueue, delivered, held, brought>>
    BY <1>10 DEF PostHandshake, libraryV, timerV, counterV, inV, agentV, outV, writeV, buildV
  <2>2. Delivering' => Delivering
    BY <1>10 DEF PostHandshake, Delivering, DtlsActive, EndInv, Reads, libraryV, timerV, counterV, inV, agentV, outV, writeV, buildV
  <2>. QED BY <2>1, <2>2, OrderSame
<1>11. CASE Announce
  <2>1. UNCHANGED <<dQueue, delivered, held, brought>>
    BY <1>11 DEF Announce, libraryV, timerV, counterV, inV, agentV, outV, writeV, buildV
  <2>2. Delivering' => Delivering
    BY <1>11 DEF Announce, Delivering, DtlsActive, EndInv, Reads, libraryV, timerV, counterV, inV, agentV, outV, writeV, buildV
  <2>. QED BY <2>1, <2>2, OrderSame
<1>12. CASE RecvFinal
  <2>1. UNCHANGED <<dQueue, delivered, held, brought>>
    BY <1>12 DEF RecvFinal, DtlsActive, libraryV, timerV, counterV, inV, agentV, outV, writeV, buildV
  <2>2. Delivering' => Delivering
    BY <1>12 DEF RecvFinal, Delivering, DtlsActive, EndInv, Reads, libraryV, timerV, counterV, inV, agentV, outV, writeV, buildV
  <2>. QED BY <2>1, <2>2, OrderSame
<1>13. CASE Deadline
  <2>1. UNCHANGED <<dQueue, delivered, held, brought>>
    BY <1>13 DEF Deadline, libraryV, timerV, counterV, inV, agentV, outV, writeV, buildV
  <2>2. Delivering' => Delivering
    BY <1>13 DEF Deadline, Delivering, DtlsActive, EndInv, Reads, libraryV, timerV, counterV, inV, agentV, outV, writeV, buildV
  <2>. QED BY <2>1, <2>2, OrderSame
<1>14. CASE TimerFires
  <2>1. UNCHANGED <<dQueue, delivered, held, brought>>
    BY <1>14 DEF TimerFires, Begin, DtlsActive, libraryV, timerV, counterV, inV, agentV, outV, writeV, buildV
  <2>2. Delivering' => Delivering
    BY <1>14 DEF TimerFires, Begin, Delivering, DtlsActive, EndInv, Reads, libraryV, timerV, counterV, inV, agentV, outV, writeV, buildV
  <2>. QED BY <2>1, <2>2, OrderSame
<1>15. CASE DtlsStart
  <2>1. arrived = 0 /\ UNCHANGED <<dQueue, delivered, held, brought>>
    BY <1>15 DEF DtlsStart, inV, agentV, outV, libraryV
  <2>2. dQueue = <<>> /\ delivered = <<>> /\ held = <<>> /\ brought = <<>>
    BY <2>1 DEF DtlsWaited, RecordsInv
  <2>. QED BY <2>1, <2>2, OrderedNothing DEF OrderInv
<1>16. CASE DtlsStop
  <2>1. UNCHANGED <<dQueue, delivered, held, brought>>
    BY <1>16 DEF DtlsStop, libraryV, timerV, counterV, inV, agentV, outV, writeV, buildV
  <2>2. Delivering' => Delivering
    BY <1>16 DEF DtlsStop, Delivering, DtlsActive, EndInv, Reads, libraryV, timerV, counterV, inV, agentV, outV, writeV, buildV
  <2>. QED BY <2>1, <2>2, OrderSame
<1>17. CASE DtlsArrive
  <2>1. UNCHANGED <<dQueue, delivered, held, brought>>
    BY <1>17 DEF DtlsArrive, DtlsActive, libraryV, timerV, counterV, inV, agentV, outV, writeV, buildV
  <2>2. Delivering' => Delivering
    BY <1>17 DEF DtlsArrive, Delivering, DtlsActive, EndInv, Reads, libraryV, timerV, counterV, inV, agentV, outV, writeV, buildV
  <2>. QED BY <2>1, <2>2, OrderSame
<1>18. CASE SendMedia
  <2>1. UNCHANGED <<dQueue, delivered, held, brought>>
    BY <1>18 DEF SendMedia, libraryV, timerV, counterV, inV, agentV, outV, writeV, buildV
  <2>2. Delivering' => Delivering
    BY <1>18 DEF SendMedia, Delivering, DtlsActive, EndInv, Reads, libraryV, timerV, counterV, inV, agentV, outV, writeV, buildV
  <2>. QED BY <2>1, <2>2, OrderSame
<1>19. ASSUME NEW w \in Writers, SendRecord(w) PROVE OrderInv'
  <2>1. UNCHANGED <<dQueue, delivered, held, brought>>
    BY <1>19 DEF SendRecord, Outgoing, libraryV, timerV, counterV, inV, agentV, outV, writeV, buildV
  <2>2. Delivering' => Delivering
    BY <1>19 DEF SendRecord, Outgoing, Delivering, DtlsActive, EndInv, Reads, libraryV, timerV, counterV, inV, agentV, outV, writeV, buildV
  <2>. QED BY <2>1, <2>2, OrderSame
<1>20. ASSUME NEW w \in Writers, SendReturns(w) PROVE OrderInv'
  <2>1. UNCHANGED <<dQueue, delivered, held, brought>>
    BY <1>20 DEF SendReturns, libraryV, timerV, counterV, inV, agentV, outV, writeV, buildV
  <2>2. Delivering' => Delivering
    BY <1>20 DEF SendReturns, Delivering, DtlsActive, EndInv, Reads, libraryV, timerV, counterV, inV, agentV, outV, writeV, buildV
  <2>. QED BY <2>1, <2>2, OrderSame
<1>21. CASE UNCHANGED dtlsVars
  BY <1>21, OrderSame
  DEF dtlsVars, OrderInv, Delivering, DtlsActive, libraryV, timerV, counterV, inV, agentV, outV,
      writeV, buildV
<1>. QED
  BY <1>1, <1>2, <1>3, <1>4, <1>5, <1>6, <1>7, <1>8, <1>9, <1>10, <1>11, <1>12, <1>13, <1>14,
      <1>15, <1>16, <1>17, <1>18, <1>19, <1>20, <1>21
  DEF DtlsNext, DtlsLibrary

(* The inductive invariant.                                                   *)
DtlsIInv ==
    /\ DtlsControl /\ DtlsCounts /\ EndInv /\ DtlsWaited /\ KeysInv /\ ResultInv
    /\ DtlsData /\ LoopInv /\ RecordsInv /\ OrderInv

LEMMA DtlsInitInv == DtlsInit => DtlsIInv
<1>. SUFFICES ASSUME DtlsInit PROVE DtlsIInv
  OBVIOUS
<1>1. DtlsControl /\ DtlsCounts /\ EndInv /\ DtlsWaited /\ KeysInv
  <2>1. DtlsControl /\ KeysInv
    BY DEF DtlsInit, DtlsControl, KeysInv, KeysBeforeConnected, Backends
  <2>2. DtlsCounts
    BY DEF DtlsInit, DtlsCounts
  <2>3. EndInv /\ DtlsWaited
    BY DEF DtlsInit, EndInv, Reads, DtlsWaited, DtlsActive
  <2>. QED BY <2>1, <2>2, <2>3
<1>2. ResultInv
  <2>1. \A w \in Writers : writer[w] = Resting
    BY DEF DtlsInit
  <2>2. Resting \in {"idle", "return"} \X BOOLEAN \X BOOLEAN
    BY DEF Resting
  <2>. QED BY <2>1, <2>2 DEF DtlsInit, ResultInv, OwnResult
<1>3. DtlsData
  <2>1. NoPacket \in DtlsPacket
    BY DEF NoPacket, DtlsPacket
  <2>. QED BY <2>1, DtlsConstants DEF DtlsInit, DtlsData
<1>4. LoopInv
  BY DtlsConstants DEF DtlsInit, LoopInv
<1>5. RecordsInv
  BY DEF DtlsInit, RecordsInv, NoPacket
<1>6. OrderInv
  BY OrderedNothing DEF DtlsInit, OrderInv
<1>. QED BY <1>1, <1>2, <1>3, <1>4, <1>5, <1>6 DEF DtlsIInv

(* The DTLS transport, whichever library it is built with: at rest no packet  *)
(* waits, records are delivered in order and once, the end is signalled once, *)
(* with OpenSSL the keys come before Connected, and a send() that nobody      *)
(* crosses returns its own result.                                            *)
THEOREM DtlsCorrect == DtlsSpec => []DtlsInv
<1>1. DtlsIInv /\ [DtlsNext]_dtlsVars => DtlsIInv'
  BY DtlsControlStep, DtlsCountsStep, DtlsEndStep, DtlsWaitedStep, DtlsKeysStep, DtlsResultStep,
     DtlsDataStep, DtlsLoopStep, DtlsRecordsStep, DtlsOrderStep
  DEF DtlsIInv
<1>2. DtlsIInv => DtlsInv
  <2>. SUFFICES ASSUME DtlsIInv PROVE DtlsInv
    OBVIOUS
  <2>1. DtlsNoneWaiting
    BY DEF DtlsIInv, DtlsControl, DtlsCounts, DtlsWaited, DtlsNoneWaiting, Reads, Backends
  <2>2. IsPrefix(delivered, brought)
    <3>1. delivered \in Seq(DtlsRecord) /\ brought \in Seq(DtlsRecord) /\ Begins(delivered, brought)
      BY DEF DtlsIInv, DtlsData, OrderInv
    <3>2. Len(delivered) \in Nat /\ Len(brought) \in Nat /\ Len(delivered) <= Len(brought)
      BY <3>1 DEF Begins
    <3>3. delivered = SubSeq(brought, 1, Len(delivered))
      <4>1. SubSeq(brought, 1, Len(delivered)) \in Seq(DtlsRecord) /\ Len(SubSeq(brought, 1, Len(delivered))) = Len(delivered)
            /\ \A i \in 1..Len(delivered) : SubSeq(brought, 1, Len(delivered))[i] = brought[i]
        BY <3>1, <3>2
      <4>. DEFINE s == SubSeq(brought, 1, Len(delivered))
      <4>. HIDE DEF s
      <4>2. \A i \in 1..Len(delivered) : delivered[i] = s[i]
        BY <3>1, <4>1 DEF Begins, s
      <4>3. s \in Seq(DtlsRecord) /\ Len(s) = Len(delivered)
        BY <4>1 DEF s
      <4>4. delivered = s
        BY <3>1, <4>2, <4>3, SeqEqual
      <4>. QED BY <4>4 DEF s
    <3>. QED BY <3>2, <3>3 DEF IsPrefix
  <2>3. RecordsInOrder /\ KeysBeforeConnected /\ OwnResult
    BY <2>2 DEF DtlsIInv, EndInv, KeysInv, ResultInv, RecordsInOrder
  <2>. QED BY <2>1, <2>3 DEF DtlsInv
<1>. QED BY <1>1, <1>2, DtlsInitInv, PTL DEF DtlsSpec
=============================================================================
