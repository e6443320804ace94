---------------------------- MODULE StreamsProofs ----------------------------
(* The streams of the library.  A TLS transport, for any number of flights,    *)
(* records and places in the queue and for the three builds: which job takes   *)
(* what is queued, in which order and how often records and the end of the     *)
(* stream are given to the transport above.  Then a WebSocket and a server,    *)
(* for any number of calls, connections and callers of stop().                 *)
EXTENDS TlsTransport, MCWebSocket, TLAPS

(* What is queued: a flight, a record with its number, an empty message of an  *)
(* idle socket, or one of the two ends.                                        *)
Ends == {"close", "bad"}
TlsItem == ({"flight", "idle", "close", "bad"} \X {0}) \cup ({"data"} \X (Nat \ {0}))
RecvSteps == {"idle", "loop", "return", "answer", "stuck", "final"}

TlsFlags ==
    /\ backend \in Backends /\ tlsState \in {"Disconnected", "Connecting", "Connected", "Failed"}
    /\ stopping \in BOOLEAN /\ registered \in BOOLEAN /\ wasConnected \in BOOLEAN
    /\ recvPc \in RecvSteps /\ poller \in {"idle", "push", "check", "enqueue"}
    /\ owner \in {"idle", "check", "enqueue", "done"}
    /\ peerEnd \in {"open", "close", "bad", "eof"}
    /\ jobs \in Nat /\ pending \in Nat /\ peerSent \in Nat /\ ended \in Nat
TlsData ==
    /\ queue \in Seq(TlsItem) /\ brought \in Seq(TlsItem) /\ delivered \in Seq(TlsItem)
    /\ poller = "push" => item \in TlsItem
TlsTypes == TlsFlags /\ TlsData /\ pending = jobs /\ Len(queue) <= Limit

(* An item is a pair of a kind and a number.                                   *)
LEMMA ItemKinds ==
    ASSUME NEW x \in TlsItem
    PROVE  /\ x = <<x[1], x[2]>> /\ x[1] \in {"flight", "idle", "close", "bad", "data"} /\ x[2] \in Nat
           /\ x[1] = "data" => x[2] > 0
BY DEF TlsItem

(* The first item of the queue, and what is behind it.                         *)
LEMMA QueueTail ==
    ASSUME NEW q \in Seq(TlsItem), q # <<>>
    PROVE  /\ Head(q) \in TlsItem /\ Tail(q) \in Seq(TlsItem) /\ Len(Tail(q)) = Len(q) - 1
           /\ Len(q) \in Nat \ {0} /\ Head(q) = q[1]
           /\ \A i \in 1 .. Len(q) - 1 : Tail(q)[i] = q[i + 1]
OBVIOUS

(* One more item at the end.                                                   *)
LEMMA QueueAppend ==
    ASSUME NEW q \in Seq(TlsItem), NEW x \in TlsItem
    PROVE  /\ Append(q, x) \in Seq(TlsItem) /\ Len(Append(q, x)) = Len(q) + 1
           /\ Len(q) \in Nat /\ Append(q, x)[Len(q) + 1] = x
           /\ \A i \in 1 .. Len(q) : Append(q, x)[i] = q[i]
OBVIOUS

(* What doRecv() does with the four kinds of items.                            *)
LEMMA ItemEffects ==
    ASSUME TlsTypes, RecvItem
    PROVE  /\ recvPc = "loop" /\ queue # <<>> /\ queue' = Tail(queue) /\ Head(queue) \in TlsItem
           /\ UNCHANGED <<backend, owner, ended, counterV, bringV, peerV>>
           /\ \/ /\ Head(queue)[1] = "flight"
                 /\ tlsState' = IF hs = 1 THEN "Connected" ELSE tlsState
                 /\ wasConnected' = (wasConnected \/ hs = 1)
                 /\ UNCHANGED <<recvPc, stopping, delivered>>
              \/ /\ Head(queue)[1] = "idle"
                 /\ recvPc' \in {"loop", "answer"} \/ (recvPc' = "stuck" /\ backend = "mbedtls")
                 /\ UNCHANGED <<tlsState, wasConnected, stopping, delivered>>
              \/ /\ Head(queue)[1] \in Ends
                 /\ recvPc' = "final" /\ stopping' = (stopping \/ backend = "openssl")
                 /\ UNCHANGED <<tlsState, wasConnected, delivered>>
              \/ /\ Head(queue)[1] = "data"
                 /\ delivered' = Append(delivered, Head(queue)) /\ recvPc' \in {"loop", "answer"}
                 /\ UNCHANGED <<tlsState, wasConnected, stopping>>
<1>1. /\ recvPc = "loop" /\ queue # <<>> /\ queue' = Tail(queue)
      /\ UNCHANGED <<backend, owner, ended, counterV, bringV, peerV>>
  BY DEF RecvItem
<1>2. Head(queue) \in TlsItem
  BY <1>1, QueueTail DEF TlsTypes, TlsData
<1>3. Head(queue)[1] \in {"flight", "idle", "close", "bad", "data"}
  BY <1>2, ItemKinds
<1>4. CASE Head(queue)[1] = "flight"
  BY <1>1, <1>2, <1>4 DEF RecvItem
<1>5. CASE Head(queue)[1] = "idle"
  BY <1>1, <1>2, <1>5 DEF RecvItem, HoldsSslMutex
<1>6. CASE Head(queue)[1] \in {"close", "bad"}
  BY <1>1, <1>2, <1>6 DEF RecvItem, Ends
<1>7. CASE Head(queue)[1] = "data"
  BY <1>1, <1>2, <1>7 DEF RecvItem
<1>. QED BY <1>3, <1>4, <1>5, <1>6, <1>7

(* Every step keeps the types; the counter is that of the jobs; and the queue *)
(* never holds more than its limit.                                            *)
LEMMA TlsTypesStep == TlsTypes /\ [TlsNext]_tlsVars => TlsTypes'
<1>. SUFFICES ASSUME TlsTypes, [TlsNext]_tlsVars PROVE TlsTypes'
  OBVIOUS
<1>1. CASE PollerCheck
  BY <1>1
  DEF PollerCheck, CheckPc, TlsTypes, TlsFlags, TlsData, RecvSteps, sessionV, incomingV, counterV,
      bringV, peerV
<1>2. CASE PollerEnqueue
  BY <1>2
  DEF PollerEnqueue, TlsTypes, TlsFlags, TlsData, RecvSteps, sessionV, incomingV, counterV,
      bringV, peerV
<1>3. CASE OwnerCheck
  BY <1>3
  DEF OwnerCheck, CheckPc, TlsTypes, TlsFlags, TlsData, RecvSteps, sessionV, incomingV, counterV,
      bringV, peerV
<1>4. CASE OwnerEnqueue
  BY <1>4
  DEF OwnerEnqueue, TlsTypes, TlsFlags, TlsData, RecvSteps, sessionV, incomingV, counterV, bringV,
      peerV
<1>5. CASE Push
  <2>1. UNCHANGED <<backend, stopping, recvPc, owner, sessionV, counterV, peerV>> /\ poller = "push" /\ poller' = "check"
    BY <1>5 DEF Push
  <2>2. TlsFlags'
    BY <2>1 DEF TlsTypes, TlsFlags, sessionV, counterV, peerV
  <2>3. item \in TlsItem
    BY <2>1 DEF TlsTypes, TlsData
  <2>4. /\ queue' = queue \/ (Len(queue) < Limit /\ queue' = Append(queue, item))
        /\ brought' = brought \/ brought' = Append(brought, item)
    BY <1>5 DEF Push
  <2>5. queue' \in Seq(TlsItem) /\ Len(queue') <= Limit
    <3>1. /\ queue \in Seq(TlsItem) /\ Len(queue) \in Nat /\ Limit \in Nat /\ Len(queue) <= Limit
          /\ Append(queue, item) \in Seq(TlsItem) /\ Len(Append(queue, item)) = Len(queue) + 1
      BY <2>3, QueueAppend, TlsConstants DEF TlsTypes, TlsData
    <3>. QED BY <2>4, <3>1
  <2>6. brought' \in Seq(TlsItem)
    BY <2>3, <2>4, QueueAppend DEF TlsTypes, TlsData
  <2>. QED BY <2>1, <2>2, <2>5, <2>6 DEF TlsTypes, TlsData, sessionV, counterV
<1>6. CASE RecvStart
  <2>1. UNCHANGED <<backend, owner, sessionV, incomingV, bringV, peerV>> /\ jobs > 0 /\ jobs' = jobs - 1 /\ pending' = pending - 1
    BY <1>6 DEF RecvStart
  <2>2. recvPc' \in RecvSteps
    BY <1>6 DEF RecvStart, RecvSteps
  <2>. QED BY <2>1, <2>2 DEF TlsTypes, TlsFlags, TlsData, sessionV, incomingV, bringV, peerV
<1>7. CASE RecvEmpty
  BY <1>7
  DEF RecvEmpty, TlsTypes, TlsFlags, TlsData, RecvSteps, sessionV, incomingV, counterV, bringV,
      peerV
<1>8. CASE RecvReturn
  BY <1>8
  DEF RecvReturn, TlsTypes, TlsFlags, TlsData, RecvSteps, sessionV, incomingV, counterV, bringV,
      peerV
<1>9. CASE RecvItem
  <2>1. TlsFlags'
    <3>1. wasConnected' \in BOOLEAN /\ stopping' \in BOOLEAN
      BY <1>9, ItemEffects DEF TlsTypes, TlsFlags
    <3>2. UNCHANGED <<backend, owner, ended, pending, jobs, poller, peerSent, peerEnd, registered>>
      BY <1>9, ItemEffects DEF counterV, bringV, peerV
    <3>3. recvPc' \in RecvSteps /\ tlsState' \in {"Disconnected", "Connecting", "Connected", "Failed"}
      BY <1>9, ItemEffects DEF TlsTypes, TlsFlags, RecvSteps
    <3>. QED BY <3>1, <3>2, <3>3 DEF TlsTypes, TlsFlags
  <2>2. queue # <<>> /\ queue' = Tail(queue) /\ Head(queue) \in TlsItem
    BY <1>9, ItemEffects
  <2>3. UNCHANGED <<brought, poller, item, pending, jobs>>
    BY <1>9, ItemEffects DEF bringV, counterV
  <2>4. delivered' = delivered \/ delivered' = Append(delivered, Head(queue))
    BY <1>9, ItemEffects
  <2>5. queue' \in Seq(TlsItem) /\ Len(queue') = Len(queue) - 1
    BY <2>2, QueueTail DEF TlsTypes, TlsData
  <2>6. Append(delivered, Head(queue)) \in Seq(TlsItem)
    BY <2>2, QueueAppend DEF TlsTypes, TlsData
  <2>7. Len(queue') <= Limit
    BY <2>5, TlsConstants DEF TlsTypes, TlsData
  <2>. QED BY <2>1, <2>3, <2>4, <2>5, <2>6, <2>7 DEF TlsTypes, TlsData
<1>10. CASE Answer
  BY <1>10
  DEF Answer, TlsTypes, TlsFlags, TlsData, RecvSteps, sessionV, incomingV, counterV, bringV, peerV
<1>11. CASE RecvFinal
  BY <1>11
  DEF RecvFinal, TlsTypes, TlsFlags, TlsData, RecvSteps, sessionV, incomingV, counterV, bringV,
      peerV
<1>12. CASE Start
  BY <1>12
  DEF Start, TlsTypes, TlsFlags, TlsData, RecvSteps, sessionV, incomingV, counterV, bringV, peerV
<1>13. CASE Stop
  BY <1>13
  DEF Stop, TlsTypes, TlsFlags, TlsData, RecvSteps, sessionV, incomingV, counterV, bringV, peerV
<1>14. CASE Arrive
  <2>1. /\ UNCHANGED <<backend, recvPc, owner, registered, brought, sessionV, incomingV, counterV>> /\ poller' = "push"
        /\ peerEnd' \in {"open", "close", "bad"} /\ peerSent' \in {peerSent, peerSent + 1}
    BY <1>14 DEF Arrive
  <2>2. TlsFlags'
    BY <2>1 DEF TlsTypes, TlsFlags, sessionV, incomingV, counterV
  <2>3. item' \in TlsItem
    <3>1. \/ item' \in {<<"flight", 0>>, <<"idle", 0>>, <<"close", 0>>, <<"bad", 0>>}
          \/ peerSent >= Flights /\ item' = <<"data", peerSent - Flights + 1>>
      BY <1>14, TlsConstants DEF Arrive, TlsTypes, TlsFlags
    <3>2. peerSent >= Flights => peerSent - Flights + 1 \in Nat \ {0}
      BY TlsConstants DEF TlsTypes, TlsFlags
    <3>. QED BY <3>1, <3>2 DEF TlsItem
  <2>. QED BY <2>1, <2>2, <2>3 DEF TlsTypes, TlsData, sessionV, incomingV, counterV
<1>15. CASE IncomingEnd
  BY <1>15
  DEF IncomingEnd, TlsTypes, TlsFlags, TlsData, RecvSteps, sessionV, incomingV, counterV, bringV,
      peerV
<1>16. CASE UNCHANGED tlsVars
  BY <1>16
  DEF tlsVars, TlsTypes, TlsFlags, TlsData, RecvSteps, sessionV, incomingV, counterV, bringV,
      peerV
<1>. QED
  BY <1>1, <1>2, <1>3, <1>4, <1>5, <1>6, <1>7, <1>8, <1>9, <1>10, <1>11, <1>12, <1>13, <1>14,
      <1>15, <1>16
  DEF TlsNext, TlsLibrary

(* A transport that was not started.                                           *)
Fresh == ~registered /\ owner = "idle"
FreshInv ==
    Fresh => /\ queue = <<>> /\ poller = "idle" /\ jobs = 0 /\ recvPc = "idle" /\ tlsState = "Disconnected"
             /\ peerSent = 0 /\ brought = <<>> /\ delivered = <<>> /\ ended = 0 /\ ~wasConnected /\ ~stopping

(* The states of the connection that the steps of doRecv() meet.               *)
SessionInv ==
    /\ recvPc \in {"loop", "answer", "stuck", "return"} => Active
    /\ recvPc = "final" => backend = "gnutls" \/ Active
    /\ recvPc = "stuck" => backend = "mbedtls"
    /\ tlsState = "Connected" => wasConnected
    /\ wasConnected => tlsState # "Connecting"
    /\ backend # "gnutls" => ~(wasConnected /\ tlsState = "Failed")
    /\ ended > 0 => ~Active /\ ended = 1

(* Something that ends the stream is the last that comes, and nothing comes    *)
(* after it, after the end of the stream below, or after stop().               *)
IsShut == peerEnd # "open" \/ ~registered
EndInv ==
    /\ poller = "push" => ~stopping /\ (item[1] \in Ends <=> peerEnd # "open")
    /\ \A i \in 1 .. Len(queue) : queue[i][1] \in Ends => peerEnd # "open" /\ poller # "push" /\ i = Len(queue)
    /\ stopping => IsShut

(* When doRecv() has come to its end, once, everything was taken.              *)
Over == recvPc = "final" \/ (~Active /\ ~Fresh)
OverInv == Over => queue = <<>> /\ poller # "push" /\ IsShut

(* What is queued has a job, or a thread that makes one.                       *)
JobInv == Active /\ queue # <<>> => \/ jobs > 0 \/ recvPc \in {"loop", "answer", "stuck"}
                                    \/ poller \in {"check", "enqueue"}

(* Every step keeps what holds before start().                                 *)
LEMMA FreshStep == TlsTypes /\ FreshInv /\ [TlsNext]_tlsVars => FreshInv'
<1>. SUFFICES ASSUME TlsTypes, FreshInv, [TlsNext]_tlsVars PROVE FreshInv'
  OBVIOUS
<1>1. CASE PollerCheck
  BY <1>1
  DEF PollerCheck, CheckPc, TlsTypes, TlsFlags, FreshInv, Fresh, sessionV, incomingV, counterV,
      bringV, peerV
<1>2. CASE PollerEnqueue
  BY <1>2
  DEF PollerEnqueue, TlsTypes, TlsFlags, FreshInv, Fresh, sessionV, incomingV, counterV, bringV,
      peerV
<1>3. CASE OwnerCheck
  BY <1>3
  DEF OwnerCheck, CheckPc, TlsTypes, TlsFlags, FreshInv, Fresh, sessionV, incomingV, counterV,
      bringV, peerV
<1>4. CASE OwnerEnqueue
  BY <1>4
  DEF OwnerEnqueue, TlsTypes, TlsFlags, FreshInv, Fresh, sessionV, incomingV, counterV, bringV,
      peerV
<1>5. CASE Push
  BY <1>5
  DEF Push, TlsTypes, TlsFlags, FreshInv, Fresh, sessionV, incomingV, counterV, bringV, peerV
<1>6. CASE RecvStart
  BY <1>6
  DEF RecvStart, Active, TlsTypes, TlsFlags, FreshInv, Fresh, sessionV, incomingV, counterV,
      bringV, peerV
<1>7. CASE RecvEmpty
  BY <1>7
  DEF RecvEmpty, TlsTypes, TlsFlags, FreshInv, Fresh, sessionV, incomingV, counterV, bringV, peerV
<1>8. CASE RecvReturn
  BY <1>8
  DEF RecvReturn, TlsTypes, TlsFlags, FreshInv, Fresh, sessionV, incomingV, counterV, bringV,
      peerV
<1>9. CASE RecvItem
  <2>1. recvPc = "loop" /\ UNCHANGED <<registered, owner>>
    BY <1>9 DEF RecvItem, peerV
  <2>. QED BY <2>1 DEF FreshInv, Fresh
<1>10. CASE Answer
  BY <1>10
  DEF Answer, TlsTypes, TlsFlags, FreshInv, Fresh, sessionV, incomingV, counterV, bringV, peerV
<1>11. CASE RecvFinal
  BY <1>11
  DEF RecvFinal, TlsTypes, TlsFlags, FreshInv, Fresh, sessionV, incomingV, counterV, bringV, peerV
<1>12. CASE Start
  BY <1>12
  DEF Start, TlsTypes, TlsFlags, FreshInv, Fresh, sessionV, incomingV, counterV, bringV, peerV
<1>13. CASE Stop
  BY <1>13
  DEF Stop, TlsTypes, TlsFlags, FreshInv, Fresh, sessionV, incomingV, counterV, bringV, peerV
<1>14. CASE Arrive
  BY <1>14
  DEF Arrive, TlsTypes, TlsFlags, FreshInv, Fresh, sessionV, incomingV, counterV, bringV, peerV
<1>15. CASE IncomingEnd
  BY <1>15
  DEF IncomingEnd, TlsTypes, TlsFlags, FreshInv, Fresh, sessionV, incomingV, counterV, bringV,
      peerV
<1>16. CASE UNCHANGED tlsVars
  BY <1>16
  DEF tlsVars, TlsTypes, TlsFlags, FreshInv, Fresh, sessionV, incomingV, counterV, bringV, peerV
<1>. QED
  BY <1>1, <1>2, <1>3, <1>4, <1>5, <1>6, <1>7, <1>8, <1>9, <1>10, <1>11, <1>12, <1>13, <1>14,
      <1>15, <1>16
  DEF TlsNext, TlsLibrary

(* Every step keeps the states of the connection.                              *)
LEMMA SessionStep == TlsTypes /\ FreshInv /\ SessionInv /\ [TlsNext]_tlsVars => SessionInv'
<1>. SUFFICES ASSUME TlsTypes, FreshInv, SessionInv, [TlsNext]_tlsVars PROVE SessionInv'
  OBVIOUS
<1>1. CASE PollerCheck
  BY <1>1
  DEF PollerCheck, CheckPc, TlsTypes, TlsFlags, FreshInv, Fresh, SessionInv, Active, sessionV,
      incomingV, counterV, bringV, peerV
<1>2. CASE PollerEnqueue
  BY <1>2
  DEF PollerEnqueue, TlsTypes, TlsFlags, FreshInv, Fresh, SessionInv, Active, sessionV, incomingV,
      counterV, bringV, peerV
<1>3. CASE OwnerCheck
  BY <1>3
  DEF OwnerCheck, CheckPc, TlsTypes, TlsFlags, FreshInv, Fresh, SessionInv, Active, sessionV,
      incomingV, counterV, bringV, peerV
<1>4. CASE OwnerEnqueue
  BY <1>4
  DEF OwnerEnqueue, TlsTypes, TlsFlags, FreshInv, Fresh, SessionInv, Active, sessionV, incomingV,
      counterV, bringV, peerV
<1>5. CASE Push
  BY <1>5
  DEF Push, TlsTypes, TlsFlags, FreshInv, Fresh, SessionInv, Active, sessionV, incomingV,
      counterV, bringV, peerV
<1>6. CASE RecvStart
  BY <1>6
  DEF RecvStart, Active, TlsTypes, TlsFlags, FreshInv, Fresh, SessionInv, Active, sessionV,
      incomingV, counterV, bringV, peerV
<1>7. CASE RecvEmpty
  BY <1>7
  DEF RecvEmpty, TlsTypes, TlsFlags, FreshInv, Fresh, SessionInv, Active, sessionV, incomingV,
      counterV, bringV, peerV
<1>8. CASE RecvReturn
  BY <1>8
  DEF RecvReturn, TlsTypes, TlsFlags, FreshInv, Fresh, SessionInv, Active, sessionV, incomingV,
      counterV, bringV, peerV
<1>9. CASE RecvItem
  <2>1. UNCHANGED <<backend, ended>> /\ Active /\ recvPc = "loop"
    BY <1>9, ItemEffects DEF SessionInv
  <2>2. CASE Head(queue)[1] = "flight"
    <3>1. /\ tlsState' = IF hs = 1 THEN "Connected" ELSE tlsState
          /\ wasConnected' = (wasConnected \/ hs = 1) /\ recvPc' = "loop"
      BY <1>9, <2>1, <2>2, ItemEffects DEF Ends
    <3>. QED BY <2>1, <3>1 DEF SessionInv, Active
  <2>3. CASE Head(queue)[1] # "flight"
    <3>1. recvPc' \in {"loop", "answer", "final"} \/ (recvPc' = "stuck" /\ backend = "mbedtls")
      BY <1>9, <2>3, ItemEffects
    <3>2. UNCHANGED <<tlsState, wasConnected>>
      BY <1>9, <2>3, ItemEffects
    <3>. QED BY <2>1, <3>1, <3>2 DEF SessionInv, Active
  <2>. QED BY <2>2, <2>3
<1>10. CASE Answer
  BY <1>10
  DEF Answer, TlsTypes, TlsFlags, FreshInv, Fresh, SessionInv, Active, sessionV, incomingV,
      counterV, bringV, peerV
<1>11. CASE RecvFinal
  BY <1>11
  DEF RecvFinal, TlsTypes, TlsFlags, FreshInv, Fresh, SessionInv, Active, sessionV, incomingV,
      counterV, bringV, peerV
<1>12. CASE Start
  BY <1>12
  DEF Start, TlsTypes, TlsFlags, FreshInv, Fresh, SessionInv, Active, sessionV, incomingV,
      counterV, bringV, peerV
<1>13. CASE Stop
  BY <1>13
  DEF Stop, TlsTypes, TlsFlags, FreshInv, Fresh, SessionInv, Active, sessionV, incomingV,
      counterV, bringV, peerV
<1>14. CASE Arrive
  BY <1>14
  DEF Arrive, TlsTypes, TlsFlags, FreshInv, Fresh, SessionInv, Active, sessionV, incomingV,
      counterV, bringV, peerV
<1>15. CASE IncomingEnd
  BY <1>15
  DEF IncomingEnd, TlsTypes, TlsFlags, FreshInv, Fresh, SessionInv, Active, sessionV, incomingV,
      counterV, bringV, peerV
<1>16. CASE UNCHANGED tlsVars
  BY <1>16
  DEF tlsVars, TlsTypes, TlsFlags, FreshInv, Fresh, SessionInv, Active, sessionV, incomingV,
      counterV, bringV, peerV
<1>. QED
  BY <1>1, <1>2, <1>3, <1>4, <1>5, <1>6, <1>7, <1>8, <1>9, <1>10, <1>11, <1>12, <1>13, <1>14,
      <1>15, <1>16
  DEF TlsNext, TlsLibrary

(* Every step keeps the end the last.                                          *)
LEMMA EndStep == TlsTypes /\ FreshInv /\ EndInv /\ [TlsNext]_tlsVars => EndInv'
<1>. SUFFICES ASSUME TlsTypes, FreshInv, EndInv, [TlsNext]_tlsVars PROVE EndInv'
  OBVIOUS
<1>1. CASE PollerCheck
  BY <1>1
  DEF PollerCheck, CheckPc, EndInv, IsShut, TlsTypes, TlsFlags, FreshInv, Fresh, sessionV,
      incomingV, counterV, bringV, peerV
<1>2. CASE PollerEnqueue
  BY <1>2
  DEF PollerEnqueue, EndInv, IsShut, TlsTypes, TlsFlags, FreshInv, Fresh, sessionV, incomingV,
      counterV, bringV, peerV
<1>3. CASE OwnerCheck
  BY <1>3
  DEF OwnerCheck, CheckPc, EndInv, IsShut, TlsTypes, TlsFlags, FreshInv, Fresh, sessionV, incomingV,
      counterV, bringV, peerV
<1>4. CASE OwnerEnqueue
  BY <1>4
  DEF OwnerEnqueue, EndInv, IsShut, TlsTypes, TlsFlags, FreshInv, Fresh, sessionV, incomingV,
      counterV, bringV, peerV
<1>5. CASE Push
  <2>1. /\ poller = "push" /\ poller' = "check" /\ queue \in Seq(TlsItem) /\ item \in TlsItem
        /\ UNCHANGED <<stopping, peerEnd, registered>>
    BY <1>5 DEF Push, peerV, TlsTypes, TlsData
  <2>2. ~stopping /\ queue' = Append(queue, item)
    BY <1>5, <2>1 DEF Push, EndInv
  <2>3. \A i \in 1 .. Len(queue) : queue[i][1] \notin Ends
    BY <2>1 DEF EndInv
  <2>4. \A i \in 1 .. Len(queue') : queue'[i][1] \in Ends => peerEnd # "open" /\ i = Len(queue')
    BY <2>1, <2>2, <2>3, QueueAppend DEF EndInv
  <2>. QED BY <2>1, <2>4 DEF EndInv, IsShut
<1>6. CASE RecvStart
  BY <1>6
  DEF RecvStart, Active, EndInv, IsShut, TlsTypes, TlsFlags, FreshInv, Fresh, sessionV, incomingV,
      counterV, bringV, peerV
<1>7. CASE RecvEmpty
  BY <1>7
  DEF RecvEmpty, EndInv, IsShut, TlsTypes, TlsFlags, FreshInv, Fresh, sessionV, incomingV, counterV,
      bringV, peerV
<1>8. CASE RecvReturn
  BY <1>8
  DEF RecvReturn, EndInv, IsShut, TlsTypes, TlsFlags, FreshInv, Fresh, sessionV, incomingV,
      counterV, bringV, peerV
<1>9. CASE RecvItem
  <2>1. queue \in Seq(TlsItem) /\ queue # <<>> /\ queue' = Tail(queue) /\ UNCHANGED <<poller, item, peerEnd, registered>>
    BY <1>9, ItemEffects DEF TlsTypes, TlsData, bringV, peerV
  <2>2. Head(queue)[1] \in Ends => peerEnd # "open" /\ poller # "push"
    BY <2>1, QueueTail DEF EndInv
  <2>3. stopping' = stopping \/ Head(queue)[1] \in Ends
    BY <1>9, ItemEffects
  <2>4. \A i \in 1 .. Len(queue') : queue'[i][1] \in Ends => peerEnd # "open" /\ poller # "push" /\ i = Len(queue')
    BY <2>1, QueueTail DEF EndInv
  <2>. QED BY <2>1, <2>2, <2>3, <2>4 DEF EndInv, IsShut
<1>10. CASE Answer
  BY <1>10
  DEF Answer, EndInv, IsShut, TlsTypes, TlsFlags, FreshInv, Fresh, sessionV, incomingV, counterV,
      bringV, peerV
<1>11. CASE RecvFinal
  BY <1>11
  DEF RecvFinal, EndInv, IsShut, TlsTypes, TlsFlags, FreshInv, Fresh, sessionV, incomingV, counterV,
      bringV, peerV
<1>12. CASE Start
  BY <1>12
  DEF Start, EndInv, IsShut, TlsTypes, TlsFlags, FreshInv, Fresh, sessionV, incomingV, counterV,
      bringV, peerV
<1>13. CASE Stop
  BY <1>13
  DEF Stop, EndInv, IsShut, TlsTypes, TlsFlags, FreshInv, Fresh, sessionV, incomingV, counterV,
      bringV, peerV
<1>14. CASE Arrive
  <2>1. registered /\ peerEnd = "open" /\ poller' = "push" /\ UNCHANGED <<queue, stopping, registered>>
    BY <1>14 DEF Arrive, incomingV
  <2>2. ~stopping
    BY <2>1 DEF EndInv, IsShut
  <2>3. item'[1] \in Ends <=> peerEnd' # "open"
    BY <1>14, <2>1 DEF Arrive, Ends
  <2>4. \A i \in 1 .. Len(queue) : queue[i][1] \notin Ends
    BY <2>1 DEF EndInv
  <2>. QED BY <2>1, <2>2, <2>3, <2>4 DEF EndInv, IsShut
<1>15. CASE IncomingEnd
  BY <1>15
  DEF IncomingEnd, EndInv, IsShut, TlsTypes, TlsFlags, FreshInv, Fresh, sessionV, incomingV,
      counterV, bringV, peerV
<1>16. CASE UNCHANGED tlsVars
  BY <1>16
  DEF tlsVars, EndInv, IsShut, TlsTypes, TlsFlags, FreshInv, Fresh, sessionV, incomingV, counterV,
      bringV, peerV
<1>. QED
  BY <1>1, <1>2, <1>3, <1>4, <1>5, <1>6, <1>7, <1>8, <1>9, <1>10, <1>11, <1>12, <1>13, <1>14,
      <1>15, <1>16
  DEF TlsNext, TlsLibrary

(* Every step keeps what holds at the end of doRecv().                         *)
LEMMA OverStep == TlsTypes /\ FreshInv /\ SessionInv /\ EndInv /\ OverInv /\ [TlsNext]_tlsVars => OverInv'
<1>. SUFFICES ASSUME TlsTypes, FreshInv, SessionInv, EndInv, OverInv, [TlsNext]_tlsVars PROVE OverInv'
  OBVIOUS
<1>1. CASE PollerCheck
  BY <1>1
  DEF PollerCheck, CheckPc, OverInv, Over, EndInv, SessionInv, Active, IsShut, TlsTypes, TlsFlags,
      FreshInv, Fresh, sessionV, incomingV, counterV, bringV, peerV
<1>2. CASE PollerEnqueue
  BY <1>2
  DEF PollerEnqueue, OverInv, Over, EndInv, SessionInv, Active, IsShut, TlsTypes, TlsFlags,
      FreshInv, Fresh, sessionV, incomingV, counterV, bringV, peerV
<1>3. CASE OwnerCheck
  BY <1>3
  DEF OwnerCheck, CheckPc, OverInv, Over, EndInv, SessionInv, Active, IsShut, TlsTypes, TlsFlags,
      FreshInv, Fresh, sessionV, incomingV, counterV, bringV, peerV
<1>4. CASE OwnerEnqueue
  BY <1>4
  DEF OwnerEnqueue, OverInv, Over, EndInv, SessionInv, Active, IsShut, TlsTypes, TlsFlags, FreshInv,
      Fresh, sessionV, incomingV, counterV, bringV, peerV
<1>5. CASE Push
  BY <1>5
  DEF Push, OverInv, Over, EndInv, SessionInv, Active, IsShut, TlsTypes, TlsFlags, FreshInv, Fresh,
      sessionV, incomingV, counterV, bringV, peerV
<1>6. CASE RecvStart
  BY <1>6
  DEF RecvStart, Active, OverInv, Over, EndInv, SessionInv, Active, IsShut, TlsTypes, TlsFlags,
      FreshInv, Fresh, sessionV, incomingV, counterV, bringV, peerV
<1>7. CASE RecvEmpty
  BY <1>7
  DEF RecvEmpty, OverInv, Over, EndInv, SessionInv, Active, IsShut, TlsTypes, TlsFlags, FreshInv,
      Fresh, sessionV, incomingV, counterV, bringV, peerV
<1>8. CASE RecvReturn
  BY <1>8
  DEF RecvReturn, OverInv, Over, EndInv, SessionInv, Active, IsShut, TlsTypes, TlsFlags, FreshInv,
      Fresh, sessionV, incomingV, counterV, bringV, peerV
<1>9. CASE RecvItem
  <2>1. /\ queue \in Seq(TlsItem) /\ queue # <<>> /\ queue' = Tail(queue) /\ recvPc = "loop" /\ Active
        /\ UNCHANGED <<poller, peerEnd, registered, owner>>
    BY <1>9, ItemEffects DEF TlsTypes, TlsData, bringV, peerV, SessionInv
  <2>2. CASE Head(queue)[1] \in Ends
    <3>1. Len(queue) = 1 /\ poller # "push" /\ peerEnd # "open"
      <4>1. 1 \in 1 .. Len(queue) /\ queue[1][1] \in Ends
        BY <2>1, <2>2, QueueTail
      <4>. QED BY <4>1 DEF EndInv
    <3>2. Tail(queue) = <<>>
      BY <2>1, <3>1
    <3>. QED BY <2>1, <3>1, <3>2 DEF OverInv, IsShut
  <2>3. CASE Head(queue)[1] \notin Ends
    <3>1. recvPc' # "final" /\ Active'
      BY <1>9, <2>1, <2>3, ItemEffects DEF Active
    <3>. QED BY <3>1 DEF OverInv, Over
  <2>. QED BY <2>2, <2>3
<1>10. CASE Answer
  BY <1>10
  DEF Answer, OverInv, Over, EndInv, SessionInv, Active, IsShut, TlsTypes, TlsFlags, FreshInv,
      Fresh, sessionV, incomingV, counterV, bringV, peerV
<1>11. CASE RecvFinal
  BY <1>11
  DEF RecvFinal, OverInv, Over, EndInv, SessionInv, Active, IsShut, TlsTypes, TlsFlags, FreshInv,
      Fresh, sessionV, incomingV, counterV, bringV, peerV
<1>12. CASE Start
  BY <1>12
  DEF Start, OverInv, Over, EndInv, SessionInv, Active, IsShut, TlsTypes, TlsFlags, FreshInv, Fresh,
      sessionV, incomingV, counterV, bringV, peerV
<1>13. CASE Stop
  BY <1>13
  DEF Stop, OverInv, Over, EndInv, SessionInv, Active, IsShut, TlsTypes, TlsFlags, FreshInv, Fresh,
      sessionV, incomingV, counterV, bringV, peerV
<1>14. CASE Arrive
  BY <1>14
  DEF Arrive, OverInv, Over, EndInv, SessionInv, Active, IsShut, TlsTypes, TlsFlags, FreshInv,
      Fresh, sessionV, incomingV, counterV, bringV, peerV
<1>15. CASE IncomingEnd
  BY <1>15
  DEF IncomingEnd, OverInv, Over, EndInv, SessionInv, Active, IsShut, TlsTypes, TlsFlags, FreshInv,
      Fresh, sessionV, incomingV, counterV, bringV, peerV
<1>16. CASE UNCHANGED tlsVars
  BY <1>16
  DEF tlsVars, OverInv, Over, EndInv, SessionInv, Active, IsShut, TlsTypes, TlsFlags, FreshInv,
      Fresh, sessionV, incomingV, counterV, bringV, peerV
<1>. QED
  BY <1>1, <1>2, <1>3, <1>4, <1>5, <1>6, <1>7, <1>8, <1>9, <1>10, <1>11, <1>12, <1>13, <1>14,
      <1>15, <1>16
  DEF TlsNext, TlsLibrary

(* Every step keeps a job for what is queued.                                  *)
LEMMA JobStep == TlsTypes /\ FreshInv /\ SessionInv /\ EndInv /\ OverInv /\ JobInv /\ [TlsNext]_tlsVars => JobInv'
<1>. SUFFICES ASSUME TlsTypes, FreshInv, SessionInv, EndInv, OverInv, JobInv, [TlsNext]_tlsVars PROVE JobInv'
  OBVIOUS
<1>1. CASE PollerCheck
  BY <1>1
  DEF PollerCheck, CheckPc, JobInv, OverInv, Over, SessionInv, Active, TlsTypes, TlsFlags,
      FreshInv, Fresh, sessionV, incomingV, counterV, bringV, peerV
<1>2. CASE PollerEnqueue
  BY <1>2
  DEF PollerEnqueue, JobInv, OverInv, Over, SessionInv, Active, TlsTypes, TlsFlags, FreshInv,
      Fresh, sessionV, incomingV, counterV, bringV, peerV
<1>3. CASE OwnerCheck
  BY <1>3
  DEF OwnerCheck, CheckPc, JobInv, OverInv, Over, SessionInv, Active, TlsTypes, TlsFlags,
      FreshInv, Fresh, sessionV, incomingV, counterV, bringV, peerV
<1>4. CASE OwnerEnqueue
  BY <1>4
  DEF OwnerEnqueue, JobInv, OverInv, Over, SessionInv, Active, TlsTypes, TlsFlags, FreshInv,
      Fresh, sessionV, incomingV, counterV, bringV, peerV
<1>5. CASE Push
  BY <1>5
  DEF Push, JobInv, OverInv, Over, SessionInv, Active, TlsTypes, TlsFlags, FreshInv, Fresh,
      sessionV, incomingV, counterV, bringV, peerV
<1>6. CASE RecvStart
  BY <1>6
  DEF RecvStart, Active, JobInv, OverInv, Over, SessionInv, Active, TlsTypes, TlsFlags, FreshInv,
      Fresh, sessionV, incomingV, counterV, bringV, peerV
<1>7. CASE RecvEmpty
  BY <1>7
  DEF RecvEmpty, JobInv, OverInv, Over, SessionInv, Active, TlsTypes, TlsFlags, FreshInv, Fresh,
      sessionV, incomingV, counterV, bringV, peerV
<1>8. CASE RecvReturn
  BY <1>8
  DEF RecvReturn, JobInv, OverInv, Over, SessionInv, Active, TlsTypes, TlsFlags, FreshInv, Fresh,
      sessionV, incomingV, counterV, bringV, peerV
<1>9. CASE RecvItem
  <2>1. recvPc = "loop" /\ recvPc' \in {"loop", "answer", "stuck", "final"} /\ jobs' = jobs
    BY <1>9, ItemEffects DEF counterV
  <2>2. recvPc' = "final" => queue' = <<>>
    <3>1. OverInv'
      BY <1>9, OverStep DEF TlsNext, TlsLibrary
    <3>. QED BY <3>1 DEF OverInv, Over
  <2>. QED BY <2>1, <2>2 DEF JobInv
<1>10. CASE Answer
  BY <1>10
  DEF Answer, JobInv, OverInv, Over, SessionInv, Active, TlsTypes, TlsFlags, FreshInv, Fresh,
      sessionV, incomingV, counterV, bringV, peerV
<1>11. CASE RecvFinal
  BY <1>11
  DEF RecvFinal, JobInv, OverInv, Over, SessionInv, Active, TlsTypes, TlsFlags, FreshInv, Fresh,
      sessionV, incomingV, counterV, bringV, peerV
<1>12. CASE Start
  BY <1>12
  DEF Start, JobInv, OverInv, Over, SessionInv, Active, TlsTypes, TlsFlags, FreshInv, Fresh,
      sessionV, incomingV, counterV, bringV, peerV
<1>13. CASE Stop
  BY <1>13
  DEF Stop, JobInv, OverInv, Over, SessionInv, Active, TlsTypes, TlsFlags, FreshInv, Fresh,
      sessionV, incomingV, counterV, bringV, peerV
<1>14. CASE Arrive
  BY <1>14
  DEF Arrive, JobInv, OverInv, Over, SessionInv, Active, TlsTypes, TlsFlags, FreshInv, Fresh,
      sessionV, incomingV, counterV, bringV, peerV
<1>15. CASE IncomingEnd
  BY <1>15
  DEF IncomingEnd, JobInv, OverInv, Over, SessionInv, Active, TlsTypes, TlsFlags, FreshInv, Fresh,
      sessionV, incomingV, counterV, bringV, peerV
<1>16. CASE UNCHANGED tlsVars
  BY <1>16
  DEF tlsVars, JobInv, OverInv, Over, SessionInv, Active, TlsTypes, TlsFlags, FreshInv, Fresh,
      sessionV, incomingV, counterV, bringV, peerV
<1>. QED
  BY <1>1, <1>2, <1>3, <1>4, <1>5, <1>6, <1>7, <1>8, <1>9, <1>10, <1>11, <1>12, <1>13, <1>14,
      <1>15, <1>16
  DEF TlsNext, TlsLibrary

(* The records are numbered: those that were brought, those that were          *)
(* delivered, and in between, in the queue, each of the others once.           *)
Numbered(s) == \A i \in 1 .. Len(s) : s[i] = <<"data", i>>
InOrder(q, d, b) ==
    /\ d <= b
    /\ \A i \in 1 .. Len(q) : q[i][1] = "data" => q[i][2] > d /\ q[i][2] <= b
    /\ \A i, j \in 1 .. Len(q) : i < j /\ q[i][1] = "data" /\ q[j][1] = "data" => q[i][2] < q[j][2]
    /\ \A k \in Nat : d < k /\ k <= b => \E i \in 1 .. Len(q) : q[i][1] = "data" /\ q[i][2] = k
Bringing == poller = "push" /\ item[1] = "data"
RecordInv ==
    /\ Numbered(brought) /\ Numbered(delivered) /\ InOrder(queue, Len(delivered), Len(brought))
    /\ Bringing => item[2] = Len(brought) + 1
    /\ ~stopping => Len(brought) + (IF Bringing THEN 1 ELSE 0)
                       = IF peerSent <= Flights THEN 0 ELSE peerSent - Flights

(* One more numbered record.                                                   *)
LEMMA NumberedAppend ==
    ASSUME NEW s \in Seq(TlsItem), NEW x \in TlsItem, Numbered(s), x = <<"data", Len(s) + 1>>
    PROVE  Numbered(Append(s, x))
BY QueueAppend DEF Numbered

(* A queue that something is put into.                                         *)
LEMMA OrderAppend ==
    ASSUME NEW q \in Seq(TlsItem), NEW x \in TlsItem, NEW d \in Nat, NEW b \in Nat, InOrder(q, d, b)
    PROVE  /\ x[1] # "data" => InOrder(Append(q, x), d, b)
           /\ x = <<"data", b + 1>> => InOrder(Append(q, x), d, b + 1)
<1>. DEFINE r == Append(q, x)
<1>1. /\ Len(q) \in Nat /\ Len(r) = Len(q) + 1 /\ r[Len(q) + 1] = x
      /\ \A i \in 1 .. Len(q) : r[i] = q[i]
  BY QueueAppend
<1>2. \A i \in 1 .. Len(q) : q[i] \in TlsItem /\ q[i][2] \in Nat
  BY ItemKinds
<1>. HIDE DEF r
<1>3. ASSUME x[1] # "data" PROVE InOrder(r, d, b)
  <2>1. \A i \in 1 .. Len(r) : r[i][1] = "data" => i \in 1 .. Len(q) /\ r[i] = q[i]
    BY <1>1, <1>3
  <2>2. \A k \in Nat : d < k /\ k <= b => \E i \in 1 .. Len(r) : r[i][1] = "data" /\ r[i][2] = k
    <3>. SUFFICES ASSUME NEW k \in Nat, d < k, k <= b PROVE \E i \in 1 .. Len(r) : r[i][1] = "data" /\ r[i][2] = k
      OBVIOUS
    <3>1. PICK i \in 1 .. Len(q) : q[i][1] = "data" /\ q[i][2] = k
      BY DEF InOrder
    <3>. QED BY <1>1, <3>1
  <2>. QED BY <2>1, <2>2 DEF InOrder
<1>4. ASSUME x = <<"data", b + 1>> PROVE InOrder(r, d, b + 1)
  <2>1. \A i \in 1 .. Len(r) : i = Len(q) + 1 \/ (i \in 1 .. Len(q) /\ r[i] = q[i])
    BY <1>1
  <2>2. \A k \in Nat : d < k /\ k <= b + 1 => \E i \in 1 .. Len(r) : r[i][1] = "data" /\ r[i][2] = k
    <3>. SUFFICES ASSUME NEW k \in Nat, d < k, k <= b + 1 PROVE \E i \in 1 .. Len(r) : r[i][1] = "data" /\ r[i][2] = k
      OBVIOUS
    <3>1. CASE k = b + 1
      BY <1>1, <1>4, <3>1
    <3>2. CASE k # b + 1
      <4>1. PICK i \in 1 .. Len(q) : q[i][1] = "data" /\ q[i][2] = k
        BY <3>2 DEF InOrder
      <4>. QED BY <1>1, <4>1
    <3>. QED BY <3>1, <3>2
  <2>3. \A i \in 1 .. Len(r) : r[i][1] = "data" => r[i][2] > d /\ r[i][2] <= b + 1
    BY <1>1, <1>2, <1>4, <2>1 DEF InOrder
  <2>4. \A i, j \in 1 .. Len(r) : i < j /\ r[i][1] = "data" /\ r[j][1] = "data" => r[i][2] < r[j][2]
    <3>. TAKE i, j \in 1 .. Len(r)
    <3>1. CASE j = Len(q) + 1
      BY <1>1, <1>2, <1>4, <2>1, <3>1 DEF InOrder
    <3>2. CASE j # Len(q) + 1
      BY <1>1, <2>1, <3>2 DEF InOrder
    <3>. QED BY <3>1, <3>2
  <2>. QED BY <2>2, <2>3, <2>4 DEF InOrder
<1>. QED BY <1>3, <1>4 DEF r

(* A queue that something is taken from: a record is the one that is due.      *)
LEMMA OrderTail ==
    ASSUME NEW q \in Seq(TlsItem), q # <<>>, NEW d \in Nat, NEW b \in Nat, InOrder(q, d, b)
    PROVE  /\ Head(q)[1] # "data" => InOrder(Tail(q), d, b)
           /\ Head(q)[1] = "data" => Head(q) = <<"data", d + 1>> /\ InOrder(Tail(q), d + 1, b)
<1>. DEFINE r == Tail(q)
<1>1. /\ Len(q) \in Nat \ {0} /\ Len(r) = Len(q) - 1 /\ Head(q) = q[1] /\ Head(q) \in TlsItem
      /\ \A i \in 1 .. Len(q) - 1 : r[i] = q[i + 1]
  BY QueueTail
<1>2. \A i \in 1 .. Len(q) : q[i] \in TlsItem /\ q[i][2] \in Nat /\ q[i] = <<q[i][1], q[i][2]>>
  BY ItemKinds
<1>. HIDE DEF r
<1>3. \A i \in 1 .. Len(r) : i + 1 \in 1 .. Len(q) /\ r[i] = q[i + 1]
  BY <1>1
<1>4. \A i, j \in 1 .. Len(r) : i < j /\ r[i][1] = "data" /\ r[j][1] = "data" => r[i][2] < r[j][2]
  <2>. SUFFICES ASSUME NEW i \in 1 .. Len(r), NEW j \in 1 .. Len(r), i < j, r[i][1] = "data", r[j][1] = "data"
       PROVE  r[i][2] < r[j][2]
    OBVIOUS
  <2>1. i + 1 \in 1 .. Len(q) /\ j + 1 \in 1 .. Len(q) /\ i + 1 < j + 1
    BY <1>1, <1>3
  <2>. QED BY <1>3, <2>1 DEF InOrder
<1>5. \A i \in 2 .. Len(q) : i - 1 \in 1 .. Len(r) /\ r[i - 1] = q[i]
  BY <1>1
<1>6. ASSUME Head(q)[1] # "data" PROVE InOrder(r, d, b)
  <2>1. \A k \in Nat : d < k /\ k <= b => \E i \in 1 .. Len(r) : r[i][1] = "data" /\ r[i][2] = k
    <3>. SUFFICES ASSUME NEW k \in Nat, d < k, k <= b PROVE \E i \in 1 .. Len(r) : r[i][1] = "data" /\ r[i][2] = k
      OBVIOUS
    <3>1. PICK i \in 1 .. Len(q) : q[i][1] = "data" /\ q[i][2] = k
      BY DEF InOrder
    <3>2. i # 1
      BY <1>1, <1>6, <3>1
    <3>3. i \in 2 .. Len(q)
      BY <1>1, <3>2
    <3>4. i - 1 \in 1 .. Len(r) /\ r[i - 1] = q[i]
      BY <1>5, <3>3
    <3>. QED BY <3>1, <3>4
  <2>2. \A i \in 1 .. Len(r) : r[i][1] = "data" => r[i][2] > d /\ r[i][2] <= b
    BY <1>3 DEF InOrder
  <2>3. d <= b
    BY DEF InOrder
  <2>. QED BY <1>4, <2>1, <2>2, <2>3 DEF InOrder
<1>7. ASSUME Head(q)[1] = "data" PROVE Head(q) = <<"data", d + 1>> /\ InOrder(r, d + 1, b)
  <2>1. 1 \in 1 .. Len(q) /\ q[1][1] = "data" /\ q[1][2] > d /\ q[1][2] <= b /\ q[1][2] \in Nat
    BY <1>1, <1>2, <1>7 DEF InOrder
  <2>2. \A i \in 2 .. Len(q) : q[i][1] = "data" => q[1][2] < q[i][2] /\ q[i][2] \in Nat
    BY <1>1, <1>2, <2>1 DEF InOrder
  <2>3. q[1][2] = d + 1
    <3>1. PICK i \in 1 .. Len(q) : q[i][1] = "data" /\ q[i][2] = d + 1
      <4>1. d + 1 \in Nat /\ d < d + 1 /\ d + 1 <= b
        BY <2>1
      <4>. QED BY <4>1 DEF InOrder
    <3>2. CASE i = 1
      BY <3>1, <3>2
    <3>3. CASE i # 1
      BY <1>1, <2>1, <2>2, <3>1, <3>3
    <3>. QED BY <3>2, <3>3
  <2>4. Head(q) = <<"data", d + 1>>
    BY <1>1, <1>2, <2>1, <2>3
  <2>5. \A i \in 1 .. Len(r) : r[i][1] = "data" => r[i][2] > d + 1 /\ r[i][2] <= b
    <3>. SUFFICES ASSUME NEW i \in 1 .. Len(r), r[i][1] = "data" PROVE r[i][2] > d + 1 /\ r[i][2] <= b
      OBVIOUS
    <3>1. i + 1 \in 2 .. Len(q) /\ r[i] = q[i + 1]
      BY <1>1, <1>3
    <3>. QED BY <2>2, <2>3, <3>1 DEF InOrder
  <2>6. \A k \in Nat : d + 1 < k /\ k <= b => \E i \in 1 .. Len(r) : r[i][1] = "data" /\ r[i][2] = k
    <3>. SUFFICES ASSUME NEW k \in Nat, d + 1 < k, k <= b PROVE \E i \in 1 .. Len(r) : r[i][1] = "data" /\ r[i][2] = k
      OBVIOUS
    <3>1. PICK i \in 1 .. Len(q) : q[i][1] = "data" /\ q[i][2] = k
      BY DEF InOrder
    <3>2. i # 1
      BY <2>3, <3>1
    <3>3. i \in 2 .. Len(q)
      BY <1>1, <3>2
    <3>4. i - 1 \in 1 .. Len(r) /\ r[i - 1] = q[i]
      BY <1>5, <3>3
    <3>. QED BY <3>1, <3>4
  <2>7. d + 1 <= b
    BY <2>1, <2>3
  <2>. QED BY <1>4, <2>4, <2>5, <2>6, <2>7 DEF InOrder
<1>. QED BY <1>6, <1>7 DEF r

(* Every step keeps the records in order.                                      *)
LEMMA RecordStep == TlsTypes /\ FreshInv /\ EndInv /\ RecordInv /\ [TlsNext]_tlsVars => RecordInv'
<1>. SUFFICES ASSUME TlsTypes, FreshInv, EndInv, RecordInv, [TlsNext]_tlsVars PROVE RecordInv'
  OBVIOUS
<1>1. CASE PollerCheck
  BY <1>1
  DEF PollerCheck, CheckPc, RecordInv, Bringing, TlsTypes, TlsFlags, FreshInv, Fresh, sessionV,
      incomingV, counterV, bringV, peerV
<1>2. CASE PollerEnqueue
  BY <1>2
  DEF PollerEnqueue, RecordInv, Bringing, TlsTypes, TlsFlags, FreshInv, Fresh, sessionV,
      incomingV, counterV, bringV, peerV
<1>3. CASE OwnerCheck
  BY <1>3
  DEF OwnerCheck, CheckPc, RecordInv, Bringing, TlsTypes, TlsFlags, FreshInv, Fresh, sessionV,
      incomingV, counterV, bringV, peerV
<1>4. CASE OwnerEnqueue
  BY <1>4
  DEF OwnerEnqueue, RecordInv, Bringing, TlsTypes, TlsFlags, FreshInv, Fresh, sessionV, incomingV,
      counterV, bringV, peerV
<1>5. CASE Push
  <2>1. /\ poller = "push" /\ poller' = "check" /\ queue \in Seq(TlsItem) /\ item \in TlsItem
        /\ brought \in Seq(TlsItem) /\ delivered \in Seq(TlsItem)
        /\ UNCHANGED <<stopping, peerSent, delivered>>
    BY <1>5 DEF Push, peerV, sessionV, TlsTypes, TlsData
  <2>2. ~stopping /\ queue' = Append(queue, item)
    BY <1>5, <2>1 DEF Push, EndInv
  <2>3. ~Bringing' /\ (Bringing <=> item[1] = "data")
    BY <2>1 DEF Bringing
  <2>4. Len(delivered) \in Nat /\ Len(brought) \in Nat
    BY <2>1
  <2>5. CASE item[1] # "data"
    <3>1. brought' = brought
      BY <1>5, <2>5 DEF Push
    <3>2. InOrder(queue', Len(delivered'), Len(brought'))
      BY <2>1, <2>2, <2>4, <2>5, <3>1, OrderAppend DEF RecordInv
    <3>. QED BY <2>1, <2>3, <2>5, <3>1, <3>2 DEF RecordInv
  <2>6. CASE item[1] = "data"
    <3>1. brought' = Append(brought, item) /\ item = <<"data", Len(brought) + 1>>
      BY <1>5, <2>1, <2>2, <2>3, <2>6, ItemKinds DEF Push, RecordInv
    <3>2. Len(brought') = Len(brought) + 1 /\ Numbered(brought')
      BY <2>1, <3>1, QueueAppend, NumberedAppend DEF RecordInv
    <3>3. InOrder(queue', Len(delivered'), Len(brought'))
      BY <2>1, <2>2, <2>4, <3>1, <3>2, OrderAppend DEF RecordInv
    <3>4. Len(brought) + 1 = IF peerSent <= Flights THEN 0 ELSE peerSent - Flights
      BY <2>2, <2>3, <2>6 DEF RecordInv
    <3>. QED BY <2>1, <2>3, <2>4, <3>2, <3>3, <3>4 DEF RecordInv
  <2>. QED BY <2>5, <2>6
<1>6. CASE RecvStart
  BY <1>6
  DEF RecvStart, Active, RecordInv, Bringing, TlsTypes, TlsFlags, FreshInv, Fresh, sessionV,
      incomingV, counterV, bringV, peerV
<1>7. CASE RecvEmpty
  BY <1>7
  DEF RecvEmpty, RecordInv, Bringing, TlsTypes, TlsFlags, FreshInv, Fresh, sessionV, incomingV,
      counterV, bringV, peerV
<1>8. CASE RecvReturn
  BY <1>8
  DEF RecvReturn, RecordInv, Bringing, TlsTypes, TlsFlags, FreshInv, Fresh, sessionV, incomingV,
      counterV, bringV, peerV
<1>9. CASE RecvItem
  <2>1. /\ queue \in Seq(TlsItem) /\ queue # <<>> /\ queue' = Tail(queue) /\ Head(queue) \in TlsItem
        /\ delivered \in Seq(TlsItem) /\ brought \in Seq(TlsItem)
        /\ UNCHANGED <<poller, item, peerSent, brought>>
    BY <1>9, ItemEffects DEF TlsTypes, TlsData, bringV, peerV
  <2>2. /\ Bringing' <=> Bringing
        /\ ~stopping' => ~stopping
    <3>1. stopping' = stopping \/ stopping' = (stopping \/ backend = "openssl")
      BY <1>9, ItemEffects
    <3>2. ~stopping' => ~stopping
      BY <3>1, Zenon
    <3>. QED BY <2>1, <3>2 DEF Bringing
  <2>3. Len(delivered) \in Nat /\ Len(brought) \in Nat
    BY <2>1
  <2>4. Numbered(delivered') /\ InOrder(queue', Len(delivered'), Len(brought))
    <3>1. CASE Head(queue)[1] # "data"
      <4>1. delivered' = delivered
        BY <1>9, <3>1, ItemEffects
      <4>. QED BY <2>1, <2>3, <3>1, <4>1, OrderTail DEF RecordInv
    <3>2. CASE Head(queue)[1] = "data"
      <4>1. delivered' = Append(delivered, Head(queue))
        BY <1>9, <3>2, ItemEffects DEF Ends
      <4>2. /\ Head(queue) = <<"data", Len(delivered) + 1>>
            /\ InOrder(Tail(queue), Len(delivered) + 1, Len(brought))
        BY <2>1, <2>3, <3>2, OrderTail DEF RecordInv
      <4>3. Len(delivered') = Len(delivered) + 1
        BY <2>1, <4>1, QueueAppend
      <4>. QED BY <2>1, <4>1, <4>2, <4>3, NumberedAppend DEF RecordInv
    <3>. QED BY <3>1, <3>2
  <2>5. Numbered(brought')
    BY <2>1 DEF RecordInv
  <2>. QED BY <2>1, <2>2, <2>4, <2>5 DEF RecordInv, Bringing
<1>10. CASE Answer
  BY <1>10
  DEF Answer, RecordInv, Bringing, TlsTypes, TlsFlags, FreshInv, Fresh, sessionV, incomingV,
      counterV, bringV, peerV
<1>11. CASE RecvFinal
  BY <1>11
  DEF RecvFinal, RecordInv, Bringing, TlsTypes, TlsFlags, FreshInv, Fresh, sessionV, incomingV,
      counterV, bringV, peerV
<1>12. CASE Start
  BY <1>12
  DEF Start, RecordInv, Bringing, TlsTypes, TlsFlags, FreshInv, Fresh, sessionV, incomingV,
      counterV, bringV, peerV
<1>13. CASE Stop
  BY <1>13
  DEF Stop, RecordInv, Bringing, TlsTypes, TlsFlags, FreshInv, Fresh, sessionV, incomingV,
      counterV, bringV, peerV
<1>14. CASE Arrive
  <2>1. /\ registered /\ peerEnd = "open" /\ poller = "idle" /\ poller' = "push"
        /\ UNCHANGED <<queue, stopping, brought, delivered>>
    BY <1>14 DEF Arrive, incomingV, sessionV
  <2>2. ~stopping /\ ~Bringing
    BY <2>1 DEF EndInv, IsShut, Bringing
  <2>3. Len(brought) = IF peerSent <= Flights THEN 0 ELSE peerSent - Flights
    <3>1. Len(brought) \in Nat
      BY DEF TlsTypes, TlsData
    <3>. QED BY <2>2, <3>1 DEF RecordInv
  <2>4. \/ peerSent' = peerSent /\ item' \in {<<"idle", 0>>, <<"close", 0>>, <<"bad", 0>>}
        \/ peerSent < Flights /\ peerSent' = peerSent + 1 /\ item' = <<"flight", 0>>
        \/ peerSent >= Flights /\ peerSent' = peerSent + 1 /\ item' = <<"data", peerSent - Flights + 1>>
    BY <1>14, TlsConstants DEF Arrive, TlsTypes, TlsFlags
  <2>5. /\ Bringing' => item'[2] = Len(brought) + 1
        /\ Len(brought) + (IF Bringing' THEN 1 ELSE 0)
              = IF peerSent' <= Flights THEN 0 ELSE peerSent' - Flights
    BY <2>1, <2>3, <2>4, TlsConstants DEF Bringing, TlsTypes, TlsFlags
  <2>. QED BY <2>1, <2>5 DEF RecordInv
<1>15. CASE IncomingEnd
  BY <1>15
  DEF IncomingEnd, RecordInv, Bringing, TlsTypes, TlsFlags, FreshInv, Fresh, sessionV, incomingV,
      counterV, bringV, peerV
<1>16. CASE UNCHANGED tlsVars
  BY <1>16
  DEF tlsVars, RecordInv, Bringing, TlsTypes, TlsFlags, FreshInv, Fresh, sessionV, incomingV,
      counterV, bringV, peerV
<1>. QED
  BY <1>1, <1>2, <1>3, <1>4, <1>5, <1>6, <1>7, <1>8, <1>9, <1>10, <1>11, <1>12, <1>13, <1>14,
      <1>15, <1>16
  DEF TlsNext, TlsLibrary

(* Numbered records, fewer of which were delivered than brought.               *)
LEMMA NumberedPrefix ==
    ASSUME NEW s \in Seq(TlsItem), NEW u \in Seq(TlsItem), Numbered(s), Numbered(u), Len(s) <= Len(u)
    PROVE  IsPrefix(s, u) /\ (Len(s) = Len(u) => s = u)
<1>1. Len(s) \in Nat /\ Len(u) \in Nat
  OBVIOUS
<1>2. \A i \in 1 .. Len(s) : s[i] = u[i]
  <2>. TAKE i \in 1 .. Len(s)
  <2>1. i \in 1 .. Len(u)
    BY <1>1
  <2>. QED BY <2>1 DEF Numbered
<1>3. SubSeq(s, 1, Len(s)) = SubSeq(u, 1, Len(s))
  BY <1>1, <1>2
<1>4. Len(s) = Len(u) => s = u
  BY <1>1, <1>2
<1>. QED BY <1>3, <1>4 DEF IsPrefix

(* The parts together.                                                         *)
TlsIInv == TlsTypes /\ FreshInv /\ SessionInv /\ EndInv /\ OverInv /\ JobInv /\ RecordInv

(* What the run checks follows.                                                *)
LEMMA TlsImplied == TlsIInv => TlsInv /\ Len(queue) <= Limit
<1>. SUFFICES ASSUME TlsIInv PROVE TlsInv /\ Len(queue) <= Limit
  OBVIOUS
<1>1. NoneWaiting
  BY DEF TlsIInv, JobInv, NoneWaiting
<1>2. delivered \in Seq(TlsItem) /\ brought \in Seq(TlsItem) /\ Len(delivered) <= Len(brought)
  BY DEF TlsIInv, TlsTypes, TlsData, RecordInv, InOrder
<1>3. IsPrefix(delivered, brought) /\ (Len(delivered) = Len(brought) => delivered = brought)
  BY <1>2, NumberedPrefix DEF TlsIInv, RecordInv
<1>4. queue = <<>> => Len(delivered) = Len(brought)
  <2>. SUFFICES ASSUME queue = <<>> PROVE Len(delivered) = Len(brought)
    OBVIOUS
  <2>1. Len(delivered) \in Nat /\ Len(brought) \in Nat /\ Len(queue) = 0
    BY <1>2
  <2>2. \A k \in Nat : ~(Len(delivered) < k /\ k <= Len(brought))
    BY <2>1 DEF TlsIInv, RecordInv, InOrder
  <2>. QED BY <1>2, <2>1, <2>2
<1>5. ended > 0 => queue = <<>> /\ ended = 1
  BY DEF TlsIInv, SessionInv, FreshInv, OverInv, Over, TlsTypes, TlsFlags
<1>6. ended <= 1
  BY <1>5 DEF TlsIInv, TlsTypes, TlsFlags
<1>7. DeliveredBeforeEnd
  BY <1>3, <1>4, <1>5, <1>6 DEF DeliveredBeforeEnd
<1>8. NotFailedLater /\ NotStuck
  BY DEF TlsIInv, SessionInv, NotFailedLater, NotStuck
<1>. QED BY <1>1, <1>7, <1>8 DEF TlsInv, TlsIInv, TlsTypes

(* Jobs, the poll thread and stop() of a TLS transport, in the three builds    *)
(* and for any number of flights and records: no record waits without a job,   *)
(* the records are delivered in order and once, all of them before the end of  *)
(* the stream, which is reported once, an established connection does not      *)
(* fail, and the queue holds no more than its limit.                           *)
THEOREM TlsCorrect == TlsSpec => [](TlsInv /\ Len(queue) <= Limit)
<1>1. TlsInit => TlsIInv
  <2>. SUFFICES ASSUME TlsInit PROVE TlsIInv
    OBVIOUS
  <2>1. TlsTypes
    <3>1. TlsFlags
      BY DEF TlsInit, TlsFlags, RecvSteps
    <3>2. TlsData /\ Len(queue) = 0
      BY DEF TlsInit, TlsData
    <3>3. pending = jobs
      BY DEF TlsInit
    <3>. QED BY <3>1, <3>2, <3>3, TlsConstants DEF TlsTypes
  <2>2. FreshInv /\ SessionInv /\ EndInv /\ OverInv /\ JobInv
    BY DEF TlsInit, FreshInv, SessionInv, EndInv, OverInv, Over, Fresh, JobInv, Active
  <2>3. RecordInv
    BY TlsConstants DEF TlsInit, RecordInv, Numbered, InOrder, Bringing
  <2>. QED BY <2>1, <2>2, <2>3 DEF TlsIInv
<1>2. TlsIInv /\ [TlsNext]_tlsVars => TlsIInv'
  BY TlsTypesStep, FreshStep, SessionStep, EndStep, OverStep, JobStep, RecordStep DEF TlsIInv
<1>. QED BY <1>1, <1>2, TlsImplied, PTL DEF TlsSpec

-----------------------------------------------------------------------------
(* A WebSocket, for any number of calls of open() and close(), with or without *)
(* a proxy and TLS, connecting or accepted.                                    *)

(* The instructions of a thread, by what they carry.                           *)
OnTransport == {"setTcp", "start", "check", "init", "end"}
OnSocket == {"close", "closing", "stop", "shut", "detach", "onOpen", "open", "ifConnecting"}
Instructions ==
    (OnTransport \X Kinds \X Gens) \cup (OnSocket \X {"-"} \X {0}) \cup ({"reset"} \X [Kinds -> 0 .. MaxOpens] \X {0})
SocketTypes ==
    /\ TypeOK
    /\ stacks \in [ThreadNames -> Seq(Instructions)]

(* The transports that a configuration uses, and the thread that starts each:   *)
(* the one that runs the callback of the transport below.                       *)
Chain == {"tcp", "ws"} \cup (IF config.proxy THEN {"proxy"} ELSE {}) \cup (IF config.secure THEN {"tls"} ELSE {})
Starter(k) == IF k = "tcp" \/ (config.passive /\ Below(k) = "tcp") THEN "app" ELSE ThreadOf(Below(k))
Taken == {"tcp", "tls", "ws"}

(* Where an instruction may stand in a thread.                                  *)
Placed(t, i) ==
    LET x == stacks[t][i] IN
    /\ x[1] \in {"setTcp", "start", "init", "detach", "reset", "onOpen", "open"} => i = 1
    /\ x[1] = "check" /\ x[2] # "tcp" => i = 1
    /\ x[1] \in {"setTcp", "start"} /\ x[2] = "tcp" => Len(stacks[t]) = 1
    /\ x[1] \in {"setTcp", "start", "check", "init"} => x[2] \in Chain /\ t = Starter(x[2])
    /\ x[1] = "setTcp" => x[2] = "tcp"
    /\ x[1] = "init" => x[2] # "tcp"
PlacesInv == \A t \in ThreadNames : \A i \in 1 .. Len(stacks[t]) : Placed(t, i)

(* x is an instruction that the thread t has before it.                         *)
In(t, x) == \E i \in 1 .. Len(stacks[t]) : stacks[t][i] = x

(* Somebody takes the callbacks of the transport k of generation g away.        *)
Resetting(k, g) == \E t \in ThreadNames : At(t, "reset") /\ Top(t)[2][k] = g

(* A pointer that is about to be stored is not set.                             *)
StoreInv ==
    \A t \in ThreadNames :
        /\ At(t, "start") \/ At(t, "setTcp") => ptr[Top(t)[2]] = 0
        /\ \A k \in Kinds, g \in Gens : In(t, I("check", k, g)) => ptr[k] \in {0, g}
ChainInv ==
    /\ \A k \in Kinds, g \in Gens : ts[k][g] \in {"Connecting", "Connected"} => k \in Chain
    /\ \A g \in Gens : config.passive => ts.tcp[g] # "Connecting"
(* A transport that still reports is the one that is stored, or about to be silenced. *)
LiveInv ==
    \A k \in Taken, g \in Gens :
        cb[k][g] /\ ts[k][g] \in {"Connecting", "Connected"} => ptr[k] = g \/ Resetting(k, g)
(* While the TCP transport is being made, nobody is in a callback of an earlier one *)
(* and nobody has one in hand.                                                   *)
BeginInv ==
    /\ \A g \in Gens : g > gen => ts.tcp[g] \notin {"Connecting", "Connected"}
    /\ \A t \in ThreadNames : At(t, "setTcp") \/ (At(t, "start") /\ Top(t)[2] = "tcp") =>
        /\ Top(t)[3] = gen /\ ts.tcp[gen] \notin {"Connecting", "Connected"}
        /\ \A u \in ThreadNames, g \in Gens : ~Holds(u, "tcp", g)
        /\ \A g \in Gens : ~Resetting("tcp", g)
(* Who is in a callback of the TCP transport, or silences it, finds this one     *)
(* stored, or none.                                                              *)
HoldInv ==
    \A g \in Gens : Resetting("tcp", g) \/ (\E t \in ThreadNames : Holds(t, "tcp", g)) => ptr.tcp \in {0, g}
(* The proxy transport is started from the callback of the TCP transport below it. *)
ProxyInv ==
    \A t \in ThreadNames :
        /\ At(t, "init") /\ Top(t)[2] = "proxy" => \E g \in Gens : Holds(t, "tcp", g)
        /\ \A g \in Gens : (At(t, "start") \/ At(t, "check")) /\ Top(t)[2] = "proxy" /\ Top(t)[3] = g =>
            /\ Holds(t, "tcp", g)
            /\ ts.tcp[g] \in {"none", "gone"} \/ ptr.tcp = g \/ Resetting("tcp", g)
LeakInv ==
    \A g \in Gens :
        ts.tcp[g] \in {"none", "gone"} \/ ptr.tcp = g \/ ptr.proxy = g \/ g \in torn \/ Resetting("tcp", g)
(* A transport that a closed WebSocket holds is about to be dropped.             *)
DropInv ==
    wstate = "Closed" => \A k \in Taken : ptr[k] # 0 =>
        \E t \in ThreadNames :
            \/ At(t, "detach")
            \/ \E g \in Gens : In(t, I("check", k, g))
(* One thread at most closes the transports, after which onClosed is called.     *)
InClose(t) == At(t, "detach") \/ At(t, "reset")
CloseInv ==
    ~revived =>
        /\ wstate # "Closed" => closed = gen - 1 /\ torn = {} /\ \A t \in ThreadNames : ~InClose(t)
        /\ wstate = "Closed" =>
            \/ closed = gen /\ \A t \in ThreadNames : ~InClose(t)
            \/ closed = gen - 1 /\ \E t \in ThreadNames : InClose(t) /\ \A u \in ThreadNames : InClose(u) => u = t
OpenInv ==
    ~revived /\ wstate # "Closed" /\ (wstate = "Open" \/ \E t \in ThreadNames : At(t, "onOpen") \/ At(t, "open")) =>
        ptr.ws # 0

OwnersInv == StoreInv /\ ChainInv /\ LiveInv /\ BeginInv /\ HoldInv /\ ProxyInv /\ LeakInv
StateInv == DropInv /\ CloseInv /\ OpenInv
SocketInv == SocketTypes /\ PlacesInv /\ OwnersInv /\ StateInv

(* What a step does to the thread t: its first instruction is replaced by x, or *)
(* it is gone and what comes instead only reads the state or starts a close().   *)
Plain == {"close", "closing", "stop", "shut", "ifConnecting"}
Puts(t, x) ==
    /\ stacks' \in [ThreadNames -> Seq(Instructions)]
    /\ \A u \in ThreadNames : u # t => stacks'[u] = stacks[u]
    /\ Len(stacks'[t]) = Len(stacks[t]) /\ Len(stacks[t]) \in Nat \ {0}
    /\ stacks'[t][1] = x
    /\ \A i \in 2 .. Len(stacks[t]) : stacks'[t][i] = stacks[t][i]
Calm(t) ==
    /\ stacks' \in [ThreadNames -> Seq(Instructions)]
    /\ \A u \in ThreadNames : u # t => stacks'[u] = stacks[u]
    /\ \A i \in 1 .. Len(stacks'[t]) :
        \/ stacks'[t][i][1] \in Plain
        \/ \E j \in 2 .. Len(stacks[t]) : stacks'[t][i] = stacks[t][j]
    /\ \A j \in 2 .. Len(stacks[t]) : stacks[t][j][1] # "end" =>
        \E i \in 1 .. Len(stacks'[t]) : stacks'[t][i] = stacks[t][j]

(* An instruction is a triple, and what it carries follows from what it is.   *)
LEMMA InstructionForm ==
    ASSUME NEW x \in Instructions
    PROVE  /\ x = <<x[1], x[2], x[3]>> /\ x[1] \in OnTransport \cup OnSocket \cup {"reset"}
           /\ x[1] \in OnTransport => x[2] \in Kinds /\ x[3] \in Gens
           /\ x[1] = "reset" => x[2] \in [Kinds -> 0 .. MaxOpens]
<1>1. CASE x \in OnTransport \X Kinds \X Gens
  BY <1>1 DEF OnTransport
<1>2. CASE x \in OnSocket \X {"-"} \X {0}
  BY <1>2 DEF OnTransport, OnSocket
<1>3. CASE x \in {"reset"} \X [Kinds -> 0 .. MaxOpens] \X {0}
  BY <1>3 DEF OnTransport, OnSocket
<1>4. QED
  BY <1>1, <1>2, <1>3 DEF Instructions

(* The instructions that the operations of WebSocket put in a thread.         *)
LEMMA InstructionMade ==
    /\ \A op \in OnSocket : I(op, "-", 0) \in Instructions
    /\ \A op \in OnTransport, k \in Kinds, g \in Gens : I(op, k, g) \in Instructions
    /\ \A p \in [Kinds -> 0 .. MaxOpens] : I("reset", p, 0) \in Instructions
    /\ \A op, k, g : I(op, k, g)[1] = op /\ I(op, k, g)[2] = k /\ I(op, k, g)[3] = g
BY DEF I, Instructions

(* An operation that ends, with the end of a callback that follows it.        *)
LEMMA DoNothing ==
    ASSUME SocketTypes, NEW t \in ThreadNames, stacks[t] # <<>>, Do(t, <<>>)
    PROVE  Calm(t)
<1> DEFINE s == stacks[t]
<1>1. s \in Seq(Instructions) /\ s # <<>> /\ Len(s) \in Nat \ {0}
  BY DEF SocketTypes
<1>2. Tail(s) \in Seq(Instructions) /\ Len(Tail(s)) = Len(s) - 1 /\ \A i \in 1 .. Len(s) - 1 : Tail(s)[i] = s[i + 1]
  BY <1>1
<1>3. <<>> \o Tail(s) = Tail(s)
  BY <1>2
<1>4. stacks' = [stacks EXCEPT ![t] = IF Tail(s) # <<>> /\ Tail(s)[1][1] = "end" THEN Tail(Tail(s)) ELSE Tail(s)]
  BY <1>3 DEF Do
<1> HIDE DEF s
<1>5. /\ stacks'[t] = IF Tail(s) # <<>> /\ Tail(s)[1][1] = "end" THEN Tail(Tail(s)) ELSE Tail(s)
      /\ \A u \in ThreadNames : u # t => stacks'[u] = stacks[u]
      /\ stacks \in [ThreadNames -> Seq(Instructions)] /\ DOMAIN stacks' = ThreadNames
      /\ stacks' = [u \in ThreadNames |-> stacks'[u]]
  BY <1>4 DEF SocketTypes
<1>6. CASE Tail(s) # <<>> /\ Tail(s)[1][1] = "end"
  <2> DEFINE r == Tail(Tail(s))
  <2>1. r \in Seq(Instructions) /\ Len(r) = Len(s) - 2 /\ Len(s) >= 2 /\ Len(r) \in Nat
    BY <1>1, <1>2, <1>6
  <2>2. \A i \in 1 .. Len(s) - 2 : r[i] = s[i + 2]
    BY <1>1, <1>2, <1>6
  <2>3. stacks'[t] = r
    BY <1>5, <1>6
  <2> HIDE DEF r
  <2>4. stacks' \in [ThreadNames -> Seq(Instructions)]
    BY <1>5, <2>1, <2>3
  <2>5. \A i \in 1 .. Len(r) : i + 2 \in 2 .. Len(s) /\ r[i] = s[i + 2]
    BY <2>1, <2>2, <1>1
  <2>6. s[2][1] = "end"
    BY <1>1, <1>2, <1>6, <2>1
  <2>7. \A j \in 2 .. Len(s) : s[j][1] # "end" => j - 2 \in 1 .. Len(r) /\ r[j - 2] = s[j]
    <3> TAKE j \in 2 .. Len(s)
    <3> HAVE s[j][1] # "end"
    <3>1. j \in Nat /\ j # 2 /\ j - 2 \in 1 .. Len(s) - 2
      BY <2>6, <1>1
    <3>2. r[j - 2] = s[(j - 2) + 2]
      BY <3>1, <2>2
    <3>3. (j - 2) + 2 = j
      BY <3>1
    <3>4. QED
      BY <3>1, <3>2, <3>3, <2>1
  <2>8. QED
    BY <2>3, <2>4, <2>5, <2>7, <1>5 DEF Calm, s
<1>7. CASE ~(Tail(s) # <<>> /\ Tail(s)[1][1] = "end")
  <2> DEFINE r == Tail(s)
  <2>1. r \in Seq(Instructions) /\ Len(r) = Len(s) - 1 /\ Len(r) \in Nat
    BY <1>1, <1>2
  <2>2. \A i \in 1 .. Len(s) - 1 : r[i] = s[i + 1]
    BY <1>2
  <2>3. stacks'[t] = r
    BY <1>5, <1>7
  <2> HIDE DEF r
  <2>4. stacks' \in [ThreadNames -> Seq(Instructions)]
    BY <1>5, <2>1, <2>3
  <2>5. \A i \in 1 .. Len(r) : i + 1 \in 2 .. Len(s) /\ r[i] = s[i + 1]
    BY <2>1, <2>2, <1>1
  <2>7. \A j \in 2 .. Len(s) : j - 1 \in 1 .. Len(r) /\ r[j - 1] = s[j]
    <3> TAKE j \in 2 .. Len(s)
    <3>1. j \in Nat /\ j - 1 \in 1 .. Len(s) - 1 /\ (j - 1) + 1 = j
      BY <1>1
    <3>2. r[j - 1] = s[(j - 1) + 1]
      BY <3>1, <2>2
    <3>4. QED
      BY <3>1, <3>2, <2>1
  <2>8. QED
    BY <2>3, <2>4, <2>5, <2>7, <1>5 DEF Calm, s
<1>8. QED
  BY <1>6, <1>7

(* An operation that ends in remoteClose().                                   *)
LEMMA DoRemoteClose ==
    ASSUME SocketTypes, NEW t \in ThreadNames, stacks[t] # <<>>, Do(t, RemoteClose)
    PROVE  Calm(t)
<1> DEFINE s == stacks[t]
           a == I("close", "-", 0)
           b == I("shut", "-", 0)
           r == RemoteClose \o Tail(s)
<1>1. s \in Seq(Instructions) /\ s # <<>> /\ Len(s) \in Nat \ {0}
  BY DEF SocketTypes
<1>2. Tail(s) \in Seq(Instructions) /\ Len(Tail(s)) = Len(s) - 1 /\ \A i \in 1 .. Len(s) - 1 : Tail(s)[i] = s[i + 1]
  BY <1>1
<1>3. a \in Instructions /\ b \in Instructions /\ a[1] = "close" /\ b[1] = "shut"
  BY InstructionMade DEF OnSocket
<1> HIDE DEF a, b
<1>4. RemoteClose = <<a, b>>
  BY DEF RemoteClose, a, b
<1>5. /\ r \in Seq(Instructions) /\ Len(r) = Len(s) + 1 /\ r[1] = a /\ r[2] = b /\ r # <<>>
      /\ \A i \in 1 .. Len(s) - 1 : r[i + 2] = Tail(s)[i]
  <2>1. <<a, b>> \in Seq(Instructions) /\ Len(<<a, b>>) = 2
    BY <1>3
  <2>2. QED
    BY <1>1, <1>2, <1>4, <2>1
<1> HIDE DEF r, s
<1>6. stacks' = [stacks EXCEPT ![t] = r]
  BY <1>5, <1>3 DEF Do, r, s
<1>7. /\ stacks'[t] = r
      /\ \A u \in ThreadNames : u # t => stacks'[u] = stacks[u]
      /\ stacks' \in [ThreadNames -> Seq(Instructions)]
  BY <1>6, <1>5 DEF SocketTypes
<1>8. \A i \in 1 .. Len(r) : r[i][1] \in Plain \/ \E j \in 2 .. Len(s) : r[i] = s[j]
  <2> TAKE i \in 1 .. Len(r)
  <2>1. CASE i \in {1, 2}
    BY <2>1, <1>5, <1>3 DEF Plain
  <2>2. CASE i \notin {1, 2}
    <3>1. i \in Nat /\ i - 2 \in 1 .. Len(s) - 1 /\ (i - 2) + 2 = i /\ (i - 2) + 1 = i - 1 /\ i - 1 \in 2 .. Len(s)
      BY <2>2, <1>5, <1>1
    <3>2. r[(i - 2) + 2] = Tail(s)[i - 2] /\ Tail(s)[i - 2] = s[(i - 2) + 1]
      BY <3>1, <1>5, <1>2
    <3>3. QED
      BY <3>1, <3>2
  <2>3. QED
    BY <2>1, <2>2
<1>9. \A j \in 2 .. Len(s) : j + 1 \in 1 .. Len(r) /\ r[j + 1] = s[j]
  <2> TAKE j \in 2 .. Len(s)
  <2>1. j \in Nat /\ j - 1 \in 1 .. Len(s) - 1 /\ (j - 1) + 2 = j + 1 /\ (j - 1) + 1 = j /\ j + 1 \in 1 .. Len(r)
    BY <1>5, <1>1
  <2>2. r[(j - 1) + 2] = Tail(s)[j - 1] /\ Tail(s)[j - 1] = s[(j - 1) + 1]
    BY <2>1, <1>5, <1>2
  <2>3. QED
    BY <2>1, <2>2
<1>10. QED
  BY <1>7, <1>8, <1>9 DEF Calm, s

(* An operation that goes on with the instruction x.                          *)
LEMMA DoOne ==
    ASSUME SocketTypes, NEW t \in ThreadNames, stacks[t] # <<>>, NEW x \in Instructions, x[1] # "end", Do(t, <<x>>)
    PROVE  Puts(t, x)
<1> DEFINE s == stacks[t]
           r == <<x>> \o Tail(s)
<1>1. s \in Seq(Instructions) /\ s # <<>> /\ Len(s) \in Nat \ {0}
  BY DEF SocketTypes
<1>2. Tail(s) \in Seq(Instructions) /\ Len(Tail(s)) = Len(s) - 1 /\ \A i \in 1 .. Len(s) - 1 : Tail(s)[i] = s[i + 1]
  BY <1>1
<1>5. /\ r \in Seq(Instructions) /\ Len(r) = Len(s) /\ r[1] = x /\ r # <<>>
      /\ \A i \in 1 .. Len(s) - 1 : r[i + 1] = Tail(s)[i]
  <2>1. <<x>> \in Seq(Instructions) /\ Len(<<x>>) = 1
    OBVIOUS
  <2>2. QED
    BY <1>1, <1>2, <2>1
<1> HIDE DEF r, s
<1>6. stacks' = [stacks EXCEPT ![t] = r]
  BY <1>5 DEF Do, r, s
<1>7. /\ stacks'[t] = r
      /\ \A u \in ThreadNames : u # t => stacks'[u] = stacks[u]
      /\ stacks' \in [ThreadNames -> Seq(Instructions)]
  BY <1>6, <1>5 DEF SocketTypes
<1>8. \A i \in 2 .. Len(s) : r[i] = s[i]
  <2> TAKE i \in 2 .. Len(s)
  <2>1. i \in Nat /\ i - 1 \in 1 .. Len(s) - 1 /\ (i - 1) + 1 = i
    BY <1>1
  <2>2. r[(i - 1) + 1] = Tail(s)[i - 1] /\ Tail(s)[i - 1] = s[(i - 1) + 1]
    BY <2>1, <1>5, <1>2
  <2>3. QED
    BY <2>1, <2>2
<1>9. QED
  BY <1>1, <1>5, <1>7, <1>8 DEF Puts, s

(* A step to a plain instruction is calm.                                     *)
LEMMA PushPlain ==
    ASSUME NEW t \in ThreadNames, NEW x, x[1] \in Plain, Puts(t, x)
    PROVE  Calm(t)
<1>1. \A i \in 1 .. Len(stacks'[t]) : i = 1 \/ i \in 2 .. Len(stacks[t])
  BY DEF Puts
<1>2. \A j \in 2 .. Len(stacks[t]) : j \in 1 .. Len(stacks'[t])
  BY DEF Puts
<1>3. QED
  BY <1>1, <1>2 DEF Puts, Calm

Special == {"setTcp", "start", "init", "detach", "reset", "onOpen", "open"}

(* Who runs an instruction, and what every thread still has before it, after a  *)
(* step of t that is calm.                                                      *)
LEMMA CalmFacts ==
    ASSUME SocketTypes, PlacesInv, NEW t \in ThreadNames, Calm(t)
    PROVE  /\ \A u \in ThreadNames, op \in Special : At(u, op)' => u # t /\ At(u, op) /\ Top(u)' = Top(u)
           /\ \A u \in ThreadNames : \A op : u # t => (At(u, op)' <=> At(u, op)) /\ Top(u)' = Top(u)
           /\ At(t, "check")' => Top(t)'[2] = "tcp"
           /\ \A u \in ThreadNames : \A x : In(u, x)' => In(u, x) \/ x[1] \in Plain
           /\ \A u \in ThreadNames : \A x : In(u, x) /\ x[1] # "end" => In(u, x)' \/ (u = t /\ At(t, x[1]) /\ Top(t) = x)
           /\ \A u \in ThreadNames : \A x : u # t => (In(u, x)' <=> In(u, x))
<1>1. stacks \in [ThreadNames -> Seq(Instructions)] /\ stacks' \in [ThreadNames -> Seq(Instructions)]
  BY DEF SocketTypes, Calm
<1>2. \A u \in ThreadNames : u # t => stacks'[u] = stacks[u]
  BY DEF Calm
<1>3. \A u \in ThreadNames : \A op : u # t => (At(u, op)' <=> At(u, op)) /\ Top(u)' = Top(u)
  BY <1>2 DEF At, Top
<1>4. \A u \in ThreadNames : \A x : u # t => (In(u, x)' <=> In(u, x))
  BY <1>2 DEF In
<1>5. \A i \in 1 .. Len(stacks'[t]) : stacks'[t][i][1] \notin Special
  <2> TAKE i \in 1 .. Len(stacks'[t])
  <2>1. CASE stacks'[t][i][1] \in Plain
    BY <2>1 DEF Plain, Special
  <2>2. CASE \E j \in 2 .. Len(stacks[t]) : stacks'[t][i] = stacks[t][j]
    <3>1. PICK j \in 2 .. Len(stacks[t]) : stacks'[t][i] = stacks[t][j]
      BY <2>2
    <3>2. j \in 1 .. Len(stacks[t]) /\ j # 1
      BY <1>1
    <3>3. Placed(t, j)
      BY <3>2 DEF PlacesInv
    <3>4. QED
      BY <3>1, <3>2, <3>3 DEF Placed, Special
  <2>3. QED
    BY <2>1, <2>2 DEF Calm
<1>6. stacks'[t] # <<>> => 1 \in 1 .. Len(stacks'[t])
  BY <1>1
<1>7. \A op \in Special : ~At(t, op)'
  BY <1>5, <1>6 DEF At, Top
<1>8. At(t, "check")' => Top(t)'[2] = "tcp"
  <2> HAVE At(t, "check")'
  <2>1. stacks'[t] # <<>> /\ stacks'[t][1][1] = "check"
    BY DEF At, Top
  <2>2. PICK j \in 2 .. Len(stacks[t]) : stacks'[t][1] = stacks[t][j]
    BY <1>6, <2>1 DEF Calm, Plain
  <2>3. j \in 1 .. Len(stacks[t]) /\ j # 1
    BY <1>1
  <2>4. Placed(t, j)
    BY <2>3 DEF PlacesInv
  <2>5. QED
    BY <2>1, <2>2, <2>3, <2>4 DEF Placed, Top
<1>9. \A x : In(t, x)' => In(t, x) \/ x[1] \in Plain
  <2> TAKE x
  <2> HAVE In(t, x)'
  <2>1. PICK i \in 1 .. Len(stacks'[t]) : stacks'[t][i] = x
    BY DEF In
  <2>2. \A j \in 2 .. Len(stacks[t]) : j \in 1 .. Len(stacks[t])
    BY <1>1
  <2>3. QED
    BY <2>1, <2>2 DEF Calm, In
<1>10. \A x : In(t, x) /\ x[1] # "end" => In(t, x)' \/ (At(t, x[1]) /\ Top(t) = x)
  <2> TAKE x
  <2> HAVE In(t, x) /\ x[1] # "end"
  <2>1. PICK i \in 1 .. Len(stacks[t]) : stacks[t][i] = x
    BY DEF In
  <2>2. CASE i = 1
    <3>1. stacks[t] # <<>>
      BY <1>1, <2>1
    <3>2. QED
      BY <3>1, <2>1, <2>2 DEF At, Top
  <2>3. CASE i # 1
    <3>1. i \in 2 .. Len(stacks[t])
      BY <1>1, <2>1, <2>3
    <3>2. QED
      BY <3>1, <2>1 DEF Calm, In
  <2>4. QED
    BY <2>2, <2>3
<1>11. QED
  BY <1>3, <1>4, <1>7, <1>8, <1>9, <1>10

(* The same when the first instruction is replaced.                             *)
LEMMA PushFacts ==
    ASSUME SocketTypes, PlacesInv, NEW t \in ThreadNames, NEW x0, Puts(t, x0)
    PROVE  /\ \A op : At(t, op)' <=> x0[1] = op
           /\ Top(t)' = x0 /\ \A x : x = x0 => In(t, x)'
           /\ \A u \in ThreadNames : \A op : u # t => (At(u, op)' <=> At(u, op)) /\ Top(u)' = Top(u)
           /\ \A u \in ThreadNames : \A x : In(u, x)' => In(u, x) \/ (u = t /\ x = x0)
           /\ \A u \in ThreadNames : \A x : In(u, x) => In(u, x)' \/ (u = t /\ At(t, x[1]) /\ Top(t) = x)
           /\ \A u \in ThreadNames : \A x : u # t => (In(u, x)' <=> In(u, x))
<1>1. stacks \in [ThreadNames -> Seq(Instructions)] /\ stacks' \in [ThreadNames -> Seq(Instructions)]
  BY DEF SocketTypes, Puts
<1>2. \A u \in ThreadNames : u # t => stacks'[u] = stacks[u]
  BY DEF Puts
<1>3. \A u \in ThreadNames : \A op : u # t => (At(u, op)' <=> At(u, op)) /\ Top(u)' = Top(u)
  BY <1>2 DEF At, Top
<1>4. \A u \in ThreadNames : \A x : u # t => (In(u, x)' <=> In(u, x))
  BY <1>2 DEF In
<1>5. stacks'[t] # <<>> /\ stacks'[t][1] = x0 /\ stacks[t] # <<>> /\ Len(stacks'[t]) = Len(stacks[t]) /\ 1 \in 1 .. Len(stacks'[t])
  BY <1>1 DEF Puts
<1>6. Top(t)' = x0 /\ (\A op : At(t, op)' <=> x0[1] = op) /\ \A x : x = x0 => In(t, x)'
  BY <1>5 DEF At, Top, In
<1>7. \A i \in 1 .. Len(stacks[t]) : i = 1 \/ (i \in 2 .. Len(stacks[t]) /\ stacks'[t][i] = stacks[t][i])
  BY <1>1 DEF Puts
<1>8. \A x : In(t, x)' => In(t, x) \/ x = x0
  BY <1>5, <1>7 DEF In
<1>9. \A x : In(t, x) => In(t, x)' \/ (At(t, x[1]) /\ Top(t) = x)
  BY <1>5, <1>7 DEF In, At, Top
<1>10. QED
  BY <1>3, <1>4, <1>6, <1>8, <1>9

(* A callback runs in a thread when its end is still before the thread.       *)
LEMMA HoldsIn ==
    /\ \A t \in ThreadNames : \A k, g : Holds(t, k, g) <=> \E i \in DOMAIN stacks[t] : stacks[t][i] = I("end", k, g)
    /\ SocketTypes => \A t \in ThreadNames : \A k, g : Holds(t, k, g) <=> In(t, I("end", k, g))
    /\ SocketTypes => \A t \in ThreadNames : \A op : At(t, op) => In(t, Top(t)) /\ Top(t)[1] = op /\ Top(t) \in Instructions
<1>1. \A t \in ThreadNames : \A k, g : Holds(t, k, g) <=> \E i \in DOMAIN stacks[t] : stacks[t][i] = I("end", k, g)
  BY DEF Holds
<1>2. SocketTypes => \A t \in ThreadNames : DOMAIN stacks[t] = 1 .. Len(stacks[t])
  BY DEF SocketTypes
<1>3. SocketTypes => \A t \in ThreadNames : stacks[t] # <<>> => 1 \in 1 .. Len(stacks[t]) /\ stacks[t][1] \in Instructions
  BY DEF SocketTypes
<1>4. QED
  BY <1>1, <1>2, <1>3 DEF In, At, Top

(* Every instruction stands where it may after a calm step.                   *)
LEMMA CalmPlaces ==
    ASSUME SocketTypes, PlacesInv, NEW t \in ThreadNames, Calm(t), UNCHANGED config
    PROVE  PlacesInv'
<1>1. stacks \in [ThreadNames -> Seq(Instructions)] /\ stacks' \in [ThreadNames -> Seq(Instructions)]
  BY DEF SocketTypes, Calm
<1>2. \A k : Starter(k)' = Starter(k) /\ Chain' = Chain
  BY DEF Starter, Chain, Below, ThreadOf
<1>3. SUFFICES ASSUME NEW u \in ThreadNames, NEW i \in 1 .. Len(stacks'[u])
      PROVE  Placed(u, i)'
  BY DEF PlacesInv
<1>4. CASE u # t
  <2>1. stacks'[u] = stacks[u]
    BY <1>4 DEF Calm
  <2>2. Placed(u, i)
    BY <2>1 DEF PlacesInv
  <2>3. QED
    BY <2>1, <2>2, <1>2 DEF Placed
<1>5. CASE u = t /\ stacks'[u][i][1] \in Plain
  BY <1>5 DEF Placed, Plain
<1>6. CASE u = t /\ \E j \in 2 .. Len(stacks[t]) : stacks'[t][i] = stacks[t][j]
  <2>1. PICK j \in 2 .. Len(stacks[t]) : stacks'[t][i] = stacks[t][j]
    BY <1>6
  <2>2. j \in 1 .. Len(stacks[t]) /\ j # 1
    BY <1>1
  <2>3. Placed(t, j)
    BY <2>2 DEF PlacesInv
  <2>4. QED
    BY <1>6, <2>1, <2>2, <2>3, <1>2 DEF Placed
<1>7. QED
  BY <1>3, <1>4, <1>5, <1>6 DEF Calm

(* Every instruction stands where it may when x replaces the first one.       *)
LEMMA PushPlaces ==
    ASSUME SocketTypes, PlacesInv, NEW t \in ThreadNames, NEW x, Puts(t, x), UNCHANGED config,
           x[1] \in {"setTcp", "start"} /\ x[2] = "tcp" => Len(stacks[t]) = 1,
           x[1] \in {"setTcp", "start", "check", "init"} => x[2] \in Chain /\ t = Starter(x[2]),
           x[1] # "setTcp", x[1] # "init"
    PROVE  PlacesInv'
<1>1. stacks \in [ThreadNames -> Seq(Instructions)] /\ stacks' \in [ThreadNames -> Seq(Instructions)]
  BY DEF SocketTypes, Puts
<1>2. \A k : Starter(k)' = Starter(k) /\ Chain' = Chain
  BY DEF Starter, Chain, Below, ThreadOf
<1>3. SUFFICES ASSUME NEW u \in ThreadNames, NEW i \in 1 .. Len(stacks'[u])
      PROVE  Placed(u, i)'
  BY DEF PlacesInv
<1>4. CASE u # t
  <2>1. stacks'[u] = stacks[u]
    BY <1>4 DEF Puts
  <2>2. Placed(u, i)
    BY <2>1 DEF PlacesInv
  <2>3. QED
    BY <2>1, <2>2, <1>2 DEF Placed
<1>5. CASE u = t /\ i = 1
  <2>1. stacks'[u][i] = x /\ Len(stacks'[u]) = Len(stacks[t])
    BY <1>5 DEF Puts
  <2>2. QED
    BY <1>5, <2>1, <1>2 DEF Placed
<1>6. CASE u = t /\ i # 1
  <2>1. i \in 2 .. Len(stacks[t]) /\ i \in 1 .. Len(stacks[t])
    BY <1>1, <1>6 DEF Puts
  <2>2. stacks'[t][i] = stacks[t][i] /\ Len(stacks'[t]) = Len(stacks[t])
    BY <2>1 DEF Puts
  <2>3. Placed(t, i)
    BY <2>1 DEF PlacesInv
  <2>4. QED
    BY <1>6, <2>2, <2>3, <1>2 DEF Placed
<1>7. QED
  BY <1>4, <1>5, <1>6

(* What the first instruction of a thread says.                                 *)
LEMMA TopPlaced ==
    ASSUME SocketTypes, PlacesInv, NEW t \in ThreadNames, stacks[t] # <<>>
    PROVE  /\ Top(t) \in Instructions /\ Top(t) = stacks[t][1] /\ Len(stacks[t]) \in Nat \ {0}
           /\ Top(t)[1] \in {"setTcp", "start"} /\ Top(t)[2] = "tcp" => Len(stacks[t]) = 1
           /\ Top(t)[1] \in {"setTcp", "start", "check", "init"} => Top(t)[2] \in Chain /\ t = Starter(Top(t)[2])
           /\ Top(t)[1] = "setTcp" => Top(t)[2] = "tcp"
           /\ Top(t)[1] = "init" => Top(t)[2] # "tcp"
           /\ Top(t)[1] \in OnTransport => Top(t)[2] \in Kinds /\ Top(t)[3] \in Gens
           /\ Top(t)[1] = "reset" => Top(t)[2] \in [Kinds -> 0 .. MaxOpens]
<1>1. Top(t) \in Instructions /\ 1 \in 1 .. Len(stacks[t]) /\ Len(stacks[t]) \in Nat \ {0} /\ Top(t) = stacks[t][1]
  BY DEF SocketTypes, Top
<1>2. Placed(t, 1)
  BY <1>1 DEF PlacesInv
<1>3. QED
  BY <1>1, <1>2, InstructionForm DEF Placed

(* A thread is at one instruction.                                            *)
LEMMA AtOne ==
    ASSUME NEW t, NEW op, At(t, op)
    PROVE  stacks[t] # <<>> /\ Top(t)[1] = op /\ \A o : At(t, o) <=> o = op
BY DEF At

(* A calm step that leaves the transports alone.                                *)
LEMMA CalmKeeps ==
    ASSUME SocketTypes, PlacesInv, OwnersInv, NEW t \in ThreadNames, Calm(t), ~At(t, "reset"),
           UNCHANGED <<config, gen, ptr, cb, torn>>,
           \A k \in Kinds, g \in Gens : ts'[k][g] = ts[k][g] \/ ts'[k][g] = "gone"
    PROVE  PlacesInv' /\ OwnersInv'
<1>1. PlacesInv'
  BY CalmPlaces
<1>2. /\ \A u \in ThreadNames, op \in Special : At(u, op)' => u # t /\ At(u, op) /\ Top(u)' = Top(u)
      /\ \A u \in ThreadNames : \A op : u # t => (At(u, op)' <=> At(u, op)) /\ Top(u)' = Top(u)
      /\ At(t, "check")' => Top(t)'[2] = "tcp"
      /\ \A u \in ThreadNames : \A x : In(u, x)' => In(u, x) \/ x[1] \in Plain
      /\ \A u \in ThreadNames : \A x : u # t => (In(u, x)' <=> In(u, x))
  BY CalmFacts
<1>3. SocketTypes' \/ stacks' \in [ThreadNames -> Seq(Instructions)]
  BY DEF Calm
<1>4. \A k, g : Resetting(k, g)' <=> Resetting(k, g)
  BY <1>2 DEF Resetting, Special
<1>5. /\ \A u \in ThreadNames : \A k, g : Holds(u, k, g) <=> In(u, I("end", k, g))
      /\ \A u \in ThreadNames : \A k, g : Holds(u, k, g)' <=> In(u, I("end", k, g))'
  <2>1. \A u \in ThreadNames : DOMAIN stacks[u] = 1 .. Len(stacks[u]) /\ DOMAIN stacks'[u] = 1 .. Len(stacks'[u])
    BY DEF SocketTypes, Calm
  <2>2. QED
    BY <2>1 DEF Holds, In
<1>6. /\ \A u \in ThreadNames : \A k, g : Holds(u, k, g)' => Holds(u, k, g)
      /\ \A u \in ThreadNames : \A k, g : u # t => (Holds(u, k, g)' <=> Holds(u, k, g))
      /\ \A u \in ThreadNames : \A k, g : In(u, I("check", k, g))' => In(u, I("check", k, g))
  BY <1>2, <1>5, InstructionMade DEF Plain
<1>7. StoreInv'
  BY <1>2, <1>6 DEF StoreInv, OwnersInv, Special
<1>8. ChainInv'
  BY DEF ChainInv, OwnersInv, Chain, Kinds
<1>9. LiveInv'
  BY <1>4 DEF LiveInv, OwnersInv, Taken, Kinds
<1>14. LeakInv'
  BY <1>4 DEF LeakInv, OwnersInv, Kinds
<1>10. BeginInv'
  <2>1. \A g \in Gens : ts.tcp[g] \notin {"Connecting", "Connected"} => ts'.tcp[g] \notin {"Connecting", "Connected"}
    BY DEF Kinds
  <2>2. \A g \in Gens : g > gen' => ts'.tcp[g] \notin {"Connecting", "Connected"}
    BY <2>1 DEF BeginInv, OwnersInv
  <2> SUFFICES ASSUME NEW u \in ThreadNames, At(u, "setTcp")' \/ (At(u, "start")' /\ Top(u)'[2] = "tcp")
      PROVE  /\ Top(u)'[3] = gen' /\ ts'.tcp[gen'] \notin {"Connecting", "Connected"}
             /\ \A v \in ThreadNames, g \in Gens : ~Holds(v, "tcp", g)'
             /\ \A g \in Gens : ~Resetting("tcp", g)'
    BY <2>2 DEF BeginInv
  <2>3. At(u, "setTcp") \/ (At(u, "start") /\ Top(u)[2] = "tcp")
    BY <1>2 DEF Special
  <2>4. Top(u)' = Top(u)
    BY <1>2 DEF Special
  <2>5. Top(u)[3] \in Gens
    BY <2>3, TopPlaced, AtOne DEF OnTransport
  <2>6. QED
    BY <1>4, <1>6, <2>1, <2>3, <2>4, <2>5 DEF BeginInv, OwnersInv
<1>11. HoldInv'
  BY <1>4, <1>6 DEF HoldInv, OwnersInv
<1>12. ProxyInv'
  BY <1>2, <1>4, <1>6 DEF ProxyInv, OwnersInv, Special, Kinds
<1>13. QED
  BY <1>1, <1>7, <1>8, <1>9, <1>10, <1>11, <1>12, <1>14 DEF OwnersInv

(* What is said of the state is kept by a step that leaves it, and who closes, alone. *)
LEMMA StateKept ==
    ASSUME StateInv, UNCHANGED <<wstate, gen, ptr, torn, closed, revived>>,
           \A u \in ThreadNames : (At(u, "detach")' <=> At(u, "detach")) /\ (At(u, "reset")' <=> At(u, "reset")),
           \A u \in ThreadNames : At(u, "onOpen")' \/ At(u, "open")' => At(u, "onOpen") \/ At(u, "open"),
           \A u \in ThreadNames, k \in Taken, g \in Gens : In(u, I("check", k, g)) => In(u, I("check", k, g))'
    PROVE  StateInv'
<1>1. DropInv'
  BY DEF StateInv, DropInv
<1>2. CloseInv'
  BY DEF StateInv, CloseInv, InClose
<1>3. OpenInv'
  BY DEF StateInv, OpenInv
<1>4. QED
  BY <1>1, <1>2, <1>3 DEF StateInv

(* A calm step of an instruction other than those that end the transports.      *)
LEMMA CalmState ==
    ASSUME SocketTypes, PlacesInv, NEW t \in ThreadNames, Calm(t),
           ~At(t, "detach"), ~At(t, "reset"), ~At(t, "check")
    PROVE  /\ \A u \in ThreadNames : (At(u, "detach")' <=> At(u, "detach")) /\ (At(u, "reset")' <=> At(u, "reset"))
           /\ \A u \in ThreadNames : At(u, "onOpen")' \/ At(u, "open")' => At(u, "onOpen") \/ At(u, "open")
           /\ \A u \in ThreadNames, k \in Taken, g \in Gens : In(u, I("check", k, g)) => In(u, I("check", k, g))'
<1>1. /\ \A u \in ThreadNames, op \in Special : At(u, op)' => u # t /\ At(u, op) /\ Top(u)' = Top(u)
      /\ \A u \in ThreadNames : \A op : u # t => (At(u, op)' <=> At(u, op)) /\ Top(u)' = Top(u)
      /\ \A u \in ThreadNames : \A x : In(u, x) /\ x[1] # "end" => In(u, x)' \/ (u = t /\ At(t, x[1]) /\ Top(t) = x)
  BY CalmFacts
<1>2. QED
  BY <1>1, InstructionMade DEF Special

(* close() looks at the state.                                                *)
LEMMA CloseTestInv ==
    ASSUME SocketInv, NEW t \in ThreadNames, CloseTest(t)
    PROVE  SocketInv'
<1>1. At(t, "close") /\ UNCHANGED <<config, wstate, gen, ptr, ts, cb, timers, torn, closeSent, closed, closes, revived, early>>
  BY DEF CloseTest
<1>2. stacks[t] # <<>> /\ ~At(t, "detach") /\ ~At(t, "reset") /\ ~At(t, "check")
  BY <1>1, AtOne
<1>3. Calm(t)
  <2>1. CASE Do(t, <<>>)
    BY <2>1, <1>2, DoNothing DEF SocketInv
  <2>2. CASE Do(t, <<I("closing", "-", 0)>>)
    <3>1. I("closing", "-", 0) \in Instructions /\ I("closing", "-", 0)[1] = "closing"
      BY InstructionMade DEF OnSocket
    <3>2. Puts(t, I("closing", "-", 0))
      BY <3>1, <2>2, <1>2, DoOne DEF SocketInv
    <3>3. QED
      BY <3>1, <3>2, PushPlain DEF Plain
  <2>3. QED
    BY <2>1, <2>2 DEF CloseTest
<1>4. SocketTypes'
  BY <1>1, <1>3 DEF SocketInv, SocketTypes, TypeOK, Calm
<1>5. PlacesInv' /\ OwnersInv'
  BY <1>1, <1>2, <1>3, CalmKeeps DEF SocketInv
<1>6. StateInv'
  BY <1>1, <1>2, <1>3, CalmState, StateKept DEF SocketInv
<1>7. QED
  BY <1>4, <1>5, <1>6 DEF SocketInv

(* close() stops the WebSocket transport, or closes the transports without one. *)
LEMMA CloseStopInv ==
    ASSUME SocketInv, NEW t \in ThreadNames, CloseStop(t)
    PROVE  SocketInv'
<1>1. At(t, "stop") /\ UNCHANGED <<config, wstate, gen, ptr, ts, cb, timers, torn, closed, closes, revived>>
  BY DEF CloseStop
<1>2. stacks[t] # <<>> /\ ~At(t, "detach") /\ ~At(t, "reset") /\ ~At(t, "check")
  BY <1>1, AtOne
<1>3. Calm(t)
  <2>1. CASE Do(t, <<>>)
    BY <2>1, <1>2, DoNothing DEF SocketInv
  <2>2. CASE Do(t, RemoteClose)
    BY <2>2, <1>2, DoRemoteClose DEF SocketInv
  <2>3. QED
    BY <2>1, <2>2 DEF CloseStop
<1>4. SocketTypes'
  <2>1. ptr.ws \in 0 .. MaxOpens
    BY DEF SocketInv, SocketTypes, TypeOK, Kinds
  <2>2. closeSent' \subseteq Gens
    <3>1. closeSent' = closeSent \/ (ptr.ws # 0 /\ closeSent' = closeSent \cup {ptr.ws})
      BY DEF CloseStop
    <3>2. ptr.ws # 0 => ptr.ws \in Gens
      BY <2>1, BoundsAreNatural DEF Gens
    <3>3. closeSent \subseteq Gens
      BY DEF SocketInv, SocketTypes, TypeOK
    <3>4. QED
      BY <3>1, <3>2, <3>3
  <2>3. early' \in BOOLEAN
    BY DEF CloseStop, SocketInv, SocketTypes, TypeOK
  <2>4. QED
    BY <1>1, <1>3, <2>2, <2>3 DEF SocketInv, SocketTypes, TypeOK, Calm
<1>5. PlacesInv' /\ OwnersInv'
  BY <1>1, <1>2, <1>3, CalmKeeps DEF SocketInv
<1>6. StateInv'
  BY <1>1, <1>2, <1>3, CalmState, StateKept DEF SocketInv
<1>7. QED
  BY <1>4, <1>5, <1>6 DEF SocketInv

(* A transport below was disconnected: only a connection attempt ends.        *)
LEMMA IfConnectingInv ==
    ASSUME SocketInv, NEW t \in ThreadNames, IfConnecting(t)
    PROVE  SocketInv'
<1>1. At(t, "ifConnecting") /\ UNCHANGED <<config, wstate, gen, ptr, ts, cb, timers, torn, closeSent, closed, closes, revived, early>>
  BY DEF IfConnecting
<1>2. stacks[t] # <<>> /\ ~At(t, "detach") /\ ~At(t, "reset") /\ ~At(t, "check")
  BY <1>1, AtOne
<1>3. Calm(t)
  <2>1. CASE Do(t, <<>>)
    BY <2>1, <1>2, DoNothing DEF SocketInv
  <2>2. CASE Do(t, RemoteClose)
    BY <2>2, <1>2, DoRemoteClose DEF SocketInv
  <2>3. QED
    BY <2>1, <2>2 DEF IfConnecting
<1>4. SocketTypes'
  BY <1>1, <1>3 DEF SocketInv, SocketTypes, TypeOK, Calm
<1>5. PlacesInv' /\ OwnersInv'
  BY <1>1, <1>2, <1>3, CalmKeeps DEF SocketInv
<1>6. StateInv'
  BY <1>1, <1>2, <1>3, CalmState, StateKept DEF SocketInv
<1>7. QED
  BY <1>4, <1>5, <1>6 DEF SocketInv

(* close() stores Closing; over Closed, that is a revival.                    *)
LEMMA CloseChangeInv ==
    ASSUME SocketInv, ~revived, NEW t \in ThreadNames, CloseChange(t)
    PROVE  SocketInv'
<1>1. /\ At(t, "closing") /\ wstate' = "Closing" /\ revived' = (revived \/ wstate = "Closed")
      /\ UNCHANGED <<config, gen, ptr, ts, cb, timers, torn, closeSent, closed, closes, early>>
  BY DEF CloseChange
<1>2. stacks[t] # <<>> /\ ~At(t, "detach") /\ ~At(t, "reset") /\ ~At(t, "check")
  BY <1>1, AtOne
<1>3. Calm(t)
  <2>1. I("stop", "-", 0) \in Instructions /\ I("stop", "-", 0)[1] = "stop"
    BY InstructionMade DEF OnSocket
  <2>2. Puts(t, I("stop", "-", 0))
    BY <2>1, <1>2, DoOne DEF SocketInv, CloseChange
  <2>3. QED
    BY <2>1, <2>2, PushPlain DEF Plain
<1>4. SocketTypes'
  BY <1>1, <1>3 DEF SocketInv, SocketTypes, TypeOK, Calm
<1>5. PlacesInv' /\ OwnersInv'
  BY <1>1, <1>2, <1>3, CalmKeeps DEF SocketInv
<1>6. /\ \A u \in ThreadNames : (At(u, "detach")' <=> At(u, "detach")) /\ (At(u, "reset")' <=> At(u, "reset"))
      /\ \A u \in ThreadNames : At(u, "onOpen")' \/ At(u, "open")' => At(u, "onOpen") \/ At(u, "open")
  BY <1>2, <1>3, CalmState DEF SocketInv
<1>7. DropInv'
  BY <1>1 DEF DropInv
<1>8. CloseInv'
  BY <1>1, <1>6 DEF CloseInv, InClose, SocketInv, StateInv
<1>9. OpenInv'
  BY <1>1, <1>6 DEF OpenInv, SocketInv, StateInv
<1>10. QED
  BY <1>4, <1>5, <1>7, <1>8, <1>9 DEF SocketInv, StateInv

(* The callback of the WebSocket transport stores Open; over Closed, that is a revival. *)
LEMMA OnOpenInv ==
    ASSUME SocketInv, ~revived, NEW t \in ThreadNames, OnOpen(t)
    PROVE  SocketInv'
<1>1. /\ At(t, "open") /\ wstate' = "Open" /\ revived' = (revived \/ wstate = "Closed")
      /\ UNCHANGED <<config, gen, ptr, ts, cb, timers, torn, closeSent, closed, closes, early>>
  BY DEF OnOpen
<1>2. stacks[t] # <<>> /\ ~At(t, "detach") /\ ~At(t, "reset") /\ ~At(t, "check")
  BY <1>1, AtOne
<1>3. Calm(t)
  BY <1>2, DoNothing DEF SocketInv, OnOpen
<1>4. SocketTypes'
  BY <1>1, <1>3 DEF SocketInv, SocketTypes, TypeOK, Calm
<1>5. PlacesInv' /\ OwnersInv'
  BY <1>1, <1>2, <1>3, CalmKeeps DEF SocketInv
<1>6. /\ \A u \in ThreadNames : (At(u, "detach")' <=> At(u, "detach")) /\ (At(u, "reset")' <=> At(u, "reset"))
      /\ \A u \in ThreadNames : At(u, "onOpen")' \/ At(u, "open")' => At(u, "onOpen") \/ At(u, "open")
  BY <1>2, <1>3, CalmState DEF SocketInv
<1>7. DropInv'
  BY <1>1 DEF DropInv
<1>8. CloseInv'
  BY <1>1, <1>6 DEF CloseInv, InClose, SocketInv, StateInv
<1>9. OpenInv'
  BY <1>1, <1>6 DEF OpenInv, SocketInv, StateInv
<1>10. QED
  BY <1>4, <1>5, <1>7, <1>8, <1>9 DEF SocketInv, StateInv

(* The first instruction is replaced by one that has to do with the state only. *)
LEMMA PushKeeps ==
    ASSUME SocketTypes, PlacesInv, OwnersInv, NEW t \in ThreadNames, NEW x, Puts(t, x),
           x[1] \in {"detach", "open"}, ~At(t, "reset"), UNCHANGED <<config, gen, ptr, ts, cb, torn>>
    PROVE  PlacesInv' /\ OwnersInv'
<1>1. PlacesInv'
  BY PushPlaces
<1>2. /\ \A op : At(t, op)' <=> x[1] = op
      /\ \A u \in ThreadNames : \A op : u # t => (At(u, op)' <=> At(u, op)) /\ Top(u)' = Top(u)
      /\ \A u \in ThreadNames : \A y : In(u, y)' => In(u, y) \/ (u = t /\ y = x)
      /\ \A u \in ThreadNames : \A y : u # t => (In(u, y)' <=> In(u, y))
  BY PushFacts
<1>4. \A k, g : Resetting(k, g)' <=> Resetting(k, g)
  BY <1>2 DEF Resetting
<1>5. /\ \A u \in ThreadNames : \A k, g : Holds(u, k, g) <=> In(u, I("end", k, g))
      /\ \A u \in ThreadNames : \A k, g : Holds(u, k, g)' <=> In(u, I("end", k, g))'
  <2>1. \A u \in ThreadNames : DOMAIN stacks[u] = 1 .. Len(stacks[u]) /\ DOMAIN stacks'[u] = 1 .. Len(stacks'[u])
    BY DEF SocketTypes, Puts
  <2>2. QED
    BY <2>1 DEF Holds, In
<1>6. /\ \A u \in ThreadNames : \A k, g : Holds(u, k, g)' => Holds(u, k, g)
      /\ \A u \in ThreadNames : \A k, g : u # t => (Holds(u, k, g)' <=> Holds(u, k, g))
      /\ \A u \in ThreadNames : \A k, g : In(u, I("check", k, g))' => In(u, I("check", k, g))
  BY <1>2, <1>5, InstructionMade
<1>7. StoreInv'
  BY <1>2, <1>6 DEF StoreInv, OwnersInv
<1>8. ChainInv'
  BY DEF ChainInv, OwnersInv, Chain
<1>9. LiveInv' /\ LeakInv'
  BY <1>4 DEF LiveInv, LeakInv, OwnersInv
<1>10. BeginInv'
  BY <1>2, <1>4, <1>6 DEF BeginInv, OwnersInv
<1>11. HoldInv'
  BY <1>4, <1>6 DEF HoldInv, OwnersInv
<1>12. ProxyInv'
  BY <1>2, <1>4, <1>6 DEF ProxyInv, OwnersInv
<1>13. QED
  BY <1>1, <1>7, <1>8, <1>9, <1>10, <1>11, <1>12 DEF OwnersInv

(* The callback of the WebSocket transport looks at the state.                *)
LEMMA OnOpenTestInv ==
    ASSUME SocketInv, NEW t \in ThreadNames, OnOpenTest(t)
    PROVE  SocketInv'
<1>1. At(t, "onOpen") /\ UNCHANGED <<config, wstate, gen, ptr, ts, cb, timers, torn, closeSent, closed, closes, revived, early>>
  BY DEF OnOpenTest
<1>2. stacks[t] # <<>> /\ ~At(t, "detach") /\ ~At(t, "reset") /\ ~At(t, "check") /\ Top(t)[1] = "onOpen"
  BY <1>1, AtOne
<1>3. CASE Do(t, <<>>)
  <2>1. Calm(t)
    BY <1>3, <1>2, DoNothing DEF SocketInv
  <2>2. SocketTypes'
    BY <1>1, <2>1 DEF SocketInv, SocketTypes, TypeOK, Calm
  <2>3. PlacesInv' /\ OwnersInv'
    BY <1>1, <1>2, <2>1, CalmKeeps DEF SocketInv
  <2>4. StateInv'
    BY <1>1, <1>2, <2>1, CalmState, StateKept DEF SocketInv
  <2>5. QED
    BY <2>2, <2>3, <2>4 DEF SocketInv
<1>4. CASE Do(t, <<I("open", "-", 0)>>)
  <2> DEFINE x == I("open", "-", 0)
  <2>1. x \in Instructions /\ x[1] = "open"
    BY InstructionMade DEF OnSocket
  <2> HIDE DEF x
  <2>2. Puts(t, x)
    BY <2>1, <1>4, <1>2, DoOne DEF SocketInv, x
  <2>3. SocketTypes'
    BY <1>1, <2>2 DEF SocketInv, SocketTypes, TypeOK, Puts
  <2>4. PlacesInv' /\ OwnersInv'
    BY <1>1, <1>2, <2>1, <2>2, PushKeeps DEF SocketInv
  <2>5. /\ \A op : At(t, op)' <=> x[1] = op
        /\ \A u \in ThreadNames : \A op : u # t => (At(u, op)' <=> At(u, op)) /\ Top(u)' = Top(u)
        /\ \A u \in ThreadNames : \A y : In(u, y) => In(u, y)' \/ (u = t /\ At(t, y[1]) /\ Top(t) = y)
    BY <2>2, PushFacts DEF SocketInv
  <2>6. \A u \in ThreadNames, k \in Taken, g \in Gens : In(u, I("check", k, g)) => In(u, I("check", k, g))'
    BY <2>5, <1>2, InstructionMade
  <2>7. StateInv'
    BY <1>1, <1>2, <2>1, <2>5, <2>6, StateKept DEF SocketInv
  <2>8. QED
    BY <2>3, <2>4, <2>7 DEF SocketInv
<1>5. QED
  BY <1>3, <1>4 DEF OnOpenTest

(* remoteClose() and closeTransports() store Closed: the first caller goes on. *)
LEMMA ShutInv ==
    ASSUME SocketInv, ~revived, NEW t \in ThreadNames, Shut(t)
    PROVE  SocketInv'
<1>1. At(t, "shut") /\ wstate' = "Closed" /\ UNCHANGED <<config, gen, ptr, ts, cb, timers, torn, closeSent, closed, closes, revived, early>>
  BY DEF Shut
<1>2. stacks[t] # <<>> /\ ~At(t, "detach") /\ ~At(t, "reset") /\ ~At(t, "check") /\ Top(t)[1] = "shut"
  BY <1>1, AtOne
<1>3. CASE wstate = "Closed"
  <2>1. Calm(t)
    BY <1>3, <1>2, DoNothing DEF SocketInv, Shut
  <2>2. SocketTypes'
    BY <1>1, <2>1 DEF SocketInv, SocketTypes, TypeOK, Calm
  <2>3. PlacesInv' /\ OwnersInv'
    BY <1>1, <1>2, <2>1, CalmKeeps DEF SocketInv
  <2>4. StateInv'
    BY <1>1, <1>2, <1>3, <2>1, CalmState, StateKept DEF SocketInv
  <2>5. QED
    BY <2>2, <2>3, <2>4 DEF SocketInv
<1>4. CASE wstate # "Closed"
  <2> DEFINE x == I("detach", "-", 0)
  <2>1. x \in Instructions /\ x[1] = "detach"
    BY InstructionMade DEF OnSocket
  <2> HIDE DEF x
  <2>2. Puts(t, x)
    BY <2>1, <1>4, <1>2, DoOne DEF SocketInv, x, Shut
  <2>3. SocketTypes'
    BY <1>1, <2>2 DEF SocketInv, SocketTypes, TypeOK, Puts
  <2>4. PlacesInv' /\ OwnersInv'
    BY <1>1, <1>2, <2>1, <2>2, PushKeeps DEF SocketInv
  <2>5. /\ \A op : At(t, op)' <=> x[1] = op
        /\ \A u \in ThreadNames : \A op : u # t => (At(u, op)' <=> At(u, op)) /\ Top(u)' = Top(u)
    BY <2>2, PushFacts DEF SocketInv
  <2>6. DropInv'
    BY <2>1, <2>5 DEF DropInv
  <2>7. closed = gen - 1 /\ \A u \in ThreadNames : ~InClose(u)
    BY <1>4 DEF SocketInv, StateInv, CloseInv
  <2>8. InClose(t)' /\ \A u \in ThreadNames : InClose(u)' => u = t
    BY <2>1, <2>5, <2>7 DEF InClose
  <2>9. CloseInv'
    BY <1>1, <2>7, <2>8 DEF CloseInv
  <2>10. OpenInv'
    BY <1>1 DEF OpenInv
  <2>11. QED
    BY <2>3, <2>4, <2>6, <2>9, <2>10 DEF SocketInv, StateInv
<1>5. QED
  BY <1>3, <1>4

(* closeTransports() takes the pointers.                                      *)
LEMMA DetachInv ==
    ASSUME SocketInv, ~revived, NEW t \in ThreadNames, Detach(t)
    PROVE  SocketInv'
<1>1. /\ At(t, "detach") /\ ptr' = [ptr EXCEPT !.ws = 0, !.tls = 0, !.tcp = 0]
      /\ UNCHANGED <<config, wstate, gen, ts, cb, timers, torn, closeSent, closed, closes, revived, early>>
  BY DEF Detach
<1>2. stacks[t] # <<>> /\ ~At(t, "reset") /\ ~At(t, "check") /\ Top(t)[1] = "detach"
  BY <1>1, AtOne
<1> DEFINE x == I("reset", ptr, 0)
<1>3. ptr \in [Kinds -> 0 .. MaxOpens] /\ Taken \subseteq Kinds /\ "proxy" \in Kinds
  BY DEF SocketInv, SocketTypes, TypeOK, Taken, Kinds
<1>4. x \in Instructions /\ x[1] = "reset" /\ x[2] = ptr
  BY <1>3, InstructionMade
<1> HIDE DEF x
<1>5. Puts(t, x)
  BY <1>4, <1>2, DoOne DEF SocketInv, x, Detach
<1>6. /\ ptr' \in [Kinds -> 0 .. MaxOpens] /\ ptr'.tcp = 0 /\ ptr'.tls = 0 /\ ptr'.ws = 0 /\ ptr'.proxy = ptr.proxy
      /\ \A k \in Kinds : ptr'[k] = 0 \/ ptr'[k] = ptr[k]
  <2>1. ptr' = [k \in Kinds |-> IF k \in Taken THEN 0 ELSE ptr[k]]
    BY <1>1, <1>3 DEF Kinds, Taken
  <2>2. 0 \in 0 .. MaxOpens
    BY BoundsAreNatural
  <2>3. QED
    BY <2>1, <2>2, <1>3 DEF Kinds, Taken
<1>7. SocketTypes'
  BY <1>1, <1>5, <1>6 DEF SocketInv, SocketTypes, TypeOK, Puts
<1>8. PlacesInv'
  BY <1>1, <1>4, <1>5, PushPlaces DEF SocketInv
<1>9. /\ \A op : At(t, op)' <=> x[1] = op
      /\ Top(t)' = x
      /\ \A u \in ThreadNames : \A op : u # t => (At(u, op)' <=> At(u, op)) /\ Top(u)' = Top(u)
      /\ \A u \in ThreadNames : \A y : In(u, y)' => In(u, y) \/ (u = t /\ y = x)
      /\ \A u \in ThreadNames : \A y : u # t => (In(u, y)' <=> In(u, y))
  BY <1>5, PushFacts DEF SocketInv
<1>10. \A k \in Kinds, g \in Gens : Resetting(k, g)' <=> Resetting(k, g) \/ ptr[k] = g
  BY <1>2, <1>4, <1>9 DEF Resetting
<1>11. /\ \A u \in ThreadNames : \A k, g : Holds(u, k, g)' => Holds(u, k, g)
       /\ \A u \in ThreadNames : \A k, g : u # t => (Holds(u, k, g)' <=> Holds(u, k, g))
       /\ \A u \in ThreadNames : \A k, g : In(u, I("check", k, g))' => In(u, I("check", k, g))
  <2>1. \A u \in ThreadNames : DOMAIN stacks[u] = 1 .. Len(stacks[u]) /\ DOMAIN stacks'[u] = 1 .. Len(stacks'[u])
    BY <1>5 DEF SocketInv, SocketTypes, Puts
  <2>2. /\ \A u \in ThreadNames : \A k, g : Holds(u, k, g) <=> In(u, I("end", k, g))
        /\ \A u \in ThreadNames : \A k, g : Holds(u, k, g)' <=> In(u, I("end", k, g))'
    BY <2>1 DEF Holds, In
  <2>3. QED
    BY <1>4, <1>9, <2>2, InstructionMade
<1>12. StoreInv'
  <2>1. StoreInv
    BY DEF SocketInv, OwnersInv
  <2>2. \A u \in ThreadNames : At(u, "start")' \/ At(u, "setTcp")' =>
          (At(u, "start") \/ At(u, "setTcp")) /\ Top(u)' = Top(u) /\ Top(u)[2] \in Kinds
    <3> SUFFICES ASSUME NEW u \in ThreadNames, At(u, "start")' \/ At(u, "setTcp")'
        PROVE (At(u, "start") \/ At(u, "setTcp")) /\ Top(u)' = Top(u) /\ Top(u)[2] \in Kinds
      OBVIOUS
    <3>1. u # t
      BY <1>4, <1>9
    <3>2. (At(u, "start") \/ At(u, "setTcp")) /\ Top(u)' = Top(u)
      BY <3>1, <1>9
    <3>3. QED
      BY <3>2, TopPlaced, AtOne DEF SocketInv, OnTransport
  <2>3. QED
    BY <1>6, <1>11, <2>1, <2>2 DEF StoreInv
<1>13. ChainInv'
  BY <1>1 DEF ChainInv, OwnersInv, Chain, SocketInv
<1>14. LiveInv'
  BY <1>1, <1>3, <1>10 DEF LiveInv, OwnersInv, SocketInv
<1>15. LeakInv'
  BY <1>1, <1>3, <1>6, <1>10 DEF LeakInv, OwnersInv, SocketInv, Kinds
<1>16. BeginInv'
  <2> SUFFICES ASSUME NEW u \in ThreadNames, At(u, "setTcp")' \/ (At(u, "start")' /\ Top(u)'[2] = "tcp")
      PROVE  /\ Top(u)'[3] = gen' /\ ts'.tcp[gen'] \notin {"Connecting", "Connected"}
             /\ \A v \in ThreadNames, g \in Gens : ~Holds(v, "tcp", g)'
             /\ \A g \in Gens : ~Resetting("tcp", g)'
    BY <1>1 DEF BeginInv, SocketInv, OwnersInv
  <2>1. u # t /\ Top(u)' = Top(u)
    BY <1>4, <1>9
  <2>2. At(u, "setTcp") \/ (At(u, "start") /\ Top(u)[2] = "tcp")
    BY <1>9, <2>1
  <2>3. ptr.tcp = 0
    <3>1. Top(u)[2] = "tcp"
      BY <2>2, TopPlaced, AtOne DEF SocketInv
    <3>2. QED
      BY <2>2, <3>1 DEF StoreInv, SocketInv, OwnersInv
  <2>4. \A g \in Gens : ptr.tcp # g
    BY <2>3, BoundsAreNatural DEF Gens
  <2>5. /\ \A v \in ThreadNames, g \in Gens : ~Holds(v, "tcp", g)
        /\ \A g \in Gens : ~Resetting("tcp", g)
        /\ Top(u)[3] = gen /\ ts.tcp[gen] \notin {"Connecting", "Connected"}
    BY <2>2 DEF BeginInv, SocketInv, OwnersInv
  <2>6. QED
    BY <2>1, <2>4, <2>5, <1>1, <1>10, <1>11 DEF Kinds
<1>17. HoldInv'
  BY <1>6 DEF HoldInv
<1>18. ProxyInv'
  <2> SUFFICES ASSUME NEW u \in ThreadNames
      PROVE  /\ At(u, "init")' /\ Top(u)'[2] = "proxy" => \E g \in Gens : Holds(u, "tcp", g)'
             /\ \A h \in Gens : (At(u, "start")' \/ At(u, "check")') /\ Top(u)'[2] = "proxy" /\ Top(u)'[3] = h =>
                 /\ Holds(u, "tcp", h)'
                 /\ ts'.tcp[h] \in {"none", "gone"} \/ ptr'.tcp = h \/ Resetting("tcp", h)'
    BY DEF ProxyInv
  <2>1. CASE u = t
    BY <2>1, <1>4, <1>9
  <2>2. CASE u # t
    <3>1. Top(u)' = Top(u) /\ \A op : At(u, op)' <=> At(u, op)
      BY <2>2, <1>9
    <3>2. \A g : Holds(u, "tcp", g)' <=> Holds(u, "tcp", g)
      BY <2>2, <1>11
    <3>3. QED
      BY <1>1, <1>10, <3>1, <3>2 DEF Kinds, ProxyInv, OwnersInv, SocketInv
  <2>3. QED
    BY <2>1, <2>2
<1>19. wstate = "Closed"
  BY <1>1 DEF SocketInv, StateInv, CloseInv, InClose
<1>20. DropInv'
  BY <1>6 DEF DropInv, Taken
<1>21. \A u \in ThreadNames : InClose(u)' <=> InClose(u)
  BY <1>1, <1>4, <1>9 DEF InClose
<1>22. CloseInv'
  BY <1>1, <1>21 DEF CloseInv, SocketInv, StateInv
<1>23. OpenInv'
  BY <1>1, <1>19 DEF OpenInv
<1>24. QED
  BY <1>7, <1>8, <1>12, <1>13, <1>14, <1>15, <1>16, <1>17, <1>18, <1>20, <1>22, <1>23 DEF SocketInv, StateInv, OwnersInv

(* The callbacks that threads are in.                                           *)
LEMMA CalmHolds ==
    ASSUME SocketTypes, PlacesInv, NEW t \in ThreadNames, Calm(t)
    PROVE  /\ \A u \in ThreadNames : \A k, g : Holds(u, k, g)' => Holds(u, k, g)
           /\ \A u \in ThreadNames : \A k, g : u # t => (Holds(u, k, g)' <=> Holds(u, k, g))
           /\ \A u \in ThreadNames : \A k, g : In(u, I("check", k, g))' => In(u, I("check", k, g))
<1>1. \A u \in ThreadNames : DOMAIN stacks[u] = 1 .. Len(stacks[u]) /\ DOMAIN stacks'[u] = 1 .. Len(stacks'[u])
  BY DEF SocketTypes, Calm
<1>2. /\ \A u \in ThreadNames : \A k, g : Holds(u, k, g) <=> In(u, I("end", k, g))
      /\ \A u \in ThreadNames : \A k, g : Holds(u, k, g)' <=> In(u, I("end", k, g))'
  BY <1>1 DEF Holds, In
<1>3. /\ \A u \in ThreadNames : \A x : In(u, x)' => In(u, x) \/ x[1] \in Plain
      /\ \A u \in ThreadNames : \A x : u # t => (In(u, x)' <=> In(u, x))
  BY CalmFacts
<1>4. QED
  BY <1>2, <1>3, InstructionMade DEF Plain

(* The callbacks that run, and the transports that are being started, after a push. *)
LEMMA PushHolds ==
    ASSUME SocketTypes, PlacesInv, NEW t \in ThreadNames, NEW x, Puts(t, x), x[1] # "end", Top(t)[1] # "end"
    PROVE  /\ \A u \in ThreadNames : \A k, g : Holds(u, k, g)' <=> Holds(u, k, g)
           /\ \A u \in ThreadNames : \A k, g : In(u, I("check", k, g))' => In(u, I("check", k, g)) \/ (u = t /\ x = I("check", k, g))
           /\ Top(t)[1] # "check" => \A u \in ThreadNames : \A k, g : In(u, I("check", k, g)) => In(u, I("check", k, g))'
<1>1. \A u \in ThreadNames : DOMAIN stacks[u] = 1 .. Len(stacks[u]) /\ DOMAIN stacks'[u] = 1 .. Len(stacks'[u])
  BY DEF SocketTypes, Puts
<1>2. /\ \A u \in ThreadNames : \A k, g : Holds(u, k, g) <=> In(u, I("end", k, g))
      /\ \A u \in ThreadNames : \A k, g : Holds(u, k, g)' <=> In(u, I("end", k, g))'
  BY <1>1 DEF Holds, In
<1>3. /\ \A u \in ThreadNames : \A y : In(u, y)' => In(u, y) \/ (u = t /\ y = x)
      /\ \A u \in ThreadNames : \A y : In(u, y) => In(u, y)' \/ (u = t /\ At(t, y[1]) /\ Top(t) = y)
  BY PushFacts
<1>4. QED
  BY <1>2, <1>3, InstructionMade

(* closeTransports() silences the transports, enqueues the job and calls onClosed. *)
LEMMA ResetInv ==
    ASSUME SocketInv, ~revived, NEW t \in ThreadNames, Reset(t)
    PROVE  SocketInv'
<1> DEFINE taken == Top(t)[2]
<1>1. /\ At(t, "reset") /\ closed' = closed + 1 /\ Do(t, <<>>)
      /\ ~\E u \in ThreadNames \ {t}, k \in {"ws", "tls", "tcp"} : Holds(u, k, taken[k])
      /\ cb' = [k \in Kinds |-> [g \in Gens |-> cb[k][g] /\ ~(k # "proxy" /\ taken[k] = g)]]
      /\ torn' = torn \cup ({taken.tcp} \ {0})
      /\ UNCHANGED <<config, wstate, gen, ptr, ts, timers, closeSent, closes, revived, early>>
  BY DEF Reset
<1>2. stacks[t] # <<>> /\ ~At(t, "detach") /\ ~At(t, "check") /\ Top(t)[1] = "reset"
  BY <1>1, AtOne
<1>3. taken \in [Kinds -> 0 .. MaxOpens]
  BY <1>2, TopPlaced DEF SocketInv
<1> HIDE DEF taken
<1>4. Calm(t)
  BY <1>1, <1>2, DoNothing DEF SocketInv
<1>5. SocketTypes'
  <2>1. taken.tcp \in 0 .. MaxOpens
    BY <1>3 DEF Kinds
  <2>2. taken.tcp # 0 => taken.tcp \in Gens
    BY <2>1, BoundsAreNatural DEF Gens
  <2>3. torn' \subseteq Gens
    BY <1>1, <2>2 DEF SocketInv, SocketTypes, TypeOK
  <2>4. cb' \in [Kinds -> [Gens -> BOOLEAN]]
    BY <1>1 DEF SocketInv, SocketTypes, TypeOK
  <2>5. closed' \in Nat
    BY <1>1 DEF SocketInv, SocketTypes, TypeOK
  <2>6. QED
    BY <1>1, <1>4, <2>3, <2>4, <2>5 DEF SocketInv, SocketTypes, TypeOK, Calm
<1>6. PlacesInv'
  BY <1>1, <1>4, CalmPlaces DEF SocketInv
<1>7. /\ \A u \in ThreadNames, op \in Special : At(u, op)' => u # t /\ At(u, op) /\ Top(u)' = Top(u)
      /\ \A u \in ThreadNames : \A op : u # t => (At(u, op)' <=> At(u, op)) /\ Top(u)' = Top(u)
      /\ At(t, "check")' => Top(t)'[2] = "tcp"
      /\ \A u \in ThreadNames : \A x : In(u, x) /\ x[1] # "end" => In(u, x)' \/ (u = t /\ At(t, x[1]) /\ Top(t) = x)
  BY <1>4, CalmFacts DEF SocketInv
<1>8. /\ \A u \in ThreadNames : \A k, g : Holds(u, k, g)' => Holds(u, k, g)
      /\ \A u \in ThreadNames : \A k, g : u # t => (Holds(u, k, g)' <=> Holds(u, k, g))
      /\ \A u \in ThreadNames : \A k, g : In(u, I("check", k, g))' => In(u, I("check", k, g))
  BY <1>4, CalmHolds DEF SocketInv
<1>9. /\ \A k \in Kinds, g \in Gens : Resetting(k, g) => Resetting(k, g)' \/ taken[k] = g
      /\ \A k \in Kinds, g \in Gens : Resetting(k, g)' => Resetting(k, g)
  BY <1>7 DEF Resetting, taken, Special
<1>10. StoreInv'
  BY <1>1, <1>7, <1>8 DEF StoreInv, OwnersInv, SocketInv, Special
<1>11. ChainInv'
  BY <1>1 DEF ChainInv, OwnersInv, SocketInv, Chain
<1>12. LiveInv'
  <2> SUFFICES ASSUME NEW k \in Taken, NEW g \in Gens, cb'[k][g], ts'[k][g] \in {"Connecting", "Connected"}
      PROVE ptr'[k] = g \/ Resetting(k, g)'
    BY DEF LiveInv
  <2>1. k \in Kinds /\ k # "proxy"
    BY DEF Taken, Kinds
  <2>2. cb[k][g] /\ taken[k] # g
    BY <1>1, <2>1
  <2>3. ptr[k] = g \/ Resetting(k, g)
    BY <1>1, <2>2 DEF LiveInv, OwnersInv, SocketInv
  <2>4. QED
    BY <1>1, <1>9, <2>1, <2>2, <2>3
<1>13. BeginInv'
  BY <1>1, <1>7, <1>8, <1>9 DEF BeginInv, OwnersInv, SocketInv, Special, Kinds
<1>14. HoldInv'
  BY <1>1, <1>8, <1>9 DEF HoldInv, OwnersInv, SocketInv, Kinds
<1>15. ProxyInv'
  <2> SUFFICES ASSUME NEW u \in ThreadNames
      PROVE  /\ At(u, "init")' /\ Top(u)'[2] = "proxy" => \E g \in Gens : Holds(u, "tcp", g)'
             /\ \A h \in Gens : (At(u, "start")' \/ At(u, "check")') /\ Top(u)'[2] = "proxy" /\ Top(u)'[3] = h =>
                 /\ Holds(u, "tcp", h)'
                 /\ ts'.tcp[h] \in {"none", "gone"} \/ ptr'.tcp = h \/ Resetting("tcp", h)'
    BY DEF ProxyInv
  <2>1. CASE u = t
    BY <2>1, <1>7 DEF Special
  <2>2. CASE u # t
    <3>1. Top(u)' = Top(u) /\ \A op : At(u, op)' <=> At(u, op)
      BY <2>2, <1>7
    <3>2. \A g : Holds(u, "tcp", g)' <=> Holds(u, "tcp", g)
      BY <2>2, <1>8
    <3>3. \A g \in Gens : Holds(u, "tcp", g) => taken.tcp # g
      BY <1>1, <2>2
    <3>4. QED
      BY <1>1, <1>9, <3>1, <3>2, <3>3 DEF Kinds, ProxyInv, OwnersInv, SocketInv
  <2>3. QED
    BY <2>1, <2>2
<1>16. LeakInv'
  <2>1. \A g \in Gens : g # 0
    BY BoundsAreNatural DEF Gens
  <2>2. \A g \in Gens : taken.tcp = g => g \in torn'
    BY <1>1, <2>1
  <2>3. QED
    BY <1>1, <1>9, <2>2 DEF LeakInv, OwnersInv, SocketInv, Kinds
<1>17. wstate = "Closed" /\ closed = gen - 1 /\ \A u \in ThreadNames : InClose(u) => u = t
  BY <1>1 DEF SocketInv, StateInv, CloseInv, InClose
<1>18. \A u \in ThreadNames : ~InClose(u)'
  BY <1>7, <1>17 DEF InClose, Special
<1>19. closed' = gen'
  BY <1>1, <1>17, BoundsAreNatural DEF SocketInv, SocketTypes, TypeOK
<1>20. CloseInv'
  BY <1>1, <1>17, <1>18, <1>19 DEF CloseInv
<1>21. OpenInv'
  BY <1>1, <1>17 DEF OpenInv
<1>22. DropInv'
  <2>1. \A u \in ThreadNames, k \in Taken, g \in Gens : In(u, I("check", k, g)) => In(u, I("check", k, g))'
    BY <1>2, <1>7, InstructionMade
  <2>2. \A u \in ThreadNames : At(u, "detach") => At(u, "detach")'
    BY <1>2, <1>7
  <2>3. QED
    BY <1>1, <2>1, <2>2 DEF DropInv, SocketInv, StateInv
<1>23. QED
  BY <1>5, <1>6, <1>10, <1>11, <1>12, <1>13, <1>14, <1>15, <1>16, <1>20, <1>21, <1>22 DEF SocketInv, StateInv, OwnersInv

(* A callback is set for a transport that is about to be started.               *)
LEMMA PushStart ==
    ASSUME SocketInv, NEW t \in ThreadNames, NEW k \in Kinds, NEW g \in Gens, Puts(t, I("start", k, g)),
           Top(t)[1] \in {"setTcp", "init"}, Top(t)[2] = k, stacks[t] # <<>>,
           UNCHANGED <<config, wstate, gen, ptr, ts, torn, closeSent, closed, closes, revived, early>>,
           timers' \subseteq Gens, cb' = [cb EXCEPT ![k][g] = TRUE],
           ptr[k] = 0, ts[k][g] \notin {"Connecting", "Connected"},
           k = "tcp" => At(t, "setTcp") /\ g = Top(t)[3],
           k = "proxy" => Holds(t, "tcp", g) /\ ptr.tcp = g
    PROVE  SocketInv'
<1> DEFINE x == I("start", k, g)
<1>1. x[1] = "start" /\ x[2] = k /\ x[3] = g
  BY InstructionMade
<1> HIDE DEF x
<1>2. Puts(t, x)
  BY DEF x
<1>3. \A op : At(t, op) <=> Top(t)[1] = op
  BY DEF At
<1>4. SocketTypes'
  <2>1. cb' \in [Kinds -> [Gens -> BOOLEAN]]
    BY DEF SocketInv, SocketTypes, TypeOK
  <2>2. QED
    BY <1>2, <2>1 DEF SocketInv, SocketTypes, TypeOK, Puts
<1>5. k \in Chain /\ t = Starter(k) /\ (k = "tcp" => Len(stacks[t]) = 1)
  BY TopPlaced DEF SocketInv
<1>6. PlacesInv'
  BY <1>1, <1>2, <1>5, PushPlaces DEF SocketInv
<1>7. /\ \A op : At(t, op)' <=> x[1] = op
      /\ Top(t)' = x
      /\ \A u \in ThreadNames : \A op : u # t => (At(u, op)' <=> At(u, op)) /\ Top(u)' = Top(u)
  BY <1>2, PushFacts DEF SocketInv
<1>8. /\ \A u \in ThreadNames : \A j, h : Holds(u, j, h)' <=> Holds(u, j, h)
      /\ \A u \in ThreadNames : \A j, h : In(u, I("check", j, h))' <=> In(u, I("check", j, h))
  BY <1>1, <1>2, PushHolds, InstructionMade DEF SocketInv
<1>9. \A j \in Kinds, h \in Gens : Resetting(j, h)' <=> Resetting(j, h)
  BY <1>1, <1>3, <1>7 DEF Resetting
<1>10. StoreInv'
  BY <1>1, <1>7, <1>8 DEF StoreInv, OwnersInv, SocketInv
<1>11. ChainInv'
  BY DEF ChainInv, OwnersInv, SocketInv, Chain
<1>12. LiveInv'
  <2> SUFFICES ASSUME NEW j \in Taken, NEW h \in Gens, cb'[j][h], ts'[j][h] \in {"Connecting", "Connected"}
      PROVE ptr'[j] = h \/ Resetting(j, h)'
    BY DEF LiveInv
  <2>1. j \in Kinds /\ ~(j = k /\ h = g)
    BY DEF Taken, Kinds
  <2>2. cb \in [Kinds -> [Gens -> BOOLEAN]]
    BY DEF SocketInv, SocketTypes, TypeOK
  <2>3. cb'[j][h] = cb[j][h]
    BY <2>1, <2>2
  <2>4. QED
    BY <1>9, <2>1, <2>3 DEF LiveInv, OwnersInv, SocketInv
<1>13. BeginInv'
  <2>1. \A u \in ThreadNames : At(u, "setTcp")' \/ (At(u, "start")' /\ Top(u)'[2] = "tcp") =>
           /\ At(u, "setTcp") \/ (At(u, "start") /\ Top(u)[2] = "tcp")
           /\ Top(u)'[3] = Top(u)[3]
    BY <1>1, <1>7
  <2>2. QED
    BY <1>8, <1>9, <2>1 DEF BeginInv, OwnersInv, SocketInv, Kinds
<1>14. HoldInv'
  BY <1>8, <1>9 DEF HoldInv, OwnersInv, SocketInv, Kinds
<1>15. ProxyInv'
  BY <1>1, <1>7, <1>8, <1>9 DEF ProxyInv, OwnersInv, SocketInv, Kinds
<1>16. LeakInv'
  BY <1>9 DEF LeakInv, OwnersInv, SocketInv, Kinds
<1>17. /\ \A u \in ThreadNames : (At(u, "detach")' <=> At(u, "detach")) /\ (At(u, "reset")' <=> At(u, "reset"))
       /\ \A u \in ThreadNames : At(u, "onOpen")' \/ At(u, "open")' => At(u, "onOpen") \/ At(u, "open")
  BY <1>1, <1>3, <1>7
<1>18. StateInv'
  BY <1>8, <1>17, StateKept DEF SocketInv
<1>19. QED
  BY <1>4, <1>6, <1>10, <1>11, <1>12, <1>13, <1>14, <1>15, <1>16, <1>18 DEF SocketInv, OwnersInv

(* setTcpTransport() makes the transport, or closes for one that is there.    *)
LEMMA SetTcpInv ==
    ASSUME SocketInv, NEW t \in ThreadNames, SetTcp(t)
    PROVE  SocketInv'
<1> DEFINE g == Top(t)[3]
<1>1. /\ At(t, "setTcp") /\ UNCHANGED <<config, wstate, gen, ptr, ts, torn, closeSent, closed, closes, revived, early>>
      /\ ptr.tcp = 0 => /\ cb' = [cb EXCEPT !.tcp[g] = TRUE] /\ timers' = timers \cup {g}
                        /\ Do(t, <<I("start", "tcp", g)>>)
  BY DEF SetTcp
<1>2. stacks[t] # <<>> /\ Top(t)[1] = "setTcp"
  BY <1>1, AtOne
<1>3. Top(t)[2] = "tcp" /\ g \in Gens /\ "tcp" \in Kinds
  BY <1>2, TopPlaced DEF SocketInv, OnTransport, Kinds
<1>4. ptr.tcp = 0
  BY <1>1, <1>3 DEF SocketInv, OwnersInv, StoreInv
<1>5. ts.tcp[g] \notin {"Connecting", "Connected"}
  BY <1>1 DEF SocketInv, OwnersInv, BeginInv
<1>6. I("start", "tcp", g) \in Instructions /\ I("start", "tcp", g)[1] = "start"
  BY <1>3, InstructionMade DEF OnTransport
<1> HIDE DEF g
<1>7. Puts(t, I("start", "tcp", g))
  BY <1>1, <1>2, <1>4, <1>6, DoOne DEF SocketInv
<1>8. timers' \subseteq Gens
  BY <1>1, <1>3, <1>4 DEF SocketInv, SocketTypes, TypeOK
<1>9. g = Top(t)[3]
  BY DEF g
<1>10. QED
  BY <1>1, <1>2, <1>3, <1>4, <1>5, <1>7, <1>8, <1>9, PushStart

(* The three init functions make a transport over the one below, or close.    *)
LEMMA InitTransportInv ==
    ASSUME SocketInv, NEW t \in ThreadNames, InitTransport(t)
    PROVE  SocketInv'
<1> DEFINE k == Top(t)[2]
           g == ptr[Below(k)]
<1>1. /\ At(t, "init") /\ UNCHANGED <<config, wstate, gen, ptr, ts, timers, torn, closeSent, closed, closes, revived, early>>
      /\ \/ (Do(t, <<>>) \/ Do(t, RemoteClose)) /\ UNCHANGED cb
         \/ /\ ptr[k] = 0 /\ g # 0 /\ ts[k][IF g = 0 THEN 1 ELSE g] = "none"
            /\ cb' = [cb EXCEPT ![k][g] = TRUE] /\ Do(t, <<I("start", k, g)>>)
  BY DEF InitTransport
<1>2. stacks[t] # <<>> /\ ~At(t, "detach") /\ ~At(t, "reset") /\ ~At(t, "check") /\ Top(t)[1] = "init"
  BY <1>1, AtOne
<1>3. CASE (Do(t, <<>>) \/ Do(t, RemoteClose)) /\ UNCHANGED cb
  <2>1. Calm(t)
    BY <1>2, <1>3, DoNothing, DoRemoteClose DEF SocketInv
  <2>2. SocketTypes'
    BY <1>1, <1>3, <2>1 DEF SocketInv, SocketTypes, TypeOK, Calm
  <2>3. PlacesInv' /\ OwnersInv'
    BY <1>1, <1>2, <1>3, <2>1, CalmKeeps DEF SocketInv
  <2>4. StateInv'
    BY <1>1, <1>2, <2>1, CalmState, StateKept DEF SocketInv
  <2>5. QED
    BY <2>2, <2>3, <2>4 DEF SocketInv
<1>4. CASE ptr[k] = 0 /\ g # 0 /\ ts[k][IF g = 0 THEN 1 ELSE g] = "none" /\ cb' = [cb EXCEPT ![k][g] = TRUE] /\ Do(t, <<I("start", k, g)>>)
  <2>1. k \in Kinds /\ k # "tcp"
    BY <1>2, TopPlaced DEF SocketInv, OnTransport
  <2>2. Below(k) \in Kinds /\ (k = "proxy" => Below(k) = "tcp")
    BY <2>1 DEF Kinds, Below
  <2>3. g \in Gens
    <3>1. g \in 0 .. MaxOpens
      BY <2>2 DEF SocketInv, SocketTypes, TypeOK
    <3> HIDE DEF g
    <3>2. QED
      BY <1>4, <3>1, BoundsAreNatural DEF Gens
  <2>4. I("start", k, g) \in Instructions /\ I("start", k, g)[1] = "start"
    BY <2>1, <2>3, InstructionMade DEF OnTransport
  <2>5. Puts(t, I("start", k, g))
    BY <1>2, <1>4, <2>4, DoOne DEF SocketInv
  <2>6. k = "proxy" => Holds(t, "tcp", g) /\ ptr.tcp = g
    <3> HAVE k = "proxy"
    <3>1. ptr.tcp = g
      BY <2>2
    <3>2. PICK h \in Gens : Holds(t, "tcp", h)
      BY <1>1 DEF SocketInv, OwnersInv, ProxyInv
    <3>3. ptr.tcp \in {0, h}
      BY <3>2 DEF SocketInv, OwnersInv, HoldInv
    <3>4. QED
      BY <1>4, <3>1, <3>2, <3>3
  <2>7. ts[k][g] \notin {"Connecting", "Connected"} /\ timers' \subseteq Gens
    BY <1>1, <1>4 DEF SocketInv, SocketTypes, TypeOK
  <2>8. Top(t)[2] = k
    OBVIOUS
  <2> HIDE DEF k, g
  <2>9. QED
    BY <1>1, <1>2, <1>4, <2>1, <2>3, <2>5, <2>6, <2>7, <2>8, PushStart
<1>5. QED
  BY <1>1, <1>3, <1>4

(* A transport is dropped again at the end of emplaceTransport().               *)
LEMMA EmplaceCheckInv ==
    ASSUME SocketInv, NEW t \in ThreadNames, EmplaceCheck(t)
    PROVE  SocketInv'
<1> DEFINE k == Top(t)[2]
           g == Top(t)[3]
<1>1. /\ At(t, "check") /\ Do(t, <<>>) /\ UNCHANGED <<config, wstate, gen, cb, timers, torn, closeSent, closed, closes, revived, early>>
      /\ wstate = "Closed" => ptr' = [ptr EXCEPT ![k] = 0] /\ ts' = [ts EXCEPT ![k][g] = "gone"]
      /\ wstate # "Closed" => UNCHANGED <<ptr, ts>>
  BY DEF EmplaceCheck
<1>2. stacks[t] # <<>> /\ ~At(t, "detach") /\ ~At(t, "reset") /\ Top(t)[1] = "check"
  BY <1>1, AtOne
<1>3. k \in Kinds /\ g \in Gens
  BY <1>2, TopPlaced DEF SocketInv, OnTransport
<1>4. Top(t) = I("check", k, g) /\ In(t, I("check", k, g))
  <2>1. Top(t) \in Instructions /\ 1 \in 1 .. Len(stacks[t]) /\ Top(t) = stacks[t][1]
    BY <1>2, TopPlaced DEF SocketInv
  <2>2. Top(t) = <<Top(t)[1], Top(t)[2], Top(t)[3]>>
    BY <2>1, InstructionForm
  <2>3. QED
    BY <1>2, <2>1, <2>2 DEF I, In
<1>5. ptr[k] \in {0, g}
  BY <1>3, <1>4 DEF SocketInv, OwnersInv, StoreInv
<1>6. At(t, "check") /\ k = "proxy" =>
          /\ Holds(t, "tcp", g)
          /\ ts.tcp[g] \in {"none", "gone"} \/ ptr.tcp = g \/ Resetting("tcp", g)
  BY <1>3 DEF SocketInv, OwnersInv, ProxyInv
<1> HIDE DEF k, g
<1>7. Calm(t)
  BY <1>1, <1>2, DoNothing DEF SocketInv
<1>8. /\ \A u \in ThreadNames, op \in Special : At(u, op)' => u # t /\ At(u, op) /\ Top(u)' = Top(u)
      /\ \A u \in ThreadNames : \A op : u # t => (At(u, op)' <=> At(u, op)) /\ Top(u)' = Top(u)
      /\ At(t, "check")' => Top(t)'[2] = "tcp"
      /\ \A u \in ThreadNames : \A x : In(u, x) /\ x[1] # "end" => In(u, x)' \/ (u = t /\ At(t, x[1]) /\ Top(t) = x)
  BY <1>7, CalmFacts DEF SocketInv
<1>9. /\ \A u \in ThreadNames : (At(u, "detach")' <=> At(u, "detach")) /\ (At(u, "reset")' <=> At(u, "reset"))
      /\ \A u \in ThreadNames : At(u, "onOpen")' \/ At(u, "open")' => At(u, "onOpen") \/ At(u, "open")
  BY <1>2, <1>8 DEF Special
<1>10. CASE wstate # "Closed"
  <2>1. SocketTypes'
    BY <1>1, <1>7, <1>10 DEF SocketInv, SocketTypes, TypeOK, Calm
  <2>2. PlacesInv' /\ OwnersInv'
    BY <1>1, <1>2, <1>7, <1>10, CalmKeeps DEF SocketInv
  <2>3. DropInv'
    BY <1>1, <1>10 DEF DropInv
  <2>4. CloseInv'
    BY <1>1, <1>9 DEF CloseInv, InClose, SocketInv, StateInv
  <2>5. OpenInv'
    BY <1>1, <1>9, <1>10 DEF OpenInv, SocketInv, StateInv
  <2>6. QED
    BY <2>1, <2>2, <2>3, <2>4, <2>5 DEF SocketInv, StateInv
<1>11. CASE wstate = "Closed"
  <2>1. ptr' = [ptr EXCEPT ![k] = 0] /\ ts' = [ts EXCEPT ![k][g] = "gone"]
    BY <1>1, <1>11
  <2>2. ptr \in [Kinds -> 0 .. MaxOpens] /\ ts \in [Kinds -> [Gens -> {"none", "Connecting", "Connected", "Disconnected", "Failed", "gone"}]]
    BY DEF SocketInv, SocketTypes, TypeOK
  <2>3. /\ ptr'[k] = 0 /\ \A j \in Kinds : j # k => ptr'[j] = ptr[j]
        /\ ts'[k][g] = "gone" /\ \A j \in Kinds, h \in Gens : ~(j = k /\ h = g) => ts'[j][h] = ts[j][h]
    BY <2>1, <2>2, <1>3
  <2>4. SocketTypes'
    <3>1. 0 \in 0 .. MaxOpens
      BY BoundsAreNatural
    <3>2. ptr' \in [Kinds -> 0 .. MaxOpens] /\ ts' \in [Kinds -> [Gens -> {"none", "Connecting", "Connected", "Disconnected", "Failed", "gone"}]]
      BY <2>1, <2>2, <1>3, <3>1
    <3>3. QED
      BY <1>1, <1>7, <3>2 DEF SocketInv, SocketTypes, TypeOK, Calm
  <2>5. PlacesInv'
    BY <1>1, <1>7, CalmPlaces DEF SocketInv
  <2>6. /\ \A u \in ThreadNames : \A j, h : Holds(u, j, h)' => Holds(u, j, h)
        /\ \A u \in ThreadNames : \A j, h : u # t => (Holds(u, j, h)' <=> Holds(u, j, h))
        /\ \A u \in ThreadNames : \A j, h : In(u, I("check", j, h))' => In(u, I("check", j, h))
    BY <1>7, CalmHolds DEF SocketInv
  <2>7. \A j \in Kinds, h \in Gens : Resetting(j, h)' <=> Resetting(j, h)
    BY <1>2, <1>8 DEF Resetting, Special
  <2>8. \A h \in Gens : h # 0
    BY BoundsAreNatural DEF Gens
  <2>9. StoreInv'
    <3>1. \A j \in Kinds : ptr[j] = 0 => ptr'[j] = 0
      BY <2>3
    <3>2. \A j \in Kinds, h \in Gens : ptr[j] \in {0, h} => ptr'[j] \in {0, h}
      BY <2>3
    <3>3. \A u \in ThreadNames : At(u, "start")' \/ At(u, "setTcp")' =>
            (At(u, "start") \/ At(u, "setTcp")) /\ Top(u)' = Top(u)
      BY <1>8 DEF Special
    <3>4. \A u \in ThreadNames : At(u, "start") \/ At(u, "setTcp") => Top(u)[2] \in Kinds
      BY TopPlaced, AtOne DEF SocketInv, OnTransport
    <3>5. QED
      BY <2>6, <3>1, <3>2, <3>3, <3>4 DEF StoreInv, OwnersInv, SocketInv
  <2>10. ChainInv'
    <3>1. \A j \in Kinds, h \in Gens : ts'[j][h] = ts[j][h] \/ ts'[j][h] = "gone"
      BY <2>3
    <3>2. QED
      BY <1>1, <3>1 DEF ChainInv, OwnersInv, SocketInv, Chain, Kinds
  <2>11. LiveInv'
    <3> SUFFICES ASSUME NEW j \in Taken, NEW h \in Gens, cb'[j][h], ts'[j][h] \in {"Connecting", "Connected"}
        PROVE ptr'[j] = h \/ Resetting(j, h)'
      BY DEF LiveInv
    <3>1. j \in Kinds /\ ~(j = k /\ h = g)
      BY <2>3 DEF Taken, Kinds
    <3>2. ptr[j] = h \/ Resetting(j, h)
      BY <1>1, <2>3, <3>1 DEF LiveInv, OwnersInv, SocketInv
    <3>3. ptr[j] = h => ptr'[j] = h
      BY <1>5, <2>3, <2>8, <3>1
    <3>4. QED
      BY <2>7, <3>1, <3>2, <3>3
  <2>12. BeginInv'
    <3>1. \A h \in Gens : ts.tcp[h] \notin {"Connecting", "Connected"} => ts'.tcp[h] \notin {"Connecting", "Connected"}
      BY <2>3 DEF Kinds
    <3>2. \A h \in Gens : h > gen' => ts'.tcp[h] \notin {"Connecting", "Connected"}
      BY <1>1, <3>1 DEF BeginInv, OwnersInv, SocketInv
    <3> SUFFICES ASSUME NEW u \in ThreadNames, At(u, "setTcp")' \/ (At(u, "start")' /\ Top(u)'[2] = "tcp")
        PROVE  /\ Top(u)'[3] = gen' /\ ts'.tcp[gen'] \notin {"Connecting", "Connected"}
               /\ \A v \in ThreadNames, h \in Gens : ~Holds(v, "tcp", h)'
               /\ \A h \in Gens : ~Resetting("tcp", h)'
      BY <3>2 DEF BeginInv
    <3>3. At(u, "setTcp") \/ (At(u, "start") /\ Top(u)[2] = "tcp")
      BY <1>8 DEF Special
    <3>4. Top(u)' = Top(u)
      BY <1>8 DEF Special
    <3>5. Top(u)[3] \in Gens
      BY <3>3, TopPlaced, AtOne DEF OnTransport, SocketInv
    <3>6. QED
      BY <1>1, <2>6, <2>7, <3>1, <3>3, <3>4, <3>5 DEF BeginInv, OwnersInv, SocketInv, Kinds
  <2>13. HoldInv'
    BY <2>3, <2>6, <2>7 DEF HoldInv, OwnersInv, SocketInv, Kinds
  <2>14. \A h \in Gens : (ts.tcp[h] \in {"none", "gone"} \/ ptr.tcp = h \/ Resetting("tcp", h))
            => (ts'.tcp[h] \in {"none", "gone"} \/ ptr'.tcp = h \/ Resetting("tcp", h)')
    BY <1>5, <2>3, <2>7, <2>8 DEF Kinds
  <2>15. ProxyInv'
    <3> SUFFICES ASSUME NEW u \in ThreadNames
        PROVE  /\ At(u, "init")' /\ Top(u)'[2] = "proxy" => \E h \in Gens : Holds(u, "tcp", h)'
               /\ \A h \in Gens : (At(u, "start")' \/ At(u, "check")') /\ Top(u)'[2] = "proxy" /\ Top(u)'[3] = h =>
                   /\ Holds(u, "tcp", h)'
                   /\ ts'.tcp[h] \in {"none", "gone"} \/ ptr'.tcp = h \/ Resetting("tcp", h)'
      BY DEF ProxyInv
    <3>1. CASE u = t
      BY <3>1, <1>8 DEF Special
    <3>2. CASE u # t
      <4>1. Top(u)' = Top(u) /\ \A op : At(u, op)' <=> At(u, op)
        BY <3>2, <1>8
      <4>2. \A h : Holds(u, "tcp", h)' <=> Holds(u, "tcp", h)
        BY <3>2, <2>6
      <4>3. QED
        BY <2>14, <4>1, <4>2 DEF ProxyInv, OwnersInv, SocketInv
    <3>3. QED
      BY <3>1, <3>2
  <2>16. LeakInv'
    <3> SUFFICES ASSUME NEW h \in Gens
        PROVE ts'.tcp[h] \in {"none", "gone"} \/ ptr'.tcp = h \/ ptr'.proxy = h \/ h \in torn' \/ Resetting("tcp", h)'
      BY DEF LeakInv
    <3>1. CASE ts.tcp[h] \in {"none", "gone"} \/ ptr.tcp = h \/ Resetting("tcp", h)
      BY <3>1, <2>14
    <3>2. CASE h \in torn
      BY <3>2, <1>1
    <3>3. CASE ptr.proxy = h
      <4>1. CASE k = "proxy"
        <5>1. h = g
          BY <3>3, <4>1, <1>5, <2>8
        <5>2. QED
          BY <5>1, <4>1, <1>1, <1>6, <2>14
      <4>2. CASE k # "proxy"
        BY <3>3, <4>2, <2>3 DEF Kinds
      <4>3. QED
        BY <4>1, <4>2
    <3>4. QED
      BY <3>1, <3>2, <3>3 DEF LeakInv, OwnersInv, SocketInv
  <2>17. DropInv'
    <3> SUFFICES ASSUME NEW j \in Taken, ptr'[j] # 0
        PROVE \E u \in ThreadNames : At(u, "detach")' \/ \E h \in Gens : In(u, I("check", j, h))'
      BY DEF DropInv
    <3>1. j # k /\ ptr[j] # 0
      BY <2>3 DEF Taken, Kinds
    <3>2. \A u \in ThreadNames, h \in Gens : In(u, I("check", j, h)) => In(u, I("check", j, h))'
      BY <1>4, <1>8, <3>1, InstructionMade
    <3>3. QED
      BY <1>9, <1>11, <3>1, <3>2 DEF DropInv, StateInv, SocketInv
  <2>18. CloseInv'
    BY <1>1, <1>9 DEF CloseInv, InClose, SocketInv, StateInv
  <2>19. OpenInv'
    BY <1>1, <1>11 DEF OpenInv
  <2>20. QED
    BY <2>4, <2>5, <2>9, <2>10, <2>11, <2>12, <2>13, <2>15, <2>16, <2>17, <2>18, <2>19 DEF SocketInv, StateInv, OwnersInv
<1>12. QED
  BY <1>10, <1>11

(* No other thread starts the same transport, and none has still to check one.  *)
LEMMA OneStarts ==
    ASSUME SocketInv, NEW t \in ThreadNames, At(t, "start")
    PROVE  /\ \A u \in ThreadNames : (At(u, "start") \/ At(u, "setTcp")) /\ Top(u)[2] = Top(t)[2] => u = t
           /\ \A u \in ThreadNames : \A g : ~In(u, I("check", Top(t)[2], g))
<1> DEFINE k == Top(t)[2]
<1>1. stacks[t] # <<>> /\ Top(t)[1] = "start"
  BY AtOne
<1>2. t = Starter(k) /\ (k = "tcp" => Len(stacks[t]) = 1)
  BY <1>1, TopPlaced DEF SocketInv
<1>3. Top(t) = stacks[t][1]
  BY DEF Top
<1> HIDE DEF k
<1>4. \A u \in ThreadNames : (At(u, "start") \/ At(u, "setTcp")) /\ Top(u)[2] = k => u = t
  BY <1>2, TopPlaced, AtOne DEF SocketInv
<1>5. \A u \in ThreadNames : \A g : ~In(u, I("check", k, g))
  <2> SUFFICES ASSUME NEW u \in ThreadNames, NEW g, In(u, I("check", k, g)) PROVE FALSE
    OBVIOUS
  <2>1. PICK i \in 1 .. Len(stacks[u]) : stacks[u][i] = I("check", k, g)
    BY DEF In
  <2>2. Placed(u, i)
    BY DEF SocketInv, PlacesInv
  <2>3. stacks[u][i][1] = "check" /\ stacks[u][i][2] = k
    BY <2>1, InstructionMade
  <2>4. u = t /\ (k # "tcp" => i = 1)
    BY <1>2, <2>2, <2>3 DEF Placed
  <2>5. i = 1
    BY <1>2, <2>1, <2>4
  <2>6. QED
    BY <1>1, <1>3, <2>3, <2>4, <2>5
<1>6. QED
  BY <1>4, <1>5 DEF k

(* emplaceTransport() stores and starts the transport k: what follows does not  *)
(* depend on whether it calls back at once.                                     *)
StartedBy(t, k, g) ==
    /\ stacks' \in [ThreadNames -> Seq(Instructions)]
    /\ \A u \in ThreadNames : \A op : u # t => (At(u, op)' <=> At(u, op)) /\ Top(u)' = Top(u)
    /\ \A op \in Special \ {"init"} : ~At(t, op)'
    /\ At(t, "init")' => Top(t)'[2] # "proxy"
    /\ At(t, "check")' => Top(t)'[2] = k /\ Top(t)'[3] = g
    /\ \A u \in ThreadNames : \A j, h : Holds(u, j, h) => Holds(u, j, h)'
    /\ \A u \in ThreadNames : \A j, h : Holds(u, j, h)' => Holds(u, j, h) \/ (k = "tcp" /\ j = k /\ h = g)
    /\ \A u \in ThreadNames : \A j, h : In(u, I("check", j, h))' <=> In(u, I("check", j, h)) \/ (u = t /\ j = k /\ h = g)
StartedIn(k, g, s) == ts' = [ts EXCEPT ![k][g] = s] /\ (config.passive /\ k = "tcp" => s # "Connecting")

(* A transport is stored and started: what every such step keeps.             *)
LEMMA Started ==
    ASSUME SocketInv, NEW t \in ThreadNames, At(t, "start"), NEW k \in Kinds, NEW g \in Gens, k = Top(t)[2], g = Top(t)[3],
           UNCHANGED <<config, wstate, gen, cb, timers, torn, closeSent, closed, closes, revived, early>>,
           ptr' = [ptr EXCEPT ![k] = g], StartedIn(k, g, "Connecting") \/ StartedIn(k, g, "Connected"),
           StartedBy(t, k, g), PlacesInv'
    PROVE  SocketInv'
<1> USE DEF StartedBy
<1>0. PICK s \in {"Connecting", "Connected"} :
          ts' = [ts EXCEPT ![k][g] = s] /\ (config.passive /\ k = "tcp" => s # "Connecting")
  BY DEF StartedIn
<1>1. ptr \in [Kinds -> 0 .. MaxOpens] /\ ts \in [Kinds -> [Gens -> {"none", "Connecting", "Connected", "Disconnected", "Failed", "gone"}]]
  BY DEF SocketInv, SocketTypes, TypeOK
<1>2. /\ ptr'[k] = g /\ \A j \in Kinds : j # k => ptr'[j] = ptr[j]
      /\ ts'[k][g] = s /\ \A j \in Kinds, h \in Gens : ~(j = k /\ h = g) => ts'[j][h] = ts[j][h]
  BY <1>0, <1>1
<1>3. SocketTypes'
  <2>1. g \in 0 .. MaxOpens
    BY BoundsAreNatural DEF Gens
  <2>2. ptr' \in [Kinds -> 0 .. MaxOpens]
    BY <1>1, <2>1
  <2>3. ts' \in [Kinds -> [Gens -> {"none", "Connecting", "Connected", "Disconnected", "Failed", "gone"}]]
    BY <1>0, <1>1
  <2>4. QED
    BY <2>2, <2>3 DEF SocketInv, SocketTypes, TypeOK
<1>4. \A h \in Gens : h # 0
  BY BoundsAreNatural DEF Gens
<1>5. /\ \A u \in ThreadNames : (At(u, "start") \/ At(u, "setTcp")) /\ Top(u)[2] = k => u = t
      /\ \A u \in ThreadNames : \A h : ~In(u, I("check", k, h))
  BY OneStarts
<1>6. ptr[k] = 0
  BY DEF SocketInv, OwnersInv, StoreInv
<1>7. \A j \in Kinds, h \in Gens : Resetting(j, h)' <=> Resetting(j, h)
  <2>1. ~At(t, "reset") /\ ~At(t, "reset")'
    BY AtOne DEF Special
  <2>2. QED
    BY <2>1 DEF Resetting
<1>8. k = "tcp" => /\ g = gen
                   /\ \A u \in ThreadNames, h \in Gens : ~Holds(u, "tcp", h)
                   /\ \A h \in Gens : ~Resetting("tcp", h)
  BY DEF SocketInv, OwnersInv, BeginInv
<1>9. StoreInv'
  <2>1. \A u \in ThreadNames : At(u, "start")' \/ At(u, "setTcp")' =>
            u # t /\ (At(u, "start") \/ At(u, "setTcp")) /\ Top(u)' = Top(u) /\ Top(u)[2] # k /\ Top(u)[2] \in Kinds
    <3> SUFFICES ASSUME NEW u \in ThreadNames, At(u, "start")' \/ At(u, "setTcp")'
        PROVE u # t /\ (At(u, "start") \/ At(u, "setTcp")) /\ Top(u)' = Top(u) /\ Top(u)[2] # k /\ Top(u)[2] \in Kinds
      OBVIOUS
    <3>1. u # t
      BY DEF Special
    <3>2. (At(u, "start") \/ At(u, "setTcp")) /\ Top(u)' = Top(u)
      BY <3>1
    <3>3. QED
      BY <3>1, <3>2, <1>5, TopPlaced, AtOne DEF SocketInv, OnTransport
  <2>2. \A u \in ThreadNames, j \in Kinds, h \in Gens : In(u, I("check", j, h))' => ptr'[j] \in {0, h}
    BY <1>2, <1>5 DEF StoreInv, OwnersInv, SocketInv
  <2>3. QED
    BY <1>2, <2>1, <2>2 DEF StoreInv, OwnersInv, SocketInv
<1>10. ChainInv'
  <2>1. k \in Chain
    BY TopPlaced, AtOne DEF SocketInv
  <2>2. Chain' = Chain
    BY DEF Chain
  <2>3. \A j \in Kinds, h \in Gens : ts'[j][h] \in {"Connecting", "Connected"} => j \in Chain
    BY <1>2, <2>1 DEF ChainInv, OwnersInv, SocketInv
  <2>4. \A h \in Gens : config.passive => ts'.tcp[h] # "Connecting"
    BY <1>0, <1>2 DEF ChainInv, OwnersInv, SocketInv, Kinds
  <2>5. QED
    BY <2>2, <2>3, <2>4 DEF ChainInv
<1>11. LiveInv'
  <2> SUFFICES ASSUME NEW j \in Taken, NEW h \in Gens, cb'[j][h], ts'[j][h] \in {"Connecting", "Connected"}
      PROVE ptr'[j] = h \/ Resetting(j, h)'
    BY DEF LiveInv
  <2>1. j \in Kinds
    BY DEF Taken, Kinds
  <2>2. CASE j = k /\ h = g
    BY <2>2, <1>2
  <2>3. CASE ~(j = k /\ h = g)
    <3>1. ptr[j] = h \/ Resetting(j, h)
      BY <1>2, <2>1, <2>3 DEF LiveInv, OwnersInv, SocketInv
    <3>2. ptr[j] = h => j # k
      BY <1>4, <1>6
    <3>3. QED
      BY <1>2, <1>7, <2>1, <3>1, <3>2
  <2>4. QED
    BY <2>2, <2>3
<1>12. BeginInv'
  <2>1. \A h \in Gens : h > gen' => ts'.tcp[h] \notin {"Connecting", "Connected"}
    <3> TAKE h \in Gens
    <3> HAVE h > gen'
    <3>1. ~(k = "tcp" /\ h = g)
      <4>1. gen \in Int /\ h # gen
        BY BoundsAreNatural DEF SocketInv, SocketTypes, TypeOK, Gens
      <4>2. QED
        BY <4>1, <1>8
    <3>2. ts'.tcp[h] = ts.tcp[h]
      BY <3>1, <1>2 DEF Kinds
    <3>3. QED
      BY <3>2 DEF BeginInv, OwnersInv, SocketInv
  <2> SUFFICES ASSUME NEW u \in ThreadNames, At(u, "setTcp")' \/ (At(u, "start")' /\ Top(u)'[2] = "tcp")
      PROVE  /\ Top(u)'[3] = gen' /\ ts'.tcp[gen'] \notin {"Connecting", "Connected"}
             /\ \A v \in ThreadNames, h \in Gens : ~Holds(v, "tcp", h)'
             /\ \A h \in Gens : ~Resetting("tcp", h)'
    BY <2>1 DEF BeginInv
  <2>2. u # t /\ Top(u)' = Top(u)
    BY DEF Special
  <2>3. At(u, "setTcp") \/ (At(u, "start") /\ Top(u)[2] = "tcp")
    BY <2>2
  <2>4. Top(u)[2] = "tcp" /\ Top(u)[3] \in Gens
    BY <2>3, TopPlaced, AtOne DEF SocketInv, OnTransport
  <2>5. k # "tcp"
    BY <1>5, <2>2, <2>3, <2>4
  <2>6. \A h \in Gens : ts'.tcp[h] = ts.tcp[h]
    BY <1>2, <2>5 DEF Kinds
  <2>7. QED
    BY <1>7, <2>2, <2>3, <2>4, <2>5, <2>6 DEF BeginInv, OwnersInv, SocketInv, Kinds
<1>13. HoldInv'
  <2>1. k = "tcp" => \A u \in ThreadNames, h \in Gens : Holds(u, "tcp", h)' => h = g
    BY <1>8
  <2>2. k # "tcp" => ptr'.tcp = ptr.tcp
    BY <1>2 DEF Kinds
  <2>3. QED
    BY <1>2, <1>7, <1>8, <2>1, <2>2 DEF HoldInv, OwnersInv, SocketInv, Kinds
<1>14. ProxyInv'
  <2> SUFFICES ASSUME NEW u \in ThreadNames
      PROVE  /\ At(u, "init")' /\ Top(u)'[2] = "proxy" => \E h \in Gens : Holds(u, "tcp", h)'
             /\ \A h \in Gens : (At(u, "start")' \/ At(u, "check")') /\ Top(u)'[2] = "proxy" /\ Top(u)'[3] = h =>
                 /\ Holds(u, "tcp", h)'
                 /\ ts'.tcp[h] \in {"none", "gone"} \/ ptr'.tcp = h \/ Resetting("tcp", h)'
    BY DEF ProxyInv
  <2>1. CASE k = "tcp"
    <3>1. CASE u = t
      BY <2>1, <3>1 DEF Special
    <3>2. CASE u # t
      <4>1. Top(u)' = Top(u) /\ \A op : At(u, op)' <=> At(u, op)
        BY <3>2
      <4>2. QED
        BY <1>8, <2>1, <4>1 DEF ProxyInv, OwnersInv, SocketInv
    <3>3. QED
      BY <3>1, <3>2
  <2>2. CASE k # "tcp"
    <3>1. ptr'.tcp = ptr.tcp /\ \A h \in Gens : ts'.tcp[h] = ts.tcp[h]
      BY <1>2, <2>2 DEF Kinds
    <3>2. \A h \in Gens : Resetting("tcp", h)' <=> Resetting("tcp", h)
      BY <1>7 DEF Kinds
    <3>3. CASE u = t
      <4>1. ~At(u, "start")'
        BY <3>3 DEF Special
      <4>2. k = "proxy" => Holds(t, "tcp", g) /\ (ts.tcp[g] \in {"none", "gone"} \/ ptr.tcp = g \/ Resetting("tcp", g))
        BY DEF ProxyInv, OwnersInv, SocketInv
      <4>3. QED
        BY <3>1, <3>2, <3>3, <4>1, <4>2
    <3>4. CASE u # t
      <4>1. Top(u)' = Top(u) /\ \A op : At(u, op)' <=> At(u, op)
        BY <3>4
      <4>2. QED
        BY <3>1, <3>2, <4>1 DEF ProxyInv, OwnersInv, SocketInv
    <3>5. QED
      BY <3>3, <3>4
  <2>3. QED
    BY <2>1, <2>2
<1>15. LeakInv'
  <2> SUFFICES ASSUME NEW h \in Gens
      PROVE ts'.tcp[h] \in {"none", "gone"} \/ ptr'.tcp = h \/ ptr'.proxy = h \/ h \in torn' \/ Resetting("tcp", h)'
    BY DEF LeakInv
  <2>1. ts.tcp[h] \in {"none", "gone"} \/ ptr.tcp = h \/ ptr.proxy = h \/ h \in torn \/ Resetting("tcp", h)
    BY DEF LeakInv, OwnersInv, SocketInv
  <2>2. CASE k = "tcp" /\ h = g
    BY <2>2, <1>2
  <2>3. CASE ~(k = "tcp" /\ h = g)
    <3>1. ts'.tcp[h] = ts.tcp[h]
      BY <1>2, <2>3 DEF Kinds
    <3>2. (ptr.tcp = h => ptr'.tcp = h) /\ (ptr.proxy = h => ptr'.proxy = h)
      BY <1>2, <1>4, <1>6 DEF Kinds
    <3>3. Resetting("tcp", h)' <=> Resetting("tcp", h)
      BY <1>7 DEF Kinds
    <3>4. QED
      BY <2>1, <3>1, <3>2, <3>3
  <2>4. QED
    BY <2>2, <2>3
<1>16. \A u \in ThreadNames : (At(u, "detach")' <=> At(u, "detach")) /\ (At(u, "reset")' <=> At(u, "reset"))
  BY AtOne DEF Special
<1>17. \A u \in ThreadNames : At(u, "onOpen")' \/ At(u, "open")' => At(u, "onOpen") \/ At(u, "open")
  BY DEF Special
<1>18. DropInv'
  <2> SUFFICES ASSUME wstate' = "Closed", NEW j \in Taken, ptr'[j] # 0
      PROVE \E u \in ThreadNames : At(u, "detach")' \/ \E h \in Gens : In(u, I("check", j, h))'
    BY DEF DropInv
  <2>1. CASE j = k
    BY <2>1
  <2>2. CASE j # k
    <3>1. ptr[j] # 0
      BY <1>2, <2>2 DEF Taken, Kinds
    <3>2. QED
      BY <3>1, <1>16 DEF DropInv, StateInv, SocketInv
  <2>3. QED
    BY <2>1, <2>2
<1>19. CloseInv'
  BY <1>16 DEF CloseInv, InClose, SocketInv, StateInv
<1>20. OpenInv'
  <2>1. ptr.ws # 0 => ptr'.ws # 0
    BY <1>2, <1>4 DEF Kinds
  <2>2. QED
    BY <1>17, <2>1 DEF OpenInv, SocketInv, StateInv
<1>21. QED
  BY <1>3, <1>9, <1>10, <1>11, <1>12, <1>13, <1>14, <1>15, <1>18, <1>19, <1>20 DEF SocketInv, StateInv, OwnersInv

(* Sequences that are put together.                                             *)
LEMMA Joined ==
    ASSUME NEW S, NEW p \in Seq(S), NEW q \in Seq(S)
    PROVE  /\ p \o q \in Seq(S) /\ Len(p \o q) = Len(p) + Len(q) /\ Len(p) \in Nat /\ Len(q) \in Nat
           /\ \A i \in 1 .. Len(p) : (p \o q)[i] = p[i]
           /\ \A i \in 1 .. Len(q) : (p \o q)[Len(p) + i] = q[i]
OBVIOUS

(* A sequence and one more element.                                           *)
LEMMA TwoJoined ==
    ASSUME NEW S, NEW p \in Seq(S), NEW x \in S
    PROVE  /\ p \o <<x>> \in Seq(S) /\ Len(p \o <<x>>) = Len(p) + 1 /\ (p \o <<x>>)[Len(p) + 1] = x
           /\ \A i \in 1 .. Len(p) : (p \o <<x>>)[i] = p[i]
<1>1. <<x>> \in Seq(S) /\ Len(<<x>>) = 1 /\ <<x>>[1] = x /\ 1 \in 1 .. Len(<<x>>)
  OBVIOUS
<1>2. QED
  BY <1>1, Joined

(* Three elements.                                                            *)
LEMMA ThreeJoined ==
    ASSUME NEW S, NEW x \in S, NEW y \in S, NEW z \in S
    PROVE  /\ (<<x>> \o <<y>>) \o <<z>> \in Seq(S) /\ Len((<<x>> \o <<y>>) \o <<z>>) = 3
           /\ ((<<x>> \o <<y>>) \o <<z>>)[1] = x /\ ((<<x>> \o <<y>>) \o <<z>>)[2] = y
           /\ ((<<x>> \o <<y>>) \o <<z>>)[3] = z
<1> DEFINE q == <<x>> \o <<y>>
<1>1. <<x>> \in Seq(S) /\ Len(<<x>>) = 1 /\ <<x>>[1] = x /\ 1 \in 1 .. Len(<<x>>)
  OBVIOUS
<1>2. q \in Seq(S) /\ Len(q) = Len(<<x>>) + 1 /\ q[Len(<<x>>) + 1] = y /\ \A i \in 1 .. Len(<<x>>) : q[i] = <<x>>[i]
  BY <1>1, TwoJoined
<1> HIDE DEF q
<1> DEFINE w == q \o <<z>>
<1>3. w \in Seq(S) /\ Len(w) = Len(q) + 1 /\ w[Len(q) + 1] = z /\ \A i \in 1 .. Len(q) : w[i] = q[i]
  <2>1. q \in Seq(S)
    BY <1>2
  <2>2. QED
    BY <2>1, TwoJoined
<1> HIDE DEF w
<1>4. Len(q) = 2 /\ q[1] = x /\ q[2] = y
  BY <1>1, <1>2
<1>5. 1 \in 1 .. Len(q) /\ 2 \in 1 .. Len(q) /\ Len(q) + 1 = 3
  BY <1>4
<1>6. Len(w) = 3 /\ w[1] = x /\ w[2] = y /\ w[3] = z
  BY <1>3, <1>4, <1>5
<1>7. QED
  BY <1>3, <1>6 DEF q, w

(* A sequence and an empty one.                                               *)
LEMMA JoinedWithNothing ==
    ASSUME NEW S, NEW p \in Seq(S), NEW q \in Seq(S), Len(q) = 0
    PROVE  p \o q \in Seq(S) /\ Len(p \o q) = Len(p) /\ \A i \in 1 .. Len(p) : (p \o q)[i] = p[i]
BY Joined

(* emplaceTransport() stores and starts a transport, or drops it when start() throws. *)
LEMMA StartTransportInv ==
    ASSUME SocketInv, NEW t \in ThreadNames, StartTransport(t)
    PROVE  SocketInv'
<1>0. PICK k \in Kinds, g \in Gens : k = Top(t)[2] /\ g = Top(t)[3]
  <2>1. At(t, "start")
    BY DEF StartTransport
  <2>2. QED
    BY <2>1, AtOne, TopPlaced DEF SocketInv, OnTransport
<1> DEFINE fails == k # "tcp" /\ ts[Below(k)][g] # "Connected"
           up == k = "tcp" /\ config.passive
<1>1. /\ At(t, "start")
      /\ ptr' = [ptr EXCEPT ![k] = IF fails THEN 0 ELSE g]
      /\ ts' = [ts EXCEPT ![k][g] = IF fails THEN "gone" ELSE IF up THEN "Connected" ELSE "Connecting"]
      /\ Do(t, IF fails THEN RemoteClose
               ELSE (IF up THEN CallbackOf("tcp", "Connected", g) \o <<I("end", "tcp", g)>> ELSE <<>>)
                    \o <<I("check", k, g)>>)
      /\ UNCHANGED <<config, wstate, gen, cb, timers, torn, closeSent, closed, closes, revived, early>>
  BY <1>0 DEF StartTransport
<1>2. stacks[t] # <<>> /\ ~At(t, "detach") /\ ~At(t, "reset") /\ ~At(t, "check") /\ Top(t)[1] = "start"
  BY <1>1, AtOne
<1>3. k \in Kinds /\ g \in Gens /\ k \in Chain /\ t = Starter(k) /\ (k = "tcp" => Len(stacks[t]) = 1)
  BY <1>0, <1>2, TopPlaced DEF SocketInv, OnTransport
<1>4. ptr[k] = 0
  BY <1>0, <1>1 DEF SocketInv, OwnersInv, StoreInv
<1>5. ptr \in [Kinds -> 0 .. MaxOpens] /\ ts \in [Kinds -> [Gens -> {"none", "Connecting", "Connected", "Disconnected", "Failed", "gone"}]]
  BY DEF SocketInv, SocketTypes, TypeOK
<1>7. CASE fails
  <2>1. Calm(t)
    BY <1>1, <1>2, <1>7, DoRemoteClose DEF SocketInv
  <2>2. ptr' = ptr
    BY <1>1, <1>4, <1>5, <1>7
  <2>3. ts' = [ts EXCEPT ![k][g] = "gone"]
    BY <1>1, <1>7
  <2>4. \A j \in Kinds, h \in Gens : ts'[j][h] = ts[j][h] \/ ts'[j][h] = "gone"
    BY <2>3, <1>3, <1>5
  <2>5. ts' \in [Kinds -> [Gens -> {"none", "Connecting", "Connected", "Disconnected", "Failed", "gone"}]]
    BY <2>3, <1>5
  <2>6. SocketTypes'
    BY <1>1, <2>1, <2>2, <2>5 DEF SocketInv, SocketTypes, TypeOK, Calm
  <2>7. PlacesInv' /\ OwnersInv'
    BY <1>1, <1>2, <2>1, <2>2, <2>4, CalmKeeps DEF SocketInv
  <2>8. StateInv'
    BY <1>1, <1>2, <2>1, <2>2, CalmState, StateKept DEF SocketInv
  <2>9. QED
    BY <2>6, <2>7, <2>8 DEF SocketInv
<1>8. CASE ~fails /\ ~up
  <2> DEFINE x == I("check", k, g)
  <2>1. x \in Instructions /\ x[1] = "check" /\ x[2] = k /\ x[3] = g
    BY <1>3, InstructionMade DEF OnTransport
  <2>2. <<>> \o <<x>> = <<x>>
    BY <2>1
  <2>3. Do(t, <<x>>)
    BY <1>1, <1>8, <2>2
  <2> HIDE DEF x
  <2>4. Puts(t, x)
    BY <1>2, <2>1, <2>3, DoOne DEF SocketInv
  <2>5. PlacesInv'
    BY <1>1, <1>3, <2>1, <2>4, PushPlaces DEF SocketInv
  <2>6. /\ \A op : At(t, op)' <=> x[1] = op
        /\ Top(t)' = x /\ \A y : y = x => In(t, y)'
        /\ \A u \in ThreadNames : \A op : u # t => (At(u, op)' <=> At(u, op)) /\ Top(u)' = Top(u)
    BY <2>4, PushFacts DEF SocketInv
  <2>7. /\ \A u \in ThreadNames : \A j, h : Holds(u, j, h)' <=> Holds(u, j, h)
        /\ \A u \in ThreadNames : \A j, h : In(u, I("check", j, h))' => In(u, I("check", j, h)) \/ (u = t /\ x = I("check", j, h))
        /\ \A u \in ThreadNames : \A j, h : In(u, I("check", j, h)) => In(u, I("check", j, h))'
    BY <1>2, <2>1, <2>4, PushHolds DEF SocketInv
  <2>8. \A u \in ThreadNames : \A j, h : In(u, I("check", j, h))' <=> In(u, I("check", j, h)) \/ (u = t /\ j = k /\ h = g)
    <3>1. \A j, h : x = I("check", j, h) <=> j = k /\ h = g
      BY <2>1, InstructionMade DEF x
    <3>2. QED
      BY <2>6, <2>7, <3>1
  <2>9. \A op \in Special : ~At(t, op)'
    BY <2>1, <2>6 DEF Special
  <2>10. ptr' = [ptr EXCEPT ![k] = g] /\ ts' = [ts EXCEPT ![k][g] = "Connecting"] /\ (config.passive => k # "tcp")
    BY <1>1, <1>8
  <2>11. stacks' \in [ThreadNames -> Seq(Instructions)]
    BY <2>4 DEF Puts
  <2>12. ~At(t, "init")' /\ \A op \in Special \ {"init"} : ~At(t, op)'
    BY <2>9 DEF Special
  <2>13. Top(t)'[2] = k /\ Top(t)'[3] = g
    BY <2>1, <2>6
  <2>15. StartedIn(k, g, "Connecting")
    BY <2>10 DEF StartedIn
  <2>16. StartedBy(t, k, g)
    BY <2>6, <2>7, <2>8, <2>11, <2>12, <2>13 DEF StartedBy
  <2>14. QED
    BY <1>0, <1>1, <2>5, <2>10, <2>15, <2>16, Started
<1>9. CASE ~fails /\ up
  <2> DEFINE a == I("init", Above("tcp"), g)
             b == I("end", "tcp", g)
             c == I("check", "tcp", g)
  <2>1. k = "tcp" /\ config.passive /\ ~config.proxy /\ t = "app" /\ Len(stacks[t]) = 1
    BY <1>3, <1>9, ConfigsAreValid DEF SocketInv, SocketTypes, TypeOK, Starter
  <2>2. Above("tcp") \in {"tls", "ws"} /\ Above("tcp") \in Chain /\ Below(Above("tcp")) = "tcp" /\ Above("tcp") \in Kinds
    BY <2>1 DEF Above, Below, Chain, Kinds
  <2>3. /\ a \in Instructions /\ b \in Instructions /\ c \in Instructions
        /\ a[1] = "init" /\ a[2] = Above("tcp") /\ b[1] = "end" /\ b[2] = "tcp" /\ b[3] = g
        /\ c[1] = "check" /\ c[2] = "tcp" /\ c[3] = g
    BY <1>3, <2>1, <2>2, InstructionMade DEF OnTransport
  <2>4. CallbackOf("tcp", "Connected", g) = <<a>>
    BY DEF CallbackOf
  <2> HIDE DEF a, b, c
  <2>5. Tail(stacks[t]) \in Seq(Instructions) /\ Len(Tail(stacks[t])) = 0
    BY <1>2, <2>1 DEF SocketInv, SocketTypes
  <2> DEFINE p == (<<a>> \o <<b>>) \o <<c>>
             r == p \o Tail(stacks[t])
  <2>6. p \in Seq(Instructions) /\ Len(p) = 3 /\ p[1] = a /\ p[2] = b /\ p[3] = c
    BY <2>3, ThreeJoined
  <2>8. Do(t, p)
    BY <1>1, <1>9, <2>1, <2>4 DEF b, c
  <2> HIDE DEF p
  <2>7. r \in Seq(Instructions) /\ Len(r) = 3 /\ r[1] = a /\ r[2] = b /\ r[3] = c /\ r # <<>> /\ r[1][1] # "end"
    <3>1. r \in Seq(Instructions) /\ Len(r) = Len(p) /\ \A i \in 1 .. Len(p) : r[i] = p[i]
      BY <2>5, <2>6, JoinedWithNothing
    <3> HIDE DEF r
    <3>2. 1 \in 1 .. Len(p) /\ 2 \in 1 .. Len(p) /\ 3 \in 1 .. Len(p)
      BY <2>6
    <3>3. Len(r) = 3 /\ r[1] = a /\ r[2] = b /\ r[3] = c
      BY <2>6, <3>1, <3>2
    <3>4. r # <<>>
      BY <3>1, <3>3
    <3>5. QED
      BY <2>3, <3>1, <3>3, <3>4
  <2> HIDE DEF r
  <2>9. stacks' = [stacks EXCEPT ![t] = r]
    BY <2>7, <2>8 DEF Do, r
  <2>10. /\ stacks' \in [ThreadNames -> Seq(Instructions)] /\ stacks'[t] = r
         /\ \A u \in ThreadNames : u # t => stacks'[u] = stacks[u]
    BY <2>7, <2>9 DEF SocketInv, SocketTypes
  <2>11. /\ \A u \in ThreadNames : \A op : u # t => (At(u, op)' <=> At(u, op)) /\ Top(u)' = Top(u)
         /\ \A u \in ThreadNames : \A x : u # t => (In(u, x)' <=> In(u, x))
         /\ \A u \in ThreadNames : \A j, h : u # t => (Holds(u, j, h)' <=> Holds(u, j, h))
    BY <2>10 DEF At, Top, In, Holds
  <2>12. Top(t)' = a /\ \A op : At(t, op)' <=> op = "init"
    BY <2>3, <2>7, <2>10 DEF At, Top
  <2>13. Len(stacks'[t]) = 3 /\ \A i \in 1 .. Len(stacks'[t]) : i \in {1, 2, 3}
    <3>1. Len(stacks'[t]) = 3
      BY <2>7, <2>10
    <3>2. \A i \in 1 .. 3 : i \in {1, 2, 3}
      OBVIOUS
    <3>3. QED
      BY <3>1, <3>2
  <2>14. \A x : In(t, x)' <=> x \in {a, b, c}
    <3>1. 1 \in 1 .. Len(stacks'[t]) /\ 2 \in 1 .. Len(stacks'[t]) /\ 3 \in 1 .. Len(stacks'[t])
      BY <2>13
    <3>2. stacks'[t][1] = a /\ stacks'[t][2] = b /\ stacks'[t][3] = c
      BY <2>7, <2>10
    <3>3. QED
      BY <2>13, <3>1, <3>2 DEF In
  <2>15. \A x : In(t, x) => x[1] = "start"
    <3>1. \A i \in 1 .. Len(stacks[t]) : i = 1
      BY <2>1
    <3>2. QED
      BY <1>2, <3>1 DEF In, Top
  <2>16. PlacesInv'
    <3>1. Chain' = Chain /\ \A j : Starter(j)' = Starter(j)
      BY <1>1 DEF Chain, Starter, Below, ThreadOf
    <3>2. SUFFICES ASSUME NEW u \in ThreadNames, NEW i \in 1 .. Len(stacks'[u])
          PROVE Placed(u, i)'
      BY DEF PlacesInv
    <3>3. CASE u # t
      <4>1. stacks'[u] = stacks[u]
        BY <3>3, <2>10
      <4>2. Placed(u, i)
        BY <4>1 DEF PlacesInv, SocketInv
      <4>3. QED
        BY <3>1, <4>1, <4>2 DEF Placed
    <3>4. CASE u = t
      <4>1. Starter("tcp") = "app" /\ Starter(Above("tcp")) = "app" /\ "tcp" \in Chain
        BY <2>1, <2>2 DEF Starter, Chain
      <4>2. stacks'[t][1] = a /\ stacks'[t][2] = b /\ stacks'[t][3] = c
        BY <2>7, <2>10
      <4>3. CASE i = 1
        BY <3>1, <3>4, <4>1, <4>2, <4>3, <2>1, <2>2, <2>3 DEF Placed
      <4>4. CASE i = 2
        BY <3>1, <3>4, <4>1, <4>2, <4>4, <2>1, <2>2, <2>3 DEF Placed
      <4>5. CASE i = 3
        BY <3>1, <3>4, <4>1, <4>2, <4>5, <2>1, <2>2, <2>3 DEF Placed
      <4>6. QED
        BY <2>13, <3>4, <4>3, <4>4, <4>5
    <3>5. QED
      BY <3>3, <3>4
  <2>17. \A u \in ThreadNames : \A j, h : Holds(u, j, h) <=> In(u, I("end", j, h))
    BY HoldsIn DEF SocketInv
  <2>18. \A j, h : Holds(t, j, h)' <=> In(t, I("end", j, h))'
    <3>1. DOMAIN stacks'[t] = 1 .. Len(stacks'[t])
      BY <2>10
    <3>2. QED
      BY <3>1 DEF Holds, In
  <2>19. /\ \A j, h : ~Holds(t, j, h)
         /\ \A j, h : Holds(t, j, h)' => j = "tcp" /\ h = g
    BY <2>3, <2>14, <2>15, <2>17, <2>18, InstructionMade
  <2>20. \A j, h : (In(t, I("check", j, h))' <=> j = "tcp" /\ h = g) /\ ~In(t, I("check", j, h))
    <3>1. \A j, h : c = I("check", j, h) <=> j = "tcp" /\ h = g
      BY <2>3, InstructionMade DEF c
    <3>2. QED
      BY <2>3, <2>14, <2>15, <3>1, InstructionMade
  <2>21. ptr' = [ptr EXCEPT ![k] = g] /\ ts' = [ts EXCEPT ![k][g] = "Connected"]
    BY <1>1, <1>9
  <2>22. (\A op \in Special \ {"init"} : ~At(t, op)') /\ ~At(t, "check")' /\ Top(t)'[2] # "proxy"
    BY <2>2, <2>3, <2>12 DEF Special
  <2>23. /\ \A u \in ThreadNames : \A j, h : Holds(u, j, h) => Holds(u, j, h)'
         /\ \A u \in ThreadNames : \A j, h : Holds(u, j, h)' => Holds(u, j, h) \/ (k = "tcp" /\ j = k /\ h = g)
         /\ \A u \in ThreadNames : \A j, h : In(u, I("check", j, h))' <=> In(u, I("check", j, h)) \/ (u = t /\ j = k /\ h = g)
    BY <2>1, <2>11, <2>19, <2>20
  <2>24. StartedIn(k, g, "Connected")
    BY <2>21 DEF StartedIn
  <2>25. StartedBy(t, k, g)
    BY <2>10, <2>11, <2>22, <2>23 DEF StartedBy
  <2>26. QED
    BY <1>0, <1>1, <2>16, <2>21, <2>24, <2>25, Started
<1>10. QED
  BY <1>7, <1>8, <1>9

(* A thread that has nothing to do is given the program q.                      *)
LEMMA GivenFacts ==
    ASSUME SocketTypes, NEW t \in ThreadNames, stacks[t] = <<>>, NEW q \in Seq(Instructions), q # <<>>,
           stacks' = [stacks EXCEPT ![t] = q]
    PROVE  /\ stacks' \in [ThreadNames -> Seq(Instructions)] /\ stacks'[t] = q
           /\ \A u \in ThreadNames : u # t => stacks'[u] = stacks[u]
           /\ \A u \in ThreadNames : \A op : u # t => (At(u, op)' <=> At(u, op)) /\ Top(u)' = Top(u)
           /\ \A u \in ThreadNames : \A x : u # t => (In(u, x)' <=> In(u, x))
           /\ \A u \in ThreadNames : \A j, h : u # t => (Holds(u, j, h)' <=> Holds(u, j, h))
           /\ Top(t)' = q[1] /\ \A op : At(t, op)' <=> q[1][1] = op
           /\ \A x : In(t, x)' <=> \E i \in 1 .. Len(q) : q[i] = x
           /\ \A j, h : Holds(t, j, h)' <=> \E i \in 1 .. Len(q) : q[i] = I("end", j, h)
           /\ \A op : ~At(t, op)
           /\ \A x : ~In(t, x)
           /\ \A j, h : ~Holds(t, j, h)
<1>1. stacks \in [ThreadNames -> Seq(Instructions)]
  BY DEF SocketTypes
<1>2. /\ stacks' \in [ThreadNames -> Seq(Instructions)] /\ stacks'[t] = q
      /\ \A u \in ThreadNames : u # t => stacks'[u] = stacks[u]
  BY <1>1
<1>3. /\ \A u \in ThreadNames : \A op : u # t => (At(u, op)' <=> At(u, op)) /\ Top(u)' = Top(u)
      /\ \A u \in ThreadNames : \A x : u # t => (In(u, x)' <=> In(u, x))
      /\ \A u \in ThreadNames : \A j, h : u # t => (Holds(u, j, h)' <=> Holds(u, j, h))
  BY <1>2 DEF At, Top, In, Holds
<1>4. Top(t)' = q[1] /\ \A op : At(t, op)' <=> q[1][1] = op
  BY <1>2 DEF At, Top
<1>5. \A x : In(t, x)' <=> \E i \in 1 .. Len(q) : q[i] = x
  BY <1>2 DEF In
<1>6. \A j, h : Holds(t, j, h)' <=> \E i \in 1 .. Len(q) : q[i] = I("end", j, h)
  <2>1. DOMAIN stacks'[t] = 1 .. Len(q)
    BY <1>2
  <2>2. QED
    BY <1>2, <2>1 DEF Holds
<1>7. (\A op : ~At(t, op)) /\ (\A x : ~In(t, x)) /\ \A j, h : ~Holds(t, j, h)
  <2>1. Len(stacks[t]) = 0 /\ \A i : i \notin 1 .. Len(stacks[t])
    OBVIOUS
  <2>2. DOMAIN stacks[t] = 1 .. Len(stacks[t])
    BY <1>1
  <2>3. QED
    BY <2>1, <2>2 DEF At, In, Holds
<1>8. QED
  BY <1>2, <1>3, <1>4, <1>5, <1>6, <1>7

(* The chain of transports.                                                     *)
LEMMA ChainFacts ==
    ASSUME NEW k \in Chain, k # "ws", k \in Kinds
    PROVE  Above(k) \in Chain /\ Above(k) \in Kinds /\ Above(k) # "tcp" /\ Below(Above(k)) = k
           /\ (Above(k) = "proxy" => k = "tcp")
BY DEF Chain, Above, Below, Kinds

(* What the thread of k is given when the state of k becomes s.                 *)
Calls(q, k, g, s) ==
    /\ \A i \in 1 .. Len(q) :
        \/ q[i] = I("end", k, g) \/ q[i][1] \in Plain
        \/ i = 1 /\ s = "Connected" /\ k # "ws" /\ q[i][1] = "init" /\ q[i][2] = Above(k)
        \/ i = 1 /\ s = "Connected" /\ k = "ws" /\ q[i][1] = "onOpen"
    /\ 1 \in 1 .. Len(q) /\ q[1][1] # "end" /\ \E i \in 1 .. Len(q) : q[i] = I("end", k, g)

(* A transport changes its state and its thread runs the callback q.          *)
LEMMA ChangeKeeps ==
    ASSUME SocketInv, NEW k \in Kinds, NEW g \in Gens, NEW s \in {"Connected", "Disconnected", "Failed"},
           NEW q \in Seq(Instructions), q # <<>>, NEW t \in ThreadNames, t = ThreadOf(k), stacks[t] = <<>>,
           cb[k][g], ts[k][g] \in {"Connecting", "Connected"}, s = "Connected" => ts[k][g] = "Connecting",
           ts' = [ts EXCEPT ![k][g] = s], stacks' = [stacks EXCEPT ![t] = q], Calls(q, k, g, s),
           UNCHANGED <<config, wstate, gen, ptr, cb, timers, torn, closeSent, closed, closes, revived, early>>
    PROVE  SocketInv'
<1>1. /\ stacks' \in [ThreadNames -> Seq(Instructions)] /\ stacks'[t] = q
      /\ \A u \in ThreadNames : u # t => stacks'[u] = stacks[u]
      /\ \A u \in ThreadNames : \A op : u # t => (At(u, op)' <=> At(u, op)) /\ Top(u)' = Top(u)
      /\ \A u \in ThreadNames : \A x : u # t => (In(u, x)' <=> In(u, x))
      /\ \A u \in ThreadNames : \A j, h : u # t => (Holds(u, j, h)' <=> Holds(u, j, h))
      /\ Top(t)' = q[1] /\ \A op : At(t, op)' <=> q[1][1] = op
  BY GivenFacts DEF SocketInv
<1>2. /\ \A x : In(t, x)' <=> \E i \in 1 .. Len(q) : q[i] = x
      /\ \A j, h : Holds(t, j, h)' <=> \E i \in 1 .. Len(q) : q[i] = I("end", j, h)
      /\ \A op : ~At(t, op)
      /\ \A x : ~In(t, x)
      /\ \A j, h : ~Holds(t, j, h)
  BY GivenFacts DEF SocketInv
<1>3. ts \in [Kinds -> [Gens -> {"none", "Connecting", "Connected", "Disconnected", "Failed", "gone"}]]
  BY DEF SocketInv, SocketTypes, TypeOK
<1>4. ts'[k][g] = s /\ \A j \in Kinds, h \in Gens : ~(j = k /\ h = g) => ts'[j][h] = ts[j][h]
  BY <1>3
<1>5. SocketTypes'
  <2>1. ts' \in [Kinds -> [Gens -> {"none", "Connecting", "Connected", "Disconnected", "Failed", "gone"}]]
    BY <1>3
  <2>2. QED
    BY <1>1, <2>1 DEF SocketInv, SocketTypes, TypeOK
<1>6. \A j \in Kinds, h \in Gens :
        /\ ts'[j][h] \in {"Connecting", "Connected"} => ts[j][h] \in {"Connecting", "Connected"}
        /\ ts[j][h] \in {"none", "gone"} => ts'[j][h] \in {"none", "gone"}
        /\ ts'[j][h] = "Connecting" => ts[j][h] = "Connecting"
  BY <1>4
<1>7. k \in Chain /\ (s = "Connected" /\ k = "tcp" => ~config.passive)
  BY DEF SocketInv, OwnersInv, ChainInv
<1>8. Chain' = Chain /\ \A j : Starter(j)' = Starter(j)
  BY DEF Chain, Starter, Below, ThreadOf
<1>9. /\ At(t, "init")' => s = "Connected" /\ k # "ws" /\ Top(t)'[2] = Above(k)
      /\ At(t, "onOpen")' => s = "Connected" /\ k = "ws"
      /\ ~At(t, "setTcp")' /\ ~At(t, "start")' /\ ~At(t, "detach")' /\ ~At(t, "reset")' /\ ~At(t, "open")' /\ ~At(t, "check")'
  <2>1. \/ q[1][1] \in Plain
        \/ s = "Connected" /\ k # "ws" /\ q[1][1] = "init" /\ q[1][2] = Above(k)
        \/ s = "Connected" /\ k = "ws" /\ q[1][1] = "onOpen"
    BY InstructionMade DEF Calls
  <2>2. QED
    BY <1>1, <2>1 DEF Plain
<1>10. /\ \A u \in ThreadNames : \A x : x[1] = "check" => (In(u, x)' <=> In(u, x))
       /\ \A u \in ThreadNames : \A j, h : Holds(u, j, h) => Holds(u, j, h)'
       /\ \A u \in ThreadNames : \A j, h : Holds(u, j, h)' => Holds(u, j, h) \/ (u = t /\ j = k /\ h = g)
       /\ Holds(t, k, g)'
  <2>1. \A x : x[1] = "check" => ~In(t, x)'
    BY <1>2, InstructionMade DEF Calls, Plain
  <2>2. \A j, h : Holds(t, j, h)' => j = k /\ h = g
    <3> SUFFICES ASSUME NEW j, NEW h, Holds(t, j, h)' PROVE j = k /\ h = g
      OBVIOUS
    <3>1. PICK i \in 1 .. Len(q) : q[i] = I("end", j, h)
      BY <1>2
    <3>2. q[i][1] = "end" /\ q[i][2] = j /\ q[i][3] = h
      BY <3>1, InstructionMade
    <3>3. q[i] = I("end", k, g)
      BY <3>2 DEF Calls, Plain
    <3>4. QED
      BY <3>2, <3>3, InstructionMade
  <2>3. Holds(t, k, g)'
    BY <1>2 DEF Calls
  <2>4. QED
    BY <1>1, <1>2, <2>1, <2>2, <2>3
<1>11. \A j, h : Resetting(j, h)' <=> Resetting(j, h)
  BY <1>1, <1>2, <1>9 DEF Resetting
<1>12. PlacesInv'
  <2> SUFFICES ASSUME NEW u \in ThreadNames, NEW i \in 1 .. Len(stacks'[u])
      PROVE Placed(u, i)'
    BY DEF PlacesInv
  <2>1. CASE u # t
    <3>1. stacks'[u] = stacks[u]
      BY <2>1, <1>1
    <3>2. Placed(u, i)
      BY <3>1 DEF PlacesInv, SocketInv
    <3>3. QED
      BY <1>8, <3>1, <3>2 DEF Placed
  <2>2. CASE u = t
    <3> DEFINE x == q[i]
    <3>1. stacks'[u][i] = x /\ i \in 1 .. Len(q)
      BY <2>2, <1>1
    <3>2. CASE x[1] \in Plain \/ x[1] = "end"
      BY <3>1, <3>2 DEF Placed, Plain
    <3>3. CASE i = 1 /\ s = "Connected" /\ k # "ws" /\ x[1] = "init" /\ x[2] = Above(k)
      <4>1. Above(k) \in Chain /\ Above(k) # "tcp" /\ Below(Above(k)) = k
        BY <3>3, <1>7, ChainFacts
      <4>2. Starter(Above(k)) = t
        BY <4>1, <1>7, <3>3 DEF Starter
      <4>3. QED
        BY <1>8, <2>2, <3>1, <3>3, <4>1, <4>2 DEF Placed
    <3>4. CASE i = 1 /\ x[1] = "onOpen"
      BY <3>1, <3>4 DEF Placed
    <3>5. QED
      BY <3>1, <3>2, <3>3, <3>4, InstructionMade DEF Calls
  <2>3. QED
    BY <2>1, <2>2
<1>13. StoreInv'
  <2>1. \A u \in ThreadNames : At(u, "start")' \/ At(u, "setTcp")' => (At(u, "start") \/ At(u, "setTcp")) /\ Top(u)' = Top(u)
    BY <1>1, <1>9
  <2>2. \A u \in ThreadNames : \A j, h : In(u, I("check", j, h))' => In(u, I("check", j, h))
    BY <1>10, InstructionMade
  <2>3. QED
    BY <2>1, <2>2 DEF StoreInv, OwnersInv, SocketInv
<1>14. ChainInv'
  BY <1>6, <1>8 DEF ChainInv, OwnersInv, SocketInv, Kinds
<1>15. LiveInv'
  BY <1>6, <1>11 DEF LiveInv, OwnersInv, SocketInv, Taken, Kinds
<1>16. k = "tcp" => ptr.tcp = g \/ Resetting("tcp", g)
  BY DEF LiveInv, OwnersInv, SocketInv, Taken
<1>17. BeginInv'
  <2>1. \A h \in Gens : h > gen' => ts'.tcp[h] \notin {"Connecting", "Connected"}
    BY <1>6 DEF BeginInv, OwnersInv, SocketInv, Kinds
  <2> SUFFICES ASSUME NEW u \in ThreadNames, At(u, "setTcp")' \/ (At(u, "start")' /\ Top(u)'[2] = "tcp")
      PROVE  /\ Top(u)'[3] = gen' /\ ts'.tcp[gen'] \notin {"Connecting", "Connected"}
             /\ \A v \in ThreadNames, h \in Gens : ~Holds(v, "tcp", h)'
             /\ \A h \in Gens : ~Resetting("tcp", h)'
    BY <2>1 DEF BeginInv
  <2>2. (At(u, "setTcp") \/ (At(u, "start") /\ Top(u)[2] = "tcp")) /\ Top(u)' = Top(u)
    BY <1>1, <1>9
  <2>3. Top(u)[3] \in Gens /\ Top(u)[2] = "tcp"
    BY <2>2, TopPlaced, AtOne DEF OnTransport, SocketInv
  <2>4. /\ Top(u)[3] = gen /\ ts.tcp[gen] \notin {"Connecting", "Connected"} /\ ptr.tcp = 0
        /\ \A v \in ThreadNames, h \in Gens : ~Holds(v, "tcp", h)
        /\ \A h \in Gens : ~Resetting("tcp", h)
    BY <2>2, <2>3 DEF BeginInv, StoreInv, OwnersInv, SocketInv
  <2>5. k # "tcp"
    BY <1>16, <2>4, BoundsAreNatural DEF Gens
  <2>6. QED
    BY <1>6, <1>10, <1>11, <2>2, <2>3, <2>4, <2>5 DEF Kinds
<1>18. HoldInv'
  BY <1>10, <1>11, <1>16 DEF HoldInv, OwnersInv, SocketInv
<1>19. ProxyInv'
  <2> SUFFICES ASSUME NEW u \in ThreadNames
      PROVE  /\ At(u, "init")' /\ Top(u)'[2] = "proxy" => \E h \in Gens : Holds(u, "tcp", h)'
             /\ \A h \in Gens : (At(u, "start")' \/ At(u, "check")') /\ Top(u)'[2] = "proxy" /\ Top(u)'[3] = h =>
                 /\ Holds(u, "tcp", h)'
                 /\ ts'.tcp[h] \in {"none", "gone"} \/ ptr'.tcp = h \/ Resetting("tcp", h)'
    BY DEF ProxyInv
  <2>1. CASE u = t
    <3>1. At(t, "init")' /\ Top(t)'[2] = "proxy" => k = "tcp"
      BY <1>7, <1>9, ChainFacts
    <3>2. QED
      BY <2>1, <3>1, <1>9, <1>10
  <2>2. CASE u # t
    <3>1. Top(u)' = Top(u) /\ \A op : At(u, op)' <=> At(u, op)
      BY <2>2, <1>1
    <3>2. QED
      BY <1>6, <1>10, <1>11, <3>1 DEF ProxyInv, OwnersInv, SocketInv, Kinds
  <2>3. QED
    BY <2>1, <2>2
<1>20. LeakInv'
  BY <1>6, <1>11 DEF LeakInv, OwnersInv, SocketInv, Kinds
<1>21. /\ \A u \in ThreadNames : (At(u, "detach")' <=> At(u, "detach")) /\ (At(u, "reset")' <=> At(u, "reset"))
       /\ \A u \in ThreadNames, j \in Taken, h \in Gens : In(u, I("check", j, h)) => In(u, I("check", j, h))'
  BY <1>1, <1>2, <1>9, <1>10, InstructionMade
<1>22. DropInv'
  BY <1>21 DEF DropInv, StateInv, SocketInv
<1>23. CloseInv'
  BY <1>21 DEF CloseInv, InClose, StateInv, SocketInv
<1>24. OpenInv'
  <2> SUFFICES ASSUME ~revived, wstate # "Closed", wstate = "Open" \/ \E u \in ThreadNames : At(u, "onOpen")' \/ At(u, "open")'
      PROVE ptr.ws # 0
    BY DEF OpenInv
  <2>1. CASE At(t, "onOpen")'
    <3>1. k = "ws" /\ ts.ws[g] = "Connecting" /\ cb.ws[g]
      BY <1>9, <2>1
    <3>2. ptr.ws = g \/ Resetting("ws", g)
      BY <3>1 DEF LiveInv, OwnersInv, SocketInv, Taken
    <3>3. ~Resetting("ws", g)
      BY DEF CloseInv, InClose, Resetting, StateInv, SocketInv
    <3>4. QED
      BY <3>2, <3>3, BoundsAreNatural DEF Gens
  <2>2. CASE ~At(t, "onOpen")'
    BY <2>2, <1>1, <1>9 DEF OpenInv, StateInv, SocketInv
  <2>3. QED
    BY <2>1, <2>2
<1>25. QED
  BY <1>5, <1>12, <1>13, <1>14, <1>15, <1>17, <1>18, <1>19, <1>20, <1>22, <1>23, <1>24
     DEF SocketInv, OwnersInv, StateInv

(* A callback of one instruction.                                             *)
LEMMA OneThenEnd ==
    ASSUME NEW k \in Kinds, NEW g \in Gens, NEW s, NEW x \in Instructions, x[1] # "end",
           \/ x[1] \in Plain
           \/ s = "Connected" /\ k # "ws" /\ x[1] = "init" /\ x[2] = Above(k)
           \/ s = "Connected" /\ k = "ws" /\ x[1] = "onOpen"
    PROVE  /\ <<x>> \o <<I("end", k, g)>> \in Seq(Instructions) /\ <<x>> \o <<I("end", k, g)>> # <<>>
           /\ Calls(<<x>> \o <<I("end", k, g)>>, k, g, s)
<1> DEFINE b == I("end", k, g)
           q == <<x>> \o <<b>>
<1>1. b \in Instructions
  BY InstructionMade DEF OnTransport
<1>2. <<x>> \in Seq(Instructions) /\ Len(<<x>>) = 1 /\ <<x>>[1] = x /\ 1 \in 1 .. Len(<<x>>)
  OBVIOUS
<1> HIDE DEF b
<1>3. q \in Seq(Instructions) /\ Len(q) = Len(<<x>>) + 1 /\ q[Len(<<x>>) + 1] = b /\ \A i \in 1 .. Len(<<x>>) : q[i] = <<x>>[i]
  BY <1>1, <1>2, TwoJoined
<1> HIDE DEF q
<1>4. Len(q) = 2 /\ q[1] = x /\ q[2] = b
  BY <1>2, <1>3
<1>5. 1 \in 1 .. Len(q) /\ 2 \in 1 .. Len(q) /\ q # <<>> /\ \A i \in 1 .. Len(q) : i = 1 \/ i = 2
  <2>1. \A i \in 1 .. 2 : i = 1 \/ i = 2
    OBVIOUS
  <2>2. q # <<>>
    BY <1>3, <1>4
  <2>3. 1 .. Len(q) = 1 .. 2
    BY <1>4
  <2>4. 1 \in 1 .. 2 /\ 2 \in 1 .. 2
    OBVIOUS
  <2>5. QED
    BY <2>1, <2>2, <2>3, <2>4
<1>6. Calls(q, k, g, s)
  BY <1>4, <1>5 DEF Calls, b
<1>7. QED
  BY <1>3, <1>5, <1>6 DEF q, b

(* A callback that is remoteClose().                                          *)
LEMMA CloseThenEnd ==
    ASSUME NEW k \in Kinds, NEW g \in Gens, NEW s
    PROVE  /\ RemoteClose \o <<I("end", k, g)>> \in Seq(Instructions) /\ RemoteClose \o <<I("end", k, g)>> # <<>>
           /\ Calls(RemoteClose \o <<I("end", k, g)>>, k, g, s)
<1> DEFINE b == I("end", k, g)
           x == I("close", "-", 0)
           y == I("shut", "-", 0)
           q == RemoteClose \o <<b>>
<1>1. b \in Instructions /\ x \in Instructions /\ y \in Instructions /\ x[1] = "close" /\ y[1] = "shut"
  BY InstructionMade DEF OnTransport, OnSocket
<1> HIDE DEF b
<1>2. RemoteClose \in Seq(Instructions) /\ Len(RemoteClose) = 2 /\ RemoteClose[1] = x /\ RemoteClose[2] = y
  <2> HIDE DEF x, y
  <2>1. <<x, y>> \in Seq(Instructions) /\ Len(<<x, y>>) = 2 /\ <<x, y>>[1] = x /\ <<x, y>>[2] = y
    BY <1>1
  <2>2. RemoteClose = <<x, y>>
    BY DEF RemoteClose, x, y
  <2>3. QED
    BY <2>1, <2>2
<1> HIDE DEF x, y
<1>3. q \in Seq(Instructions) /\ Len(q) = Len(RemoteClose) + 1 /\ q[Len(RemoteClose) + 1] = b
      /\ \A i \in 1 .. Len(RemoteClose) : q[i] = RemoteClose[i]
  <2>1. RemoteClose \in Seq(Instructions)
    BY <1>2
  <2>2. QED
    BY <1>1, <2>1, TwoJoined
<1> HIDE DEF q
<1>4. 1 \in 1 .. Len(RemoteClose) /\ 2 \in 1 .. Len(RemoteClose) /\ Len(RemoteClose) + 1 = 3
  BY <1>2
<1>5. Len(q) = 3 /\ q[1] = x /\ q[2] = y /\ q[3] = b
  BY <1>2, <1>3, <1>4
<1>6. 1 \in 1 .. Len(q) /\ 2 \in 1 .. Len(q) /\ 3 \in 1 .. Len(q) /\ q # <<>> /\ \A i \in 1 .. Len(q) : i \in {1, 2, 3}
  <2>1. \A i \in 1 .. 3 : i \in {1, 2, 3}
    OBVIOUS
  <2>2. q # <<>>
    BY <1>3, <1>5
  <2>3. 1 .. Len(q) = 1 .. 3
    BY <1>5
  <2>4. 1 \in 1 .. 3 /\ 2 \in 1 .. 3 /\ 3 \in 1 .. 3
    OBVIOUS
  <2>5. QED
    BY <2>1, <2>2, <2>3, <2>4
<1>7. Calls(q, k, g, s)
  BY <1>1, <1>5, <1>6 DEF Calls, b, Plain
<1>8. QED
  BY <1>3, <1>6, <1>7 DEF q, b

(* The state callback of a transport begins.                                    *)
LEMMA ChangeInv ==
    ASSUME SocketInv, NEW k \in Kinds, NEW g \in Gens, NEW s \in {"Connected", "Disconnected", "Failed"},
           Change(k, g, s), ts[k][g] \in {"Connecting", "Connected"}, s = "Connected" => ts[k][g] = "Connecting"
    PROVE  SocketInv'
<1> DEFINE t == ThreadOf(k)
           q == CallbackOf(k, s, g) \o <<I("end", k, g)>>
<1>1. /\ stacks[t] = <<>> /\ cb[k][g] /\ ts' = [ts EXCEPT ![k][g] = s]
      /\ stacks' = [stacks EXCEPT ![t] = q]
      /\ UNCHANGED <<config, wstate, gen, ptr, cb, timers, torn, closeSent, closed, closes, revived, early>>
  BY DEF Change
<1>2. t \in ThreadNames
  BY DEF ThreadOf, ThreadNames
<1>3. k \in Chain
  BY DEF SocketInv, OwnersInv, ChainInv
<1>4. q \in Seq(Instructions) /\ q # <<>> /\ Calls(q, k, g, s)
  <2>1. CASE s = "Connected" /\ k # "ws"
    <3> DEFINE x == I("init", Above(k), g)
    <3>1. Above(k) \in Kinds
      BY <1>3, <2>1, ChainFacts
    <3>2. x \in Instructions /\ x[1] = "init" /\ x[2] = Above(k)
      BY <3>1, InstructionMade DEF OnTransport
    <3>3. CallbackOf(k, s, g) = <<x>>
      BY <2>1 DEF CallbackOf
    <3> HIDE DEF x
    <3>4. QED
      BY <2>1, <3>2, <3>3, OneThenEnd
  <2>2. CASE s = "Connected" /\ k = "ws"
    <3> DEFINE x == I("onOpen", "-", 0)
    <3>1. x \in Instructions /\ x[1] = "onOpen"
      BY InstructionMade DEF OnSocket
    <3>2. CallbackOf(k, s, g) = <<x>>
      BY <2>2 DEF CallbackOf
    <3> HIDE DEF x
    <3>3. QED
      BY <2>2, <3>1, <3>2, OneThenEnd
  <2>3. CASE s = "Disconnected" /\ k # "ws"
    <3> DEFINE x == I("ifConnecting", "-", 0)
    <3>1. x \in Instructions /\ x[1] = "ifConnecting"
      BY InstructionMade DEF OnSocket
    <3>2. CallbackOf(k, s, g) = <<x>>
      BY <2>3 DEF CallbackOf
    <3> HIDE DEF x
    <3>3. x[1] \in Plain /\ x[1] # "end"
      BY <3>1 DEF Plain
    <3>4. QED
      BY <3>1, <3>2, <3>3, OneThenEnd
  <2>4. CASE s = "Failed" \/ (s = "Disconnected" /\ k = "ws")
    <3>1. CallbackOf(k, s, g) = RemoteClose
      BY <2>4 DEF CallbackOf
    <3>2. QED
      BY <3>1, CloseThenEnd
  <2>5. QED
    BY <2>1, <2>2, <2>3, <2>4
<1> HIDE DEF q
<1>5. QED
  BY <1>1, <1>2, <1>4, ChangeKeeps

(* A step that changes nothing.                                                 *)
LEMMA SocketStutters ==
    ASSUME SocketInv, UNCHANGED vars
    PROVE  SocketInv'
<1>1. UNCHANGED <<config, wstate, gen, ptr, ts, cb, stacks, timers, torn, closeSent, closed, closes, revived, early>>
  BY DEF vars
<1>2. /\ \A t, op : At(t, op)' <=> At(t, op)
      /\ \A t : Top(t)' = Top(t)
      /\ \A t, x : In(t, x)' <=> In(t, x)
      /\ \A t, k, g : Holds(t, k, g)' <=> Holds(t, k, g)
  BY <1>1 DEF At, Top, In, Holds
<1>3. \A k, g : Resetting(k, g)' <=> Resetting(k, g)
  BY <1>2 DEF Resetting
<1>4. Chain' = Chain /\ \A k : Starter(k)' = Starter(k)
  BY <1>1 DEF Chain, Starter, Below, ThreadOf
<1>5. SocketTypes'
  BY <1>1 DEF SocketInv, SocketTypes, TypeOK
<1>6. PlacesInv'
  BY <1>1, <1>4 DEF SocketInv, PlacesInv, Placed
<1>7. StoreInv' /\ ChainInv' /\ LiveInv'
  BY <1>1, <1>2, <1>3, <1>4 DEF SocketInv, OwnersInv, StoreInv, ChainInv, LiveInv
<1>8. BeginInv'
  BY <1>1, <1>2, <1>3 DEF SocketInv, OwnersInv, BeginInv
<1>9. HoldInv' /\ ProxyInv' /\ LeakInv'
  BY <1>1, <1>2, <1>3 DEF SocketInv, OwnersInv, HoldInv, ProxyInv, LeakInv
<1>10. StateInv'
  BY <1>1, <1>2 DEF SocketInv, StateInv, DropInv, CloseInv, OpenInv, InClose
<1>11. QED
  BY <1>5, <1>6, <1>7, <1>8, <1>9, <1>10 DEF SocketInv, OwnersInv

(* An idle thread that is given only plain instructions, or none.               *)
LEMMA GivenPlain ==
    ASSUME SocketTypes, NEW t \in ThreadNames, stacks[t] = <<>>, NEW q \in Seq(Instructions),
           \A i \in 1 .. Len(q) : q[i][1] \in Plain, stacks' = [stacks EXCEPT ![t] = q]
    PROVE  Calm(t) /\ \A op : ~At(t, op)
<1>1. stacks \in [ThreadNames -> Seq(Instructions)]
  BY DEF SocketTypes
<1>2. /\ stacks' \in [ThreadNames -> Seq(Instructions)] /\ stacks'[t] = q
      /\ \A u \in ThreadNames : u # t => stacks'[u] = stacks[u]
  BY <1>1
<1>3. \A j : j \notin 2 .. Len(stacks[t])
  OBVIOUS
<1>4. QED
  BY <1>2, <1>3 DEF Calm, At

(* The programs of the application and of the connection timeout.             *)
LEMMA PlainPrograms ==
    /\ <<>> \in Seq(Instructions) /\ \A i \in 1 .. Len(<<>>) : <<>>[i][1] \in Plain
    /\ <<I("close", "-", 0)>> \in Seq(Instructions)
    /\ \A i \in 1 .. Len(<<I("close", "-", 0)>>) : <<I("close", "-", 0)>>[i][1] \in Plain
    /\ RemoteClose \in Seq(Instructions) /\ \A i \in 1 .. Len(RemoteClose) : RemoteClose[i][1] \in Plain
<1> DEFINE x == I("close", "-", 0)
           y == I("shut", "-", 0)
<1>1. x \in Instructions /\ y \in Instructions /\ x[1] \in Plain /\ y[1] \in Plain
  BY InstructionMade DEF OnSocket, Plain
<1>2. RemoteClose = <<x, y>>
  BY DEF RemoteClose
<1> HIDE DEF x, y
<1>3. <<>> \in Seq(Instructions) /\ \A i \in 1 .. Len(<<>>) : <<>>[i][1] \in Plain
  OBVIOUS
<1>4. <<x>> \in Seq(Instructions) /\ \A i \in 1 .. Len(<<x>>) : <<x>>[i][1] \in Plain
  BY <1>1
<1>5. <<x, y>> \in Seq(Instructions) /\ \A i \in 1 .. Len(<<x, y>>) : <<x, y>>[i][1] \in Plain
  <2>1. <<x, y>> \in Seq(Instructions) /\ Len(<<x, y>>) = 2 /\ <<x, y>>[1] = x /\ <<x, y>>[2] = y
    BY <1>1
  <2>2. \A i \in 1 .. 2 : i = 1 \/ i = 2
    OBVIOUS
  <2>3. QED
    BY <1>1, <2>1, <2>2
<1>6. QED
  BY <1>2, <1>3, <1>4, <1>5 DEF x

(* The calls of the application and the connection timeout.                     *)
LEMMA AppCloseInv ==
    ASSUME SocketInv, AppClose
    PROVE  SocketInv'
<1>1. PICK q \in {<<I("close", "-", 0)>>, RemoteClose} : stacks' = [stacks EXCEPT !["app"] = q]
  BY DEF AppClose
<1>2. /\ stacks["app"] = <<>> /\ closes < MaxCloses /\ closes' = closes + 1
      /\ UNCHANGED <<config, wstate, gen, ptr, ts, cb, timers, torn, closeSent, closed, revived, early>>
  BY DEF AppClose
<1>3. q \in Seq(Instructions) /\ \A i \in 1 .. Len(q) : q[i][1] \in Plain
  BY PlainPrograms
<1>4. "app" \in ThreadNames
  BY DEF ThreadNames
<1>5. Calm("app") /\ \A op : ~At("app", op)
  BY <1>1, <1>2, <1>3, <1>4, GivenPlain DEF SocketInv
<1>6. SocketTypes'
  <2>1. closes' \in 0 .. MaxCloses
    BY <1>2, BoundsAreNatural DEF SocketInv, SocketTypes, TypeOK
  <2>2. QED
    BY <1>2, <1>5, <2>1 DEF SocketInv, SocketTypes, TypeOK, Calm
<1>7. PlacesInv' /\ OwnersInv'
  BY <1>2, <1>4, <1>5, CalmKeeps DEF SocketInv
<1>8. StateInv'
  BY <1>2, <1>4, <1>5, CalmState, StateKept DEF SocketInv
<1>9. QED
  BY <1>6, <1>7, <1>8 DEF SocketInv

(* The connection timeout closes a WebSocket that is connecting, whichever open() it is from. *)
LEMMA TimerInv ==
    ASSUME SocketInv, NEW g \in Gens, Timer(g)
    PROVE  SocketInv'
<1> DEFINE q == IF wstate = "Connecting" THEN RemoteClose ELSE <<>>
<1>1. /\ stacks["timer"] = <<>> /\ timers' = timers \ {g} /\ stacks' = [stacks EXCEPT !["timer"] = q]
      /\ UNCHANGED <<config, wstate, gen, ptr, ts, cb, torn, closeSent, closed, closes, revived, early>>
  BY DEF Timer
<1>2. q \in Seq(Instructions) /\ \A i \in 1 .. Len(q) : q[i][1] \in Plain
  BY PlainPrograms
<1> HIDE DEF q
<1>3. "timer" \in ThreadNames
  BY DEF ThreadNames
<1>4. Calm("timer") /\ \A op : ~At("timer", op)
  BY <1>1, <1>2, <1>3, GivenPlain DEF SocketInv
<1>5. SocketTypes'
  BY <1>1, <1>4 DEF SocketInv, SocketTypes, TypeOK, Calm
<1>6. PlacesInv' /\ OwnersInv'
  BY <1>1, <1>3, <1>4, CalmKeeps DEF SocketInv
<1>7. StateInv'
  BY <1>1, <1>3, <1>4, CalmState, StateKept DEF SocketInv
<1>8. QED
  BY <1>5, <1>6, <1>7 DEF SocketInv

(* Nothing is in progress.                                                      *)
LEMMA IdleFacts ==
    ASSUME SocketTypes, Idle
    PROVE  /\ \A t \in ThreadNames : \A op : ~At(t, op)
           /\ \A t \in ThreadNames : \A x : ~In(t, x)
           /\ \A t \in ThreadNames : \A k, g : ~Holds(t, k, g)
           /\ \A k, g : ~Resetting(k, g)
<1>1. stacks \in [ThreadNames -> Seq(Instructions)]
  BY DEF SocketTypes
<1>2. \A t \in ThreadNames : stacks[t] = <<>>
  BY DEF Idle
<1>3. \A t \in ThreadNames : \A op : ~At(t, op)
  BY <1>2 DEF At
<1>4. \A t \in ThreadNames : \A x : ~In(t, x)
  <2>1. \A i : i \notin 1 .. Len(<<>>)
    OBVIOUS
  <2>2. QED
    BY <1>2, <2>1 DEF In
<1>5. \A t \in ThreadNames : \A k, g : ~Holds(t, k, g)
  BY <1>4, HoldsIn
<1>6. QED
  BY <1>3, <1>4, <1>5 DEF Resetting

(* open(): no transport is left from before, and every call was reported closed. *)
LEMMA OpenKeeps ==
    ASSUME SocketInv, Open
    PROVE  SocketInv'
<1> DEFINE x == I("setTcp", "tcp", gen + 1)
           q == <<x>>
<1>1. /\ Idle /\ torn = {} /\ wstate = "Closed" /\ gen < config.opens
      /\ gen' = gen + 1 /\ wstate' = "Connecting" /\ closeSent' = {} /\ early' = FALSE
      /\ stacks' = [stacks EXCEPT !["app"] = q]
      /\ UNCHANGED <<config, ptr, ts, cb, timers, torn, closed, closes, revived>>
  BY DEF Open
<1>2. "app" \in ThreadNames /\ stacks["app"] = <<>>
  BY <1>1 DEF Idle, ThreadNames
<1>3. gen \in 0 .. MaxOpens /\ config.opens \in 1 .. MaxOpens /\ MaxOpens \in Nat
  BY BoundsAreNatural, ConfigsAreValid DEF SocketInv, SocketTypes, TypeOK
<1>4. gen + 1 \in Gens /\ gen + 1 \in 0 .. MaxOpens
  BY <1>1, <1>3 DEF Gens
<1>5. x \in Instructions /\ x[1] = "setTcp" /\ x[2] = "tcp" /\ x[3] = gen + 1
  BY <1>4, InstructionMade DEF OnTransport, Kinds
<1> HIDE DEF x
<1>6. q \in Seq(Instructions) /\ q # <<>> /\ Len(q) = 1 /\ q[1] = x
  BY <1>5
<1>7. \A i \in 1 .. Len(q) : i = 1 /\ q[i] = x
  BY <1>6
<1> HIDE DEF q
<1>8. /\ stacks' \in [ThreadNames -> Seq(Instructions)] /\ stacks'["app"] = q
      /\ \A u \in ThreadNames : u # "app" => stacks'[u] = stacks[u]
      /\ \A u \in ThreadNames : \A op : u # "app" => (At(u, op)' <=> At(u, op)) /\ Top(u)' = Top(u)
      /\ \A u \in ThreadNames : \A y : u # "app" => (In(u, y)' <=> In(u, y))
      /\ \A u \in ThreadNames : \A j, h : u # "app" => (Holds(u, j, h)' <=> Holds(u, j, h))
      /\ Top("app")' = q[1] /\ \A op : At("app", op)' <=> q[1][1] = op
      /\ \A y : In("app", y)' <=> \E i \in 1 .. Len(q) : q[i] = y
      /\ \A j, h : Holds("app", j, h)' <=> \E i \in 1 .. Len(q) : q[i] = I("end", j, h)
  BY <1>1, <1>2, <1>6, GivenFacts DEF SocketInv
<1>9. /\ \A t \in ThreadNames : \A op : ~At(t, op)
      /\ \A t \in ThreadNames : \A y : ~In(t, y)
      /\ \A t \in ThreadNames : \A k, g : ~Holds(t, k, g)
      /\ \A k, g : ~Resetting(k, g)
  BY <1>1, IdleFacts DEF SocketInv
<1>10. /\ \A t \in ThreadNames : \A op : At(t, op)' => t = "app" /\ op = "setTcp" /\ Top(t)' = x
       /\ \A t \in ThreadNames : \A k, g : ~In(t, I("check", k, g))' /\ ~Holds(t, k, g)'
  BY <1>5, <1>6, <1>7, <1>8, <1>9, InstructionMade
<1>11. \A k, g : ~Resetting(k, g)'
  BY <1>10 DEF Resetting
<1>12. ptr.tcp = 0
  BY <1>1, <1>9 DEF SocketInv, StateInv, DropInv, Taken
<1>13. SocketTypes'
  BY <1>1, <1>4, <1>8 DEF SocketInv, SocketTypes, TypeOK
<1>14. PlacesInv'
  <2> SUFFICES ASSUME NEW u \in ThreadNames, NEW i \in 1 .. Len(stacks'[u])
      PROVE Placed(u, i)'
    BY DEF PlacesInv
  <2>1. u = "app"
    BY <1>1, <1>8 DEF Idle
  <2>2. stacks'[u][i] = x /\ i = 1 /\ Len(stacks'[u]) = 1
    BY <1>6, <1>7, <1>8, <2>1
  <2>3. "tcp" \in Chain' /\ Starter("tcp")' = "app"
    BY DEF Chain, Starter
  <2>4. QED
    BY <1>5, <2>1, <2>2, <2>3 DEF Placed
<1>15. StoreInv'
  BY <1>1, <1>5, <1>10, <1>12 DEF StoreInv
<1>16. ChainInv'
  BY <1>1 DEF ChainInv, SocketInv, OwnersInv, Chain
<1>17. LiveInv'
  BY <1>1, <1>9 DEF LiveInv, SocketInv, OwnersInv
<1>18. BeginInv'
  <2>1. \A g \in Gens : g > gen => ts.tcp[g] \notin {"Connecting", "Connected"}
    BY DEF BeginInv, SocketInv, OwnersInv
  <2>2. \A g \in Gens : g > gen' => g > gen
    BY <1>1, <1>3 DEF Gens
  <2>3. ts'.tcp[gen'] \notin {"Connecting", "Connected"}
    BY <1>1, <1>3, <1>4, <2>1
  <2>4. QED
    BY <1>1, <1>5, <1>10, <1>11, <2>1, <2>2, <2>3 DEF BeginInv
<1>19. HoldInv'
  BY <1>10, <1>11 DEF HoldInv
<1>20. ProxyInv'
  BY <1>10 DEF ProxyInv
<1>21. LeakInv'
  BY <1>1, <1>9 DEF LeakInv, SocketInv, OwnersInv
<1>22. DropInv'
  BY <1>1 DEF DropInv
<1>23. CloseInv'
  <2>1. \A u \in ThreadNames : ~InClose(u) /\ ~InClose(u)'
    BY <1>9, <1>10 DEF InClose
  <2>2. ~revived => closed = gen
    BY <1>1, <2>1 DEF CloseInv, SocketInv, StateInv
  <2>3. gen' - 1 = gen
    BY <1>1, <1>3
  <2>4. QED
    BY <1>1, <2>1, <2>2, <2>3 DEF CloseInv
<1>24. OpenInv'
  BY <1>1, <1>10 DEF OpenInv
<1>25. QED
  BY <1>13, <1>14, <1>15, <1>16, <1>17, <1>18, <1>19, <1>20, <1>21, <1>22, <1>23, <1>24
     DEF SocketInv, OwnersInv, StateInv

(* The teardown job.                                                            *)
LEMMA TearDownInv ==
    ASSUME SocketInv, NEW g \in Gens, TearDownJob(g)
    PROVE  SocketInv'
<1>1. /\ g \in torn /\ torn' = torn \ {g}
      /\ ts' = [ts EXCEPT !.ws[g] = "gone", !.tls[g] = "gone",
                          !.tcp[g] = IF ptr.proxy = g THEN @ ELSE "gone"]
      /\ UNCHANGED <<config, wstate, gen, ptr, cb, stacks, timers, closeSent, closed, closes, revived, early>>
  BY DEF TearDownJob
<1>2. ts \in [Kinds -> [Gens -> {"none", "Connecting", "Connected", "Disconnected", "Failed", "gone"}]]
  BY DEF SocketInv, SocketTypes, TypeOK
<1>3. /\ ts' \in [Kinds -> [Gens -> {"none", "Connecting", "Connected", "Disconnected", "Failed", "gone"}]]
      /\ \A k \in Kinds, h \in Gens : ts'[k][h] = ts[k][h] \/ ts'[k][h] = "gone"
      /\ ptr.proxy = g \/ ts'.tcp[g] = "gone"
  BY <1>1, <1>2 DEF Kinds
<1>4. /\ \A t, op : At(t, op)' <=> At(t, op)
      /\ \A t : Top(t)' = Top(t)
      /\ \A t, x : In(t, x)' <=> In(t, x)
      /\ \A t, k, h : Holds(t, k, h)' <=> Holds(t, k, h)
  BY <1>1 DEF At, Top, In, Holds
<1>5. \A k, h : Resetting(k, h)' <=> Resetting(k, h)
  BY <1>4 DEF Resetting
<1>6. Chain' = Chain /\ \A k : Starter(k)' = Starter(k)
  BY <1>1 DEF Chain, Starter, Below, ThreadOf
<1>7. SocketTypes'
  BY <1>1, <1>3 DEF SocketInv, SocketTypes, TypeOK
<1>8. PlacesInv'
  BY <1>1, <1>6 DEF SocketInv, PlacesInv, Placed
<1>9. StoreInv'
  BY <1>1, <1>4 DEF SocketInv, OwnersInv, StoreInv
<1>10. ChainInv'
  BY <1>1, <1>3, <1>6 DEF SocketInv, OwnersInv, ChainInv, Kinds
<1>11. LiveInv'
  <2> SUFFICES ASSUME NEW k \in Taken, NEW h \in Gens, cb'[k][h], ts'[k][h] \in {"Connecting", "Connected"}
      PROVE  ptr'[k] = h \/ Resetting(k, h)'
    BY DEF LiveInv
  <2>1. k \in Kinds
    BY DEF Taken, Kinds
  <2>2. ts[k][h] \in {"Connecting", "Connected"} /\ cb[k][h]
    BY <1>1, <1>3, <2>1
  <2>3. ptr[k] = h \/ Resetting(k, h)
    BY <2>2 DEF SocketInv, OwnersInv, LiveInv
  <2>4. QED
    BY <1>1, <1>5, <2>3
<1>12. BeginInv'
  <2>1. \A h \in Gens : h > gen' => ts'.tcp[h] \notin {"Connecting", "Connected"}
    BY <1>1, <1>3 DEF SocketInv, OwnersInv, BeginInv, Kinds
  <2>2. \A t \in ThreadNames : At(t, "setTcp") \/ At(t, "start") => Top(t)[3] \in Gens
    BY TopPlaced, AtOne DEF OnTransport, SocketInv
  <2>3. QED
    BY <1>1, <1>3, <1>4, <1>5, <2>1, <2>2 DEF SocketInv, OwnersInv, BeginInv, Kinds
<1>13. HoldInv'
  BY <1>1, <1>4, <1>5 DEF SocketInv, OwnersInv, HoldInv
<1>14. ProxyInv'
  <2>1. \A h \in Gens : ts.tcp[h] \in {"none", "gone"} => ts'.tcp[h] \in {"none", "gone"}
    BY <1>3 DEF Kinds
  <2>2. QED
    BY <1>1, <1>4, <1>5, <2>1 DEF SocketInv, OwnersInv, ProxyInv
<1>15. LeakInv'
  <2>1. \A h \in Gens : ts.tcp[h] \in {"none", "gone"} => ts'.tcp[h] \in {"none", "gone"}
    BY <1>3 DEF Kinds
  <2>2. QED
    BY <1>1, <1>3, <1>5, <2>1 DEF SocketInv, OwnersInv, LeakInv
<1>16. StateInv'
  BY <1>1, <1>4 DEF SocketInv, StateInv, DropInv, CloseInv, OpenInv, InClose
<1>17. QED
  BY <1>7, <1>8, <1>9, <1>10, <1>11, <1>12, <1>13, <1>14, <1>15, <1>16 DEF SocketInv, OwnersInv

(* A WebSocket that was not opened yet.                                       *)
LEMMA SocketStarts ==
    ASSUME Init
    PROVE  SocketInv
<1>1. /\ config \in Configs /\ wstate = "Closed" /\ gen = 0
      /\ ptr = [k \in Kinds |-> 0] /\ ts = [k \in Kinds |-> [g \in Gens |-> "none"]]
      /\ cb = [k \in Kinds |-> [g \in Gens |-> FALSE]]
      /\ stacks = [t \in ThreadNames |-> <<>>] /\ timers = {} /\ torn = {} /\ closeSent = {}
      /\ closed = 0 /\ closes = 0 /\ revived = FALSE /\ early = FALSE
  BY DEF Init
<1>2. \A k \in Kinds, g \in Gens : ptr[k] = 0 /\ ts[k][g] = "none" /\ ~cb[k][g]
  BY <1>1
<1>3. SocketTypes
  <2>1. 0 \in 0 .. MaxOpens /\ 0 \in 0 .. MaxCloses /\ 0 \in Nat
    BY BoundsAreNatural
  <2>2. ptr \in [Kinds -> 0 .. MaxOpens] /\ cb \in [Kinds -> [Gens -> BOOLEAN]]
        /\ ts \in [Kinds -> [Gens -> {"none", "Connecting", "Connected", "Disconnected", "Failed", "gone"}]]
    BY <1>1, <2>1
  <2>3. stacks \in [ThreadNames -> Seq(Instructions)]
    BY <1>1
  <2>4. QED
    BY <1>1, <2>1, <2>2, <2>3 DEF SocketTypes, TypeOK
<1>4. Idle
  BY <1>1 DEF Idle
<1>5. /\ \A t \in ThreadNames : \A op : ~At(t, op)
      /\ \A t \in ThreadNames : \A x : ~In(t, x)
      /\ \A t \in ThreadNames : \A k, g : ~Holds(t, k, g)
      /\ \A k, g : ~Resetting(k, g)
  BY <1>3, <1>4, IdleFacts
<1>6. PlacesInv
  <2>1. \A t \in ThreadNames : \A i : i \notin 1 .. Len(stacks[t])
    BY <1>1
  <2>2. QED
    BY <2>1 DEF PlacesInv
<1>7. OwnersInv
  BY <1>2, <1>5 DEF OwnersInv, StoreInv, ChainInv, LiveInv, BeginInv, HoldInv, ProxyInv, LeakInv, Kinds, Taken
<1>8. StateInv
  BY <1>1, <1>2, <1>5 DEF StateInv, DropInv, CloseInv, OpenInv, InClose, Kinds, Taken
<1>9. QED
  BY <1>3, <1>6, <1>7, <1>8 DEF SocketInv

(* Every step of the socket.                                                    *)
LEMMA SocketStep ==
    ASSUME SocketInv, Next
    PROVE  SocketInv'
<1>1. CASE \E t \in ThreadNames : Run(t)
  <2>1. PICK t \in ThreadNames : ~revived /\ Step(t)
    BY <1>1 DEF Run
  <2>2. CASE CloseTest(t) \/ CloseChange(t) \/ CloseStop(t)
    BY <2>1, <2>2, CloseTestInv, CloseChangeInv, CloseStopInv
  <2>3. CASE Shut(t) \/ Detach(t) \/ Reset(t)
    BY <2>1, <2>3, ShutInv, DetachInv, ResetInv
  <2>4. CASE SetTcp(t) \/ InitTransport(t)
    BY <2>4, SetTcpInv, InitTransportInv
  <2>5. CASE StartTransport(t) \/ EmplaceCheck(t)
    BY <2>5, StartTransportInv, EmplaceCheckInv
  <2>6. CASE OnOpenTest(t) \/ OnOpen(t) \/ IfConnecting(t)
    BY <2>1, <2>6, OnOpenTestInv, OnOpenInv, IfConnectingInv
  <2>7. QED
    BY <2>1, <2>2, <2>3, <2>4, <2>5, <2>6 DEF Step
<1>2. CASE Open \/ AppClose
  BY <1>2, OpenKeeps, AppCloseInv
<1>3. CASE Network
  <2>1. PICK k \in Kinds, g \in Gens : Up(k, g) \/ Down(k, g)
    BY <1>3 DEF Network
  <2>2. CASE Up(k, g)
    BY <2>2, ChangeInv DEF Up
  <2>3. CASE Down(k, g)
    BY <2>3, ChangeInv DEF Down
  <2>4. QED
    BY <2>1, <2>2, <2>3
<1>4. CASE Closer
  <2>1. PICK g \in Gens : WsEnds(g)
    BY <1>4 DEF Closer
  <2>2. "ws" \in Kinds /\ ts["ws"][g] = "Connected" /\ Change("ws", g, "Disconnected")
    BY <2>1 DEF WsEnds, Kinds
  <2>3. QED
    BY <2>2, ChangeInv
<1>5. CASE Expiry \/ Dropping
  BY <1>5, TimerInv, TearDownInv DEF Expiry, Dropping
<1>6. CASE Rest
  BY <1>6, SocketStutters DEF Rest
<1>7. QED
  BY <1>1, <1>2, <1>3, <1>4, <1>5, <1>6 DEF Next

(* What it means when nothing is in progress.                                   *)
LEMMA SocketMeaning ==
    ASSUME SocketInv
    PROVE  ClosedHasNothing /\ OpenHasTransport /\ ClosedOnce /\ NoLeak
<1> SUFFICES ASSUME Idle
    PROVE  /\ wstate = "Closed" => ptr.tcp = 0 /\ ptr.tls = 0 /\ ptr.ws = 0
           /\ wstate = "Open" /\ ~revived => ptr.ws # 0
           /\ ~revived => closed = IF wstate = "Closed" THEN gen ELSE gen - 1
           /\ wstate = "Closed" /\ torn = {} => \A g \in Gens : ts.tcp[g] \in {"none", "gone"} \/ ptr.proxy = g
  BY DEF ClosedHasNothing, OpenHasTransport, ClosedOnce, NoLeak
<1>1. /\ \A t \in ThreadNames : \A op : ~At(t, op)
      /\ \A t \in ThreadNames : \A x : ~In(t, x)
      /\ \A k, g : ~Resetting(k, g)
  BY IdleFacts DEF SocketInv
<1>2. wstate = "Closed" => ptr.tcp = 0 /\ ptr.tls = 0 /\ ptr.ws = 0
  BY <1>1 DEF SocketInv, StateInv, DropInv, Taken
<1>3. wstate = "Open" /\ ~revived => ptr.ws # 0
  BY DEF SocketInv, StateInv, OpenInv
<1>4. ~revived => closed = IF wstate = "Closed" THEN gen ELSE gen - 1
  BY <1>1 DEF SocketInv, StateInv, CloseInv, InClose
<1>5. ASSUME wstate = "Closed", torn = {}, NEW g \in Gens
      PROVE  ts.tcp[g] \in {"none", "gone"} \/ ptr.proxy = g
  <2>1. ptr.tcp # g
    BY <1>2, <1>5, BoundsAreNatural DEF Gens
  <2>2. QED
    BY <1>1, <1>5, <2>1 DEF SocketInv, OwnersInv, LeakInv
<1>6. QED
  BY <1>2, <1>3, <1>4, <1>5

-----------------------------------------------------------------------------
(* The server, for any number of callers of stop() and of connections.         *)

(* One call of stop() at most closes and joins; the socket listens until then. *)
Workers == Callers \cup {"server"}
ServerInv ==
    /\ spc \in {"prepare", "poll", "check", "client", "callback", "ended", "failed"} /\ mStopped \in BOOLEAN
    /\ backlog \in Nat /\ arrived \in Nat /\ accepted \in Nat /\ dropped \in Nat
    /\ stopper \in [Workers -> {"none", "close", "join", "joined", "returned", "threw"}]
    /\ \A c \in Callers : stopper[c] # "threw"
    /\ stopper["server"] # "joined"
    /\ \A c \in Workers : stopper[c] = "joined" => spc \in {"ended", "failed"}
    /\ mStopped => \E c \in Workers : stopper[c] \in {"close", "join", "joined", "threw"}
    /\ (\E c \in Workers : stopper[c] # "none") => mStopped
    /\ ConnectionsAccounted

(* A server that has just been made.                                          *)
LEMMA ServerStarts ==
    ASSUME SrvInit
    PROVE  ServerInv
<1>1. /\ stopper \in [Workers -> {"none", "close", "join", "joined", "returned", "threw"}]
      /\ "server" \in Workers /\ Callers \subseteq Workers /\ \A c \in Workers : stopper[c] = "none"
  BY DEF SrvInit, Workers
<1>2. ConnectionsAccounted /\ backlog \in Nat /\ arrived \in Nat /\ accepted \in Nat /\ dropped \in Nat
  BY DEF SrvInit, ConnectionsAccounted
<1>3. spc = "prepare" /\ mStopped = FALSE
  BY DEF SrvInit
<1>4. QED
  BY <1>1, <1>2, <1>3 DEF ServerInv

(* Every step of the server, its clients and its callers.                     *)
LEMMA ServerStep ==
    ASSUME ServerInv, SrvNext
    PROVE  ServerInv'
<1>0. stopper \in [Workers -> {"none", "close", "join", "joined", "returned", "threw"}] /\ DOMAIN stopper = Workers
  BY DEF ServerInv
<1>1. CASE Prepare \/ PollReturns \/ CallbackReturns \/ OnClient
  <2>1. /\ spc' \in {"prepare", "poll", "check", "client", "callback", "ended", "failed"}
        /\ spc \in {"ended", "failed"} => spc' \in {"ended", "failed"}
        /\ spc' = "client" <=> spc = "client"
        /\ UNCHANGED <<backlog, arrived, accepted, dropped, mStopped, stopper>>
    BY <1>1 DEF Prepare, PollReturns, CallbackReturns, OnClient, ServerInv
  <2>2. QED
    BY <2>1 DEF ServerInv, ConnectionsAccounted
<1>2. CASE Accept
  <2>1. spc = "check" /\ UNCHANGED <<arrived, accepted, mStopped, stopper>>
    BY <1>2 DEF Accept
  <2>2. \/ spc' \in {"prepare", "ended", "failed"} /\ UNCHANGED <<backlog, dropped>>
        \/ spc' = "client" /\ backlog # 0 /\ backlog' = backlog - 1 /\ dropped' = dropped
        \/ spc' = "prepare" /\ backlog # 0 /\ backlog' = backlog - 1 /\ dropped' = dropped + 1
    BY <1>2 DEF Accept
  <2>3. QED
    BY <2>1, <2>2 DEF ServerInv, ConnectionsAccounted
<1>3. CASE Client
  <2>1. spc = "client" /\ UNCHANGED <<backlog, arrived>>
    BY <1>3 DEF Client
  <2>2. CASE UNCHANGED <<mStopped, stopper>>
    <3>1. spc' \in {"prepare", "callback"} /\ ((accepted' = accepted /\ dropped' = dropped + 1) \/ (accepted' = accepted + 1 /\ dropped' = dropped))
      BY <1>3 DEF Client
    <3>2. QED
      BY <2>1, <2>2, <3>1 DEF ServerInv, ConnectionsAccounted
  <2>3. CASE ~UNCHANGED <<mStopped, stopper>>
    <3>1. /\ accepted' = accepted + 1 /\ dropped' = dropped /\ stopper.server = "none" /\ spc' = "callback" /\ mStopped' = TRUE
          /\ stopper' = [stopper EXCEPT !["server"] = IF mStopped THEN "returned" ELSE "close"]
      BY <1>3, <2>3 DEF Client
    <3>2. ConnectionsAccounted'
      BY <2>1, <3>1 DEF ServerInv, ConnectionsAccounted
    <3>3. "server" \in Workers /\ (\A c \in Callers : c # "server" /\ c \in Workers)
      BY ServerIsNoCaller DEF Workers
    <3>4. /\ stopper' \in [Workers -> {"none", "close", "join", "joined", "returned", "threw"}]
          /\ stopper'["server"] = IF mStopped THEN "returned" ELSE "close"
          /\ \A c \in Workers : c # "server" => stopper'[c] = stopper[c]
      BY <1>0, <3>1, <3>3
    <3>5. \E c \in Workers : stopper'[c] \in {"close", "join", "joined", "threw"}
      BY <3>1, <3>3, <3>4 DEF ServerInv
    <3>6. \A c \in Workers : stopper'[c] = "joined" => stopper[c] = "joined"
      BY <3>4
    <3>7. QED
      BY <2>1, <3>1, <3>2, <3>3, <3>4, <3>5, <3>6 DEF ServerInv
  <2>4. QED
    BY <2>2, <2>3
<1>4. CASE \E c \in Callers : StopCall(c)
  <2>1. PICK c \in Callers : StopCall(c)
    BY <1>4
  <2>2. c \in Workers /\ "server" \in Workers /\ c # "server" /\ \A d \in Callers : d \in Workers
    BY ServerIsNoCaller DEF Workers
  <2>3. /\ stopper[c] = "none" /\ mStopped' = TRUE
        /\ stopper' = [stopper EXCEPT ![c] = IF mStopped THEN "returned" ELSE "close"]
        /\ UNCHANGED <<spc, backlog, arrived, accepted, dropped>>
    BY <2>1 DEF StopCall
  <2>4. /\ stopper' \in [Workers -> {"none", "close", "join", "joined", "returned", "threw"}]
        /\ stopper'[c] = IF mStopped THEN "returned" ELSE "close"
        /\ \A d \in Workers : d # c => stopper'[d] = stopper[d]
    BY <1>0, <2>2, <2>3
  <2>5. \E d \in Workers : stopper'[d] \in {"close", "join", "joined", "threw"}
    BY <2>2, <2>3, <2>4 DEF ServerInv
  <2>6. \A d \in Workers : (stopper'[d] = "joined" => stopper[d] = "joined") /\ (stopper'[d] = "threw" => stopper[d] = "threw")
    BY <2>4
  <2>7. QED
    BY <2>2, <2>3, <2>4, <2>5, <2>6 DEF ServerInv, ConnectionsAccounted
<1>5. CASE \E c \in DOMAIN stopper : Stopping(c)
  <2>1. PICK c \in Workers : Stopping(c)
    BY <1>0, <1>5
  <2>2. "server" \in Workers /\ \A d \in Callers : d \in Workers /\ d # "server"
    BY ServerIsNoCaller DEF Workers
  <2>3. CASE CloseSocket(c)
    <3>1. /\ stopper[c] = "close" /\ dropped' = dropped + backlog /\ backlog' = 0
          /\ stopper' = [stopper EXCEPT ![c] = "join"] /\ UNCHANGED <<spc, arrived, accepted, mStopped>>
      BY <2>3 DEF CloseSocket
    <3>2. /\ stopper' \in [Workers -> {"none", "close", "join", "joined", "returned", "threw"}]
          /\ stopper'[c] = "join" /\ \A d \in Workers : d # c => stopper'[d] = stopper[d]
      BY <1>0, <3>1
    <3>3. ConnectionsAccounted' /\ backlog' \in Nat /\ dropped' \in Nat
      BY <3>1 DEF ServerInv, ConnectionsAccounted
    <3>4. QED
      BY <2>2, <3>1, <3>2, <3>3 DEF ServerInv
  <2>4. CASE Join(c)
    <3>1. /\ stopper[c] = "join" /\ UNCHANGED <<spc, backlog, arrived, accepted, dropped, mStopped>>
          /\ \/ c = "server" /\ stopper' = [stopper EXCEPT ![c] = "threw"]
             \/ c # "server" /\ spc \in {"ended", "failed"} /\ stopper' = [stopper EXCEPT ![c] = "joined"]
      BY <2>4 DEF Join
    <3>2. /\ stopper' \in [Workers -> {"none", "close", "join", "joined", "returned", "threw"}]
          /\ \/ c = "server" /\ stopper'[c] = "threw"
             \/ c # "server" /\ spc \in {"ended", "failed"} /\ stopper'[c] = "joined"
          /\ \A d \in Workers : d # c => stopper'[d] = stopper[d]
      BY <1>0, <3>1
    <3>3. QED
      BY <2>2, <3>1, <3>2 DEF ServerInv, ConnectionsAccounted
  <2>5. QED
    BY <2>1, <2>3, <2>4 DEF Stopping
<1>6. CASE ClientArrives
  <2>1. arrived' = arrived + 1 /\ backlog' = backlog + 1 /\ UNCHANGED <<spc, accepted, dropped, mStopped, stopper>>
    BY <1>6 DEF ClientArrives
  <2>2. QED
    BY <2>1 DEF ServerInv, ConnectionsAccounted
<1>7. QED
  BY <1>1, <1>2, <1>3, <1>4, <1>5, <1>6 DEF SrvNext, Server

(* Who joined the thread, or found the server stopped, and the connections.   *)
LEMMA ServerMeaning ==
    ASSUME ServerInv
    PROVE  JoinedIsOver /\ ConnectionsAccounted
<1>1. ConnectionsAccounted
  BY DEF ServerInv
<1> SUFFICES ASSUME NEW c \in Callers, stopper[c] \in {"joined", "returned"}, spc \notin {"ended", "failed"}
    PROVE  \E d \in DOMAIN stopper \ {c} : stopper[d] \in {"close", "join", "threw"}
  BY <1>1 DEF JoinedIsOver
<1>2. c \in Workers /\ DOMAIN stopper = Workers
  BY DEF ServerInv, Workers
<1>3. PICK d \in Workers : stopper[d] \in {"close", "join", "joined", "threw"}
  BY <1>2 DEF ServerInv
<1>4. stopper[d] # "joined" /\ d # c
  BY <1>2, <1>3 DEF ServerInv
<1>5. QED
  BY <1>2, <1>3, <1>4

(* WebSocketsInv, of every WebSocket and every server: whatever threads open,  *)
(* connect, time out, close and stop at once, a closed WebSocket keeps no       *)
(* transport, is reported closed exactly once and leaks no socket, an open one  *)
(* has a transport, whoever joined the server's thread sees no callback after,  *)
(* and every connection is accounted for.                                       *)
THEOREM WebSocketsCorrect == AllSpec => []WebSocketsInv
<1> DEFINE Inv == SocketInv /\ ServerInv
<1>1. AllInit => Inv
  BY SocketStarts, ServerStarts DEF AllInit
<1>2. Inv /\ [AllNext]_allVars => Inv'
  <2> SUFFICES ASSUME Inv, [AllNext]_allVars PROVE Inv'
    OBVIOUS
  <2>1. UNCHANGED srvVars => ServerInv'
    BY DEF srvVars, ServerInv, ConnectionsAccounted
  <2>2. CASE Ws(Next)
    BY <2>1, <2>2, SocketStep DEF Ws
  <2>3. CASE Srv(SrvNext)
    BY <2>3, ServerStep, SocketStutters DEF Srv
  <2>4. CASE UNCHANGED allVars
    BY <2>1, <2>4, SocketStutters DEF allVars
  <2>5. QED
    BY <2>2, <2>3, <2>4 DEF AllNext
<1>3. Inv => WebSocketsInv
  BY SocketMeaning, ServerMeaning DEF WebSocketsInv
<1>4. QED
  BY <1>1, <1>2, <1>3, PTL DEF AllSpec
=============================================================================
