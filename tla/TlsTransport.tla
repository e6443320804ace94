---------------------------- MODULE TlsTransport ----------------------------
(***************************************************************************)
(* TlsTransport with its three builds (GnuTLS, Mbed TLS, OpenSSL): the      *)
(* bounded queue filled by the poll thread, which holds the mutex of the    *)
(* poll service meanwhile, doRecv() jobs of the thread pool which empty it, *)
(* the counter that decides whether a job is enqueued, and stop().  The TLS *)
(* library is external: a handshake takes a number of flights of the peer,  *)
(* and a record is a message.                                               *)
(***************************************************************************)
EXTENDS Integers, Sequences, SequencesExt

CONSTANTS Flights,  \* flights of the handshake that come from the peer
          NData,    \* records the peer sends
          Limit     \* RECV_QUEUE_LIMIT

ASSUME TlsConstants == {Flights, NData} \subseteq Nat /\ Limit \in Nat \ {0}

VARIABLES
    backend,     \* the TLS library of the build
    tlsState,    \* Transport::mState
    queue,       \* mIncomingQueue
    stopping,    \* the queue is stopped
    pending,     \* mPendingRecvCount
    jobs,        \* doRecv() jobs in the thread pool
    recvPc,      \* the job that holds mRecvMutex
    hs,          \* flights missing
    poller,      \* the poll thread: "idle", or the step of incoming()
    item,        \* what the poll thread brings
    owner,       \* the thread that stops the transport
    registered,  \* the transport gets what comes from below
    peerSent,    \* how many flights and records the peer has sent
    peerEnd,     \* how the peer ended
    brought,     \* records put into the queue
    delivered,   \* records given to the transport above
    ended,       \* times recv(nullptr) was called
    wasConnected

sessionV  == <<tlsState, hs, wasConnected, delivered, ended>>
incomingV == <<queue, stopping>>
counterV  == <<pending, jobs>>
bringV    == <<poller, item, brought>>
peerV     == <<peerSent, peerEnd, registered>>
tlsVars == <<backend, recvPc, owner, sessionV, incomingV, counterV, bringV, peerV>>

NoItem == <<"none", 0>>
Backends == {"gnutls", "mbedtls", "openssl"}

TlsInit ==
    /\ backend \in Backends /\ tlsState = "Disconnected"
    /\ queue = <<>> /\ stopping = FALSE /\ pending = 0 /\ jobs = 0
    /\ recvPc = "idle" /\ hs = Flights /\ poller = "idle" /\ item = NoItem /\ owner = "idle"
    /\ registered = FALSE /\ peerSent = 0 /\ peerEnd = "open"
    /\ brought = <<>> /\ delivered = <<>> /\ ended = 0 /\ wasConnected = FALSE

-----------------------------------------------------------------------------
(* enqueueRecv(): the counter is read, and then increased. *)

CheckPc(pc) == IF pending > 0 THEN "idle" ELSE "enqueue"

PollerCheck ==
    /\ poller = "check" /\ poller' = CheckPc(poller)
    /\ UNCHANGED <<backend, recvPc, item, owner, brought, sessionV, incomingV, counterV, peerV>>

PollerEnqueue ==
    /\ poller = "enqueue" /\ poller' = "idle" /\ pending' = pending + 1 /\ jobs' = jobs + 1
    /\ UNCHANGED <<backend, recvPc, item, owner, brought, sessionV, incomingV, peerV>>

OwnerCheck ==
    /\ owner = "check" /\ owner' = IF CheckPc(owner) = "idle" THEN "done" ELSE "enqueue"
    /\ UNCHANGED <<backend, recvPc, sessionV, incomingV, counterV, bringV, peerV>>

OwnerEnqueue ==
    /\ owner = "enqueue" /\ owner' = "done" /\ pending' = pending + 1 /\ jobs' = jobs + 1
    /\ UNCHANGED <<backend, recvPc, sessionV, incomingV, bringV, peerV>>

\* start(): OpenSSL sends its first flight here, the others in doRecv().
Start ==
    /\ tlsState = "Disconnected" /\ ~wasConnected /\ owner = "idle" /\ ~registered
    /\ registered' = TRUE /\ tlsState' = "Connecting"
    /\ IF backend = "openssl" THEN UNCHANGED <<counterV>>
       ELSE pending' = pending + 1 /\ jobs' = jobs + 1
    /\ UNCHANGED <<backend, recvPc, hs, owner, peerSent, peerEnd, delivered, ended, wasConnected, incomingV, bringV>>

\* stop(): unregistering waits for a callback that is running.
Stop ==
    /\ owner = "idle" /\ tlsState # "Disconnected" /\ poller = "idle"
    /\ registered' = FALSE /\ stopping' = TRUE /\ owner' = "check"
    /\ UNCHANGED <<backend, queue, recvPc, peerSent, peerEnd, sessionV, counterV, bringV>>

\* The peer's bytes reach the poll thread: a flight, a record, an idle event
\* (an empty message), a close alert, or something the library refuses.
Arrive ==
    /\ registered /\ poller = "idle" /\ peerEnd = "open"
    /\ \/ /\ peerSent < Flights + NData /\ peerSent' = peerSent + 1 /\ UNCHANGED peerEnd
          /\ item' = IF peerSent < Flights THEN <<"flight", 0>> ELSE <<"data", peerSent - Flights + 1>>
       \/ peerSent >= Flights /\ item' = <<"idle", 0>> /\ UNCHANGED <<peerSent, peerEnd>>
       \/ \E e \in {"close", "bad"} : item' = <<e, 0>> /\ peerEnd' = e /\ UNCHANGED peerSent
    /\ poller' = "push"
    /\ UNCHANGED <<backend, recvPc, owner, registered, brought, sessionV, incomingV, counterV>>

\* incoming(message): push() waits while the queue is full.
Push ==
    /\ poller = "push" /\ (Len(queue) < Limit \/ stopping)
    /\ queue' = IF stopping THEN queue ELSE Append(queue, item)
    /\ brought' = IF stopping \/ item[1] # "data" THEN brought ELSE Append(brought, item)
    /\ poller' = "check" /\ item' = NoItem
    /\ UNCHANGED <<backend, stopping, recvPc, owner, sessionV, counterV, peerV>>

\* incoming(nullptr): the connection below ended.
IncomingEnd ==
    /\ registered /\ poller = "idle" /\ ~stopping
    /\ stopping' = TRUE /\ poller' = "check" /\ peerEnd' = "eof"
    /\ UNCHANGED <<backend, queue, recvPc, item, owner, registered, peerSent, brought, sessionV, counterV>>

-----------------------------------------------------------------------------
(* doRecv() *)

Active == tlsState \in {"Connecting", "Connected"}

\* The job takes mRecvMutex and decreases the counter.  Without GnuTLS it
\* returns at once when the connection is over.
RecvStart ==
    /\ jobs > 0 /\ recvPc = "idle"
    /\ jobs' = jobs - 1 /\ pending' = pending - 1
    /\ recvPc' = IF Active THEN "loop" ELSE IF backend = "gnutls" THEN "final" ELSE "idle"
    /\ UNCHANGED <<backend, owner, sessionV, incomingV, bringV, peerV>>

Mut_StopAtOnce ==
    /\ recvPc = "loop" /\ (queue = <<>> \/ stopping)
    /\ recvPc' = IF ~stopping THEN "return" ELSE "final"
    /\ UNCHANGED <<backend, owner, sessionV, incomingV, counterV, bringV, peerV>>

\* Nothing is queued: wait for the next job, or the end of the stream.
RecvEmpty ==
    /\ recvPc = "loop" /\ queue = <<>>
    /\ recvPc' = IF ~stopping THEN "return" ELSE "final"
    /\ UNCHANGED <<backend, owner, sessionV, incomingV, counterV, bringV, peerV>>

\* doRecv() returns: until then an enqueued job waits for mRecvMutex.
RecvReturn ==
    /\ recvPc = "return" /\ recvPc' = "idle"
    /\ UNCHANGED <<backend, owner, sessionV, incomingV, counterV, bringV, peerV>>

\* Mbed TLS reads, and so passes empty messages upwards, with mSslMutex held,
\* which a send() from above takes again.
HoldsSslMutex == backend = "mbedtls"

\* An item is given to the library.  A record goes to the transport above,
\* which may send an answer; so may an empty message, with a ping.
RecvItem ==
    /\ recvPc = "loop" /\ queue # <<>>
    /\ queue' = Tail(queue)
    /\ LET x == Head(queue) IN
       CASE x[1] = "flight" ->
              /\ hs' = hs - 1
              /\ tlsState' = IF hs = 1 THEN "Connected" ELSE tlsState
              /\ wasConnected' = (wasConnected \/ hs = 1)
              /\ UNCHANGED <<recvPc, stopping, delivered>>
         [] x[1] = "idle" ->
              /\ recvPc' \in {"loop"} \cup (IF tlsState # "Connected" THEN {} ELSE IF HoldsSslMutex THEN {"stuck"} ELSE {"answer"})
              /\ UNCHANGED <<hs, tlsState, wasConnected, stopping, delivered>>
         [] x[1] \in {"close", "bad"} ->
              /\ recvPc' = "final"
              /\ stopping' = (stopping \/ backend = "openssl")
              /\ UNCHANGED <<hs, tlsState, wasConnected, delivered>>
         [] x[1] = "data" ->
              /\ delivered' = Append(delivered, x) /\ recvPc' \in {"loop", "answer"}
              /\ UNCHANGED <<hs, tlsState, wasConnected, stopping>>
    /\ UNCHANGED <<backend, owner, ended, counterV, bringV, peerV>>

\* The answer does not fit into the socket: it needs the poll mutex, which the
\* poll thread holds in all of incoming().
Answer ==
    /\ recvPc = "answer" /\ poller = "idle" /\ recvPc' = "loop"
    /\ UNCHANGED <<backend, owner, sessionV, incomingV, counterV, bringV, peerV>>

\* The end of doRecv().
RecvFinal ==
    /\ recvPc = "final" /\ recvPc' = "idle"
    /\ tlsState' = IF tlsState = "Connected" THEN "Disconnected" ELSE "Failed"
    /\ ended' = IF tlsState = "Connected" THEN ended + 1 ELSE ended
    /\ UNCHANGED <<backend, hs, owner, delivered, wasConnected, incomingV, counterV, bringV, peerV>>

TlsLibrary == PollerCheck \/ PollerEnqueue \/ OwnerCheck \/ OwnerEnqueue \/ Push
              \/ RecvStart \/ RecvEmpty \/ RecvReturn \/ RecvItem \/ Answer \/ RecvFinal
TlsNext == TlsLibrary \/ Start \/ Stop \/ Arrive \/ IncomingEnd

TlsSpec == TlsInit /\ [][TlsNext]_tlsVars /\ WF_tlsVars(TlsLibrary)

-----------------------------------------------------------------------------
TlsTypeOK ==
    /\ backend \in Backends /\ tlsState \in {"Disconnected", "Connecting", "Connected", "Failed"}
    /\ pending \in Nat /\ jobs \in Nat /\ hs \in 0..Flights /\ Len(queue) <= Limit

\* A full queue, the poll thread waiting to push with its mutex held, and the
\* job that would empty the queue waiting for that mutex.
FullCycle == poller = "push" /\ Len(queue) = Limit /\ ~stopping /\ recvPc = "answer"

\* No message is left waiting without a job to take it: when everything is at
\* rest the queue is empty or the connection over.
NoneWaiting ==
    jobs = 0 /\ recvPc = "idle" /\ poller = "idle" /\ owner \in {"idle", "done"} /\ Active =>
        queue = <<>>

\* The records that came before the end of the stream are delivered before it,
\* in order and once.
DeliveredBeforeEnd ==
    /\ IsPrefix(delivered, brought)
    /\ ended > 0 /\ peerEnd = "eof" => delivered = brought
    /\ ended <= 1

\* An established connection becomes Disconnected, not Failed; the GnuTLS
\* build runs a late job to the end and turns Disconnected into Failed.
NotFailedLater == backend # "gnutls" => ~(wasConnected /\ tlsState = "Failed")

\* stop(), or the end of the stream below, ends the connection: unless the
\* queue is in the cycle above, or Mbed TLS locks its mutex twice.
StopEnds == (stopping /\ Active) ~> (~Active \/ FullCycle \/ recvPc = "stuck")
NotStuck == recvPc = "stuck" => backend = "mbedtls"

\* Jobs, the poll thread and senders of a TLS transport: no record is left
\* without a job, the end of the stream is reported once and after the records
\* before it, and no thread waits for itself.
TlsInv == NoneWaiting /\ DeliveredBeforeEnd /\ NotFailedLater /\ NotStuck
=============================================================================
