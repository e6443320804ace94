-------------------------------- MODULE Dtls --------------------------------
(***************************************************************************)
(* DtlsTransport with its three builds (GnuTLS, Mbed TLS, OpenSSL) and      *)
(* DtlsSrtpTransport: the bounded queue filled by the ICE agent, doRecv()   *)
(* jobs that empty it, enqueued under a counter or scheduled by handshake   *)
(* timers, loss of handshake flights, the derivation of SRTP keys, and      *)
(* stop().  The TLS library is external: a handshake takes a number of      *)
(* flights of the peer, and its timer is the flag `due`.                    *)
(***************************************************************************)
EXTENDS Integers, Sequences, SequencesExt

CONSTANTS Flights,  \* flights of the handshake that come from the peer
          MaxTries, \* retransmissions before the library gives up
          NArrive,  \* packets the peer's side brings
          Limit     \* RECV_QUEUE_LIMIT

ASSUME DtlsConstants == {MaxTries, NArrive} \subseteq Nat /\ {Flights, Limit} \subseteq Nat \ {0}

VARIABLES
    backend,     \* the TLS library of the build
    srtp,        \* "none": DtlsTransport; or whether a profile is agreed on
    dState,      \* Transport::mState
    dQueue,      \* mIncomingQueue
    dStopped,    \* the queue is stopped
    dPending,    \* mPendingRecvCount, which timers make negative
    dJobs,       \* doRecv() jobs that enqueueRecv() gave to the thread pool
    fresh,       \* timers scheduled for the library's present deadline
    stale,       \* timers scheduled for an earlier deadline
    due,         \* the present deadline has passed
    tries,       \* retransmissions
    recvPc,      \* the job that holds mRecvMutex
    missing,     \* flights of the peer still to be processed
    held,        \* records the library has and nobody asked for
    keys,        \* mInitDone
    agent,       \* the thread of the ICE agent: the step of incoming()
    packet,      \* what it brings
    owner,       \* the thread that stops the transport
    arrived,     \* packets brought so far
    brought,     \* records put into the queue
    delivered,   \* records given to the transport above
    dEnded,      \* times recv(nullptr) was called
    refused,     \* ghost: sendMedia() failed for want of keys when Connected
    topic,       \* what is explored: "receive", or two threads that "send"
    writer,      \* the step of each thread in send(), and the result of its packet
    result,      \* mOutgoingResult
    misread      \* ghost: "alone" or "crossed", when a send returned another's result

libraryV == <<missing, held, due, tries>>
timerV   == <<fresh, stale>>
counterV == <<dPending, dJobs>>
inV      == <<dQueue, dStopped>>
agentV   == <<agent, packet, arrived, brought>>
outV     == <<delivered, dEnded, refused>>
writeV   == <<writer, result, misread>>
buildV   == <<backend, srtp, topic>>
dtlsVars == <<buildV, dState, recvPc, keys, owner, libraryV, timerV, counterV, inV, agentV, outV, writeV>>

Writers == {1, 2}
Resting == <<"idle", TRUE, FALSE>>
NoPacket == <<"none", 0>>
\* GnuTLS and Mbed TLS read the queue themselves, through a callback ("pull");
\* OpenSSL is given packets.
Backends == {"pull", "openssl"}

DtlsInit ==
    /\ backend \in Backends /\ srtp \in {"none", "agreed", "missing"} /\ topic \in {"receive", "send"}
    /\ dState = "Disconnected" /\ dQueue = <<>> /\ dStopped = FALSE /\ dPending = 0 /\ dJobs = 0
    /\ fresh = 0 /\ stale = 0 /\ due = FALSE /\ tries = 0 /\ recvPc = "idle"
    /\ missing = Flights /\ held = <<>> /\ keys = FALSE
    /\ agent = "idle" /\ packet = NoPacket /\ owner = "idle" /\ arrived = 0
    /\ brought = <<>> /\ delivered = <<>> /\ dEnded = 0 /\ refused = FALSE
    /\ writer = [w \in Writers |-> Resting] /\ result = TRUE /\ misread = "no"

DtlsActive == dState \in {"Connecting", "Connected"}

-----------------------------------------------------------------------------
(* enqueueRecv(), start(), stop(), incoming() *)

Mut_CheckRunning(pc) == IF dPending > 0 \/ recvPc # "idle" THEN "idle" ELSE "enqueue"

\* enqueueRecv() reads the counter, and increases it later.
CheckCount(pc) == IF dPending > 0 THEN "idle" ELSE "enqueue"

AgentCheck ==
    /\ agent = "check" /\ agent' = CheckCount(agent)
    /\ UNCHANGED <<buildV, dState, recvPc, keys, owner, libraryV, timerV, counterV, inV, packet, arrived, brought, outV, writeV>>

Enqueue == dPending' = dPending + 1 /\ dJobs' = dJobs + 1

AgentEnqueue ==
    /\ agent = "enqueue" /\ agent' = "idle" /\ Enqueue
    /\ UNCHANGED <<buildV, dState, recvPc, keys, owner, libraryV, timerV, inV, packet, arrived, brought, outV, writeV>>

OwnerCheck ==
    /\ owner = "check" /\ owner' = IF CheckCount(owner) = "idle" THEN "done" ELSE "enqueue"
    /\ UNCHANGED <<buildV, dState, recvPc, keys, libraryV, timerV, counterV, inV, agentV, outV, writeV>>

OwnerEnqueue ==
    /\ owner = "enqueue" /\ owner' = "done" /\ Enqueue
    /\ UNCHANGED <<buildV, dState, recvPc, keys, libraryV, timerV, inV, agentV, outV, writeV>>

\* start(): OpenSSL begins the handshake and its timer here, the others in a job.
StartPush == fresh' = 1 /\ UNCHANGED counterV
StartPull == Enqueue /\ UNCHANGED fresh

DtlsStart ==
    /\ dState = "Disconnected" /\ owner = "idle" /\ arrived = 0 /\ dEnded = 0
    /\ dState' = "Connecting"
    /\ IF backend = "openssl" THEN StartPush ELSE StartPull
    /\ UNCHANGED <<buildV, recvPc, keys, owner, libraryV, stale, inV, agentV, outV, writeV>>

\* stop(): unregistering waits for the agent's callback.
DtlsStop ==
    /\ topic = "receive" /\ owner = "idle" /\ dState # "Disconnected" /\ agent = "idle"
    /\ dStopped' = TRUE /\ owner' = "check"
    /\ UNCHANGED <<buildV, dState, recvPc, keys, dQueue, libraryV, timerV, counterV, agentV, outV, writeV>>

\* What the peer sends, or sends again: the flight that answers ours, one or two
\* records in a packet, media, the alert that closes, or what the library refuses
\* (a certificate with another fingerprint, say).
Packets ==
    {<<"flight", Flights - missing + 1>>}
    \cup (IF topic = "send" THEN {} ELSE {<<"bad", 0>>})
    \cup (IF missing = 0 /\ topic = "receive" THEN {<<"data", 1>>, <<"data", 2>>, <<"close", 0>>} ELSE {})
    \cup (IF srtp = "agreed" /\ topic = "receive" THEN {<<"media", 0>>} ELSE {})

DtlsArrive ==
    /\ DtlsActive /\ owner = "idle" /\ agent = "idle" /\ arrived < NArrive
    /\ topic = "send" => dState = "Connecting"
    /\ packet' \in Packets /\ arrived' = arrived + 1 /\ agent' = "push"
    /\ UNCHANGED <<buildV, dState, recvPc, keys, owner, brought, libraryV, timerV, counterV, inV, outV, writeV>>

\* The records of a packet, numbered in the order of their arrival.
Records(p) ==
    IF p[1] = "close" THEN <<"close">>
    ELSE IF p[1] # "data" THEN <<>> ELSE [i \in 1..p[2] |-> "record"]

\* incoming(): push() waits while the queue is full.
DtlsPush ==
    /\ agent = "push" /\ (Len(dQueue) < Limit \/ dStopped)
    /\ LET n == Len(brought)
           recs == [i \in DOMAIN Records(packet) |-> <<Records(packet)[i], n + i>>]
       IN IF dStopped THEN UNCHANGED <<dQueue, brought>>
          ELSE dQueue' = Append(dQueue, <<packet, recs>>) /\ brought' = brought \o recs
    /\ agent' = "check" /\ packet' = NoPacket
    /\ UNCHANGED <<buildV, dState, recvPc, keys, owner, dStopped, arrived, libraryV, timerV, counterV, outV, writeV>>

-----------------------------------------------------------------------------
(* doRecv() *)

\* The job holds mRecvMutex and decreases the counter.
Begin == IF DtlsActive THEN "loop" ELSE "idle"

JobStart ==
    /\ dJobs > 0 /\ recvPc = "idle"
    /\ dJobs' = dJobs - 1 /\ dPending' = dPending - 1 /\ recvPc' = Begin
    /\ UNCHANGED <<buildV, dState, keys, owner, libraryV, timerV, inV, agentV, outV, writeV>>

\* Time passes: the deadline of the library.
Deadline ==
    /\ topic = "receive" /\ dState = "Connecting" /\ ~due /\ due' = TRUE
    /\ UNCHANGED <<buildV, dState, recvPc, keys, owner, missing, held, tries, timerV, counterV, inV, agentV, outV, writeV>>

\* A timer calls doRecv(), which takes away one from the counter that nobody added.
TimerFires ==
    /\ recvPc = "idle" /\ dPending' = dPending - 1 /\ recvPc' = Begin
    /\ \/ stale > 0 /\ stale' = stale - 1 /\ UNCHANGED fresh
       \/ fresh > 0 /\ (due \/ dState # "Connecting") /\ fresh' = fresh - 1 /\ UNCHANGED stale
    /\ UNCHANGED <<buildV, dState, keys, owner, dJobs, libraryV, inV, agentV, outV, writeV>>

Mut_HandleTimeout ==
    IF ~due THEN recvPc' = "return" /\ UNCHANGED <<tries, due, fresh, stale>>
    ELSE IF tries = MaxTries THEN recvPc' = "final" /\ UNCHANGED <<tries, due, fresh, stale>>
    ELSE /\ recvPc' = "return" /\ tries' = tries + 1 /\ due' = FALSE
         /\ stale' = stale + fresh /\ fresh' = 1

\* The handshake waits for the peer: send again when the deadline has passed, or
\* give up; schedule doRecv() for the deadline, whatever timers there are.
HandleTimeout ==
    IF ~due THEN recvPc' = "return" /\ fresh' = fresh + 1 /\ UNCHANGED <<tries, due, stale>>
    ELSE IF tries = MaxTries THEN recvPc' = "final" /\ UNCHANGED <<tries, due, fresh, stale>>
    ELSE /\ recvPc' = "return" /\ tries' = tries + 1 /\ due' = FALSE
         /\ stale' = stale + fresh /\ fresh' = 1

\* Nothing is queued: the end if the queue is stopped, or wait.
RecvEmpty ==
    /\ recvPc = "loop" /\ dQueue = <<>>
    /\ IF dStopped THEN recvPc' = "final" /\ UNCHANGED <<tries, due, fresh, stale>>
       ELSE IF dState = "Connecting" THEN HandleTimeout
       ELSE recvPc' = "return" /\ UNCHANGED <<tries, due, fresh, stale>>
    /\ UNCHANGED <<buildV, dState, keys, owner, missing, held, counterV, inV, agentV, outV, writeV>>

\* Until doRecv() returns an enqueued job waits for mRecvMutex.
RecvReturn ==
    /\ recvPc = "return" /\ recvPc' = "idle"
    /\ UNCHANGED <<buildV, dState, keys, owner, libraryV, timerV, counterV, inV, agentV, outV, writeV>>

\* demuxMessage(): with keys, media does not go to the TLS library.
Demux(p) == keys /\ p[1] = "media"

\* OpenSSL is asked for one record per packet, the others until they have none.
Unread(recs) == IF backend = "openssl" /\ recs # <<>> THEN Tail(recs) ELSE <<>>

\* The first step after the last flight: OpenSSL derives the keys before it
\* announces the connection, the others after.
Finished == IF backend = "openssl" THEN "keys" ELSE "announce"

\* The flight that continues the handshake: our answer has a deadline of its own.
Expected == <<"flight", Flights - missing + 1>>
TakeFlight(p) ==
    /\ dState = "Connecting" /\ p = Expected
    /\ missing' = missing - 1 /\ due' = FALSE /\ stale' = stale + fresh /\ fresh' = 0
    /\ recvPc' = IF missing = 1 THEN Finished ELSE "loop"
    /\ UNCHANGED <<held, delivered>>

\* The library throws on a bad packet, and ignores one that it has had before.
TakeOther(p) ==
    /\ dState = "Connecting" /\ p # Expected /\ recvPc' = IF p[1] = "bad" THEN "final" ELSE "loop"
    /\ UNCHANGED <<missing, held, due, timerV, delivered>>

\* What is read of an established connection goes up; an alert is alone in its packet.
TakeRecords(p, recs) ==
    LET read == SubSeq(recs, 1, Len(recs) - Len(Unread(recs)))
        closes == \E i \in DOMAIN read : read[i][1] = "close"
    IN /\ dState = "Connected" /\ held' = Unread(recs)
       /\ delivered' = IF closes THEN delivered ELSE delivered \o read
       /\ recvPc' = IF closes \/ p[1] = "bad" THEN "final" ELSE "loop"
       /\ UNCHANGED <<missing, due, timerV>>

RecvPacket ==
    /\ recvPc = "loop" /\ dQueue # <<>> /\ dQueue' = Tail(dQueue)
    /\ LET p == Head(dQueue)[1]
       IN IF Demux(p) THEN UNCHANGED <<recvPc, missing, held, due, timerV, delivered>>
          ELSE TakeFlight(p) \/ TakeOther(p) \/ TakeRecords(p, held \o Head(dQueue)[2])
    /\ UNCHANGED <<buildV, dState, keys, owner, tries, dStopped, dEnded, refused, counterV, agentV, writeV>>

\* postHandshake() of DtlsSrtpTransport, which throws when no profile is agreed on.
PostHandshake ==
    /\ recvPc = "keys"
    /\ keys' = (keys \/ srtp = "agreed")
    /\ recvPc' = IF srtp = "missing" THEN "final" ELSE IF backend = "openssl" THEN "announce" ELSE "loop"
    /\ UNCHANGED <<buildV, dState, owner, libraryV, timerV, counterV, inV, agentV, outV, writeV>>

\* changeState(Connected)
Announce ==
    /\ recvPc = "announce" /\ dState' = "Connected"
    /\ recvPc' = IF backend = "openssl" THEN "loop" ELSE "keys"
    /\ UNCHANGED <<buildV, keys, owner, libraryV, timerV, counterV, inV, agentV, outV, writeV>>

\* The end of doRecv().
RecvFinal ==
    /\ recvPc = "final" /\ recvPc' = "return"
    /\ dState' = IF dState = "Connected" THEN "Disconnected" ELSE "Failed"
    /\ dEnded' = IF dState = "Connected" THEN dEnded + 1 ELSE dEnded
    /\ UNCHANGED <<buildV, keys, owner, delivered, refused, libraryV, timerV, counterV, inV, agentV, writeV>>

\* sendMedia(), which a track calls once the connection is announced.
SendMedia ==
    /\ srtp # "none" /\ dState = "Connected" /\ ~keys
    /\ refused' = TRUE
    /\ UNCHANGED <<buildV, dState, recvPc, keys, owner, libraryV, timerV, counterV, inV, agentV, delivered, dEnded, writeV>>

\* outgoing(): what the transport below returned is left in mOutgoingResult.
Outgoing(r) == r

\* send(): the record is written with the mutex of the library held.
SendRecord(w) ==
    /\ topic = "send" /\ dState = "Connected" /\ writer[w] = Resting /\ misread = "no"
    /\ \E r \in BOOLEAN :
          /\ result' = Outgoing(r)
          /\ writer' = [v \in Writers |-> IF v = w THEN <<"return", r, FALSE>>
                                          ELSE IF writer[v] = Resting THEN Resting ELSE <<"return", writer[v][2], TRUE>>]
    /\ UNCHANGED <<buildV, dState, recvPc, keys, owner, libraryV, timerV, counterV, inV, agentV, outV, misread>>

\* send() returns mOutgoingResult, without the mutex.
SendReturns(w) ==
    /\ writer[w] # Resting
    /\ misread' = IF result = writer[w][2] THEN misread ELSE IF writer[w][3] THEN "crossed" ELSE "alone"
    /\ writer' = [writer EXCEPT ![w] = Resting]
    /\ UNCHANGED <<buildV, dState, recvPc, keys, owner, libraryV, timerV, counterV, inV, agentV, outV, result>>

DtlsLibrary == AgentCheck \/ AgentEnqueue \/ OwnerCheck \/ OwnerEnqueue \/ DtlsPush
               \/ JobStart \/ RecvEmpty \/ RecvReturn \/ RecvPacket \/ PostHandshake \/ Announce \/ RecvFinal
DtlsNext == DtlsLibrary \/ Deadline \/ TimerFires \/ DtlsStart \/ DtlsStop \/ DtlsArrive \/ SendMedia
            \/ \E w \in Writers : SendRecord(w) \/ SendReturns(w)

DtlsSpec == DtlsInit /\ [][DtlsNext]_dtlsVars
            /\ WF_dtlsVars(DtlsLibrary) /\ WF_dtlsVars(Deadline) /\ WF_dtlsVars(TimerFires)

-----------------------------------------------------------------------------
DtlsTypeOK ==
    /\ backend \in Backends /\ dState \in {"Disconnected", "Connecting", "Connected", "Failed"}
    /\ dPending \in Int /\ {dJobs, fresh, stale} \subseteq Nat /\ missing \in 0..Flights /\ tries \in 0..MaxTries

\* When everything is at rest no packet waits, although timers make the counter
\* wrong: it never counts a job that is not there.  With OpenSSL the last records
\* of a packet with several wait in the library for a next packet.
DtlsNoneWaiting ==
    dJobs = 0 /\ recvPc = "idle" /\ agent = "idle" /\ owner \in {"idle", "done"} /\ DtlsActive =>
        dQueue = <<>> /\ (held # <<>> => backend = "openssl")

\* Records reach the transport above in order and once.  An established connection
\* calls recv(nullptr) once, and a job or a timer that comes late does not make it
\* Failed.
RecordsInOrder ==
    /\ IsPrefix(delivered, brought)
    /\ dEnded <= 1 /\ (dEnded = 1 => dState = "Disconnected")

\* Where OpenSSL is used, media sent once the connection is announced is accepted;
\* the other builds announce it before they have the keys.
KeysBeforeConnected == refused => backend # "openssl"

\* A send() that no other crosses returns the result of its own packet; one that
\* another crosses may return the other's.
OwnResult == misread # "alone"

\* Whatever is lost, a handshake succeeds or fails: a timer is always scheduled.
HandshakeSettles == (topic = "receive" /\ dState = "Connecting") ~> (dState # "Connecting")

\* stop() ends the connection.
DtlsStopEnds == (owner = "done") ~> ~DtlsActive

\* Timers, jobs, senders and the thread below in one DTLS transport: every packet
\* has a job, records keep their order, the keys come before Connected where the
\* build promises it, and a sender gets the result of its own packet.
DtlsInv == DtlsNoneWaiting /\ RecordsInOrder /\ KeysBeforeConnected /\ OwnResult
=============================================================================
