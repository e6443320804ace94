-------------------------------- MODULE Quic --------------------------------
(***************************************************************************)
(* QuicTransport and QuicDataChannel: the send queue and the counter that   *)
(* decides whether a flush is enqueued, the connection and the streams as   *)
(* the callbacks of lsquic report them, the two maps of streams, and a      *)
(* channel that application threads open, use and close.  lsquic is         *)
(* external; connect() is a stub, so that the transport is Connected before *)
(* there is a connection.                                                   *)
(***************************************************************************)
EXTENDS Naturals, Sequences, SequencesExt, FiniteSets

CONSTANTS NMessages,  \* messages the application sends
          IdSpace     \* 2^16, the values of nextStreamId

ASSUME QuicConstants == NMessages \in Nat /\ IdSpace \in Nat \ {0}

AppThreads == {1, 2}
Handles == 1..(NMessages + 1)

VARIABLES
    qState,      \* Transport::mState
    conn,        \* mConnCtx->conn is set
    qQueue,      \* mSendQueue
    flushCount,  \* mPendingFlushCount
    flushJobs,   \* flush jobs in the processor
    flush,       \* the job that runs
    app,         \* the step of each application thread in send()
    pushed,      \* messages queued, in order
    qSent,       \* messages given to lsquic, in order
    met,         \* ghost: a send found the counter above zero
    kept,        \* ghost: the last flush left messages, for want of a connection
    chan,        \* the channel: "new", "open" or "closed"
    late,        \* ghost: a closed channel sent
    making,      \* streams asked for and not reported yet
    made,        \* streams reported so far
    streamIds,   \* the map from identifiers to streams
    streams,     \* the map from streams to identifiers
    gone,        \* streams that the peer ended
    closed,      \* streams that closeStream() ended
    twice        \* ghost: closeStream() used a stream of its own again

queueV  == <<qQueue, pushed>>
flushV  == <<flushCount, flushJobs, flush, qSent, met, kept>>
chanV   == <<chan, late>>
streamV == <<making, made, streamIds, streams, gone, closed, twice>>
quicVars == <<qState, conn, app, queueV, flushV, chanV, streamV>>

None == 0

QuicInit ==
    /\ qState = "Disconnected" /\ conn = FALSE /\ qQueue = <<>> /\ pushed = <<>>
    /\ flushCount = 0 /\ flushJobs = 0 /\ flush = "idle" /\ qSent = <<>> /\ met = FALSE /\ kept = FALSE
    /\ app = [t \in AppThreads |-> "idle"] /\ chan = "new" /\ late = FALSE
    /\ making = 0 /\ made = 0
    /\ streamIds = [i \in 0..(IdSpace - 1) |-> None] /\ streams = [h \in Handles |-> IdSpace]
    /\ gone = {} /\ closed = {} /\ twice = FALSE

-----------------------------------------------------------------------------
(* The connection. *)

\* start(): Connecting, and connect() makes it Connected.
QuicStart ==
    /\ qState = "Disconnected" /\ ~conn /\ qState' = "Connected"
    /\ UNCHANGED <<conn, app, queueV, flushV, chanV, streamV>>

\* on_new_conn() and on_hsk_done()
NewConn ==
    /\ ~conn /\ conn' = TRUE /\ qState' = "Connected"
    /\ UNCHANGED <<app, queueV, flushV, chanV, streamV>>

HskFailed ==
    /\ conn /\ qState = "Connected" /\ qSent = <<>> /\ qState' = "Failed"
    /\ UNCHANGED <<conn, app, queueV, flushV, chanV, streamV>>

\* on_conn_closed(), and stop(): the pointer to the connection stays.
ConnEnds ==
    /\ qState = "Connected" /\ conn /\ qState' = "Disconnected"
    /\ UNCHANGED <<conn, app, queueV, flushV, chanV, streamV>>

-----------------------------------------------------------------------------
(* QuicDataChannel: mMutex is shared by outgoing(), exclusive for the rest. *)

Unlocked == \A t \in AppThreads : app[t] = "idle"

\* open(), also by processOpenMessage() of an incoming channel: a closed channel
\* opens again.
ChanOpen ==
    /\ Unlocked /\ chan # "open" /\ chan' = "open"
    /\ UNCHANGED <<qState, conn, app, queueV, flushV, late, streamV>>

\* Whether close() gets mMutex.
Unshared == Unlocked

\* closeStream(): the stream is closed, and goes out of both maps.
CloseStream(i) ==
    IF streamIds[i] = None THEN UNCHANGED streamV
    ELSE /\ twice' = (twice \/ streamIds[i] \in closed)
         /\ closed' = closed \cup {streamIds[i]}
         /\ streams' = [streams EXCEPT ![streamIds[i]] = IdSpace]
         /\ streamIds' = [streamIds EXCEPT ![i] = None]
         /\ UNCHANGED <<making, made, gone>>

\* close() of a channel with stream i.
ChanClose(i) ==
    /\ Unshared /\ chan = "open" /\ chan' = "closed" /\ CloseStream(i)
    /\ UNCHANGED <<qState, conn, app, queueV, flushV, late>>

\* outgoing(): an open channel sends.
OutgoingBegins(t) ==
    /\ app[t] = "idle" /\ chan = "open" /\ Len(pushed) + Cardinality({u \in AppThreads : app[u] = "push"}) < NMessages
    /\ app' = [app EXCEPT ![t] = "push"]
    /\ UNCHANGED <<qState, conn, queueV, flushV, chanV, streamV>>

\* send(): nothing is queued without a connection.
SendPush(t) ==
    /\ app[t] = "push"
    /\ IF qState = "Connected"
       THEN /\ app' = [app EXCEPT ![t] = "count"] /\ late' = (late \/ chan = "closed")
            /\ pushed' = Append(pushed, Len(pushed) + 1) /\ qQueue' = Append(qQueue, Len(pushed) + 1)
       ELSE app' = [app EXCEPT ![t] = "idle"] /\ UNCHANGED <<queueV, late>>
    /\ UNCHANGED <<qState, conn, chan, flushV, streamV>>

Mut_EnqueueFlush(t) ==
    /\ app[t] = "count" /\ app' = [app EXCEPT ![t] = "idle"]
    /\ flushCount' = flushCount + 1 /\ flushJobs' = IF flushCount = 1 THEN flushJobs + 1 ELSE flushJobs
    /\ met' = (met \/ flushCount > 0)
    /\ UNCHANGED <<qState, conn, flush, qSent, kept, queueV, chanV, streamV>>

\* enqueueFlush(): only who makes the counter one enqueues a job.
EnqueueFlush(t) ==
    /\ app[t] = "count" /\ app' = [app EXCEPT ![t] = "idle"]
    /\ flushCount' = flushCount + 1 /\ flushJobs' = IF flushCount = 0 THEN flushJobs + 1 ELSE flushJobs
    /\ met' = (met \/ flushCount > 0)
    /\ UNCHANGED <<qState, conn, flush, qSent, kept, queueV, chanV, streamV>>

-----------------------------------------------------------------------------
(* The flush job of the processor: trySendQueue(). *)

FlushBegins ==
    /\ flush = "idle" /\ flushJobs > 0 /\ flush' = "send" /\ flushJobs' = flushJobs - 1
    /\ UNCHANGED <<qState, conn, app, flushCount, qSent, met, kept, queueV, chanV, streamV>>

\* trySendMessage(): a new stream for each message.
FlushSends ==
    /\ flush = "send" /\ qQueue # <<>> /\ conn
    /\ qSent' = Append(qSent, Head(qQueue)) /\ qQueue' = Tail(qQueue) /\ making' = making + 1
    /\ UNCHANGED <<qState, conn, app, pushed, flushCount, flushJobs, flush, met, kept, chanV, made, streamIds, streams, gone, closed, twice>>

FlushStops ==
    /\ flush = "send" /\ (qQueue = <<>> \/ ~conn) /\ flush' = "count" /\ kept' = (qQueue # <<>>)
    /\ UNCHANGED <<qState, conn, app, flushCount, flushJobs, qSent, met, queueV, chanV, streamV>>

\* The job takes away one, however many sends added one meanwhile.
FlushEnds ==
    /\ flush = "count" /\ flush' = "idle" /\ flushCount' = flushCount - 1
    /\ UNCHANGED <<qState, conn, app, flushJobs, qSent, met, kept, queueV, chanV, streamV>>

-----------------------------------------------------------------------------
(* The callbacks for streams. *)

\* nextStreamId, 16 bits.
NextId == made % IdSpace

\* on_new_stream(): both maps get an entry, the identifiers start again at zero.
NewStream ==
    /\ making > 0 /\ making' = making - 1 /\ made' = made + 1
    /\ streamIds' = [streamIds EXCEPT ![NextId] = made + 1]
    /\ streams' = [streams EXCEPT ![made + 1] = NextId]
    /\ UNCHANGED <<qState, conn, app, queueV, flushV, chanV, gone, closed, twice>>

\* on_stream_close(), for a stream the peer ends: the maps keep their entries.
StreamCloses(h) ==
    /\ h <= made /\ h \notin gone \cup closed /\ gone' = gone \cup {h}
    /\ UNCHANGED <<qState, conn, app, queueV, flushV, chanV, making, made, streamIds, streams, closed, twice>>

QuicLibrary == FlushBegins \/ FlushSends \/ FlushStops \/ FlushEnds \/ NewStream
               \/ \E t \in AppThreads : SendPush(t) \/ EnqueueFlush(t)
QuicNext == QuicLibrary \/ QuicStart \/ NewConn \/ HskFailed \/ ConnEnds \/ ChanOpen
            \/ (\E i \in 0..(IdSpace - 1) : ChanClose(i)) \/ (\E t \in AppThreads : OutgoingBegins(t))
            \/ \E h \in Handles : StreamCloses(h)

QuicSpec == QuicInit /\ [][QuicNext]_quicVars

-----------------------------------------------------------------------------
QuicTypeOK ==
    /\ qState \in {"Disconnected", "Connected", "Failed"} /\ conn \in BOOLEAN
    /\ {flushCount, flushJobs, making} \subseteq Nat /\ streamIds \in [0..(IdSpace - 1) -> Handles \cup {None}]
    /\ chan \in {"new", "open", "closed"} /\ gone \cap closed \subseteq Handles

\* Messages leave in the order in which they were queued, each once.
QuicOrder == IsPrefix(qSent, pushed) /\ qSent \o qQueue = pushed

\* A queued message is waited for by a job, unless the last flush found no
\* connection, or a send met another send's flush: then the counter stays above
\* zero, and nothing is sent any more.
QuicNoneStranded ==
    flushJobs = 0 /\ flush = "idle" /\ (\A t \in AppThreads : app[t] # "count") /\ qQueue # <<>> => met \/ kept

\* A channel that close() has closed queues nothing, unless it is opened again.
ClosedSilent == ~late

\* The two maps agree, until the identifiers start again.
MapsAgree ==
    made <= IdSpace => \A i \in 0..(IdSpace - 1), h \in Handles : (streamIds[i] = h) = (streams[h] = i)

\* closeStream() closes no stream twice; a stream that the peer ended stays in the
\* maps, and is used after it is gone.
ClosedOnce == ~twice

\* Senders, the flush job and the callbacks of lsquic: order is kept, nothing is
\* stranded unless sends overlapped, a closed channel is silent and closed once, and the
\* maps of streams agree until the numbers run out.
QuicInv == QuicOrder /\ QuicNoneStranded /\ ClosedSilent /\ MapsAgree /\ ClosedOnce
=============================================================================
