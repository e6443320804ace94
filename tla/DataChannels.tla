---------------------------- MODULE DataChannels ----------------------------
(***************************************************************************)
(* Data channels of two connected peers: src/src/impl/datachannel.cpp and  *)
(* the tables of src/src/impl/peerconnection.cpp, on top of an SCTP        *)
(* association that keeps the order within a stream (SctpTransport).       *)
(*                                                                         *)
(* Every channel c has two ends: <<c, "out">> at the peer whose            *)
(* application creates it and <<c, "in">> at the other one, which the open *)
(* message creates.  At each peer run: application threads in              *)
(* createDataChannel(), close() and send(); the SCTP thread, which runs    *)
(* the callback of the Connected state and then delivers messages; and the *)
(* PeerConnection's Processor, which opens the channels.  mDataChannelsMutex *)
(* makes each pass over the tables atomic, and no more than that.          *)
(***************************************************************************)
EXTENDS Naturals, Sequences, FiniteSets

CONSTANTS
    Chans,
    Creator,        \* Creator[c]: the peer that creates c
    MaxStream,      \* maxDataChannelStream()
    MayClose,       \* the ends applications may close, ...
    MaySend,        \* ... and those they may send a message on
    NoEnd, NoChan

ASSUME MaxStreamAssumption == MaxStream \in Nat
ASSUME NoChanAssumption == NoChan \notin Chans

Peers == {"A", "B"}
Other(p) == IF p = "A" THEN "B" ELSE "A"
ChannelStreams == 0 .. MaxStream
NoStream == MaxStream + 1
Ends == Chans \X {"out", "in"}
Peer(e) == IF e[2] = "out" THEN Creator[e[1]] ELSE Other(Creator[e[1]])

(* assignDataChannels: the Active side takes even streams.                   *)
Parity(p) == IF p = "A" THEN 0 ELSE 1

ASSUME CreatorAssumption == Creator \in [Chans -> Peers]
ASSUME NoEndAssumption == NoEnd \notin Ends \union (Chans \X {"emplaced", "assigned"})

VARIABLES
    sctp,       \* sctp[p]: the state of the SctpTransport
    callback,   \* callback[p]: where its thread is in the Connected callback
    job,        \* job[p]: where the job openDataChannels is
    todo,       \* todo[p]: the ends it has still to open
    creating,   \* creating[p]: the channel createDataChannel() is at, and where
    mUnassignedDataChannels,
    mDataChannels,  \* mDataChannels[p][s]: the end at stream s
    end,        \* the DataChannel objects
    closing,    \* closing[e]: where an application thread is in close()
    sending,    \* sending[e]: where an application thread is in send()
    wire,       \* wire[p][s]: the messages towards p on stream s
    received,   \* received[e]: the channels whose data was put in e's queue
    appClosed,  \* the channels some application closed
    anomalies   \* history: the races and failures that happened

channelsVars == <<sctp, callback, job, todo, creating, mUnassignedDataChannels, mDataChannels, end,
          closing, sending, wire, received, appClosed, anomalies>>

tables == <<mUnassignedDataChannels, mDataChannels>>
threads == <<callback, job, todo, creating, closing, sending>>

WireMessage == [type : {"OPEN", "ACK", "DATA", "RESET"}, chan : Chans \union {NoChan}]
End == [created : BOOLEAN, destroyed : BOOLEAN, opening : BOOLEAN, open : BOOLEAN,
        closed : BOOLEAN, transport : BOOLEAN, stream : ChannelStreams \union {NoStream}]
Anomalies == {"doubleOpen", "openDuringClose", "sendAfterClose", "tooMany"}

ChannelsTypeOK ==
    /\ sctp \in [Peers -> {"Connecting", "Connected"}]
    /\ callback \in [Peers -> {"idle", "assign", "done"}]
    /\ job \in [Peers -> {"none", "queued", "running", "done"}]
    /\ todo \in [Peers -> SUBSET Ends]
    /\ creating \in [Peers -> (Chans \X {"emplaced", "assigned"}) \union {NoEnd}]
    /\ mUnassignedDataChannels \in [Peers -> Seq(Chans)]
    /\ mDataChannels \in [Peers -> [ChannelStreams -> Ends \union {NoEnd}]]
    /\ end \in [Ends -> End]
    /\ closing \in [Ends -> {"no", "without", "with", "done"}]
    /\ sending \in [Ends -> {"no", "checked", "done"}]
    /\ wire \in [Peers -> [ChannelStreams -> Seq(WireMessage)]]
    /\ received \in [Ends -> SUBSET Chans]
    /\ appClosed \subseteq Chans
    /\ anomalies \subseteq Anomalies

NewEnd == [created |-> FALSE, destroyed |-> FALSE, opening |-> FALSE, open |-> FALSE,
           closed |-> FALSE, transport |-> FALSE, stream |-> NoStream]

ChannelsInit ==
    /\ sctp = [p \in Peers |-> "Connecting"]
    /\ callback = [p \in Peers |-> "idle"]
    /\ job = [p \in Peers |-> "none"]
    /\ todo = [p \in Peers |-> {}]
    /\ creating = [p \in Peers |-> NoEnd]
    /\ mUnassignedDataChannels = [p \in Peers |-> <<>>]
    /\ mDataChannels = [p \in Peers |-> [s \in ChannelStreams |-> NoEnd]]
    /\ end = [e \in Ends |-> NewEnd]
    /\ closing = [e \in Ends |-> "no"]
    /\ sending = [e \in Ends |-> "no"]
    /\ wire = [p \in Peers |-> [s \in ChannelStreams |-> <<>>]]
    /\ received = [e \in Ends |-> {}]
    /\ appClosed = {}
    /\ anomalies = {}

-----------------------------------------------------------------------------

(* The association takes a message from peer p on stream s.                  *)
Put(w, p, s, type, c) ==
    [w EXCEPT ![Other(p)][s] = Append(@, [type |-> type, chan |-> c])]

(* The n-th of a set of numbers.                                             *)
Nth(S, n) == CHOOSE s \in S : Cardinality({r \in S : r < s}) = n - 1

(* assignDataChannels, with mDataChannelsMutex: the channels get the lowest  *)
(* free streams of the right parity, in order, until one already has a       *)
(* stream or there is none left, which throws and keeps the list as it is.   *)
Free(p) == {s \in ChannelStreams : s % 2 = Parity(p) /\ mDataChannels[p][s] = NoEnd}

(* The list without the channels that are gone (their weak_ptr is expired),  *)
(* if there are any.                                                         *)
Kept(p) == {i \in DOMAIN mUnassignedDataChannels[p] : ~end[<<mUnassignedDataChannels[p][i], "out">>].destroyed}
Alive(p) == IF Kept(p) = DOMAIN mUnassignedDataChannels[p] THEN mUnassignedDataChannels[p]
            ELSE [n \in 1 .. Cardinality(Kept(p)) |-> mUnassignedDataChannels[p][Nth(Kept(p), n)]]

AssignStops(p, i) ==
    \/ i = Len(Alive(p)) + 1
    \/ end[<<Alive(p)[i], "out">>].stream # NoStream
    \/ i > Cardinality(Free(p))

Assigned(p) == (CHOOSE i \in 1 .. Len(Alive(p)) + 1 :
                    AssignStops(p, i) /\ \A k \in 1 .. i - 1 : ~AssignStops(p, k)) - 1

AssignThrows(p) == Assigned(p) < Len(Alive(p))

(* The streams the channels get, and then the objects and tables.            *)
Gets(p) == [i \in 1 .. Assigned(p) |-> Nth(Free(p), i)]

EndsAssigned(p) ==
    [e \in Ends |->
        IF \E i \in DOMAIN Gets(p) : e = <<Alive(p)[i], "out">>
        THEN [end[e] EXCEPT !.stream = Gets(p)[CHOOSE i \in DOMAIN Gets(p) : e[1] = Alive(p)[i]]]
        ELSE end[e]]

assignDataChannels(p) ==
    /\ mUnassignedDataChannels' =
         [mUnassignedDataChannels EXCEPT ![p] = IF AssignThrows(p) THEN @ ELSE <<>>]
    /\ mDataChannels' =
         [mDataChannels EXCEPT ![p] =
            [s \in ChannelStreams |->
                IF \E i \in DOMAIN Gets(p) : Gets(p)[i] = s
                THEN <<Alive(p)[CHOOSE i \in DOMAIN Gets(p) : Gets(p)[i] = s], "out">>
                ELSE @[s]]]

(* OutgoingDataChannel::open: sends the open message without looking whether *)
(* it was sent or the channel was closed.                                    *)
OpenOut(e) ==
    /\ end' = [end EXCEPT ![e].transport = TRUE, ![e].opening = TRUE]
    /\ wire' = Put(wire, Peer(e), end[e].stream, "OPEN", e[1])
    /\ anomalies' = anomalies \union (IF end[e].opening THEN {"doubleOpen"} ELSE {})
                              \union (IF end[e].closed \/ closing[e] = "without"
                                      THEN {"openDuringClose"} ELSE {})

(* DataChannel::close with the transport read before: at most one thread     *)
(* resets the stream.                                                        *)
CloseWire(w, e, transport) ==
    IF ~end[e].closed /\ transport /\ end[e].stream # NoStream
    THEN Put(w, Peer(e), end[e].stream, "RESET", NoChan) ELSE w

-----------------------------------------------------------------------------

(* emplaceDataChannel, first part: the channel waits for a stream.           *)
Create(c) ==
    LET p == Creator[c] IN
    /\ ~end[<<c, "out">>].created
    /\ creating[p] = NoEnd
    /\ end' = [end EXCEPT ![<<c, "out">>].created = TRUE]
    /\ mUnassignedDataChannels' = [mUnassignedDataChannels EXCEPT ![p] = Append(@, c)]
    /\ creating' = [creating EXCEPT ![p] = <<c, "emplaced">>]
    /\ UNCHANGED <<sctp, callback, job, todo, mDataChannels, closing, sending, wire, received,
                   appClosed, anomalies>>

(* Second part: nothing more to do before SCTP is connected; ...             *)
CreateReturns(p) ==
    /\ creating[p] # NoEnd /\ creating[p][2] = "emplaced"
    /\ sctp[p] # "Connected"
    /\ creating' = [creating EXCEPT ![p] = NoEnd]
    /\ UNCHANGED <<sctp, callback, job, todo, tables, end, closing, sending, wire, received,
                   appClosed, anomalies>>

(* ... otherwise streams are assigned; an exception drops the new channel, ...*)
CreateAssigns(p) ==
    /\ creating[p] # NoEnd /\ creating[p][2] = "emplaced"
    /\ sctp[p] = "Connected"
    /\ assignDataChannels(p)
    /\ LET e == <<creating[p][1], "out">> IN
       \/ /\ ~AssignThrows(p)
          /\ end' = EndsAssigned(p)
          /\ creating' = [creating EXCEPT ![p] = <<creating[p][1], "assigned">>]
          /\ UNCHANGED anomalies
       \/ /\ AssignThrows(p)
          /\ end' = [EndsAssigned(p) EXCEPT ![e].destroyed = TRUE, ![e].closed = TRUE]
          /\ creating' = [creating EXCEPT ![p] = NoEnd]
          /\ anomalies' = anomalies \union {"tooMany"}
    /\ UNCHANGED <<sctp, callback, job, todo, closing, sending, wire, received, appClosed>>

(* ... and the channel is opened.                                            *)
CreateOpens(p) ==
    /\ creating[p] # NoEnd /\ creating[p][2] = "assigned"
    /\ OpenOut(<<creating[p][1], "out">>)
    /\ creating' = [creating EXCEPT ![p] = NoEnd]
    /\ UNCHANGED <<sctp, callback, job, todo, tables, closing, sending, received, appClosed>>

(* The association comes up: the state is changed and then its callback runs.*)
Connected(p) ==
    /\ sctp[p] = "Connecting"
    /\ sctp' = [sctp EXCEPT ![p] = "Connected"]
    /\ callback' = [callback EXCEPT ![p] = "assign"]
    /\ UNCHANGED <<job, todo, creating, tables, end, closing, sending, wire, received,
                   appClosed, anomalies>>

Mut_ConnectedCallbackNoJob(p) ==
    /\ callback[p] = "assign"
    /\ callback' = [callback EXCEPT ![p] = "done"]
    /\ assignDataChannels(p)
    /\ end' = EndsAssigned(p)
    /\ UNCHANGED <<job, anomalies>>
    /\ UNCHANGED <<sctp, todo, creating, closing, sending, wire, received, appClosed>>

(* The callback: an exception leaves it before the job is enqueued.          *)
ConnectedCallback(p) ==
    /\ callback[p] = "assign"
    /\ callback' = [callback EXCEPT ![p] = "done"]
    /\ assignDataChannels(p)
    /\ end' = EndsAssigned(p)
    /\ \/ /\ ~AssignThrows(p)
          /\ job' = [job EXCEPT ![p] = "queued"]
          /\ UNCHANGED anomalies
       \/ /\ AssignThrows(p)
          /\ anomalies' = anomalies \union {"tooMany"}
          /\ UNCHANGED job
    /\ UNCHANGED <<sctp, todo, creating, closing, sending, wire, received, appClosed>>

(* The job openDataChannels: iterateDataChannels takes the channels that are *)
(* not closed, ...                                                           *)
JobBegins(p) ==
    /\ job[p] = "queued"
    /\ job' = [job EXCEPT ![p] = "running"]
    /\ todo' = [todo EXCEPT ![p] = {e \in {mDataChannels[p][s] : s \in ChannelStreams} \ {NoEnd} :
                                       ~end[e].closed /\ ~end[e].destroyed}]
    /\ UNCHANGED <<sctp, callback, creating, tables, end, closing, sending, wire, received,
                   appClosed, anomalies>>

(* ... and opens each that is not open by then; an incoming one ignores it.  *)
JobOpens(p) == \E e \in todo[p] :
    /\ todo' = [todo EXCEPT ![p] = @ \ {e}]
    /\ \/ /\ e[2] = "out" /\ ~(end[e].open /\ ~end[e].closed)
          /\ OpenOut(e)
       \/ /\ e[2] = "in" \/ (end[e].open /\ ~end[e].closed)
          /\ UNCHANGED <<end, wire, anomalies>>
    /\ UNCHANGED <<sctp, callback, job, creating, tables, closing, sending, received, appClosed>>

JobEnds(p) ==
    /\ job[p] = "running" /\ todo[p] = {}
    /\ job' = [job EXCEPT ![p] = "done"]
    /\ UNCHANGED <<sctp, callback, todo, creating, tables, end, closing, sending, wire, received,
                   appClosed, anomalies>>

-----------------------------------------------------------------------------

(* forwardMessage on the SCTP thread: the message m on stream s of peer p.   *)
Used(p, s) == mDataChannels[p][s] # NoEnd

(* An open message on an unused stream makes an incoming channel, which      *)
(* answers it and is open (both peers run this code, so the stream is of the *)
(* right parity); ...                                                        *)
ForwardOpen(p, s, m, w) ==
    /\ m.type = "OPEN" /\ ~Used(p, s)
    /\ LET e == <<m.chan, "in">> IN
          /\ end' = [end EXCEPT ![e] = [NewEnd EXCEPT !.created = TRUE, !.open = TRUE,
                                                      !.transport = TRUE, !.stream = s]]
          /\ mDataChannels' = [mDataChannels EXCEPT ![p][s] = e]
    /\ wire' = Put(w, p, s, "ACK", m.chan)
    /\ UNCHANGED received

(* ... on a used one it closes the channel, or the stream if it was closed.  *)
ForwardOpenUsed(p, s, m, w) ==
    /\ m.type = "OPEN" /\ Used(p, s)
    /\ LET e == mDataChannels[p][s] IN
          /\ end' = [end EXCEPT ![e].closed = TRUE]
          /\ wire' = IF end[e].closed THEN Put(w, p, s, "RESET", NoChan)
                     ELSE CloseWire(w, e, end[e].transport)
    /\ UNCHANGED <<mDataChannels, received>>

(* Anything else on an unused stream resets it, except a reset.              *)
ForwardUnexpected(p, s, m, w) ==
    /\ m.type # "OPEN" /\ ~Used(p, s)
    /\ wire' = IF m.type = "RESET" THEN w ELSE Put(w, p, s, "RESET", NoChan)
    /\ UNCHANGED <<mDataChannels, end, received>>

(* A reset frees the stream and closes the channel, which resets it in turn. *)
ForwardReset(p, s, m, w) ==
    /\ m.type = "RESET" /\ Used(p, s)
    /\ LET e == mDataChannels[p][s] IN
          /\ end' = [end EXCEPT ![e].closed = TRUE]
          /\ wire' = CloseWire(w, e, end[e].transport)
    /\ mDataChannels' = [mDataChannels EXCEPT ![p][s] = NoEnd]
    /\ UNCHANGED received

(* DataChannel::incoming of an acknowledgement or of data.                   *)
ForwardIncoming(p, s, m, w) ==
    /\ m.type \in {"ACK", "DATA"} /\ Used(p, s)
    /\ wire' = w
    /\ LET e == mDataChannels[p][s] IN
       \/ /\ end[e].closed
          /\ UNCHANGED <<end, received>>
       \/ /\ ~end[e].closed /\ m.type = "ACK"
          /\ end' = [end EXCEPT ![e].open = TRUE]
          /\ UNCHANGED received
       \/ /\ ~end[e].closed /\ m.type = "DATA"
          /\ received' = [received EXCEPT ![e] = @ \union {m.chan}]
          /\ UNCHANGED end
    /\ UNCHANGED mDataChannels

Deliver(p, s) ==
    /\ callback[p] = "done"
    /\ wire[p][s] # <<>>
    /\ LET m == Head(wire[p][s])
           w == [wire EXCEPT ![p][s] = Tail(@)]
       IN  \/ ForwardOpen(p, s, m, w)
           \/ ForwardOpenUsed(p, s, m, w)
           \/ ForwardUnexpected(p, s, m, w)
           \/ ForwardReset(p, s, m, w)
           \/ ForwardIncoming(p, s, m, w)
    /\ UNCHANGED <<sctp, threads, mUnassignedDataChannels, appClosed, anomalies>>

-----------------------------------------------------------------------------

(* The application has the object: createDataChannel() returned it or        *)
(* onDataChannel was called with it.                                         *)
Given(e) ==
    /\ end[e].created /\ ~end[e].destroyed
    /\ e[2] = "out" => creating[Peer(e)] \notin {<<e[1], "emplaced">>, <<e[1], "assigned">>}

(* DataChannel::close: the transport is read, ...                            *)
CloseBegins(e) ==
    /\ e \in MayClose /\ Given(e)
    /\ closing[e] = "no"
    /\ closing' = [closing EXCEPT ![e] = IF end[e].transport THEN "with" ELSE "without"]
    /\ appClosed' = appClosed \union {e[1]}
    /\ UNCHANGED <<sctp, callback, job, todo, creating, tables, end, sending, wire, received,
                   anomalies>>

Mut_CloseEndsFreesStream(e) ==
    /\ closing[e] \in {"with", "without"}
    /\ end' = [end EXCEPT ![e].closed = TRUE]
    /\ wire' = CloseWire(wire, e, closing[e] = "with")
    /\ closing' = [closing EXCEPT ![e] = "done"]
    /\ mDataChannels' = [mDataChannels EXCEPT ![Peer(e)] =
                            [s \in ChannelStreams |-> IF @[s] = e THEN NoEnd ELSE @[s]]]
    /\ UNCHANGED <<sctp, callback, job, todo, creating, mUnassignedDataChannels, sending,
                   received, appClosed, anomalies>>

(* ... and then the channel closed and the stream reset.                     *)
CloseEnds(e) ==
    /\ closing[e] \in {"with", "without"}
    /\ end' = [end EXCEPT ![e].closed = TRUE]
    /\ wire' = CloseWire(wire, e, closing[e] = "with")
    /\ closing' = [closing EXCEPT ![e] = "done"]
    /\ UNCHANGED <<sctp, callback, job, todo, creating, tables, sending, received, appClosed,
                   anomalies>>

(* DataChannel::outgoing: the conditions are tested with mMutex, ...         *)
SendBegins(e) ==
    /\ e \in MaySend /\ Given(e)
    /\ sending[e] = "no"
    /\ ~end[e].closed /\ end[e].transport /\ end[e].stream # NoStream
    /\ sending' = [sending EXCEPT ![e] = "checked"]
    /\ UNCHANGED <<sctp, callback, job, todo, creating, tables, end, closing, wire, received,
                   appClosed, anomalies>>

(* ... and the message is sent without it.                                   *)
SendEnds(e) ==
    /\ sending[e] = "checked"
    /\ sending' = [sending EXCEPT ![e] = "done"]
    /\ wire' = Put(wire, Peer(e), end[e].stream, "DATA", e[1])
    /\ anomalies' = anomalies \union (IF end[e].closed THEN {"sendAfterClose"} ELSE {})
    /\ UNCHANGED <<sctp, callback, job, todo, creating, tables, end, closing, received,
                   appClosed>>

Library(p) ==
    \/ CreateReturns(p) \/ CreateAssigns(p) \/ CreateOpens(p)
    \/ ConnectedCallback(p)
    \/ JobBegins(p) \/ JobOpens(p) \/ JobEnds(p)

(* Nobody sent an open message twice or during the close(), nor data after   *)
(* it.                                                                       *)
NoRace == anomalies \subseteq {"tooMany"}

ChannelsNext ==
    \/ \E c \in Chans : Create(c)
    \/ \E p \in Peers : Connected(p) \/ Library(p) \/ \E s \in ChannelStreams : Deliver(p, s)
    \/ \E e \in Ends : CloseBegins(e) \/ CloseEnds(e) \/ SendBegins(e) \/ SendEnds(e)

(* Threads that entered the library go on, and the association delivers.     *)
(* Nobody has to create, close or send, and it may never come up.            *)
ChannelsFairness ==
    /\ \A p \in Peers :
          /\ WF_channelsVars((CreateReturns(p) \/ CreateAssigns(p) \/ CreateOpens(p)))
          /\ WF_channelsVars(ConnectedCallback(p))
          /\ WF_channelsVars((JobBegins(p) \/ JobOpens(p) \/ JobEnds(p)))
          /\ \A s \in ChannelStreams : WF_channelsVars(Deliver(p, s))
    /\ \A e \in Ends : WF_channelsVars(CloseEnds(e)) /\ WF_channelsVars(SendEnds(e))

ChannelsSpec == ChannelsInit /\ [][ChannelsNext]_channelsVars /\ ChannelsFairness

-----------------------------------------------------------------------------

(* Two ends of a peer that are not closed never have the same stream, each   *)
(* end that has a stream and is in use is in the table at that stream, and   *)
(* the peers only take streams of their own parity: whatever races happen.   *)
StreamsDistinct ==
    /\ ChannelsTypeOK
    /\ \A e, f \in Ends :
          /\ e # f /\ Peer(e) = Peer(f) /\ end[e].stream = end[f].stream
          /\ end[e].stream # NoStream
          => end[e].closed \/ end[f].closed
    /\ \A e \in Ends : end[e].stream # NoStream /\ ~end[e].closed =>
          /\ mDataChannels[Peer(e)][end[e].stream] = e
          /\ end[e].stream % 2 = Parity(Creator[e[1]])

(* Data never reaches another channel than the one it was sent on, although  *)
(* streams are used again, unless the channel was opened or sent on while it *)
(* was closed.                                                               *)
NoCrossTalk ==
    NoRace => \A e \in Ends : received[e] \subseteq {e[1]}

(* A channel is closed only if one of the applications closed it: neither    *)
(* createDataChannel() nor openDataChannels() makes the peer reset it.       *)
ClosedOnlyByApp ==
    \A e \in Ends : end[e].closed /\ ~end[e].destroyed => e[1] \in appClosed

(* The same if no open message was sent twice or late, and no message after  *)
(* a reset.                                                                  *)
ClosedByAppOrRace == NoRace => ClosedOnlyByApp

(* A created channel opens at both peers once they are connected, unless an  *)
(* application closes it or there are too many.                              *)
ChannelOpens ==
    \A c \in Chans :
        /\ end[<<c, "out">>].created
        /\ \A p \in Peers : sctp[p] = "Connected"
        ~> \/ end[<<c, "out">>].open /\ end[<<c, "in">>].open
           \/ c \in appClosed
           \/ anomalies # {}

(* Closing an end of a channel closes both and frees the stream at both      *)
(* peers, so that it can be used again.                                      *)
CloseCompletes ==
    \A c \in Chans :
        /\ c \in appClosed
        /\ end[<<c, "out">>].opening
        ~> \/ \A e \in {<<c, "out">>, <<c, "in">>} :
                 end[e].closed /\ \A s \in ChannelStreams : mDataChannels[Peer(e)][s] # e
           \/ anomalies # {}
           \/ \E p \in Peers : sctp[p] # "Connected"

\* Streams are used again by other channels while messages and resets are under
\* way: open channels have a stream of their own, no message reaches another channel,
\* and nobody but the applications closes one.
ChannelsInv == StreamsDistinct /\ NoCrossTalk /\ ClosedByAppOrRace

\* Channels open at both peers, and close there, whatever they are opened and
\* closed in the middle of.
ChannelsProgress == ChannelOpens /\ CloseCompletes
=============================================================================
