-------------------------------- MODULE CApi --------------------------------
(***************************************************************************)
(* The C interface of src/src/capi.cpp: tables from identifiers to objects *)
(* behind one mutex, calls that look an object up, use it outside the      *)
(* mutex and come back to the tables, and callbacks that the library makes *)
(* from its own threads with the user pointer of the identifier.           *)
(*                                                                         *)
(* One action is one critical section of `mutex` or one call on an object. *)
(* A callback runs with the mutex of its synchronized_callback held, which *)
(* is recursive, and the call that replaces or resets the callback waits   *)
(* for it.  The objects are known only by that and by their queue.         *)
(***************************************************************************)
EXTENDS Integers, Sequences, FiniteSets

CONSTANTS
    Apps,           \* threads of the application
    Lib,            \* the library's thread that makes callbacks
    MaxId,          \* bound: identifiers given out
    MaxMessages,    \* bound: messages that arrive on channels
    MaxConfigs      \* bound: packetization configurations created

ASSUME CApiAssumption == Lib \notin Apps /\ MaxId \in Nat \ {0} /\ MaxMessages \in Nat

VARIABLES
    lastId,
    kind,           \* which of the maps the identifier was emplaced in
    parent,         \* the connection or server that reported the object, or 0
    table,          \* the identifiers that the maps hold
    userPointerMap, \* "absent" where there is no entry
    mutexOwner,     \* who holds `mutex` over several steps: only eraseAll()
    call,           \* what each thread is executing
    inCallback,     \* what the library's thread is executing
    installed,      \* identifiers whose object has a callback of the application
    closer,         \* a connection: "open", "shut" (closed, callbacks not reset), "reset"
    queue,          \* receive queues
    arrived,
    got,            \* history: messages handed over, with whether they had their content
    emptied,        \* messages whose content was moved out
    probed,         \* history: messages of a track that were looked at and kept
    rtpConfigMap, packetizer, rtcpSrReporterMap,  \* configurations of a track, 0 is none
    made,           \* configurations created for a track
    reported,       \* history: identifiers the application was told
    gone,           \* history: identifiers whose deletion returned success
    raced,          \* history: "call": used by two threads, one deleting; "self": deleted in
                    \* its callback; "closing": by the library while it was deleted
    ownSet,         \* history: what the application last set as user pointer
    twice,          \* history: two threads received from a channel at the same time
    cleaned,        \* history: rtcCleanup erased everything with calls in progress
    topic           \* what the application is about in this behaviour

tables == <<lastId, kind, parent, table, userPointerMap, mutexOwner>>
messages == <<queue, arrived, got, emptied, probed, twice>>
media == <<rtpConfigMap, packetizer, rtcpSrReporterMap, made>>
history == <<reported, gone, raced, ownSet, cleaned, topic>>
objects == <<installed, closer>>
cVars == <<tables, call, inCallback, objects, messages, media, history>>

Ids == 1..MaxId
Threads == Apps \union {Lib}
Channels == {"dc", "tr", "ws"}

\* An application that watches, closes and deletes; one that sets user pointers and gets
\* new objects reported; one that receives; one that sends media.  A behaviour mixes the
\* calls of one topic only, to keep their number down.
Topics == {"life", "pointers", "receive", "media"}
OpsOf(t) ==
    CASE t = "life" -> {"callback", "close", "delete"}
      [] t = "pointers" -> {"channel", "delete"}
      [] t = "receive" -> {"channel", "track", "receive", "use"}
      [] t = "media" -> {"track", "packetizer", "silentPacketizer", "reporter", "delete"}

\* In the first two, what there is at the start: one object, and others deleted before.
KindsOf(t) == CASE t = "life" -> {"pc", "srv"} \union Channels [] t = "pointers" -> {"pc", "srv"}

Idle == [op |-> "none", step |-> "none", id |-> 0, x |-> 0]
NoCallback == [step |-> "idle", id |-> 0, new |-> 0, ptr |-> "absent"]

CApiTypeOK ==
    /\ lastId \in 0..MaxId /\ table \subseteq 1..lastId
    /\ kind \in [Ids -> {"none", "pc", "srv"} \union Channels] /\ parent \in [Ids -> 0..MaxId]
    /\ userPointerMap \in [Ids -> {"absent", "null", "p"}]
    /\ mutexOwner \in Apps \union {Lib} /\ installed \subseteq Ids
    /\ closer \in [Ids -> {"open", "shut", "reset"}]

CInit ==
    /\ topic \in Topics /\ mutexOwner = Lib /\ parent = [i \in Ids |-> 0]
    /\ IF topic \in {"life", "pointers"}
       THEN /\ lastId = IF topic = "life" THEN MaxId ELSE 1
            /\ \E k \in KindsOf(topic) : kind = [i \in Ids |-> IF i = lastId THEN k ELSE "none"]
            /\ table = {lastId} /\ reported = {lastId}
            /\ userPointerMap = [i \in Ids |-> IF i = lastId THEN "null" ELSE "absent"]
       ELSE /\ lastId = 0 /\ table = {} /\ reported = {} /\ kind = [i \in Ids |-> "none"]
            /\ userPointerMap = [i \in Ids |-> "absent"]
    /\ installed = {i \in table : kind[i] = "srv" \/ topic = "pointers"}
    /\ call = [t \in Threads |-> Idle] /\ inCallback = NoCallback
    /\ closer = [i \in Ids |-> "open"]
    /\ queue = [i \in Ids |-> <<>>] /\ arrived = 0 /\ got = <<>> /\ emptied = {} /\ probed = {}
    /\ rtpConfigMap = [i \in Ids |-> 0] /\ packetizer = [i \in Ids |-> 0]
    /\ rtcpSrReporterMap = [i \in Ids |-> 0] /\ made = [i \in Ids |-> 0]
    /\ gone = {} /\ raced = [i \in Ids |-> "no"]
    /\ ownSet = [i \in Ids |-> "unset"] /\ twice = FALSE /\ cleaned = FALSE

-----------------------------------------------------------------------------

\* Nobody holds `mutex` across steps (the library's thread never does).
MutexFree == mutexOwner = Lib

\* No other thread is in a callback of the object: its mutex can be taken.
Quiet(t, id) == inCallback.step = "idle" \/ inCallback.id # id \/ t = Lib

\* The call of t has the only reference outside the tables.
LastRef(t, id) == \A u \in Threads \ {t} : call[u].id # id

\* A connection closed already: its destructor leaves the callbacks alone, whether the
\* library has yet to reset them or the application set one afterwards.
Unwaited(id) == closer[id] = "shut" \/ (closer[id] = "reset" /\ id \in installed)

Step(t, s) == call' = [call EXCEPT ![t].step = s]

(* emplacePeerConnection and its siblings: a new identifier, a null pointer. *)
Emplace(k, p) ==
    /\ MutexFree /\ lastId < MaxId
    /\ lastId' = lastId + 1
    /\ kind' = [kind EXCEPT ![lastId'] = k] /\ parent' = [parent EXCEPT ![lastId'] = p]
    /\ table' = table \union {lastId'}
    /\ userPointerMap' = [userPointerMap EXCEPT ![lastId'] = "null"]
    /\ UNCHANGED mutexOwner

CreateObject(t, k) ==
    /\ t \in Apps /\ call[t] = Idle /\ topic \in {"receive", "media"}
    /\ Emplace(k, 0)
    /\ reported' = reported \union {lastId'}
    /\ UNCHANGED <<call, inCallback, closer, messages, media, gone, raced, ownSet, cleaned, topic>>

CreatePeerConnection(t) == CreateObject(t, "pc") /\ UNCHANGED installed

(* rtcCreateWebSocket opens the socket before there is an identifier.        *)
CreateWebSocket(t) == CreateObject(t, "ws") /\ UNCHANGED installed

(* rtcCreateWebSocketServer: the server has its callback from the start.     *)
CreateWebSocketServer(t) ==
    CreateObject(t, "srv") /\ installed' = installed \union {lastId'}

(* rtcSetUserPointer: assigns, or makes an entry.                            *)
SetUserPointer(t, id, p) ==
    /\ t \in Apps /\ call[t] = Idle /\ MutexFree /\ id \in reported \intersect table /\ topic = "pointers"
    /\ userPointerMap' = [userPointerMap EXCEPT ![id] = p]
    /\ ownSet' = [ownSet EXCEPT ![id] = p]
    /\ UNCHANGED <<lastId, kind, parent, table, mutexOwner, call, inCallback, objects, messages,
                   media, reported, gone, raced, cleaned, topic>>

\* The calls that each kind of object takes.
Takes(op) ==
    CASE op \in {"channel", "track"} -> {"pc"}
      [] op \in {"packetizer", "silentPacketizer", "reporter"} -> {"tr"}
      [] op = "receive" -> {"dc", "tr"}
      [] op \in {"callback", "close"} -> {"pc"} \union Channels
      [] op = "use" -> {"pc", "dc", "tr"}
      [] op = "delete" -> {"pc", "srv"} \union Channels

(* The lookup every call starts with, getChannel and the like: an unknown    *)
(* identifier makes the call return RTC_ERR_INVALID.  A thread of the        *)
(* library calls in from a callback.                                         *)
Get(t, op, id) ==
    /\ call[t] = Idle /\ MutexFree /\ op \in OpsOf(topic)
    /\ id \in reported \intersect table /\ kind[id] \in Takes(op)
    /\ t = Lib => inCallback.step = "running" /\ inCallback.id = id /\ op = "delete"
    /\ call' = [call EXCEPT ![t] = [op |-> op, step |-> "got", id |-> id, x |-> 0]]
    /\ raced' = IF t = Lib THEN [raced EXCEPT ![id] = "self"]
                ELSE IF \E u \in Threads : call[u].id = id /\ "delete" \in {op, call[u].op}
                THEN [raced EXCEPT ![id] = "call"] ELSE raced
    /\ twice' = (twice \/ \E u \in Threads : call[u].id = id /\ {op, call[u].op} = {"receive"})
    /\ UNCHANGED <<tables, inCallback, objects, queue, arrived, got, emptied, probed, media,
                   reported, gone, ownSet, cleaned, topic>>

In(t, op, s) == call[t].op = op /\ call[t].step = s

(* A call that neither reads nor writes the tables again ...                 *)
Use(t, k) ==
    /\ In(t, "use", "got") /\ kind[call[t].id] = k /\ Step(t, "release")
    /\ UNCHANGED <<tables, inCallback, objects, messages, media, history>>

(* ... rtcSetLocalDescription, rtcSetRemoteDescription, the getters; sending *)
(* and the state of a channel; descriptions, timestamps, SSRCs of a track.   *)
UsePeerConnection(t) == Use(t, "pc")
UseChannel(t) == Use(t, "dc")
UseTrack(t) == Use(t, "tr")

(* Replacing a callback waits for the one in progress.                       *)
Install(t, kinds) ==
    /\ In(t, "callback", "got") /\ kind[call[t].id] \in kinds /\ Quiet(t, call[t].id)
    /\ installed' = installed \union {call[t].id}
    /\ Step(t, "release")
    /\ UNCHANGED <<tables, inCallback, closer, messages, media, history>>

(* rtcSetLocalDescriptionCallback and its siblings; rtcSetOpenCallback and   *)
(* its siblings; the handlers with a callback that are chained to a track.   *)
SetPeerConnectionCallback(t) == Install(t, {"pc"})
SetChannelCallback(t) == Install(t, {"dc", "ws"})
ChainHandler(t) == Install(t, {"tr"})

NewChannel(t, op, k) ==
    /\ In(t, op, "got") /\ Emplace(k, 0)
    /\ call' = [call EXCEPT ![t].step = "inherit", ![t].x = lastId']
    /\ UNCHANGED <<inCallback, objects, messages, media, history>>

(* rtcCreateDataChannelEx, rtcAddTrack: the new object is emplaced ...       *)
CreateDataChannel(t) == NewChannel(t, "channel", "dc")
AddTrack(t) == NewChannel(t, "track", "tr")

(* ... and gets the user pointer of the connection, if there still is one.   *)
InheritPointer(t) ==
    LET c == call[t] IN
    /\ c.step = "inherit" /\ MutexFree
    /\ userPointerMap' = IF userPointerMap[c.id] = "absent" THEN userPointerMap
                         ELSE [userPointerMap EXCEPT ![c.x] = userPointerMap[c.id]]
    /\ reported' = reported \union {c.x}
    /\ Step(t, "release")
    /\ UNCHANGED <<lastId, kind, parent, table, mutexOwner, inCallback, objects, messages, media,
                   gone, raced, ownSet, cleaned, topic>>

-----------------------------------------------------------------------------

(* rtcReceiveMessage looks at the first message.  Track::peek moves the      *)
(* content out of the message that stays in the queue.                       *)
Peek(t) ==
    LET id == call[t].id IN
    /\ In(t, "receive", "got")
    /\ IF queue[id] = <<>> THEN Step(t, "release") /\ UNCHANGED emptied
       ELSE /\ call' = [call EXCEPT ![t].step = IF Head(queue[id]) \in emptied THEN "empty" ELSE "peeked",
                                    ![t].x = Head(queue[id])]
            /\ emptied' = IF kind[id] = "tr" THEN emptied \union {Head(queue[id])} ELSE emptied
    /\ UNCHANGED <<tables, inCallback, objects, queue, arrived, got, probed, twice, media, history>>

(* A null buffer or one that is too small: the message is kept.              *)
Keep(t) ==
    /\ call[t].step \in {"peeked", "empty"}
    /\ probed' = IF kind[call[t].id] = "tr" THEN probed \union {call[t].x} ELSE probed
    /\ Step(t, "release")
    /\ UNCHANGED <<tables, inCallback, objects, queue, arrived, got, emptied, twice, media, history>>

(* The message is copied to the caller and whatever is first is discarded.   *)
Take(t) ==
    LET id == call[t].id IN
    /\ call[t].step \in {"peeked", "empty"}
    /\ got' = Append(got, <<call[t].x, call[t].step = "peeked">>)
    /\ queue' = IF queue[id] = <<>> THEN queue ELSE [queue EXCEPT ![id] = Tail(@)]
    /\ Step(t, "release")
    /\ UNCHANGED <<tables, inCallback, objects, arrived, emptied, probed, twice, media, history>>

Arrive(id) ==
    /\ arrived < MaxMessages /\ id \in reported \intersect table /\ kind[id] \in {"dc", "tr"}
    /\ arrived' = arrived + 1 /\ queue' = [queue EXCEPT ![id] = Append(@, arrived')]
    /\ UNCHANGED <<tables, call, inCallback, objects, got, emptied, probed, twice, media, history>>

-----------------------------------------------------------------------------

NewConfig(t, op) ==
    /\ In(t, op, "got") /\ MutexFree /\ made[call[t].id] < MaxConfigs
    /\ made' = [made EXCEPT ![call[t].id] = @ + 1]
    /\ call' = [call EXCEPT ![t].step = "stored", ![t].x = made'[call[t].id]]
    /\ UNCHANGED <<tables, inCallback, objects, messages, packetizer, rtcpSrReporterMap, history>>

(* rtcSetH264Packetizer and rtcSetOpusPacketizer: emplace() keeps an entry   *)
(* that is there.                                                            *)
StoreConfig(t) ==
    LET id == call[t].id IN
    /\ NewConfig(t, "packetizer")
    /\ rtpConfigMap' = IF rtpConfigMap[id] = 0 THEN [rtpConfigMap EXCEPT ![id] = made'[id]] ELSE rtpConfigMap

(* The H265, AV1 and AAC ones do not store the configuration.                *)
OmitConfig(t) == NewConfig(t, "silentPacketizer") /\ UNCHANGED rtpConfigMap

SetPacketizer(t) ==
    /\ call[t].step = "stored"
    /\ packetizer' = [packetizer EXCEPT ![call[t].id] = call[t].x]
    /\ Step(t, "release")
    /\ UNCHANGED <<tables, inCallback, objects, messages, rtpConfigMap, rtcpSrReporterMap, made,
                   history>>

(* rtcChainRtcpSrReporter: fails when no configuration was stored ...        *)
FindConfig(t) ==
    LET id == call[t].id IN
    /\ In(t, "reporter", "got") /\ MutexFree
    /\ call' = [call EXCEPT ![t].step = IF rtpConfigMap[id] = 0 THEN "release" ELSE "found",
                            ![t].x = rtpConfigMap[id]]
    /\ UNCHANGED <<tables, inCallback, objects, messages, media, history>>

(* ... and keeps the reporter that is already there.                         *)
ChainReporter(t) ==
    LET id == call[t].id IN
    /\ call[t].step = "found" /\ MutexFree
    /\ rtcpSrReporterMap' = IF rtcpSrReporterMap[id] = 0
                            THEN [rtcpSrReporterMap EXCEPT ![id] = call[t].x]
                            ELSE rtcpSrReporterMap
    /\ Step(t, "release")
    /\ UNCHANGED <<tables, inCallback, objects, messages, rtpConfigMap, packetizer, made, history>>

-----------------------------------------------------------------------------

(* close() of a data channel or track: triggers the callback in this thread, *)
(* then resets all of them, whatever state the channel was in.               *)
CloseChannel(t) ==
    LET id == call[t].id IN
    /\ call[t].step = "got" /\ call[t].op \in {"close", "delete"} /\ kind[id] \in {"dc", "tr"}
    /\ Quiet(t, id) /\ MutexFree /\ installed' = installed \ {id}
    /\ Step(t, IF call[t].op = "delete" THEN "closed" ELSE "release")
    /\ UNCHANGED <<tables, inCallback, closer, messages, media, history>>

(* A WebSocket closes later and keeps its callbacks; rtcDeleteWebSocket      *)
(* forces it and resets them.                                                *)
CloseWebSocket(t, force) ==
    LET id == call[t].id IN
    /\ call[t].step = "got" /\ call[t].op \in {"close", "delete"} /\ kind[id] = "ws"
    /\ force => call[t].op = "delete" /\ Quiet(t, id) /\ MutexFree
    /\ installed' = IF force THEN installed \ {id} ELSE installed
    /\ Step(t, IF call[t].op = "delete" THEN "closed" ELSE "release")
    /\ UNCHANGED <<tables, inCallback, closer, messages, media, history>>

(* A connection that has an SCTP transport only stops it; otherwise          *)
(* closeTransports() runs here, and resets the callbacks if it is the first. *)
ClosePeerConnection(t) ==
    LET id == call[t].id
        next == IF call[t].op = "delete" THEN "closed" ELSE "release" IN
    /\ call[t].step = "got" /\ call[t].op \in {"close", "delete"} /\ kind[id] = "pc"
    /\ \/ Step(t, next) /\ UNCHANGED closer
       \/ /\ closer[id] = "open" /\ closer' = [closer EXCEPT ![id] = "shut"]
          /\ call' = [call EXCEPT ![t].step = "resetting", ![t].x = 1]
    /\ UNCHANGED <<tables, inCallback, installed, messages, media, history>>

(* PeerConnection::resetCallbacks, called by this thread.                    *)
ResetCallbacks(t) ==
    LET c == call[t] IN
    /\ c.step = "resetting" /\ Quiet(t, c.id)
    /\ installed' = installed \ {c.id} /\ closer' = [closer EXCEPT ![c.id] = "reset"]
    /\ IF c.x = 1 THEN Step(t, IF c.op = "delete" THEN "closed" ELSE "release") /\ UNCHANGED gone
                  ELSE /\ call' = [call EXCEPT ![t] = Idle]
                       /\ gone' = IF c.op = "delete" THEN gone \union {c.id} ELSE gone
    /\ UNCHANGED <<tables, inCallback, messages, media, reported, raced, ownSet, cleaned, topic>>

(* rtcDeleteWebSocketServer resets the callback and joins the thread; from   *)
(* that thread, join() throws and the server stays in the table.             *)
StopServer(t) ==
    LET id == call[t].id IN
    /\ In(t, "delete", "got") /\ kind[id] = "srv"
    /\ Quiet(t, id) /\ installed' = installed \ {id}
    /\ Step(t, IF t = Lib THEN "release" ELSE "closed")
    /\ UNCHANGED <<tables, inCallback, closer, messages, media, history>>

(* eraseChannel and the like, all entries in one critical section: the       *)
(* second of two calls that delete finds nothing.                            *)
Erase(t) ==
    LET id == call[t].id IN
    /\ In(t, "delete", "closed") /\ MutexFree
    /\ table' = table \ {id}
    /\ IF id \in table
       THEN /\ userPointerMap' = [userPointerMap EXCEPT ![id] = "absent"]
            /\ rtpConfigMap' = [rtpConfigMap EXCEPT ![id] = 0]
            /\ rtcpSrReporterMap' = [rtcpSrReporterMap EXCEPT ![id] = 0]
       ELSE UNCHANGED <<userPointerMap, rtpConfigMap, rtcpSrReporterMap>>
    /\ Step(t, IF id \in table THEN "erased" ELSE "release")
    /\ UNCHANGED <<lastId, kind, parent, mutexOwner, inCallback, objects, messages, packetizer, made,
                   history>>

Mut_ReleaseNoWait(t) ==
    LET c == call[t]
        destroyed == c.id \notin table /\ LastRef(t, c.id) IN
    /\ c.step \in {"erased", "release"}
    /\ IF destroyed /\ kind[c.id] = "pc" /\ closer[c.id] = "open"
       THEN /\ closer' = [closer EXCEPT ![c.id] = "shut"]
            /\ call' = [call EXCEPT ![t].step = "resetting", ![t].x = 0,
                                    ![t].op = IF c.step = "erased" THEN "delete" ELSE "use"]
            /\ UNCHANGED <<installed, gone, raced>>
       ELSE /\ TRUE
            /\ installed' = IF destroyed /\ kind[c.id] # "pc" THEN installed \ {c.id} ELSE installed
            /\ call' = [call EXCEPT ![t] = Idle]
            /\ gone' = IF c.step = "erased" THEN gone \union {c.id} ELSE gone
            /\ raced' = IF destroyed /\ Unwaited(c.id)
                      THEN [raced EXCEPT ![c.id] = "closing"] ELSE raced
            /\ UNCHANGED closer
    /\ UNCHANGED <<tables, inCallback, messages, media, reported, ownSet, cleaned, topic>>

(* The call drops its reference and returns.  The last one destroys the      *)
(* object: ~PeerConnection closes it and resets the callbacks if nobody else *)
(* is closing it, ~WebSocket resets them always.                             *)
ReleaseRef(t) ==
    LET c == call[t]
        destroyed == c.id \notin table /\ LastRef(t, c.id) IN
    /\ c.step \in {"erased", "release"}
    /\ IF destroyed /\ kind[c.id] = "pc" /\ closer[c.id] = "open"
       THEN /\ closer' = [closer EXCEPT ![c.id] = "shut"]
            /\ call' = [call EXCEPT ![t].step = "resetting", ![t].x = 0,
                                    ![t].op = IF c.step = "erased" THEN "delete" ELSE "use"]
            /\ UNCHANGED <<installed, gone, raced>>
       ELSE /\ destroyed => Quiet(t, c.id) \/ kind[c.id] = "pc"
            /\ installed' = IF destroyed /\ kind[c.id] # "pc" THEN installed \ {c.id} ELSE installed
            /\ call' = [call EXCEPT ![t] = Idle]
            /\ gone' = IF c.step = "erased" THEN gone \union {c.id} ELSE gone
            /\ raced' = IF destroyed /\ Unwaited(c.id)
                      THEN [raced EXCEPT ![c.id] = "closing"] ELSE raced
            /\ UNCHANGED closer
    /\ UNCHANGED <<tables, inCallback, messages, media, reported, ownSet, cleaned, topic>>

(* The connection is closed from inside the library: remoteClose().          *)
RemoteShut(id) ==
    /\ kind[id] = "pc" /\ id \in table /\ closer[id] = "open" /\ topic = "life"
    /\ closer' = [closer EXCEPT ![id] = "shut"]
    /\ UNCHANGED <<tables, call, inCallback, installed, messages, media, history>>

RemoteReset(id) ==
    /\ closer[id] = "shut" /\ \A t \in Threads : call[t].step = "resetting" => call[t].id # id
    /\ inCallback.step = "idle" \/ inCallback.id # id
    /\ closer' = [closer EXCEPT ![id] = "reset"] /\ installed' = installed \ {id}
    /\ UNCHANGED <<tables, call, inCallback, messages, media, history>>

(* rtcCleanup: eraseAll() holds the mutex ...                                *)
CleanupStart(t) ==
    /\ t \in Apps /\ call[t] = Idle /\ MutexFree /\ topic = "life"
    /\ mutexOwner' = t
    /\ call' = [call EXCEPT ![t] = [op |-> "cleanup", step |-> "clearing", id |-> 0, x |-> 0]]
    /\ UNCHANGED <<lastId, kind, parent, table, userPointerMap, inCallback, objects, messages, media,
                   history>>

(* ... while the destructors reset callbacks and wait for those in progress. *)
EraseAll(t) ==
    /\ call[t].step = "clearing"
    /\ \A id \in table : LastRef(t, id) /\ ~(kind[id] = "pc" /\ closer[id] # "open") => Quiet(t, id)
    /\ table' = {} /\ mutexOwner' = Lib
    /\ userPointerMap' = [id \in Ids |-> "absent"]
    /\ rtpConfigMap' = [id \in Ids |-> 0] /\ rtcpSrReporterMap' = [id \in Ids |-> 0]
    /\ installed' = {id \in installed : ~LastRef(t, id) \/ (kind[id] = "pc" /\ closer[id] # "open")}
    /\ closer' = [id \in Ids |-> IF id \in table /\ kind[id] = "pc" /\ LastRef(t, id) /\ closer[id] = "open"
                                 THEN "reset" ELSE closer[id]]
    /\ call' = [call EXCEPT ![t] = Idle]
    /\ gone' = gone \union {id \in table : LastRef(t, id)}
    /\ raced' = [id \in Ids |-> IF id \in table /\ Unwaited(id)
                                THEN "closing" ELSE raced[id]]
    /\ cleaned' = (cleaned \/ inCallback.step # "idle" \/ \E u \in Threads \ {t} : call[u] # Idle)
    /\ UNCHANGED <<lastId, kind, parent, inCallback, messages, packetizer, made, reported, ownSet, topic>>

-----------------------------------------------------------------------------

(* The library calls the lambda, with the mutex of the callback held; a      *)
(* connection and a server may have a new object to report.                  *)
CallbackStart(id, offer) ==
    /\ inCallback = NoCallback /\ id \in installed
    /\ offer => kind[id] \in {"pc", "srv"} /\ topic = "pointers"
    /\ kind[id] = "srv" => offer
    /\ inCallback' = [NoCallback EXCEPT !.step = IF offer THEN "offer" ELSE "locked", !.id = id]
    /\ UNCHANGED <<tables, call, objects, messages, media, history>>

CallbackEmplace ==
    /\ inCallback.step = "offer"
    /\ \E k \in IF kind[inCallback.id] = "srv" THEN {"ws"} ELSE {"dc", "tr"} : Emplace(k, inCallback.id)
    /\ inCallback' = [inCallback EXCEPT !.step = "locked", !.new = lastId']
    /\ UNCHANGED <<call, objects, messages, media, history>>

(* getUserPointer: without an entry the application is not called, and an    *)
(* object just emplaced is not reported.                                     *)
CallbackCheck ==
    LET p == userPointerMap[inCallback.id] IN
    /\ inCallback.step = "locked" /\ MutexFree
    /\ inCallback' = IF p = "absent" THEN NoCallback
                     ELSE [inCallback EXCEPT !.step = IF inCallback.new = 0 THEN "running" ELSE "inherit",
                                             !.ptr = p]
    /\ reported' = reported
    /\ UNCHANGED <<tables, call, objects, messages, media, gone, raced, ownSet, cleaned, topic>>

(* The new object gets the pointer that was read; for a client of a server   *)
(* it is the server that gets it.                                            *)
CallbackInherit ==
    LET c == inCallback IN
    /\ c.step = "inherit" /\ MutexFree
    /\ userPointerMap' = [userPointerMap EXCEPT ![IF kind[c.id] = "srv" THEN c.id ELSE c.new] = c.ptr]
    /\ inCallback' = [c EXCEPT !.step = "running"]
    /\ reported' = reported \union {c.new}
    /\ UNCHANGED <<lastId, kind, parent, table, mutexOwner, call, objects, messages, media, gone,
                   raced, ownSet, cleaned, topic>>

CallbackReturn ==
    /\ inCallback.step = "running" /\ call[Lib] = Idle
    /\ inCallback' = NoCallback
    /\ UNCHANGED <<tables, call, objects, messages, media, history>>

-----------------------------------------------------------------------------

Call(t) ==
    \/ UsePeerConnection(t) \/ UseChannel(t) \/ UseTrack(t)
    \/ SetPeerConnectionCallback(t) \/ SetChannelCallback(t) \/ ChainHandler(t)
    \/ CreateDataChannel(t) \/ AddTrack(t) \/ InheritPointer(t)
    \/ Peek(t) \/ Keep(t) \/ Take(t)
    \/ StoreConfig(t) \/ OmitConfig(t) \/ SetPacketizer(t) \/ FindConfig(t) \/ ChainReporter(t)
    \/ CloseChannel(t) \/ ClosePeerConnection(t) \/ ResetCallbacks(t) \/ StopServer(t)
    \/ \E force \in BOOLEAN : CloseWebSocket(t, force)
    \/ Erase(t) \/ ReleaseRef(t) \/ EraseAll(t)

Callback == CallbackEmplace \/ CallbackCheck \/ CallbackInherit \/ CallbackReturn

CNext ==
    \/ \E t \in Threads :
          \/ \E op \in OpsOf(topic), id \in Ids : Get(t, op, id)
          \/ CreatePeerConnection(t) \/ CreateWebSocket(t) \/ CreateWebSocketServer(t)
          \/ \E id \in Ids : SetUserPointer(t, id, "p")
          \/ CleanupStart(t) \/ Call(t)
    \/ Callback
    \/ \E id \in Ids : \/ Arrive(id) \/ RemoteShut(id) \/ RemoteReset(id)
                       \/ \E offer \in BOOLEAN : CallbackStart(id, offer)

(* The library's thread and the calls it serves go on; nobody has to call.   *)
CSpec ==
    /\ CInit /\ [][CNext]_cVars
    /\ WF_cVars(Callback) /\ WF_cVars(\E t \in Threads : Call(t))

-----------------------------------------------------------------------------

Quiescent == inCallback = NoCallback /\ \A t \in Threads : call[t] = Idle

(* Once the deletion of an object has returned, no callback of it runs,      *)
(* although it erases the entry before the connection resets its callbacks   *)
(* and a callback reads the entry before it calls.  Excepted are the one     *)
(* that deleted it, an object another thread was using meanwhile, and a      *)
(* connection that the library itself was closing: then the destructor does  *)
(* not wait.                                                                 *)
NoCallbackAfterDelete ==
    inCallback.step = "running" /\ inCallback.id \in gone => raced[inCallback.id] # "no"

(* An object in the tables has been reported to the application, which alone *)
(* can delete it, once everything is quiet, unless the connection or server  *)
(* it came from was deleted before the callback could report it: then it     *)
(* stays until rtcCleanup.                                                   *)
EveryObjectReported ==
    Quiescent => \A id \in table \ reported : parent[id] # 0 /\ parent[id] \notin table

(* A user pointer the application set is what its callbacks get, although    *)
(* the library writes pointers of its own for new objects; not so for a      *)
(* server, whose pointer each client writes back as it was read.             *)
PointerKept ==
    \A id \in table : ownSet[id] # "unset" /\ kind[id] # "srv" => userPointerMap[id] = ownSet[id]

(* The four tables agree on which identifiers exist: a pointer, a            *)
(* configuration or a reporter belongs to an object, unless a call or a      *)
(* callback was in progress when the object was erased, which writes after.  *)
EntriesMatch ==
    Quiescent /\ ~cleaned =>
        \A id \in Ids : /\ userPointerMap[id] # "absent" <=> id \in table
                        /\ (rtpConfigMap[id] # 0 \/ rtcpSrReporterMap[id] # 0) /\ raced[id] = "no" => id \in table

Handed(m) == {i \in DOMAIN got : got[i][1] = m}

(* rtcReceiveMessage hands every message over once, none skipped, unless two *)
(* threads receive from the channel at the same time.                        *)
ReceivedOnce ==
    ~twice => \A m \in 1..arrived :
        Cardinality(Handed(m)) + Cardinality({id \in Ids : \E i \in DOMAIN queue[id] : queue[id][i] = m}) = 1

(* What is handed over has its content, unless it is a message of a track    *)
(* that was looked at before with no or too small a buffer.                  *)
ReceivedWhole ==
    ~twice => \A i \in DOMAIN got : got[i][2] \/ got[i][1] \in probed

(* The reporter of a track reports on the configuration its packetizer       *)
(* works with, if the application set a packetizer once.                     *)
ReporterCurrent ==
    \A id \in Ids : made[id] = 1 /\ rtcpSrReporterMap[id] # 0 /\ (\A t \in Threads : call[t].id # id) =>
        rtcpSrReporterMap[id] = packetizer[id]

\* The thread in rtcCleanup holds `mutex` and waits for a callback which needs it.
Wedged == mutexOwner # Lib /\ inCallback.step # "idle" /\ (inCallback.step # "running" \/ call[Lib] # Idle)

(* rtcCleanup comes to an end, and releases the mutex all calls need, unless *)
(* it caught a callback between taking its own mutex and `mutex`: then both  *)
(* wait for ever.                                                            *)
CleanupEnds == []<>(mutexOwner = Lib) \/ <>[]Wedged

\* The tables of the C API, with threads that delete, receive and are called back
\* at the same time: nobody is called after the delete, entries and pointers belong
\* to objects the application knows, messages are received once and whole, and
\* reports are about the configuration in use.
ApiInv ==
    /\ NoCallbackAfterDelete
    /\ EveryObjectReported
    /\ PointerKept
    /\ EntriesMatch
    /\ ReceivedOnce
    /\ ReceivedWhole
    /\ ReporterCurrent
=============================================================================
