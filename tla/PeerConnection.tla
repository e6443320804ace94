--------------------------- MODULE PeerConnection ---------------------------
(***************************************************************************)
(* The transports of a peer connection and its closing:                    *)
(* src/src/impl/peerconnection.cpp over the threads that run it.           *)
(*                                                                         *)
(* Threads: "api", an application thread in setLocalDescription() or       *)
(* setRemoteDescription() (one at a time, signalingMutex); "app", another  *)
(* one in close() or in the destructor; "ice" and "dtls", which run the    *)
(* state callbacks of these transports and in them start the next one; and *)
(* "proc", the Processor that executes remoteClose().  What the transports *)
(* do by themselves is nondeterministic here: connect, fail, disconnect.   *)
(*                                                                         *)
(* Pointers are loaded and stored atomically, but a load, the test of it   *)
(* and a store are different steps.  A transport is destroyed some time    *)
(* after the last pointer to it is gone, and its name can then be reused.  *)
(***************************************************************************)
EXTENDS Naturals, FiniteSets

CONSTANTS
    Ices, Dtlss, Sctps,     \* names of the transports alive at a time, by level
    Null,
    MaxDescriptions         \* bounds the calls of setLocal/RemoteDescription()

ASSUME NullAssumption == Null \notin Ices \union Dtlss \union Sctps
ASSUME DistinctAssumption ==
    /\ Ices \intersect Dtlss = {}
    /\ (Ices \union Dtlss) \intersect Sctps = {}
ASSUME MaxDescriptionsAssumption == MaxDescriptions \in Nat

Levels == {"ice", "dtls", "sctp"}
Of(l) == IF l = "ice" THEN Ices ELSE IF l = "dtls" THEN Dtlss ELSE Sctps
Transports == Ices \union Dtlss \union Sctps
Threads == {"api", "app", "ice", "dtls", "proc"}

VARIABLES
    state,          \* PeerConnection::state
    closing,        \* PeerConnection::closing
    closeJob,       \* a remoteClose job is in the Processor's queue
    channels,       \* data channels and tracks: "open", "closing" or "closed"
    slot,           \* slot[l]: mIceTransport, mDtlsTransport, mSctpTransport
    tstate,         \* tstate[x]: Transport::mState, and whether x exists
    stopped,        \* the transports stop() was called on
    muted,          \* those whose state callback was reset
    at,             \* at[t]: where thread t is
    apiLevel,       \* the transport that "api" initialises
    local,          \* local[t]: its pointer to the transport it works on
    taken,          \* the pointers closeTransports() has exchanged
    tearing,        \* those in the job of the TearDownProcessor
    remote,         \* what mRemoteDescription says of an application
    descriptions,   \* calls of setLocal/RemoteDescription() so far
    destructed,     \* the public object's destructor was called
    anomalies       \* history: "doubleInit", "initFailed", until closing

conn == <<state, closing, closeJob, channels>>
objects == <<tstate, stopped, muted>>
threads == <<at, apiLevel, local>>
teardown == <<taken, tearing>>
calls == <<remote, descriptions, destructed>>
vars == <<conn, slot, objects, threads, teardown, calls, anomalies>>

States == {"New", "Connecting", "Connected", "Disconnected", "Failed", "Closed"}

(* "Created" is the state Disconnected of a new transport, "Described" that  *)
(* of an ICE transport with a remote description.                            *)
TStates == {"none", "Created", "Described", "Connecting", "Connected", "Disconnected", "Failed"}

InitLabels == {"load", "store", "start", "emplaced"}
CloseLabels == {"stop", "closeStop", "check", "exchange", "sctp", "dtls", "ice", "mute"}
Labels == {"idle", "described", "remote"} \union InitLabels \union CloseLabels

TypeOK ==
    /\ state \in States
    /\ closing \in BOOLEAN
    /\ closeJob \in BOOLEAN
    /\ channels \in {"open", "closing", "closed"}
    /\ slot \in [Levels -> Transports \union {Null}]
    /\ \A l \in Levels : slot[l] \in Of(l) \union {Null}
    /\ tstate \in [Transports -> TStates]
    /\ stopped \subseteq Transports
    /\ muted \subseteq Transports
    /\ at \in [Threads -> Labels]
    /\ apiLevel \in {"ice", "sctp"}
    /\ local \in [Threads -> Transports \union {Null}]
    /\ taken \subseteq Transports
    /\ tearing \subseteq Transports
    /\ remote \in {"none", "no", "yes"}
    /\ descriptions \in 0 .. MaxDescriptions
    /\ destructed \in BOOLEAN
    /\ anomalies \subseteq {"doubleInit", "initFailed"}

Init ==
    /\ state = "New"
    /\ closing = FALSE
    /\ closeJob = FALSE
    /\ channels = "open"
    /\ slot = [l \in Levels |-> Null]
    /\ tstate = [x \in Transports |-> "none"]
    /\ stopped = {}
    /\ muted = {}
    /\ at = [t \in Threads |-> "idle"]
    /\ apiLevel = "ice"
    /\ local = [t \in Threads |-> Null]
    /\ taken = {}
    /\ tearing = {}
    /\ remote = "none"
    /\ descriptions = 0
    /\ destructed = FALSE
    /\ anomalies = {}

Goto(t, label) == at' = [at EXCEPT ![t] = label]
Anomaly(a) == anomalies' = IF closing THEN {} ELSE anomalies \union {a}
Points(t, x) == local' = [local EXCEPT ![t] = x]

(* The state after changeState(s): Closed is never left.                     *)
Changed(s) == IF state = "Closed" THEN "Closed" ELSE s

Alive(x) == tstate[x] # "none"

-----------------------------------------------------------------------------

(* setLocalDescription() and setRemoteDescription() first get the ICE        *)
(* transport (the SDP states that may refuse the call are not modelled); ... *)
Describe ==
    /\ at["api"] = "idle" /\ ~destructed
    /\ descriptions < MaxDescriptions
    /\ descriptions' = descriptions + 1
    /\ Goto("api", "load")
    /\ UNCHANGED <<conn, slot, objects, apiLevel, local, teardown, remote, destructed, anomalies>>

(* ... then the former does nothing else to the transports, or the latter is *)
(* refused by the ICE transport; ...                                         *)
LocalDescribed ==
    /\ at["api"] = "described"
    /\ Goto("api", "idle") /\ Points("api", Null)
    /\ UNCHANGED <<conn, slot, objects, apiLevel, teardown, calls, anomalies>>

(* ... or it gives the description to the ICE transport and stores it, ...   *)
RemoteDescribed ==
    /\ at["api"] = "described"
    /\ tstate' = [tstate EXCEPT ![local["api"]] = IF @ = "Created" THEN "Described" ELSE @]
    /\ \E application \in {"no", "yes"} : remote' = application
    /\ Goto("api", "remote") /\ Points("api", Null)
    /\ UNCHANGED <<conn, slot, stopped, muted, apiLevel, teardown, descriptions, destructed, anomalies>>

(* ... and processRemoteDescription starts SCTP if DTLS is connected.        *)
SctpDue == /\ remote = "yes" /\ slot["sctp"] = Null
           /\ slot["dtls"] # Null /\ tstate[slot["dtls"]] = "Connected"

RemoteProcessed ==
    /\ at["api"] = "remote"
    /\ Goto("api", IF SctpDue THEN "load" ELSE "idle")
    /\ apiLevel' = IF SctpDue THEN "sctp" ELSE "ice"
    /\ UNCHANGED <<conn, slot, objects, local, teardown, calls, anomalies>>

-----------------------------------------------------------------------------

(* initIceTransport, initDtlsTransport and initSctpTransport, each with      *)
(* emplaceTransport.                                                         *)
Level(t) == IF t = "api" THEN apiLevel ELSE IF t = "ice" THEN "dtls" ELSE "sctp"

Fresh(l) == {x \in Of(l) : ~Alive(x)}
NoLower(l) == \/ l = "dtls" /\ slot["ice"] = Null
              \/ l = "sctp" /\ slot["dtls"] = Null

(* The end of it: setLocal/RemoteDescription() goes on with its transport x, *)
(* the other callers return; so do all of them without a transport.          *)
Return(t, x) ==
    /\ IF t = "api" /\ apiLevel = "ice" /\ x # Null
       THEN Goto(t, "described") /\ Points(t, x)
       ELSE Goto(t, "idle") /\ Points(t, Null)
    /\ apiLevel' = IF t = "api" THEN "ice" ELSE apiLevel

(* The pointer is loaded: there is a transport already, ...                  *)
Existing(t) ==
    /\ at[t] = "load" /\ slot[Level(t)] # Null
    /\ Return(t, slot[Level(t)])
    /\ UNCHANGED <<conn, slot, objects, teardown, calls, anomalies>>

(* ... or none can be made, without the one below for example, ...           *)
MakeFails(t) ==
    /\ at[t] = "load" /\ slot[Level(t)] = Null
    /\ state' = Changed("Failed")
    /\ Anomaly("initFailed")
    /\ Return(t, Null)
    /\ UNCHANGED <<closing, closeJob, channels, slot, objects, teardown, calls>>

(* ... or a transport is made.                                               *)
Make(t) ==
    /\ at[t] = "load" /\ slot[Level(t)] = Null /\ ~NoLower(Level(t))
    /\ Fresh(Level(t)) # {}
    /\ LET x == CHOOSE y \in Fresh(Level(t)) : TRUE
       IN  tstate' = [tstate EXCEPT ![x] = "Created"] /\ Points(t, x)
    /\ Goto(t, "store")
    /\ UNCHANGED <<conn, slot, stopped, muted, apiLevel, teardown, calls, anomalies>>

(* emplaceTransport: the pointer is stored, ...                              *)
EmplaceStores(t) ==
    /\ at[t] = "store"
    /\ slot' = [slot EXCEPT ![Level(t)] = local[t]]
    /\ IF slot[Level(t)] # Null THEN Anomaly("doubleInit") ELSE UNCHANGED anomalies
    /\ Goto(t, "start")
    /\ UNCHANGED <<conn, objects, apiLevel, local, teardown, calls>>

(* ... the transport is started, ...                                         *)
EmplaceStarts(t) ==
    /\ at[t] = "start"
    /\ tstate' = [tstate EXCEPT ![local[t]] = IF Level(t) = "ice" THEN @ ELSE "Connecting"]
    /\ Goto(t, "emplaced")
    /\ UNCHANGED <<conn, slot, stopped, muted, apiLevel, local, teardown, calls, anomalies>>

(* ... which throws if the handshake cannot begin: the pointer is reset, ... *)
EmplaceFails(t) ==
    /\ at[t] = "start" /\ Level(t) # "ice"
    /\ slot' = [slot EXCEPT ![Level(t)] = Null]
    /\ state' = Changed("Failed")
    /\ Anomaly("initFailed")
    /\ Return(t, Null)
    /\ UNCHANGED <<closing, closeJob, channels, objects, teardown, calls>>

(* stop(): a transport in the SCTP handshake fails at once, and its callback *)
(* runs; otherwise it goes down in its own time (Down).                      *)
StopEffect(x) ==
    LET fails == x \in Sctps /\ tstate[x] = "Connecting"
    IN  /\ stopped' = stopped \union {x}
        /\ tstate' = IF fails THEN [tstate EXCEPT ![x] = "Failed"] ELSE tstate
        /\ IF fails /\ x \notin muted
           THEN state' = Changed("Failed") /\ closeJob' = TRUE
           ELSE UNCHANGED <<state, closeJob>>

(* ... and is kept unless the connection was closed in the meantime.         *)
EmplaceKeeps(t) ==
    /\ at[t] = "emplaced"
    /\ ~closing /\ state # "Closed"
    /\ Return(t, local[t])
    /\ UNCHANGED <<conn, slot, objects, teardown, calls, anomalies>>

Mut_EmplaceDropsIfClosed(t) ==
    /\ at[t] = "emplaced"
    /\ state = "Closed"
    /\ StopEffect(local[t])
    /\ Return(t, Null)
    /\ UNCHANGED <<closing, channels, slot, muted, teardown, calls, anomalies>>

EmplaceDrops(t) ==
    /\ at[t] = "emplaced"
    /\ closing \/ state = "Closed"
    /\ slot' = [slot EXCEPT ![Level(t)] = Null]
    /\ StopEffect(local[t])
    /\ Return(t, Null)
    /\ UNCHANGED <<closing, channels, muted, teardown, calls, anomalies>>

InitStep(t) ==
    \/ Existing(t) \/ MakeFails(t) \/ Make(t)
    \/ EmplaceStores(t) \/ EmplaceStarts(t) \/ EmplaceFails(t)
    \/ EmplaceKeeps(t) \/ EmplaceDrops(t)

-----------------------------------------------------------------------------

(* Transport::changeState of transport x to s with a callback that changes   *)
(* the state of the connection as well, and closes it if s is an end.        *)
(* A remoteClose job queued behind another one finds nothing to do, so one   *)
(* flag stands for the queue.  Once the callback is reset nobody learns of   *)
(* a change any more, and none is modelled.                                  *)
Reaches(x, s) ==
    /\ x \notin muted
    /\ tstate' = [tstate EXCEPT ![x] = s]
    /\ state' = Changed(s)
    /\ closeJob' = (closeJob \/ s \in {"Failed", "Disconnected"})
    /\ UNCHANGED <<closing, channels, slot, stopped, muted, apiLevel, local, teardown, calls, anomalies>>

(* The callback of x starts the next transport.                              *)
CallbackInits(x, thread) ==
    /\ x \notin muted
    /\ tstate' = [tstate EXCEPT ![x] = "Connected"]
    /\ Goto(thread, "load")
    /\ UNCHANGED <<conn, slot, stopped, muted, apiLevel, local, teardown, calls, anomalies>>

(* The ICE agent begins its checks, ...                                      *)
IceConnecting(x) ==
    /\ at["ice"] = "idle"
    /\ x \in Ices /\ tstate[x] = "Described"
    /\ Reaches(x, "Connecting")
    /\ UNCHANGED at

(* ... connects, and its callback starts DTLS.                               *)
IceConnected(x) ==
    /\ at["ice"] = "idle"
    /\ x \in Ices /\ tstate[x] = "Connecting"
    /\ CallbackInits(x, "ice")

(* The DTLS handshake ends, with a fingerprint that was checked against the  *)
(* remote description; its packets come from the ICE thread.  The callback   *)
(* starts SCTP, if there is an application.                                  *)
DtlsConnected(x) ==
    /\ at["dtls"] = "idle" /\ at["ice"] = "idle"
    /\ x \in Dtlss /\ tstate[x] = "Connecting" /\ remote # "none" /\ x \notin stopped
    /\ \/ remote = "yes" /\ CallbackInits(x, "dtls")
       \/ remote = "no" /\ Reaches(x, "Connected") /\ UNCHANGED at

(* The SCTP association comes up; its packets come from the DTLS thread.     *)
SctpConnected(x) ==
    /\ at["dtls"] = "idle"
    /\ x \in Sctps /\ tstate[x] = "Connecting"
    /\ Reaches(x, "Connected")
    /\ UNCHANGED at

(* A transport fails or is disconnected, by the network or after a stop().   *)
Down(x) ==
    /\ x \in Ices => at["ice"] = "idle"
    /\ x \in Dtlss => at["dtls"] = "idle"
    /\ \/ tstate[x] = "Connecting" /\ Reaches(x, "Failed")
       \/ tstate[x] = "Connected" /\ Reaches(x, "Disconnected")
    /\ UNCHANGED at

-----------------------------------------------------------------------------

Mut_AppClosesUnflagged ==
    /\ at["app"] = "idle" /\ ~destructed /\ ~closing
    /\ Goto("app", "closeStop")
    /\ UNCHANGED <<conn, slot, objects, apiLevel, local, teardown, calls, anomalies>>

(* The application calls close(): the first to set closing stops SCTP, ...   *)
AppCloses ==
    /\ at["app"] = "idle" /\ ~destructed /\ ~closing
    /\ closing' = TRUE /\ anomalies' = {}
    /\ Goto("app", "closeStop")
    /\ UNCHANGED <<state, closeJob, channels, slot, objects, apiLevel, local, teardown, calls>>

(* ... as does remoteClose(), called by the destructor, after all other      *)
(* calls of the application, ...                                             *)
AppDestructs ==
    /\ at["app"] = "idle" /\ at["api"] = "idle" /\ ~destructed
    /\ destructed' = TRUE
    /\ closing' = TRUE /\ anomalies' = {}
    /\ Goto("app", IF closing THEN "check" ELSE "stop")
    /\ UNCHANGED <<state, closeJob, channels, slot, objects, apiLevel, local, teardown, remote,
                   descriptions>>

(* ... or executed by the Processor, ...                                     *)
JobBegins ==
    /\ at["proc"] = "idle" /\ closeJob
    /\ closeJob' = FALSE
    /\ closing' = TRUE /\ anomalies' = {}
    /\ Goto("proc", IF closing THEN "check" ELSE "stop")
    /\ UNCHANGED <<state, channels, slot, objects, apiLevel, local, teardown, calls>>

(* ... that also closes the data channels and the tracks.                    *)
CloseChannels ==
    /\ at["proc"] = "idle" /\ channels = "closing"
    /\ channels' = "closed"
    /\ UNCHANGED <<state, closing, closeJob, slot, objects, threads, teardown, calls, anomalies>>

(* If there is an SCTP transport close() leaves the rest to its end, if      *)
(* there is none it goes on with remoteClose().                              *)
CloseStop(t) ==
    /\ at[t] \in {"stop", "closeStop"}
    /\ \/ /\ slot["sctp"] # Null
          /\ StopEffect(slot["sctp"])
          /\ Goto(t, IF at[t] = "stop" THEN "check" ELSE "idle")
       \/ /\ slot["sctp"] = Null
          /\ Goto(t, "check")
          /\ UNCHANGED <<state, closeJob, tstate, stopped>>
    /\ UNCHANGED <<closing, channels, slot, muted, apiLevel, local, teardown, calls, anomalies>>

(* remoteClose goes on: unless closed, the channels are closed by a job ...  *)
RemoteClose(t) ==
    /\ at[t] = "check"
    /\ channels' = IF state # "Closed" /\ channels = "open" THEN "closing" ELSE channels
    /\ Goto(t, IF state # "Closed" THEN "exchange" ELSE "idle")
    /\ UNCHANGED <<state, closing, closeJob, slot, objects, apiLevel, local, teardown, calls, anomalies>>

(* ... and closeTransports() changes the state to Closed, once, ...          *)
CloseTransports(t) ==
    /\ at[t] = "exchange"
    /\ state' = "Closed"
    /\ Goto(t, IF state = "Closed" THEN "idle" ELSE "sctp")
    /\ UNCHANGED <<closing, closeJob, channels, slot, objects, apiLevel, local, teardown, calls, anomalies>>

(* ... takes the pointers one by one, ...                                    *)
TakePointer(t) ==
    /\ at[t] \in Levels
    /\ taken' = taken \union ({slot[at[t]]} \ {Null})
    /\ slot' = [slot EXCEPT ![at[t]] = Null]
    /\ Goto(t, IF at[t] = "sctp" THEN "dtls" ELSE IF at[t] = "dtls" THEN "ice" ELSE "mute")
    /\ UNCHANGED <<conn, objects, apiLevel, local, tearing, calls, anomalies>>

Mut_TearDownUnqueued(t) ==
    /\ at[t] = "mute"
    /\ taken \intersect Ices # {} => at["ice"] = "idle"
    /\ taken \intersect Dtlss # {} => at["dtls"] = "idle"
    /\ muted' = muted \union taken
    /\ Goto(t, "idle")
    /\ UNCHANGED <<conn, slot, tstate, stopped, apiLevel, local, teardown, calls, anomalies>>

(* ... waits for the callbacks under way to return and resets them, and      *)
(* leaves the transports to the TearDownProcessor, ...                       *)
TearDownEnqueued(t) ==
    /\ at[t] = "mute"
    /\ taken \intersect Ices # {} => at["ice"] = "idle"
    /\ taken \intersect Dtlss # {} => at["dtls"] = "idle"
    /\ muted' = muted \union taken
    /\ tearing' = taken
    /\ taken' = {}
    /\ Goto(t, "idle")
    /\ UNCHANGED <<conn, slot, tstate, stopped, apiLevel, local, calls, anomalies>>

(* ... which stops the topmost one and drops them all.                       *)
TearDown ==
    /\ tearing # {}
    /\ tearing' = {}
    /\ \E l \in Levels :
          /\ tearing \intersect Of(l) # {}
          /\ l = "dtls" => tearing \intersect Sctps = {}
          /\ l = "ice" => tearing \subseteq Ices
          /\ StopEffect(CHOOSE x \in tearing : x \in Of(l))
    /\ UNCHANGED <<closing, channels, slot, muted, threads, taken, calls, anomalies>>

(* A transport nobody points to, nor one above it, is destroyed; that stops  *)
(* the one below it.  A thread in a callback of a transport keeps it.        *)
Referenced(x) ==
    \/ \E l \in Levels : slot[l] = x
    \/ \E t \in Threads : local[t] = x
    \/ x \in taken \union tearing
    \/ x \in Ices /\ (at["ice"] # "idle" \/ \E y \in Dtlss : Alive(y))
    \/ x \in Dtlss /\ (at["dtls"] # "idle" \/ \E y \in Sctps : Alive(y))

Below(x) == IF x \in Sctps THEN Dtlss ELSE IF x \in Dtlss THEN Ices ELSE {}

Destroy(x) ==
    /\ Alive(x) /\ ~Referenced(x)
    /\ tstate' = [tstate EXCEPT ![x] = "none"]
    /\ stopped' = (stopped \union {y \in Below(x) : Alive(y)}) \ {x}
    /\ muted' = muted \ {x}
    /\ UNCHANGED <<conn, slot, threads, teardown, calls, anomalies>>

CloseStep(t) ==
    \/ CloseStop(t) \/ RemoteClose(t) \/ CloseTransports(t) \/ TakePointer(t) \/ TearDownEnqueued(t)

ApiStep == LocalDescribed \/ RemoteDescribed \/ RemoteProcessed \/ InitStep("api")

Next ==
    \/ Describe \/ ApiStep
    \/ \E t \in {"ice", "dtls"} : InitStep(t)
    \/ \E x \in Transports :
          IceConnecting(x) \/ IceConnected(x) \/ DtlsConnected(x) \/ SctpConnected(x) \/ Down(x)
          \/ Destroy(x)
    \/ AppCloses \/ AppDestructs \/ JobBegins \/ CloseChannels
    \/ \E t \in {"app", "proc"} : CloseStep(t)
    \/ TearDown

(* Threads that entered the library go on, jobs are executed, and an SCTP or *)
(* DTLS transport that was stopped goes down.  Nobody has to call anything,  *)
(* and the network owes nothing.                                             *)
Fairness ==
    /\ WF_vars(ApiStep)
    /\ WF_vars(InitStep("ice")) /\ WF_vars(InitStep("dtls"))
    /\ WF_vars(CloseStep("app")) /\ WF_vars(CloseStep("proc")) /\ WF_vars(JobBegins) /\ WF_vars(CloseChannels)
    /\ WF_vars(TearDown)
    /\ \A x \in Transports : WF_vars(Destroy(x))
    /\ \A x \in Dtlss \union Sctps : WF_vars(x \in stopped /\ Down(x))

Spec == Init /\ [][Next]_vars /\ Fairness

-----------------------------------------------------------------------------

(* A pointer that closeTransports() has still to take, ...                   *)
WillBeTaken(l) ==
    \E t \in {"app", "proc"} :
        \/ at[t] = "sctp"
        \/ at[t] = "dtls" /\ l \in {"dtls", "ice"}
        \/ at[t] = "ice" /\ l = "ice"

(* ... or that a thread has just stored and will reset.                      *)
WillBeReset(l) ==
    \E t \in {"api", "ice", "dtls"} : Level(t) = l /\ at[t] \in {"start", "emplaced"}

(* Pointers of a thread are of the level it works on.                        *)
LocalOfLevel ==
    /\ \A t \in {"api", "ice", "dtls"} :
          at[t] \in {"store", "start", "emplaced"} => local[t] \in Of(Level(t))
    /\ at["api"] = "described" => local["api"] \in Ices

PointersGo ==
    state = "Closed" =>
        \A l \in Levels : slot[l] # Null => WillBeTaken(l) \/ WillBeReset(l)

(* Whoever comes first, closeTransports() or a thread that starts a          *)
(* transport, no transport is left behind in a closed connection: a pointer  *)
(* that is still there will be taken by the one or reset by the other.       *)
NoTransportLeft ==
    /\ TypeOK
    /\ LocalOfLevel
    /\ PointersGo

(* No transport is stopped behind the back of an open connection, unless one *)
(* could not be started or two threads started SCTP.                         *)
StoppedOnlyByClose == stopped = {} \/ closing \/ anomalies # {}

(* A connection that failed or was disconnected is closed, unless a          *)
(* transport could not be started.                                           *)
DownCloses == state \in {"Disconnected", "Failed"} ~> (state = "Closed" \/ anomalies # {})

(* close() and the destructor end in Closed, whatever the transports do;     *)
(* then the channels are closed and all transports destroyed.                *)
CloseCleansUp ==
    closing ~> (state = "Closed" /\ channels = "closed" /\ \A x \in Transports : ~Alive(x))

\* Every close comes to its end: that of the application, and that of a
\* connection that went down.
ConnectionCloses == DownCloses /\ CloseCleansUp
=============================================================================
