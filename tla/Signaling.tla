----------------------------- MODULE Signaling -----------------------------
(***************************************************************************)
(* Offers, answers and candidates between two peers:                       *)
(* setLocalDescription() and setRemoteDescription() of                     *)
(* src/src/peerconnection.cpp with what they call in                       *)
(* src/src/impl/peerconnection.cpp and src/src/impl/icetransport.cpp       *)
(* (libjuice), and the tables of tracks they read.                         *)
(*                                                                         *)
(* Each peer has an application thread "app" and a thread "net" which      *)
(* gives the peer's messages to the connection, in order.  A call runs     *)
(* under signalingMutex up to its unlock() in one step; what it still has  *)
(* to do afterwards is on the thread's stack, and an exception drops the   *)
(* stack.  Callbacks are jobs of one Processor, so the messages to the     *)
(* other peer leave in the order of the calls.                             *)
(*                                                                         *)
(* A description is its type, its role, its lines and its candidates.      *)
(***************************************************************************)
EXTENDS Integers, Sequences, FiniteSets, SequencesExt

CONSTANTS
    Auto,           \* the peers without disableAutoNegotiation
    TrackMids,      \* the mids of tracks the application may add
    CandidatesA,    \* how many candidates the agent of peer A gathers,
    CandidatesB,    \* and that of peer B
    MaxCalls,       \* bounds the calls of the applications
    MaxTracks,      \* bounds the tracks of a connection
    None            \* no description

Peers == {"A", "B"}
Other(p) == IF p = "A" THEN "B" ELSE "A"
Threads == {"app", "net"}
Candidates == [A |-> CandidatesA, B |-> CandidatesB]

ASSUME AutoAssumption == Auto \subseteq Peers
ASSUME BoundsAssumption == {CandidatesA, CandidatesB, MaxCalls, MaxTracks} \subseteq Nat
ASSUME TrackMidsAssumption == TrackMids \subseteq Nat

VARIABLES
    sig,        \* sig[p]: signalingState
    local,      \* mLocalDescription
    current,    \* mCurrentLocalDescription
    remote,     \* mRemoteDescription
    role,       \* IceTransport::mRole
    lines,      \* mTrackLines: the tracks in the order they were emplaced
    tracks,     \* mTracks: from mids to positions in lines
    channel,    \* a data channel: where the tables have it
    closeJob,   \* remoteCloseDataChannels is in the Processor's queue
    gathering,  \* gatheringState of the connection
    agent,      \* the ICE agent: -1, or how many candidates it has; one more if done
    given,      \* the remote candidates the agent was given, in order
    stack,      \* stack[p][t]: what the call of thread t has still to do
    extracted,  \* the candidates of the description that "net" works on
    net,        \* net[p]: the messages for p
    calls,      \* the calls of the applications so far
    refused,    \* history: the peers where a message from the other one threw
    anomalies   \* history: "glare", "rollback", "noApplication", "gatherTwice"

descriptions == <<sig, local, current, remote, role>>
media == <<lines, tracks, channel, closeJob>>
ice == <<gathering, agent, given, extracted>>
control == <<stack, net, calls>>
history == <<refused, anomalies>>
vars == <<descriptions, media, ice, control, history>>

Mids == 0 .. MaxTracks + 1
Lines == [kind : {"application", "media"}, mid : Mids \union TrackMids, removed : BOOLEAN]
Types == {"offer", "answer", "pranswer"}
Roles == {"actpass", "active", "passive"}
SigStates == {"stable", "haveLocalOffer", "haveRemoteOffer"}

IsDescription(d) ==
    /\ d.type \in Types /\ d.role \in Roles
    /\ \A i \in DOMAIN d.lines : d.lines[i] \in Lines
    /\ \E p \in Peers : d.cands \subseteq 1 .. Candidates[p]

TypeOK ==
    /\ sig \in [Peers -> SigStates]
    /\ \A p \in Peers : \A d \in {local[p], current[p], remote[p]} : d = None \/ IsDescription(d)
    /\ role \in [Peers -> Roles]
    /\ \A p \in Peers :
           /\ \A i \in DOMAIN lines[p] : lines[p][i].state \in {"open", "closed", "gone"}
           /\ tracks[p] \in [TrackMids -> 0 .. Len(lines[p])]
           /\ agent[p] \in -1 .. Candidates[p] + 1
    /\ channel \in [Peers -> {"none", "unassigned", "assigned", "closed"}]
    /\ gathering \in [Peers -> {"New", "InProgress", "Complete"}]
    /\ calls \in 0 .. MaxCalls
    /\ refused \subseteq Peers

Init ==
    /\ sig = [p \in Peers |-> "stable"]
    /\ local = [p \in Peers |-> None]
    /\ current = [p \in Peers |-> None]
    /\ remote = [p \in Peers |-> None]
    /\ role = [p \in Peers |-> "actpass"]
    /\ lines = [p \in Peers |-> <<>>]
    /\ tracks = [p \in Peers |-> [m \in TrackMids |-> 0]]
    /\ channel = [p \in Peers |-> "none"]
    /\ closeJob = [p \in Peers |-> FALSE]
    /\ gathering = [p \in Peers |-> "New"]
    /\ agent = [p \in Peers |-> -1]
    /\ given = [p \in Peers |-> <<>>]
    /\ extracted = [p \in Peers |-> {}]
    /\ stack = [p \in Peers |-> [t \in Threads |-> <<>>]]
    /\ net = [p \in Peers |-> <<>>]
    /\ calls = 0
    /\ refused = {}
    /\ anomalies = {}

-----------------------------------------------------------------------------
(* Descriptions.                                                             *)

HasMid(ls, mid) == \E i \in DOMAIN ls : ls[i].mid = mid
HasApplication(d) == \E i \in DOMAIN d.lines : d.lines[i].kind = "application" /\ ~d.lines[i].removed
MidsOf(d) == [i \in DOMAIN d.lines |-> <<d.lines[i].kind, d.lines[i].mid>>]

(* Whether the tables have a data channel: a closed one stays in them.       *)
HasChannel(p) == channel[p] # "none"

(* processLocalDescription: the lines of the remote description come first.  *)
(* The line of a known track is that of its description, which nothing marks *)
(* as removed, unless the track was destroyed; ...                           *)
Reciprocated(p, line) ==
    IF line.kind = "application"
    THEN IF HasChannel(p) THEN [line EXCEPT !.removed = FALSE] ELSE line
    ELSE LET i == tracks[p][line.mid]
         IN  IF i = 0 THEN line ELSE [line EXCEPT !.removed = lines[p][i].state = "gone"]

RemoteLines(p) == IF remote[p] = None THEN <<>>
                  ELSE [i \in DOMAIN remote[p].lines |-> Reciprocated(p, remote[p].lines[i])]

(* ... for an unknown one a track is made, closed if the line is removed;    *)
Incoming(p) ==
    IF remote[p] = None THEN <<>>
    ELSE LET new == SelectSeq(remote[p].lines, LAMBDA l : l.kind = "media" /\ tracks[p][l.mid] = 0)
         IN  [i \in DOMAIN new |-> [mid |-> new[i].mid, state |-> IF new[i].removed THEN "closed" ELSE "open"]]

(* an offer has, after them, the tracks whose mid is not there yet ...       *)
RECURSIVE WithTracks(_, _)
WithTracks(ls, rest) ==
    IF rest = <<>> THEN ls
    ELSE LET t == Head(rest)
         IN  WithTracks(IF t.state = "gone" \/ HasMid(ls, t.mid) THEN ls
                        ELSE Append(ls, [kind |-> "media", mid |-> t.mid, removed |-> FALSE]),
                        Tail(rest))

(* ... and an application with the first mid that is free.                   *)
WithApplication(p, ls) ==
    IF HasApplication([lines |-> ls]) \/ ~HasChannel(p) THEN ls
    ELSE LET free == CHOOSE m \in 0 .. Len(ls) : ~HasMid(ls, m) /\ \A n \in 0 .. m - 1 : HasMid(ls, n)
         IN  Append(ls, [kind |-> "application", mid |-> free, removed |-> FALSE])

(* populateLocalDescription: an offer adds the tracks and the channel of this *)
(* peer to the lines of the remote description; an answer has those alone.   *)
LocalLines(p, type) ==
    IF type = "offer" THEN WithApplication(p, WithTracks(RemoteLines(p), lines[p]))
    ELSE RemoteLines(p)

(* The first of two tracks with the same mid keeps its place in mTracks.     *)
Emplaced(p, new) ==
    /\ lines' = [lines EXCEPT ![p] = @ \o new]
    /\ tracks' = [tracks EXCEPT ![p] = [m \in TrackMids |->
                    IF @[m] = 0 /\ \E i \in DOMAIN new : new[i].mid = m
                    THEN Len(lines[p]) + (CHOOSE i \in DOMAIN new : new[i].mid = m) ELSE @[m]]]

(* A removed line whose mid no track has is no reason to negotiate, a line   *)
(* whose track is closed or destroyed is one.                                *)
NegotiationNeeded(p) ==
    LET known == {tracks[p][m] : m \in TrackMids} \ {0}
    IN  \/ HasChannel(p) /\ (local[p] = None \/ ~HasApplication(local[p]))
        \/ \E i \in known : /\ lines[p][i].state # "gone"
                            /\ local[p] = None \/ ~HasMid(local[p].lines, lines[p][i].mid)
        \/ /\ local[p] # None
           /\ \E k \in DOMAIN local[p].lines :
                  LET l == local[p].lines[k]
                  IN  /\ l.kind = "media" /\ ~l.removed /\ tracks[p][l.mid] # 0
                      /\ lines[p][tracks[p][l.mid]].state # "open"

-----------------------------------------------------------------------------
(* Threads.                                                                  *)

Stack(p, t, s) == stack' = [stack EXCEPT ![p][t] = s]
Rest(p, t) == Tail(stack[p][t])
Throw(p, t) == Stack(p, t, <<>>)
At(p, t, label) == stack[p][t] # <<>> /\ Head(stack[p][t]) = label
Send(p, msg) == net' = [net EXCEPT ![Other(p)] = Append(@, msg)]
Anomaly(a) == anomalies' = anomalies \union {a}

(* rollbackLocalDescription keeps the candidates, and the pending            *)
(* description itself when there was none before it.                         *)
RollbackLocalDescription(p) ==
    IF current[p] = None THEN UNCHANGED <<local, current>>
    ELSE /\ local' = [local EXCEPT ![p] = [current[p] EXCEPT !.cands = @ \union local[p].cands]]
         /\ current' = [current EXCEPT ![p] = None]

(* The type that setLocalDescription() guesses.                              *)
Guess(p, type) == IF type # "unspec" THEN type
                  ELSE IF sig[p] = "haveRemoteOffer" THEN "answer" ELSE "offer"

LocalAllowed(p, type) == \/ sig[p] = "stable" /\ type = "offer"
                         \/ sig[p] = "haveRemoteOffer" /\ type \in {"answer", "pranswer"}

(* setLocalDescription() up to unlock(), and what is left to do after it.    *)
SetLocal(p, t) ==
    \E type \in {Guess(p, Head(stack[p][t]))} :
    LET ls == LocalLines(p, type)
        new == Incoming(p)
        cands == {c \in 1 .. Candidates[p] : c <= agent[p]}
        d == [type |-> type, role |-> IF type = "offer" THEN "actpass" ELSE role[p],
              lines |-> ls, cands |-> cands]
        gather == IF gathering[p] = "New" THEN <<"gather">> ELSE <<>>     \* it is never New again
        after == (IF type # "offer" /\ p \in Auto THEN <<"needed">> ELSE <<>>) \o gather
    IN  /\ LocalAllowed(p, type) /\ ls # <<>>
        /\ Len(lines[p]) + Len(new) <= MaxTracks
        /\ Emplaced(p, new)
        /\ current' = [current EXCEPT ![p] = IF local[p] = None THEN @ ELSE [local[p] EXCEPT !.cands = {}]]
        /\ local' = [local EXCEPT ![p] = IF @ = None THEN d ELSE [d EXCEPT !.cands = cands \union local[p].cands]]
        /\ Send(p, d)
        /\ sig' = [sig EXCEPT ![p] = IF type = "offer" THEN "haveLocalOffer" ELSE "stable"]
        /\ Stack(p, t, after \o Rest(p, t))
        /\ UNCHANGED <<remote, role, channel, closeJob, ice, calls, history>>

(* A second offer is ignored.                                                *)
SetLocalIgnored(p, t) ==
    /\ sig[p] = "haveLocalOffer"
    /\ Stack(p, t, Rest(p, t))
    /\ UNCHANGED <<descriptions, media, ice, net, calls, history>>

(* A type the state does not expect, or nothing to negotiate.                *)
SetLocalThrows(p, t) ==
    LET type == Guess(p, Head(stack[p][t]))
    IN  /\ sig[p] # "haveLocalOffer"
        /\ ~LocalAllowed(p, type) \/ LocalLines(p, type) = <<>>
        /\ Throw(p, t)
        /\ UNCHANGED <<descriptions, media, ice, net, calls, history>>

SetLocalDescription(p, t) ==
    /\ stack[p][t] # <<>> /\ Head(stack[p][t]) \in Types \union {"unspec"}
    /\ SetLocal(p, t) \/ SetLocalIgnored(p, t) \/ SetLocalThrows(p, t)

RollbackLocal(p, t) ==
    /\ At(p, t, "rollback")
    /\ IF sig[p] = "haveLocalOffer"
       THEN /\ RollbackLocalDescription(p)
            /\ sig' = [sig EXCEPT ![p] = "stable"]
            /\ Anomaly("rollback")
       ELSE UNCHANGED <<local, current, sig, anomalies>>
    /\ Stack(p, t, Rest(p, t))
    /\ UNCHANGED <<remote, role, media, ice, net, calls, refused>>

(* No second look after the description is stable.                           *)
Mut_NoCheck(p, t) ==
    /\ At(p, t, "needed")
    /\ Stack(p, t, Rest(p, t))
    /\ UNCHANGED <<descriptions, media, ice, net, calls, history>>

(* After the unlock: a new offer if one is needed by now.                    *)
CheckNeeded(p, t) ==
    /\ At(p, t, "needed")
    /\ Stack(p, t, (IF NegotiationNeeded(p) THEN <<"offer">> ELSE <<>>) \o Rest(p, t))
    /\ UNCHANGED <<descriptions, media, ice, net, calls, history>>

(* createDataChannel() asks for the signaling state too.                     *)
CheckStable(p, t) ==
    /\ At(p, t, "channel")
    /\ Stack(p, t, (IF p \in Auto /\ sig[p] = "stable" /\ NegotiationNeeded(p)
                    THEN <<"offer">> ELSE <<>>) \o Rest(p, t))
    /\ UNCHANGED <<descriptions, media, ice, net, calls, history>>

(* The first description starts the gathering; test and call are two steps.  *)
CheckGathering(p, t) ==
    /\ At(p, t, "gather")
    /\ Stack(p, t, (IF gathering[p] = "New" THEN <<"start">> ELSE <<>>) \o Rest(p, t))
    /\ UNCHANGED <<descriptions, media, ice, net, calls, history>>

(* Returns when the agent has begun, without starting it: the thread waits   *)
(* for what only it would do.                                                *)
Mut_GatherWaits(p, t) ==
    /\ At(p, t, "start") /\ agent[p] # -1
    /\ gathering' = [gathering EXCEPT ![p] = "InProgress"]
    /\ Stack(p, t, Rest(p, t))
    /\ UNCHANGED <<descriptions, media, agent, given, extracted, net, calls, history>>

(* gatherLocalCandidates: the agent ignores the call if it has begun, the    *)
(* transport sets the state all the same.                                    *)
GatherLocalCandidates(p, t) ==
    /\ At(p, t, "start")
    /\ gathering' = [gathering EXCEPT ![p] = "InProgress"]
    /\ agent' = [agent EXCEPT ![p] = IF @ = -1 THEN 0 ELSE @]
    /\ IF agent[p] = -1 THEN UNCHANGED anomalies ELSE Anomaly("gatherTwice")
    /\ Stack(p, t, Rest(p, t))
    /\ UNCHANGED <<descriptions, media, given, extracted, net, calls, refused>>

-----------------------------------------------------------------------------
(* setRemoteDescription() by the thread "net".                               *)

Message(p) == Head(net[p])
Receives(p) == stack[p]["net"] = <<>> /\ net[p] # <<>> /\ net' = [net EXCEPT ![p] = Tail(@)]
IsCandidate(msg) == "candidate" \in DOMAIN msg

(* An offer that comes while an own one waits rolls the own one back.        *)
Crossed(p) == sig[p] = "haveLocalOffer" /\ Message(p).type = "offer"

RemoteAllowed(p) == \/ sig[p] = "stable" /\ Message(p).type = "offer"
                    \/ sig[p] = "haveLocalOffer"

(* IceTransport::setRemoteDescription: the role that follows from the other. *)
RoleAfter(p) == IF role[p] # "actpass" THEN role[p]
                ELSE IF Message(p).role = "active" THEN "passive" ELSE "active"

RoleRefused(p) == \/ Message(p).type = "answer" /\ Message(p).role = "actpass"
                  \/ RoleAfter(p) = Message(p).role

SetRemoteDescription(p) ==
    /\ Receives(p) /\ ~IsCandidate(Message(p))
    /\ RemoteAllowed(p) /\ ~RoleRefused(p)
    /\ IF Crossed(p) THEN RollbackLocalDescription(p) ELSE UNCHANGED <<local, current>>
    /\ role' = [role EXCEPT ![p] = RoleAfter(p)]
    /\ remote' = [remote EXCEPT ![p] = [Message(p) EXCEPT
                    !.cands = IF remote[p] = None THEN {} ELSE remote[p].cands]]
    /\ closeJob' = [closeJob EXCEPT ![p] = @ \/ ~HasApplication(Message(p))]
    /\ sig' = [sig EXCEPT ![p] = IF Message(p).type = "offer" THEN "haveRemoteOffer" ELSE "stable"]
    /\ stack' = [stack EXCEPT ![p]["net"] =
                    (IF Message(p).cands = {} THEN <<>> ELSE <<"candidates">>) \o
                    (IF p \notin Auto THEN <<>>
                     ELSE IF Message(p).type = "offer" THEN <<"answer">> ELSE <<"needed">>)]
    /\ extracted' = [extracted EXCEPT ![p] = Message(p).cands]
    /\ anomalies' = anomalies \union (IF Crossed(p) THEN {"glare"} ELSE {})
    /\ UNCHANGED <<lines, tracks, channel, gathering, agent, given, calls, refused>>

(* A type the state does not expect, or roles which do not fit: the latter   *)
(* only after the rollback.                                                  *)
SetRemoteThrows(p) ==
    /\ Receives(p) /\ ~IsCandidate(Message(p))
    /\ ~RemoteAllowed(p) \/ RoleRefused(p)
    /\ IF RemoteAllowed(p) /\ Crossed(p)
       THEN RollbackLocalDescription(p) /\ sig' = [sig EXCEPT ![p] = "stable"] /\ Anomaly("glare")
       ELSE UNCHANGED <<local, current, sig, anomalies>>
    /\ role' = [role EXCEPT ![p] =
                    IF RemoteAllowed(p) /\ ~(Message(p).type = "answer" /\ Message(p).role = "actpass")
                    THEN RoleAfter(p) ELSE @]
    /\ refused' = refused \union {p}
    /\ UNCHANGED <<remote, media, ice, stack, calls>>

(* processRemoteCandidate: what the description has already is ignored.      *)
AddCandidates(p, cands) ==
    LET new == cands \ remote[p].cands
    IN  /\ remote' = [remote EXCEPT ![p].cands = @ \union new]
        /\ given' = [given EXCEPT ![p] = @ \o SetToSeq(new)]

(* The candidates which came in a description.                               *)
ExtractedCandidates(p) ==
    /\ At(p, "net", "candidates")
    /\ AddCandidates(p, extracted[p])
    /\ extracted' = [extracted EXCEPT ![p] = {}]
    /\ Stack(p, "net", Rest(p, "net"))
    /\ UNCHANGED <<sig, local, current, role, media, gathering, agent, net, calls, history>>

AddRemoteCandidate(p) ==
    /\ Receives(p) /\ IsCandidate(Message(p))
    /\ IF remote[p] # None
       THEN AddCandidates(p, {Message(p).candidate}) /\ UNCHANGED refused
       ELSE refused' = refused \union {p} /\ UNCHANGED <<remote, given>>
    /\ UNCHANGED <<sig, local, current, role, media, gathering, agent, extracted, stack, calls, anomalies>>

-----------------------------------------------------------------------------
(* The agent, the jobs and the application.                                  *)

(* processLocalCandidate.                                                    *)
LocalCandidate(p) ==
    /\ agent[p] \in 0 .. Candidates[p] - 1
    /\ agent' = [agent EXCEPT ![p] = @ + 1]
    /\ local' = [local EXCEPT ![p].cands = @ \union {agent[p] + 1}]
    /\ Send(p, [candidate |-> agent[p] + 1])
    /\ UNCHANGED <<sig, current, remote, role, media, gathering, given, extracted, stack, calls, history>>

(* processGatheringDone, once.                                               *)
GatheringDone(p) ==
    /\ agent[p] = Candidates[p]
    /\ agent' = [agent EXCEPT ![p] = @ + 1]
    /\ gathering' = [gathering EXCEPT ![p] = "Complete"]
    /\ UNCHANGED <<descriptions, media, given, extracted, control, history>>

(* remoteCloseDataChannels closes the channels that have a stream.           *)
RemoteCloseDataChannels(p) ==
    /\ closeJob[p]
    /\ closeJob' = [closeJob EXCEPT ![p] = FALSE]
    /\ IF channel[p] = "assigned"
       THEN channel' = [channel EXCEPT ![p] = "closed"] /\ Anomaly("noApplication")
       ELSE UNCHANGED <<channel, anomalies>>
    /\ UNCHANGED <<descriptions, lines, tracks, ice, control, refused>>

Calls(p) == /\ calls < MaxCalls /\ stack[p]["app"] = <<>>
            /\ calls' = calls + 1

CreateDataChannel(p) ==
    /\ Calls(p) /\ channel[p] = "none"
    /\ \E place \in {"unassigned", "assigned"} : channel' = [channel EXCEPT ![p] = place]
    /\ Stack(p, "app", <<"channel">>)
    /\ UNCHANGED <<descriptions, lines, tracks, closeJob, ice, net, history>>

(* emplaceTrack: a track of that mid which is not closed is used again.      *)
AddTrack(p) ==
    /\ Calls(p) /\ Len(lines[p]) < MaxTracks
    /\ \E m \in TrackMids :
           /\ ~(tracks[p][m] # 0 /\ lines[p][tracks[p][m]].state = "open")
           /\ Emplaced(p, <<[mid |-> m, state |-> "open"]>>)
    /\ UNCHANGED <<descriptions, channel, closeJob, ice, stack, net, history>>

(* Track::close(), and the end of the last pointer to it.                    *)
CloseTrack(p) ==
    /\ Calls(p)
    /\ \E i \in DOMAIN lines[p] :
           \/ lines[p][i].state = "open" /\ lines' = [lines EXCEPT ![p][i].state = "closed"]
           \/ lines[p][i].state # "gone" /\ lines' = [lines EXCEPT ![p][i].state = "gone"]
    /\ UNCHANGED <<descriptions, tracks, channel, closeJob, ice, stack, net, history>>

CallSetLocal(p) ==
    /\ Calls(p)
    /\ \E type \in {"unspec", "rollback", "pranswer"} : Stack(p, "app", <<type>>)
    /\ UNCHANGED <<descriptions, media, ice, net, history>>

Step(p, t) == \/ SetLocalDescription(p, t) \/ RollbackLocal(p, t) \/ CheckNeeded(p, t)
              \/ CheckStable(p, t) \/ CheckGathering(p, t) \/ GatherLocalCandidates(p, t)

Receive(p) == \/ SetRemoteDescription(p) \/ SetRemoteThrows(p)
              \/ ExtractedCandidates(p) \/ AddRemoteCandidate(p)

Jobs(p) == LocalCandidate(p) \/ GatheringDone(p) \/ RemoteCloseDataChannels(p)

Application(p) == CreateDataChannel(p) \/ AddTrack(p) \/ CloseTrack(p) \/ CallSetLocal(p)

(* Every thread that is in a call, every message and every job goes on.      *)
Progress(p) == (\E t \in Threads : Step(p, t)) \/ Receive(p) \/ Jobs(p)

Next == \E p \in Peers : Progress(p) \/ Application(p)

Spec == Init /\ [][Next]_vars /\ WF_vars(\E p \in Peers : Progress(p))

-----------------------------------------------------------------------------
(* Properties.                                                               *)

Quiet == \A p \in Peers : /\ sig[p] = "stable" /\ net[p] = <<>>
                          /\ \A t \in Threads : stack[p][t] = <<>>

Crossing == anomalies \intersect {"glare", "rollback"} # {}

(* As long as no offers crossed and no offer was taken back, no description  *)
(* or candidate of the other peer makes setRemoteDescription() or            *)
(* addRemoteCandidate() throw, whatever the threads do between the unlock()  *)
(* and the calls of automatic negotiation; and then one peer is the client   *)
(* and one the server of DTLS.                                               *)
RefusedOnlyAfterCrossing ==
    ~Crossing => /\ refused = {}
                 /\ \A p \in Peers : role[p] # "actpass" => role[p] # role[Other(p)]

(* When a negotiation without crossing offers is over, both peers have the   *)
(* same lines in the same order in both of their descriptions, although each *)
(* may have emplaced tracks and channels in the meantime.                    *)
LinesAgree ==
    Quiet /\ ~Crossing =>
        \A p \in Peers : local[p] # None =>
            /\ MidsOf(local[p]) = MidsOf(remote[p])
            /\ MidsOf(local[p]) = MidsOf(local[Other(p)])

(* A line once described keeps its place: renegotiation only appends.        *)
LinesStay == [][\A p \in Peers : local[p] # None /\ anomalies' \intersect {"glare", "rollback"} = {} =>
                    IsPrefix(MidsOf(local[p]), MidsOf(local'[p]))]_vars

(* The agent is given no candidate twice, and, once everything has arrived,  *)
(* every candidate of the other peer, whether it was trickled, came in a     *)
(* description, or both, and across renegotiations and rollbacks.            *)
CandidatesGiven ==
    \A p \in Peers :
        /\ \A i, j \in DOMAIN given[p] : given[p][i] = given[p][j] => i = j
        /\ Quiet /\ remote[p] # None /\ refused = {} =>
               {given[p][i] : i \in DOMAIN given[p]} = {c \in 1 .. Candidates[Other(p)] : c <= agent[Other(p)]}

(* Automatic negotiation ends, unless a track is closed but kept: its line   *)
(* is never marked as removed, so a new offer is needed for ever; and a peer *)
(* without automatic negotiation may leave the other waiting.                *)
ClosedKept == \E p \in Peers : \E i \in DOMAIN lines[p] : lines[p][i].state = "closed"
NegotiationEnds == Auto = Peers => <>[](Quiet \/ ClosedKept \/ Crossing)

(* When all is quiet a data channel has its line at both peers, unless       *)
(* offers crossed or a description without application has closed it first;  *)
(* and gathering that was begun is complete, unless two threads began it.    *)
NothingForgotten ==
    Quiet /\ Auto = Peers => \A p \in Peers :
        /\ HasChannel(p) => \/ remote[p] # None /\ HasApplication(remote[p]) /\ HasApplication(local[p])
                           \/ Crossing \/ channel[p] = "closed"
        /\ agent[p] = Candidates[p] + 1 =>
               gathering[p] = "Complete" \/ "gatherTwice" \in anomalies

\* Offers, answers, rollbacks, candidates and automatic negotiation in any order:
\* only crossing offers are refused, the lines of both peers agree, every candidate
\* reaches the agent once, and no channel is left without negotiation.
NegotiationInv == RefusedOnlyAfterCrossing /\ LinesAgree /\ CandidatesGiven /\ NothingForgotten

\* Negotiation comes to an end, and what has its line keeps it meanwhile.
NegotiationSettles == LinesStay /\ NegotiationEnds
=============================================================================
