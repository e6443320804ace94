--------------------------------- MODULE Ice ---------------------------------
(***************************************************************************)
(* IceTransport with its two libraries (libjuice, libnice): the state of    *)
(* the agent as the transport and the peer connection report it, the        *)
(* timeout that libnice's failures wait for while candidates may still      *)
(* come, gathering, the DSCP value of each packet, and the destruction of   *)
(* the transport by closeTransports() while callbacks run.  The agent is    *)
(* external.                                                                *)
(***************************************************************************)
EXTENDS Naturals

CONSTANTS MaxChanges,  \* state changes of the agent
          Dscps        \* DSCP values, 0 among them

ASSUME IceConstants == MaxChanges \in Nat /\ 0 \in Dscps /\ Dscps \subseteq Nat

IceStates == {"disconnected", "connecting", "connected", "completed", "failed"}
Senders == {"dtls", "media"}

VARIABLES
    lib,         \* the library of the build
    trickle,     \* mTrickleTimeout > 0: the remote description had no end of candidates
    agentState,  \* the state of the component, as the library has it
    changes,     \* changes so far
    loop,        \* the library's thread: "idle", or the step of a callback
    timer,       \* mTimeoutId: the timeout is armed
    iState,      \* Transport::mState
    iceState,    \* PeerConnection::iceState
    closer,      \* the thread in closeTransports()
    gather,      \* mGatheringState
    gatherer,    \* the thread in gatherLocalCandidates()
    snd,         \* the step and the packet of each sender
    cached,      \* mOutgoingDscp
    tos,         \* the value the agent marks packets with
    sentAs,      \* the last packet sent: its DSCP and the mark it got
    overtaken,   \* ghost: a callback wrote iceState after closeTransports()
    raced,       \* ghost: the transport was destroyed with the timeout running
    touched      \* ghost: a callback used the destroyed transport

componentV == <<agentState, changes>>
gatherV == <<gather, gatherer>>
sendV   == <<snd, cached, tos, sentAs>>
ghostV  == <<overtaken, raced, touched>>
iceVars == <<lib, trickle, componentV, loop, timer, iState, iceState, closer, gatherV, sendV, ghostV>>

Idle == <<"idle", 0>>

IceInit ==
    /\ lib \in {"juice", "nice"} /\ trickle \in BOOLEAN
    /\ agentState = "disconnected" /\ changes = 0 /\ loop = "idle" /\ timer = FALSE
    /\ iState = "disconnected" /\ iceState = "New" /\ closer = "idle"
    /\ gather = "New" /\ gatherer = "idle"
    /\ snd = [s \in Senders |-> Idle] /\ cached = 0 /\ tos = 0 /\ sentAs = <<0, 0>>
    /\ overtaken = FALSE /\ raced = FALSE /\ touched = FALSE

Alive == closer # "destroyed"

-----------------------------------------------------------------------------
(* The agent and its callbacks. *)

\* The states which the agent may take next.  A failed libnice component tries
\* again when a candidate comes.
Follows(s) ==
    CASE s = "disconnected" -> {"connecting"}
      [] s = "connecting" -> {"connected", "failed"}
      [] s = "connected" -> {"completed", "disconnected", "failed"}
      [] s = "completed" -> {"disconnected", "failed"}
      [] s = "failed" -> IF lib = "nice" THEN {"connecting"} ELSE {}

AgentChanges ==
    /\ Alive /\ loop = "idle" /\ changes < MaxChanges /\ gather # "New"
    /\ agentState' \in Follows(agentState) /\ changes' = changes + 1 /\ loop' = "process"
    /\ UNCHANGED <<lib, trickle, timer, iState, iceState, closer, gatherV, sendV, ghostV>>

\* libnice: while candidates may come a failure only arms the timeout.
Deferred == lib = "nice" /\ agentState = "failed" /\ trickle

\* The timeout is armed by a failure and removed by a connection.
TimerAfter == Deferred \/ (timer /\ agentState # "connected")

\* processStateChange()
ProcessStateChange ==
    /\ loop = "process" /\ timer' = TimerAfter
    /\ iState' = IF Deferred THEN iState ELSE agentState
    /\ loop' = IF Deferred \/ iState = agentState THEN "idle" ELSE "report"
    /\ UNCHANGED <<lib, trickle, componentV, iceState, closer, gatherV, sendV, ghostV>>

\* The timeout of the main loop begins.
TimeoutFires ==
    /\ timer /\ loop = "idle" /\ loop' = "timeout"
    /\ UNCHANGED <<lib, trickle, componentV, timer, iState, iceState, closer, gatherV, sendV, ghostV>>

\* processTimeout(), with a pointer nobody keeps alive.
ProcessTimeout ==
    /\ loop = "timeout" /\ timer' = FALSE /\ iState' = "failed"
    /\ touched' = (touched \/ ~Alive)
    /\ loop' = IF iState = "failed" \/ ~Alive THEN "idle" ELSE "report"
    /\ UNCHANGED <<lib, trickle, componentV, iceState, closer, gatherV, sendV, overtaken, raced>>

\* The callback of PeerConnection: changeIceState(), and in the end a task closes.
Report ==
    /\ loop = "report" /\ loop' = "idle" /\ iceState' = iState
    /\ overtaken' = (overtaken \/ closer \notin {"idle", "task"})
    /\ closer' = IF closer = "idle" /\ iState \in {"failed", "disconnected"} THEN "task" ELSE closer
    /\ UNCHANGED <<lib, trickle, componentV, timer, iState, gatherV, sendV, raced, touched>>

-----------------------------------------------------------------------------
(* closeTransports(), called by the application or by the task. *)

\* changeIceState(Closed), then the transport goes to the tear-down thread.
CloseIce ==
    /\ closer \in {"idle", "task"} /\ closer' = "tearDown" /\ iceState' = "Closed"
    /\ UNCHANGED <<lib, trickle, componentV, loop, timer, iState, gatherV, sendV, ghostV>>

Mut_Destroy ==
    /\ closer = "tearDown" /\ loop \in {"idle", "timeout"}
    /\ snd = [s \in Senders |-> Idle] /\ gatherer # "ask"
    /\ closer' = "destroyed" /\ raced' = (loop = "timeout")
    /\ UNCHANGED <<lib, trickle, timer, componentV, loop, iState, iceState, gatherV, sendV, overtaken, touched>>

\* ~IceTransport(): the agent's callbacks are over, the timeout is removed; one
\* that has begun is not waited for.
Destroy ==
    /\ closer = "tearDown" /\ loop \in {"idle", "timeout"}
    /\ snd = [s \in Senders |-> Idle] /\ gatherer # "ask"
    /\ closer' = "destroyed" /\ timer' = FALSE /\ raced' = (loop = "timeout")
    /\ UNCHANGED <<lib, trickle, componentV, loop, iState, iceState, gatherV, sendV, overtaken, touched>>

-----------------------------------------------------------------------------
(* Gathering and sending. *)

\* gatherLocalCandidates(): the state changes first, as candidates may come at once.
GatherStart ==
    /\ gather = "New" /\ closer = "idle" /\ gather' = "InProgress" /\ gatherer' = "ask"
    /\ UNCHANGED <<lib, trickle, componentV, loop, timer, iState, iceState, closer, sendV, ghostV>>

\* The agent begins to gather, or refuses, and the state stays as it is.
GatherAsk ==
    /\ gatherer = "ask" /\ gatherer' \in {"running", "failed"}
    /\ UNCHANGED <<lib, trickle, componentV, loop, timer, iState, iceState, closer, gather, sendV, ghostV>>

\* processGatheringDone()
GatheringDone ==
    /\ gatherer = "running" /\ Alive /\ gatherer' = "idle" /\ gather' = "Complete"
    /\ UNCHANGED <<lib, trickle, componentV, loop, timer, iState, iceState, closer, sendV, ghostV>>

\* Whether another sender holds mOutgoingMutex; libjuice is given the value with
\* the packet.
Locked(s) == lib = "nice" /\ \E o \in Senders \ {s} : snd[o][1] = "out"

\* send(): only with an agent that is connected and before closeTransports() takes
\* the transport away; outgoing() sets the mark if it is not the one cached.
SendSet(s, d) ==
    /\ snd[s] = Idle /\ closer \in {"idle", "task"} /\ iState \in {"connected", "completed"} /\ ~Locked(s)
    /\ snd' = [snd EXCEPT ![s] = <<"out", d>>]
    /\ cached' = d /\ tos' = IF cached = d THEN tos ELSE d
    /\ UNCHANGED <<lib, trickle, componentV, loop, timer, iState, iceState, closer, gatherV, sentAs, ghostV>>

SendOut(s) ==
    /\ snd[s][1] = "out"
    /\ sentAs' = <<snd[s][2], IF lib = "juice" THEN snd[s][2] ELSE tos>>
    /\ snd' = [snd EXCEPT ![s] = Idle]
    /\ UNCHANGED <<lib, trickle, componentV, loop, timer, iState, iceState, closer, gatherV, cached, tos, ghostV>>

IceLibrary == ProcessStateChange \/ Report \/ ProcessTimeout \/ TimeoutFires
              \/ GatherAsk \/ GatheringDone \/ Destroy \/ (closer = "task" /\ CloseIce)
IceSends == \E s \in Senders : SendOut(s)
IceNext == IceLibrary \/ IceSends \/ AgentChanges \/ (closer = "idle" /\ CloseIce) \/ GatherStart
           \/ \E s \in Senders, d \in Dscps : SendSet(s, d)

IceSpec == IceInit /\ [][IceNext]_iceVars /\ WF_iceVars(IceLibrary) /\ WF_iceVars(IceSends)

-----------------------------------------------------------------------------
IceTypeOK ==
    /\ agentState \in IceStates /\ iState \in IceStates /\ iceState \in IceStates \cup {"New", "Closed"}
    /\ loop \in {"idle", "process", "report", "timeout"} /\ changes \in 0..MaxChanges
    /\ closer \in {"idle", "task", "tearDown", "destroyed"} /\ gather \in {"New", "InProgress", "Complete"}

\* A connection that works is never reported as failed, although the timeout of
\* an earlier failure may still be armed when the agent tries again.
FailedHonest == iState = "failed" /\ loop = "idle" /\ Alive => agentState \notin {"connected", "completed"}

\* closeTransports() makes Closed the last state of ICE, unless a callback that was
\* under way overwrites it: iceState is not the sink the comment there says.
ClosedIsLast == closer \in {"tearDown", "destroyed"} => iceState = "Closed" \/ overtaken

\* No callback uses the transport after its destruction, except a timeout which
\* had begun before it.
TimeoutRemoved == touched => raced

\* Each packet is marked with its own DSCP value.
MarkedAsAsked == sentAs[1] = sentAs[2]

\* A failure of the agent is reported, at the latest when the timeout is over,
\* and ends with the destruction of the transport, unless the agent recovers.
FailureReported == (agentState = "failed") ~> (closer = "destroyed" \/ agentState # "failed")

\* Gathering that began completes, unless the agent refuses to begin: then the
\* state remains InProgress for ever and nothing is gathered again.
GatheringEnds == (gather = "InProgress") ~> (gather = "Complete" \/ gatherer = "failed" \/ ~Alive)

\* The agent, the timeout of libnice and close() run at once: failure is reported
\* of an agent that failed, nothing but a callback under way follows Closed, no timeout
\* outlives the transport, and packets carry the mark that was asked for.
AgentInv == FailedHonest /\ ClosedIsLast /\ TimeoutRemoved /\ MarkedAsAsked
=============================================================================
