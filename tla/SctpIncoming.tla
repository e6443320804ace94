---------------------------- MODULE SctpIncoming ----------------------------
(***************************************************************************)
(* Everything an SCTP transport receives: the lower transport's thread     *)
(* passes packets through the gate of incoming() (SctpGate) to usrsctp,    *)
(* and doRecv() reads from usrsctp what they carried (SctpReceive) until   *)
(* the transport is disconnected, failed or destroyed.                     *)
(***************************************************************************)
EXTENDS SctpReceive

CONSTANT MaxPackets

ASSUME PacketsAssumption == MaxPackets \in Nat

VARIABLES state, mWrittenOnce, wrote, lower, owner, registered, inputs, packets, missed

gateVars == <<state, mWrittenOnce, wrote, lower, owner, registered, inputs, packets, missed>>

Gate == INSTANCE SctpGate

IncomingInit == Init /\ Gate!Init

(* The loop of doRecv(); jobs keep the transport alive, so none runs once it *)
(* is being destroyed.                                                       *)
Receiving ==
    /\ state \notin {"Disconnected", "Failed"}
    /\ owner \in {"idle", "close", "closeNotify"}

(* usrsctp has something to return once packets went both ways.              *)
IncomingNext ==
    \/ Gate!Next /\ UNCHANGED vars
    \/ wrote /\ Receiving /\ Next /\ UNCHANGED gateVars

(* As for the gate alone: the lower transport's thread runs on, and a        *)
(* tear-down once begun.                                                     *)
IncomingSpec ==
    /\ IncomingInit
    /\ [][IncomingNext]_<<vars, gateVars>>
    /\ WF_gateVars(Gate!Lower /\ UNCHANGED vars)
    /\ WF_gateVars(owner # "idle" /\ Gate!TearDown /\ UNCHANGED vars)

-----------------------------------------------------------------------------

(* The gate's safety: our INIT goes first, and unregisterIncoming() leaves   *)
(* no thread in incoming().                                                  *)
GateInv == Gate!GateInv

(* Writing our first packet releases the lower transport's thread.           *)
WriteReleases == Gate!WriteReleases

(* The destructor of the transport ends, unless its notification was missed. *)
DestructorEnds == Gate!DestructorEnds

\* Packets pass the gate after our first one, and the pieces usrsctp returns, with
\* notifications in between and messages cut at the limit, become the messages that
\* were sent.
IncomingInv == GateInv /\ NotificationsWhole /\ WholeDeliveredAsSent /\ BoundariesKept

\* Nobody is left at the gate: neither the thread that waits in incoming() nor the
\* destructor that waits for it.
GateProgress == WriteReleases /\ DestructorEnds
=============================================================================
