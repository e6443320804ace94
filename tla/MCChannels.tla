----------------------------- MODULE MCChannels -----------------------------
(* DataChannels and Processor for TLC, in one run: a behaviour is one of the   *)
(* part that the initial state chooses.                                        *)
(*                                                                             *)
(* Peer A creates c1 and c2 and can use only stream 0, so that c2 gets the     *)
(* stream of c1 or none.  Applications close both ends of c1, and B sends on   *)
(* it.  Two processors share the pool; three jobs of the first one are enough  *)
(* for one to run while one waits in the pool's reach and one behind it.       *)
EXTENDS DataChannels, Processor

CONSTANTS c1, c2, p1, p2, a1, a2, a3, b1

Closable == {<<c1, "out">>, <<c1, "in">>}
Sendable == {<<c1, "in">>}
AllByA == [c \in Chans |-> "A"]

JobOwner(j) == IF j \in {a1, a2, a3} THEN p1 ELSE p2

VARIABLE part

allVars == <<part, channelsVars, vars>>

AllInit == part \in {"channels", "processor"} /\ ChannelsInit /\ Init

ChannelsPart(A) == part = "channels" /\ A /\ UNCHANGED <<part, vars>>
ProcessorPart(A) == part = "processor" /\ A /\ UNCHANGED <<part, channelsVars>>

AllNext == ChannelsPart(ChannelsNext) \/ ProcessorPart(Next)

\* The fairness of the two specifications; ends nobody closes or sends on have
\* no step of their own.
AllSpec ==
    /\ AllInit /\ [][AllNext]_allVars
    /\ \A p \in Peers :
          /\ WF_allVars(ChannelsPart(CreateReturns(p) \/ CreateAssigns(p) \/ CreateOpens(p)))
          /\ WF_allVars(ChannelsPart(ConnectedCallback(p)))
          /\ WF_allVars(ChannelsPart(JobBegins(p) \/ JobOpens(p) \/ JobEnds(p)))
          /\ \A s \in ChannelStreams : WF_allVars(ChannelsPart(Deliver(p, s)))
    /\ \A e \in MayClose : WF_allVars(ChannelsPart(CloseEnds(e)))
    /\ \A e \in MaySend : WF_allVars(ChannelsPart(SendEnds(e)))
    /\ \A j \in Jobs : WF_allVars(ProcessorPart(JobStep(j)))
    /\ \A p \in Processors : WF_allVars(ProcessorPart(JoinCheck(p)))
=============================================================================
