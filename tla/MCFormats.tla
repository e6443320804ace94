----------------------------- MODULE MCFormats -----------------------------
(* What is read from the network and written to it, for TLC in one run: a      *)
(* behaviour is one of the part that the initial state chooses, and the other  *)
(* parts keep an initial state.                                                *)
EXTENDS SctpIncoming, Framing, RtpFormats, Description, Handshake, IceServers

VARIABLE part

sctpVars == <<vars, gateVars>>
mediaVars == <<framingVars, formatVars>>
signalingVars == <<descriptionVars, handshakeVars, serverVars>>
allVars == <<part, sctpVars, mediaVars, signalingVars>>

\* Host candidates with two addresses and a name, and one that a STUN server saw.
MCPool ==
    {[id |-> 1, node |-> "ip4", type |-> "host", priority |-> 1], [id |-> 2, node |-> "ip4", type |-> "host", priority |-> 2],
     [id |-> 3, node |-> "ip6", type |-> "host", priority |-> 3], [id |-> 4, node |-> "name", type |-> "host", priority |-> 3],
     [id |-> 5, node |-> "ip4", type |-> "srflx", priority |-> 4]}

AllInit ==
    /\ part \in {"sctp", "framing", "layout", "description", "handshake", "servers"}
    /\ IncomingInit /\ HandshakeInit
    /\ FramingInit /\ (part # "framing" => separator = "long")
    /\ FormatsInit /\ (part # "layout" => extConfig = [rotation |-> FALSE, delay |-> FALSE, mid |-> None, rid |-> None])
    /\ DescriptionInit /\ (part # "description" => desc = EmptyDescription)
    /\ ServersInit /\ (part # "servers" => iceLibrary = "juice" /\ configured = {})

SctpPart(A) == part = "sctp" /\ A /\ UNCHANGED <<part, mediaVars, signalingVars>>
FramingPart(A) == part = "framing" /\ A /\ UNCHANGED <<part, sctpVars, formatVars, signalingVars>>
LayoutPart(A) == part = "layout" /\ A /\ UNCHANGED <<part, sctpVars, framingVars, signalingVars>>
DescriptionPart(A) == part = "description" /\ A /\ UNCHANGED <<part, sctpVars, mediaVars, handshakeVars, serverVars>>
HandshakePart(A) == part = "handshake" /\ A /\ UNCHANGED <<part, sctpVars, mediaVars, descriptionVars, serverVars>>
ServersPart(A) == part = "servers" /\ A /\ UNCHANGED <<part, sctpVars, mediaVars, descriptionVars, handshakeVars>>

AllNext ==
    \/ SctpPart(IncomingNext) \/ FramingPart(FramingNext) \/ LayoutPart(FormatsNext)
    \/ DescriptionPart(DescriptionNext) \/ HandshakePart(HandshakeNext) \/ ServersPart(ServersNext)

\* The fairness of SctpIncoming; the other parts have none.
AllSpec ==
    /\ AllInit /\ [][AllNext]_allVars
    /\ WF_allVars(SctpPart(Gate!Lower /\ UNCHANGED vars))
    /\ WF_allVars(SctpPart(owner # "idle" /\ Gate!TearDown /\ UNCHANGED vars))

\* What is laid out in bytes is read back whole: units behind start codes and
\* lengths, OBUs over several payloads after a cached header, extensions and SDES
\* chunks, at every size around a boundary.
LayoutInv == SplitInverse /\ Av1Whole /\ HeaderOnce /\ ExtensionsIntact /\ SdesReadBack
============================================================================
