---------------------------- MODULE MCTransports ----------------------------
(* Dtls, Ice and Quic for TLC, in one run: a behaviour is one of the part that  *)
(* the initial state chooses.  A DTLS transport without media behaves as one    *)
(* with a profile that is agreed on and no media.                               *)
EXTENDS Dtls, Ice, Quic

VARIABLE part

allVars == <<part, dtlsVars, iceVars, quicVars>>

AllInit ==
    /\ part \in {"dtls", "ice", "quic"} /\ DtlsInit /\ IceInit /\ QuicInit
    /\ srtp # "none"
    /\ part # "dtls" => backend = "openssl" /\ srtp = "agreed" /\ topic = "send"
    /\ topic = "send" => srtp = "agreed"
    /\ part # "ice" => lib = "juice" /\ trickle

DtlsPart(A) == part = "dtls" /\ A /\ UNCHANGED <<part, iceVars, quicVars>>
IcePart(A) == part = "ice" /\ A /\ UNCHANGED <<part, dtlsVars, quicVars>>
QuicPart(A) == part = "quic" /\ A /\ UNCHANGED <<part, dtlsVars, iceVars>>

AllNext == DtlsPart(DtlsNext) \/ IcePart(IceNext) \/ QuicPart(QuicNext)

\* The fairness of the specifications: one part runs, so that what is fair in
\* each can share a formula.
AllSpec ==
    /\ AllInit /\ [][AllNext]_allVars
    /\ WF_allVars(DtlsPart(DtlsLibrary) \/ IcePart(IceLibrary))
    /\ WF_allVars(DtlsPart(Deadline) \/ IcePart(IceSends))
    /\ WF_allVars(DtlsPart(TimerFires))

\* Handshakes over a lossy network come to a result, stopping ends, and failures
\* and the end of gathering are reported.
TransportsProgress == HandshakeSettles /\ DtlsStopEnds /\ FailureReported /\ GatheringEnds
=============================================================================
