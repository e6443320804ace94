---------------------------- MODULE RtcpFeedback ----------------------------
(***************************************************************************)
(* Feedback between a receiver and a sender of media.  The receiver is      *)
(* either this library, with an RtcpReceivingSession per track, or another  *)
(* implementation, which names itself as the sender of its RTCP.  The       *)
(* sender dispatches RTCP to tracks by the SSRCs it finds in it             *)
(* (PeerConnection::dispatchMedia), where PliHandler and RembHandler look   *)
(* for their messages.  RTCP may be lost and overtaken; SRTP drops what     *)
(* comes twice.  Bitrates have a mantissa of at most MantissaMax, in the    *)
(* code 0x3FFFF.                                                            *)
(***************************************************************************)
EXTENDS Naturals, Sequences, FiniteSetsExt, Functions, TLC

CONSTANTS
    MantissaMax,     \* largest mantissa of REMB
    Bitrates,        \* bitrates that are asked for
    MaxFeedback      \* bounds the RTCP messages sent

ASSUME FeedbackAssumption == MantissaMax \in Nat \ {0} /\ Bitrates \subseteq Nat /\ MaxFeedback \in Nat

VARIABLES
    fbTracks,        \* tracks of the connection: mTrackLines
    sessionSsrc,     \* mSsrc of the receiving session of each track
    requested,       \* mRequestedBitrate of each session
    rtcpNet,         \* RTCP on its way: compound packets with the number of their sending
    rtcpSent,        \* how many have been sent
    asked,           \* ghost: keyframes the receiver has asked for, delivered and not, per track
    pliHeard,        \* calls of mOnPli per track
    rembHeard,       \* the last bitrate mOnRemb was called with, per track
    lastRtcp         \* the compound packet that arrived last, or <<>>

feedbackVars == <<fbTracks, sessionSsrc, requested, rtcpNet, rtcpSent, asked, pliHeard, rembHeard, lastRtcp>>

\* A track is known by the SSRC it sends with, and by the one the peer uses on
\* the same media line: updateTrackSsrcCache enters both.
TrackSsrcs == [audio |-> {1, 11}, video |-> {2, 12}]
LocalSsrc == [audio |-> 1, video |-> 2]
PeerSsrc == [audio |-> 11, video |-> 12]
Unknown == 0

\* One packet of a compound: its type, the SSRC of its sender and the SSRC or
\* SSRCs of the media it is about, and what it says.
Block(pt, fmt, sender, media, about, value) ==
    [pt |-> pt, fmt |-> fmt, sender |-> sender, media |-> media, about |-> about, value |-> value]

\* A bitrate of 32 bits is halved at most 14 times.
Exponents(b) == {e \in 0 .. 14 : b \div (2 ^ e) <= MantissaMax}
\* RtcpRemb::setBitrate: halved until it fits the mantissa.
SetBitrate(b) == LET e == Min(Exponents(b)) IN [exp |-> e, mantissa |-> b \div (2 ^ e)]

\* RtcpRemb::getBitrate: the square of the exponent, in place of the power.
GetBitrate(r) == r.mantissa * (r.exp ^ 2)

\* With the bitrate that was meant, for the properties.
RembValue(b) == [rate |-> b] @@ SetBitrate(b)

Pli(s) == Block(206, 1, s, s, {s}, 0)
ReceiverReport(s) == Block(201, 1, s, 0, {s}, 0)
\* A REMB never names a media source, but lists whom it is about.
Remb(s, b) == Block(206, 15, s, 0, {s}, RembValue(b))

FeedbackInit ==
    /\ fbTracks \in {{"video"}, {"audio", "video"}}
    /\ sessionSsrc = [t \in fbTracks |-> Unknown] /\ requested = [t \in fbTracks |-> 0]
    /\ rtcpNet = {} /\ rtcpSent = 0 /\ asked = [t \in fbTracks |-> 0]
    /\ pliHeard = [t \in fbTracks |-> 0] /\ rembHeard = [t \in fbTracks |-> <<>>] /\ lastRtcp = <<>>

SendRtcp(compounds) ==
    /\ rtcpSent + Len(compounds) <= MaxFeedback
    /\ rtcpNet' = rtcpNet \cup {[no |-> rtcpSent + i, blocks |-> compounds[i]] : i \in DOMAIN compounds}
    /\ rtcpSent' = rtcpSent + Len(compounds) /\ lastRtcp' = <<>>
--------------------------------------------------------------------------
(* RtcpReceivingSession                                                     *)

\* incoming, RTP: its SSRC is remembered for the feedback.
SessionRtp(t) ==
    /\ sessionSsrc' = [sessionSsrc EXCEPT ![t] = LocalSsrc[t]] /\ lastRtcp' = <<>>
    /\ UNCHANGED <<fbTracks, requested, rtcpNet, rtcpSent, asked, pliHeard, rembHeard>>

\* incoming, a sender report: answered with a receiver report, and the bitrate
\* that was asked for last.
SessionSr(t) ==
    /\ sessionSsrc' = [sessionSsrc EXCEPT ![t] = LocalSsrc[t]]
    /\ LET s == LocalSsrc[t] IN
        SendRtcp(<< <<ReceiverReport(s)>> >> \o IF requested[t] > 0 THEN << <<Remb(s, requested[t])>> >> ELSE <<>>)
    /\ UNCHANGED <<fbTracks, requested, asked, pliHeard, rembHeard>>

RequestKeyframe(t) ==
    /\ SendRtcp(<< <<Pli(sessionSsrc[t])>> >>)
    /\ asked' = [asked EXCEPT ![t] = @ + 1]
    /\ UNCHANGED <<fbTracks, sessionSsrc, requested, pliHeard, rembHeard>>

RequestBitrate(t, b) ==
    /\ requested' = [requested EXCEPT ![t] = b] /\ SendRtcp(<< <<Remb(sessionSsrc[t], b)>> >>)
    /\ UNCHANGED <<fbTracks, sessionSsrc, asked, pliHeard, rembHeard>>

\* Another implementation: it sends with an SSRC of its own, that of its first
\* track, and puts a report before the request.
PeerRequests(t) ==
    LET me == PeerSsrc[CHOOSE u \in fbTracks : "audio" \in fbTracks => u = "audio"]
        report == Block(201, 1, me, 0, {LocalSsrc[t]}, 0)
    IN /\ \E f \in {1, 4} : SendRtcp(<< <<report, Block(206, f, me, LocalSsrc[t], {LocalSsrc[t]}, 0)>> >>)
       /\ asked' = [asked EXCEPT ![t] = @ + 1]
       /\ UNCHANGED <<fbTracks, sessionSsrc, requested, pliHeard, rembHeard>>
PeerBitrate(t, b) ==
    LET me == PeerSsrc[CHOOSE u \in fbTracks : "audio" \in fbTracks => u = "audio"]
    IN /\ SendRtcp(<< <<Block(206, 15, me, 0, {LocalSsrc[t]}, RembValue(b))>> >>)
       /\ UNCHANGED <<fbTracks, sessionSsrc, requested, asked, pliHeard, rembHeard>>
--------------------------------------------------------------------------
(* dispatchMedia and the handlers of the tracks                             *)

\* A bug: only the sender of the feedback is looked at.
Mut_BlockSsrcs(b) == {b.sender}

\* The SSRCs of feedback are its sender and its media source; those of a report
\* its sender and its report blocks.
BlockSsrcs(b) == IF b.pt \in {205, 206} THEN {b.sender, b.media} ELSE {b.sender} \cup b.about

\* With one track it gets everything.
Dispatch(m) ==
    IF Cardinality(fbTracks) = 1 THEN fbTracks
    ELSE {t \in fbTracks : TrackSsrcs[t] \cap UNION {BlockSsrcs(m.blocks[i]) : i \in DOMAIN m.blocks} # {}}

\* PliHandler: the first PLI, or FIR of the old form, of a compound is one call;
\* whom it is about is not looked at.
PliCalls(m) == IF \E i \in DOMAIN m.blocks : LET b == m.blocks[i] IN b.pt = 196 \/ (b.pt = 206 /\ b.fmt = 1) THEN 1 ELSE 0

\* RembHandler: the first REMB with one SSRC.
RembBlocks(m) == {i \in DOMAIN m.blocks : m.blocks[i].pt = 206 /\ m.blocks[i].fmt = 15 /\ Cardinality(m.blocks[i].about) = 1}
RembCalls(m, t) == IF RembBlocks(m) = {} THEN rembHeard[t]
                   ELSE [value |-> GetBitrate(m.blocks[Min(RembBlocks(m))].value), of |-> m.no]

RtcpArrives(m) ==
    /\ rtcpNet' = rtcpNet \ {m} /\ lastRtcp' = m.blocks
    /\ pliHeard' = [t \in fbTracks |-> pliHeard[t] + IF t \in Dispatch(m) THEN PliCalls(m) ELSE 0]
    /\ rembHeard' = [t \in fbTracks |-> IF t \in Dispatch(m) THEN RembCalls(m, t) ELSE rembHeard[t]]
    /\ UNCHANGED <<fbTracks, sessionSsrc, requested, rtcpSent, asked>>

RtcpLost(m) ==
    /\ rtcpNet' = rtcpNet \ {m} /\ lastRtcp' = <<>>
    /\ UNCHANGED <<fbTracks, sessionSsrc, requested, rtcpSent, asked, pliHeard, rembHeard>>

FeedbackNext ==
    \/ \E t \in fbTracks : SessionRtp(t) \/ SessionSr(t) \/ RequestKeyframe(t) \/ PeerRequests(t)
    \/ \E t \in fbTracks, b \in Bitrates : RequestBitrate(t, b) \/ PeerBitrate(t, b)
    \/ \E m \in rtcpNet : RtcpArrives(m) \/ RtcpLost(m)

FeedbackSpec == FeedbackInit /\ [][FeedbackNext]_feedbackVars
--------------------------------------------------------------------------
IsPliFor(b, t) == b.pt = 206 /\ b.fmt = 1 /\ b.media = LocalSsrc[t]

\* A PLI that arrives is heard by the track it is about, whoever sent it and
\* whatever comes with it in the same compound packet.
PliReachesTrack ==
    \A t \in fbTracks : (\E i \in DOMAIN lastRtcp' : IsPliFor(lastRtcp'[i], t)) /\ lastRtcp' # lastRtcp
        => pliHeard'[t] > pliHeard[t]

\* Nobody hears of more keyframe requests than were made, of all tracks together.
PliNotMultiplied == \A t \in fbTracks : pliHeard[t] <= SumFunction(asked)

\* What goes over the network is the bitrate that was asked for, rounded down to
\* the precision of the mantissa.
RembCarriesBitrate ==
    \A m \in rtcpNet : \A i \in DOMAIN m.blocks : m.blocks[i].fmt = 15 =>
        LET r == m.blocks[i].value IN
        r.mantissa <= MantissaMax /\ r.mantissa * 2 ^ r.exp <= r.rate /\ r.rate < (r.mantissa + 1) * 2 ^ r.exp

\* Feedback reaches the track it is about, says what was asked for, and is not
\* multiplied on its way through compound packets and several tracks.
FeedbackSteps == [][PliReachesTrack /\ PliNotMultiplied' /\ RembCarriesBitrate']_feedbackVars
============================================================================
