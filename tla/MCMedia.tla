------------------------------ MODULE MCMedia ------------------------------
(* Media for TLC, in one run: a behaviour is one of the part that the initial  *)
(* state chooses, and the other parts keep an initial state.                   *)
EXTENDS Track, RtpSender, RtcpFeedback, H26x, Pacing

VARIABLE part

allVars == <<part, trackVars, senderVars, feedbackVars, videoVars, pacingVars>>

\* Three calls (onOpen, onMessage and close, for instance) meet two packets; an
\* application that polls makes two, and a third packet finds the queue full.
MCTrackPackets == [t \in Topics |-> IF t = "callbacks" THEN 2 ELSE 3]
MCTrackOps == [t \in Topics |-> IF t = "callbacks" THEN 3 ELSE 2]

\* The other parts have one initial state.  Timestamps of the video start at one,
\* or so that the second of them is zero.
AllInit ==
    /\ part \in {"track", "sender", "feedback", "video", "pacing"}
    /\ TrackInit /\ SenderInit /\ FeedbackInit /\ VideoInit /\ PacingInit
    /\ part # "track" => trDir = "sendrecv" /\ trTopic = "callbacks"
    /\ part # "sender" => rtpSeq = 0
    /\ part # "feedback" => Cardinality(fbTracks) = 1
    /\ firstStamp # 0
    /\ part # "video" => codec = "h264" /\ firstStamp = 1

TrackPart(A) == part = "track" /\ A /\ UNCHANGED <<part, senderVars, feedbackVars, videoVars, pacingVars>>
SenderPart(A) == part = "sender" /\ A /\ UNCHANGED <<part, trackVars, feedbackVars, videoVars, pacingVars>>
FeedbackPart(A) == part = "feedback" /\ A /\ UNCHANGED <<part, trackVars, senderVars, videoVars, pacingVars>>
VideoPart(A) == part = "video" /\ A /\ UNCHANGED <<part, trackVars, senderVars, feedbackVars, pacingVars>>
PacingPart(A) == part = "pacing" /\ A /\ UNCHANGED <<part, trackVars, senderVars, feedbackVars, videoVars>>

AllNext ==
    \/ TrackPart(TrackNext) \/ SenderPart(SenderNext) \/ FeedbackPart(FeedbackNext) \/ VideoPart(VideoNext)
    \/ PacingPart(PacingNext)

AllSpec == AllInit /\ [][AllNext]_allVars

\* What is sent, kept, asked for again, reported and paced are the packets of one
\* stream: across the end of the number range, with numbers used twice, and with
\* several tasks at the buffer.
OutgoingInv ==
    /\ StorageBounded
    /\ StorageIsWindow
    /\ NackNamesMissing
    /\ RetransmitsLatest
    /\ ReportsExact
    /\ BudgetBounded
    /\ PacketOrder
============================================================================
