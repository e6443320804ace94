-------------------------------- MODULE H26x --------------------------------
(***************************************************************************)
(* Video frames over RTP: H264RtpPacketizer and H265RtpPacketizer cut the   *)
(* NAL units of a frame into packets, the depacketizers put the packets of  *)
(* a timestamp together again.  The two codecs differ in the size of the    *)
(* NAL header and in what they do with unit types they do not know.  A NAL  *)
(* unit is its number and its size; what a packet carries of it is a range  *)
(* of its payload.  The network loses packets and lets one overtake         *)
(* another.  Timestamps have TimestampRange values, in the code 2^32.       *)
(***************************************************************************)
EXTENDS Naturals, Sequences, FiniteSets, SequencesExt

CONSTANTS
    MaxFragmentSize,  \* maxFragmentSize of the packetizer
    NalSizes,         \* sizes of NAL units, with their header
    TimestampRange,   \* number of timestamps
    MaxFrames,        \* bounds the frames
    MaxFaults         \* bounds the packets lost, overtaken or not understood

ASSUME H26xAssumption ==
    /\ MaxFragmentSize \in Nat /\ MaxFragmentSize >= 4 /\ NalSizes \subseteq Nat \ (0 .. 2)
    /\ TimestampRange \in Nat \ {0} /\ MaxFrames \in Nat /\ MaxFaults \in Nat

VARIABLES
    codec,            \* "h264" or "h265"
    firstStamp,       \* timestamp of the first frame
    framesSent,       \* the frames: sequences of NAL units
    rtpNet,           \* packets on their way
    rtpBuffer,        \* mRtpBuffer of the depacketizer
    framesOut,        \* the frames it has put together
    faults,           \* ghost: packets lost, overtaken or not understood
    stuck             \* ghost: buildFrames() has thrown an exception

videoVars == <<codec, firstStamp, framesSent, rtpNet, rtpBuffer, framesOut, faults, stuck>>

HeaderSize == IF codec = "h264" THEN 1 ELSE 2
Stamp(f) == (firstStamp + f - 1) % TimestampRange

VideoInit ==
    /\ codec \in {"h264", "h265"} /\ firstStamp \in {0, 1, TimestampRange - 1}
    /\ framesSent = <<>> /\ rtpNet = <<>> /\ rtpBuffer = <<>> /\ framesOut = <<>> /\ faults = 0 /\ stuck = FALSE
--------------------------------------------------------------------------
(* The packetizer                                                           *)

CeilDiv(a, b) == (a + b - 1) \div b

\* fragmentsFrom(): as many fragments as needed, all of about the same size,
\* less the indicator (H.264: 1, H.265: 2) and the fragment header.
FragmentPayload(size) == CeilDiv(size, CeilDiv(size, MaxFragmentSize)) - (HeaderSize + 1)

\* The payload of fragment k, and whether it is the first or the last.
Fragments(nal) ==
    LET room == FragmentPayload(nal.size)
        payload == nal.size - HeaderSize
        n == CeilDiv(payload, room)
    IN [k \in 1 .. n |->
          [kind |-> "fragment", nal |-> nal.id, from |-> (k - 1) * room, to |-> IF k = n THEN payload ELSE k * room,
           start |-> k = 1, end |-> k = n]]

\* generateFragments(): a unit that fits is a packet of its own.
Packetize(nal) ==
    IF nal.size > MaxFragmentSize THEN Fragments(nal)
    ELSE << [kind |-> "single", nal |-> nal.id, from |-> 0, to |-> nal.size - HeaderSize, start |-> TRUE, end |-> TRUE] >>

\* An aggregation packet, which other implementations send, counts as the units
\* in it, one after the other.
FramePackets(nals, stamp, frame) ==
    LET all == FlattenSeq([i \in DOMAIN nals |-> Packetize(nals[i])])
    IN [i \in DOMAIN all |-> [p |-> all[i], stamp |-> stamp, frame |-> frame]]

PacketSize(p) == (p.to - p.from) + IF p.kind = "fragment" THEN HeaderSize + 1 ELSE HeaderSize

\* outgoing() of a frame of one or two NAL units.
SendVideo ==
    /\ Len(framesSent) < MaxFrames
    /\ \E sizes \in UNION {[1 .. n -> NalSizes] : n \in 1 .. 2} :
        LET f == Len(framesSent) + 1
            nals == [i \in DOMAIN sizes |-> [id |-> 10 * f + i, size |-> sizes[i]]]
        IN /\ framesSent' = Append(framesSent, nals)
           /\ rtpNet' = rtpNet \o FramePackets(nals, Stamp(f), f)
    /\ UNCHANGED <<codec, firstStamp, rtpBuffer, framesOut, faults, stuck>>
--------------------------------------------------------------------------
(* The network *)

LoseVideo ==
    /\ faults < MaxFaults /\ rtpNet # <<>> /\ faults' = faults + 1 /\ rtpNet' = Tail(rtpNet)
    /\ UNCHANGED <<codec, firstStamp, framesSent, rtpBuffer, framesOut, stuck>>

Overtake ==
    /\ faults < MaxFaults /\ Len(rtpNet) >= 2 /\ faults' = faults + 1
    /\ rtpNet' = <<rtpNet[2], rtpNet[1]>> \o SubSeq(rtpNet, 3, Len(rtpNet))
    /\ UNCHANGED <<codec, firstStamp, framesSent, rtpBuffer, framesOut, stuck>>

\* A unit of a type that the depacketizer does not know, or an aggregation packet
\* that is shorter than it says.
Garble ==
    /\ faults < MaxFaults /\ rtpNet # <<>> /\ rtpNet[1].p.kind \in {"single", "fragment"} /\ faults' = faults + 1
    /\ \E k \in {"unknown", "truncated"} : rtpNet' = [rtpNet EXCEPT ![1].p.kind = k]
    /\ UNCHANGED <<codec, firstStamp, framesSent, rtpBuffer, framesOut, stuck>>
--------------------------------------------------------------------------
(* The depacketizer                                                         *)

\* buildFrames(), one packet: a fragment that is not the first of its unit goes
\* to the end of what is there, whatever that is; only with nothing there it
\* begins a unit.
AddPacket(unit, x) ==
    LET part == <<x.p.nal, x.p.from, x.p.to>>
        begins == unit \o << <<part>> >>
    IN IF x.p.kind = "unknown" THEN unit
       ELSE IF x.p.kind = "single" \/ x.p.start \/ unit = <<>> THEN begins
       ELSE [unit EXCEPT ![Len(unit)] = Append(@, part)]

\* What buildFrames() does not get over: H.265 passes over unknown types.
Throws(x) == x.p.kind = "truncated" \/ (x.p.kind = "unknown" /\ codec = "h264")

BuildFrame(packets) == FoldLeft(AddPacket, <<>>, packets)

\* The packets of the first timestamp of the buffer.  Zero stands for no
\* timestamp, so that what follows packets with timestamp zero counts too.
SameStamp(buffer) ==
    LET zeros == {i \in DOMAIN buffer : \A j \in 1 .. i : buffer[j].stamp = 0}
        first == Cardinality(zeros) + 1
        ends == {i \in DOMAIN buffer : i > first /\ buffer[i].stamp # buffer[first].stamp}
    IN IF ends = {} THEN Len(buffer) ELSE (CHOOSE i \in ends : \A j \in ends : i <= j) - 1

\* A bug: what was made a frame stays in the buffer, but for its first packet.
Mut_Depacketize ==
    /\ rtpNet # <<>>
    /\ rtpNet' = Tail(rtpNet)
    /\ LET buffer == Append(rtpBuffer, rtpNet[1])
           n == SameStamp(buffer)
           frame == SubSeq(buffer, 1, n)
       IN IF n = Len(buffer) \/ \E i \in DOMAIN frame : Throws(frame[i])
            THEN rtpBuffer' = buffer /\ UNCHANGED framesOut
            ELSE /\ rtpBuffer' = Tail(buffer)
                 /\ framesOut' = Append(framesOut, [units |-> BuildFrame(frame), of |-> {frame[i].frame : i \in DOMAIN frame}])
    /\ UNCHANGED <<codec, firstStamp, framesSent, faults, stuck>>

\* incoming(): a frame is built once a packet with another timestamp is there.
\* One packet at a time, so that at most one frame is complete.
Depacketize ==
    /\ rtpNet # <<>>
    /\ rtpNet' = Tail(rtpNet)
    /\ LET buffer == Append(rtpBuffer, rtpNet[1])
           n == SameStamp(buffer)
           frame == SubSeq(buffer, 1, n)
           unit == BuildFrame(frame)
       IN IF n = Len(buffer)
            THEN rtpBuffer' = buffer /\ UNCHANGED <<framesOut, stuck>>
          ELSE IF \E i \in DOMAIN frame : Throws(frame[i])
            THEN rtpBuffer' = buffer /\ stuck' = TRUE /\ UNCHANGED framesOut
            ELSE /\ rtpBuffer' = SubSeq(buffer, n + 1, Len(buffer))
                 /\ framesOut' = IF unit = <<>> THEN framesOut
                                 ELSE Append(framesOut, [units |-> unit, of |-> {frame[i].frame : i \in DOMAIN frame}])
                 /\ UNCHANGED stuck
    /\ UNCHANGED <<codec, firstStamp, framesSent, faults>>

VideoNext == SendVideo \/ LoseVideo \/ Overtake \/ Garble \/ Depacketize
VideoSpec == VideoInit /\ [][VideoNext]_videoVars
--------------------------------------------------------------------------
\* A frame as it should come out: every unit whole, in order.
Whole(nals) == [i \in DOMAIN nals |-> << <<nals[i].id, 0, nals[i].size - HeaderSize>> >>]

\* What a unit consists of when its parts are adjacent.
Joined(unit) ==
    LET n == Len(unit) IN
    IF \A k \in 1 .. n - 1 : unit[k][1] = unit[k + 1][1] /\ unit[k][3] = unit[k + 1][2]
      THEN << <<unit[1][1], unit[1][2], unit[n][3]>> >> ELSE unit

ZeroStamp(f) == Stamp(f) = 0

\* No packet is larger than the packetizer was told, for every size of unit.
PacketsFit == \A i \in DOMAIN rtpNet : PacketSize(rtpNet[i].p) <= MaxFragmentSize

\* Without faults every frame comes out as it went in, in order and all but the
\* last one: unless its timestamp is zero, when the next frame is taken for the
\* rest of it.
FramesWhole ==
    faults = 0 /\ (\A f \in DOMAIN framesSent : ~ZeroStamp(f)) =>
        \A k \in DOMAIN framesOut :
            /\ framesOut[k].of = {k}
            /\ [i \in DOMAIN framesOut[k].units |-> Joined(framesOut[k].units[i])] = Whole(framesSent[k])

\* Whatever is lost or overtaken, a frame that comes out has packets of one frame
\* only, unless a timestamp is zero.
FramesNotMixed ==
    \A k \in DOMAIN framesOut : Cardinality(framesOut[k].of) = 1 \/ \E f \in framesOut[k].of : ZeroStamp(f)

\* Only packets of the frame that is still arriving wait, as long as nothing was
\* thrown: an exception leaves the packets in the buffer, where the next call
\* meets them again.
OnlyLastFrameWaits ==
    ~stuck => \A i, j \in DOMAIN rtpBuffer : rtpBuffer[i].stamp = rtpBuffer[j].stamp \/ rtpBuffer[i].stamp = 0 \/ rtpBuffer[j].stamp = 0

\* Frames that are cut into packets and put together again over a network that
\* loses, overtakes and garbles: packets fit, frames are whole or missing but never
\* mixed, and only the frame that is arriving waits.
VideoInv == PacketsFit /\ FramesNotMixed /\ FramesWhole /\ OnlyLastFrameWaits
============================================================================
