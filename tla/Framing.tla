------------------------------ MODULE Framing ------------------------------
(***************************************************************************)
(* How video comes to the packetizers and leaves the depacketizers: NAL     *)
(* units one after the other with separators between them (addSeparator on  *)
(* one side, splitMessage on the other), and AV1 temporal units, whose OBUs *)
(* AV1RtpPacketizer takes apart and packs.  A separator is found byte by    *)
(* byte; a byte is 0, 1 or another one.  An OBU is its number and its size. *)
(***************************************************************************)
EXTENDS Naturals, Sequences, SequencesExt

CONSTANTS
    MaxNals,          \* NAL units of a message
    MaxObus,          \* OBUs of a session
    ObuSizes,         \* sizes of OBUs
    HeaderSizes,      \* sizes of sequence headers
    Av1Fragment       \* maxFragmentSize of AV1RtpPacketizer

ASSUME FramingAssumption ==
    /\ MaxNals \in Nat /\ MaxObus \in Nat /\ ObuSizes \subseteq Nat \ {0}
    /\ \A h \in HeaderSizes : h \in Nat /\ h + 2 < Av1Fragment

VARIABLES
    separator,        \* of the packetizer
    nalsIn,           \* the units written so far
    accessUnit,       \* the bytes
    obusIn,           \* the OBUs given to the packetizer
    sequenceHeader,   \* the one that waits for the next OBU: its number, or 0
    av1Payloads       \* the payloads made

framingVars == <<separator, nalsIn, accessUnit, obusIn, sequenceHeader, av1Payloads>>

WireBytes == 0 .. 2
\* A unit does not end with a zero, nor has it a start code in it.
NalBytes == {<<1>>, <<2>>, <<0, 1>>, <<0, 2>>, <<1, 2>>, <<2, 2>>, <<0, 0, 2>>, <<2, 0, 1>>}

FramingInit ==
    /\ separator \in {"length", "long", "short", "start"}
    /\ nalsIn = <<>> /\ accessUnit = <<>> /\ obusIn = <<>> /\ sequenceHeader = 0 /\ av1Payloads = <<>>

\* addSeparator(), and for units with their length what an encoder writes.
\* With "start" both codes may occur.
LongCode == <<0, 0, 0, 1>>
ShortCode == <<0, 0, 1>>
Separators(nal) ==
    CASE separator = "length" -> {<<0, 0, 0, Len(nal)>>}
      [] separator = "long"   -> {LongCode}
      [] separator = "short"  -> {ShortCode}
      [] separator = "start"  -> {LongCode, ShortCode}

WriteNal ==
    /\ Len(nalsIn) < MaxNals /\ obusIn = <<>>
    /\ \E nal \in NalBytes, code \in {LongCode, ShortCode} \cup {<<0, 0, 0, n>> : n \in 1 .. 3} :
        /\ code \in Separators(nal)
        /\ nalsIn' = Append(nalsIn, nal) /\ accessUnit' = accessUnit \o code \o nal
    /\ UNCHANGED <<separator, obusIn, sequenceHeader, av1Payloads>>
--------------------------------------------------------------------------
(* splitMessage                                                             *)

\* A bug: a third zero is not counted where both codes are looked for.
Mut_MatchSucc(m, b) ==
    IF b = 0 THEN CASE m = "none" -> "firstZero"
                    [] m \in {"firstZero", "secondZero"} -> "secondZero"
                    [] OTHER -> IF separator = "long" THEN "thirdZero" ELSE "secondZero"
    ELSE IF b = 1 /\ m = "secondZero" /\ separator # "long" THEN "short"
    ELSE IF b = 1 /\ m = "thirdZero" THEN "long" ELSE "none"

\* StartSequenceMatchSucc: any number of zeros more belongs to a code.
MatchSucc(m, b) ==
    IF b = 0 THEN CASE m = "none" -> "firstZero"
                    [] m = "firstZero" -> "secondZero"
                    [] OTHER -> IF separator = "short" THEN "secondZero" ELSE "thirdZero"
    ELSE IF b = 1 /\ m = "secondZero" /\ separator # "long" THEN "short"
    ELSE IF b = 1 /\ m = "thirdZero" THEN "long" ELSE "none"

\* The scan over the bytes: what comes before the first code is passed over, a
\* unit goes from behind a code to before the next one, the last one to the end.
Scan(msg, st, i) ==
    LET m == MatchSucc(st.match, msg[i])
        found == m \in {"short", "long"}
        code == IF m = "long" THEN 4 ELSE 3
    IN [match |-> IF found THEN "none" ELSE m,
        start |-> IF found THEN i + 1 ELSE st.start,
        nals  |-> IF found /\ st.start > 0 THEN Append(st.nals, SubSeq(msg, st.start, i - code)) ELSE st.nals]
SplitByCodes(msg) ==
    LET st == FoldLeftDomain(LAMBDA acc, i : Scan(msg, acc, i), [match |-> "none", start |-> 0, nals |-> <<>>], msg)
    IN Append(st.nals, IF st.start = 0 THEN <<>> ELSE SubSeq(msg, st.start, Len(msg)))

\* With lengths: i is where the length of a unit begins.
TakeUnit(msg, i) == SubSeq(msg, i + 4, i + 3 + msg[i + 3])
ByLength(msg, st, i) ==
    IF i # st.next \/ i + 4 > Len(msg) \/ i + 3 + msg[i + 3] > Len(msg) THEN st
    ELSE [next |-> i + 4 + msg[i + 3], nals |-> Append(st.nals, TakeUnit(msg, i))]
SplitByLength(msg) ==
    FoldLeftDomain(LAMBDA acc, i : ByLength(msg, acc, i), [next |-> 1, nals |-> <<>>], msg).nals

Split(msg) == IF separator = "length" THEN SplitByLength(msg) ELSE SplitByCodes(msg)
--------------------------------------------------------------------------
(* AV1RtpPacketizer                                                         *)

\* A payload: how much of the OBU it has, whether the OBU began before it (Z)
\* and goes on after it (Y), and the sequence header in front (N, W = 2).
Payloads(obu, header) ==
    LET meta(k) == IF k = 1 /\ header # 0 THEN 2 + obusIn[header].size ELSE 1
        room(k) == Av1Fragment - meta(k)
        upTo(k) == room(1) + (k - 1) * room(2)
        n == IF obu.size <= room(1) THEN 1 ELSE 1 + (obu.size - room(1) + room(2) - 1) \div room(2)
    IN [k \in 1 .. n |->
          [obu |-> obu.no, header |-> IF k = 1 THEN header ELSE 0,
           from |-> IF k = 1 THEN 0 ELSE upTo(k - 1), to |-> IF k = n THEN obu.size ELSE upTo(k),
           z |-> k > 1, y |-> k < n,
           size |-> IF k = n THEN meta(k) + obu.size - (IF k = 1 THEN 0 ELSE upTo(k - 1)) ELSE Av1Fragment]]

\* A sequence header waits for the next OBU, and is replaced by another one.
HeaderAfter(obu) == IF obu.header THEN obu.no ELSE 0

\* extractTemporalUnitObus(): an OBU with an extension loses its first byte.
Extracted(obu) == IF obu.ext THEN [obu EXCEPT !.size = @ - 1] ELSE obu

\* packetizeObu(), for one OBU after the other.
PacketizeObu ==
    /\ Len(obusIn) < MaxObus /\ nalsIn = <<>> /\ separator = "length"
    /\ \E h \in BOOLEAN, ext \in BOOLEAN, s \in ObuSizes \cup HeaderSizes :
        /\ h <=> s \in HeaderSizes
        /\ ext => ~h
        /\ LET obu == [no |-> Len(obusIn) + 1, size |-> s, header |-> h, ext |-> ext] IN
            /\ obusIn' = Append(obusIn, obu)
            /\ sequenceHeader' = HeaderAfter(obu)
            /\ av1Payloads' = IF h THEN av1Payloads ELSE av1Payloads \o Payloads(Extracted(obu), sequenceHeader)
    /\ UNCHANGED <<separator, nalsIn, accessUnit>>

FramingNext == WriteNal \/ PacketizeObu
FramingSpec == FramingInit /\ [][FramingNext]_framingVars
--------------------------------------------------------------------------
\* A message that is split gives back the units it was made of, for every
\* separator, also where units begin with zeros or the codes are mixed.
SplitInverse == nalsIn # <<>> => Split(accessUnit) = nalsIn

\* The bytes of the payloads of an OBU, put together by Z and Y, are the OBU
\* (without its first byte, where it has an extension), and each payload is as
\* large as allowed and no larger.
Av1Whole ==
    \A o \in DOMAIN obusIn : ~obusIn[o].header =>
        LET ks == {k \in DOMAIN av1Payloads : av1Payloads[k].obu = o}
            a == CHOOSE k \in ks : \A j \in ks : k <= j
            b == CHOOSE k \in ks : \A j \in ks : k >= j
        IN /\ ks = a .. b
           /\ av1Payloads[a].from = 0 /\ av1Payloads[b].to = Extracted(obusIn[o]).size
           /\ \A k \in a .. b - 1 : av1Payloads[k].to = av1Payloads[k + 1].from /\ av1Payloads[k].y /\ av1Payloads[k + 1].z
           /\ ~av1Payloads[a].z /\ ~av1Payloads[b].y
           /\ \A k \in ks : av1Payloads[k].to > av1Payloads[k].from /\ av1Payloads[k].size <= Av1Fragment

\* A sequence header goes out once, with the first payload of the OBU that comes
\* directly after it.
HeaderOnce ==
    \A o \in DOMAIN obusIn : obusIn[o].header =>
        LET ks == {k \in DOMAIN av1Payloads : av1Payloads[k].header = o} IN
        /\ \A j, k \in ks : j = k
        /\ \A k \in ks : av1Payloads[k].obu = o + 1
        /\ o < Len(obusIn) /\ ~obusIn[o + 1].header => ks # {}
============================================================================
