----------------------------- MODULE RtpFormats -----------------------------
(***************************************************************************)
(* The layout of RTP and RTCP packets: the extension header that            *)
(* RtpPacketizer writes, the source descriptions (SDES) that RtcpSrReporter *)
(* writes and dispatchMedia reads.                                          *)
(* Sizes and offsets are those of the code, in bytes; what is written is    *)
(* kept as its owner at each byte.                                          *)
(***************************************************************************)
EXTENDS Naturals, Sequences, FiniteSets, SequencesExt

CONSTANTS
    IdLengths,       \* lengths of MIDs and RIDs
    TextLengths,     \* lengths of the texts of SDES items
    MaxChunks        \* bounds the chunks of an SDES packet

ASSUME FormatsAssumption == IdLengths \subseteq Nat /\ TextLengths \subseteq Nat /\ MaxChunks \in Nat

VARIABLES
    extConfig,       \* what RtpPacketizationConfig asks for
    extBody,         \* the body of the extension header that was written, or <<>>
    sdesChunks,      \* the chunks of an SDES packet: the lengths of the texts of their items
    sdesCut          \* words by which its header is shorter than what was written

formatVars == <<extConfig, extBody, sdesChunks, sdesCut>>

None == 99  \* no MID, no RID
--------------------------------------------------------------------------
(* RtpPacketizer::packetize: the extension header                           *)

\* Its elements in the order in which they are written, each with the size of
\* its value; an element has one byte more.
Elements(c) ==
    (IF c.rotation THEN << [name |-> "rotation", size |-> 1] >> ELSE <<>>)
    \o (IF c.mid # None THEN << [name |-> "mid", size |-> c.mid] >> ELSE <<>>)
    \o (IF c.rid # None THEN << [name |-> "rid", size |-> c.rid] >> ELSE <<>>)
    \o (IF c.delay THEN << [name |-> "delay", size |-> 3] >> ELSE <<>>)

ElementsSize(c) == FoldLeft(LAMBDA acc, e : acc + 1 + e.size, 0, Elements(c))

\* Rounded up to words; the header of four bytes comes on top.
BodySize(c) == ((ElementsSize(c) + 3) \div 4) * 4

\* The offset an element is written at.  It is not advanced behind the RID.
Offset(c, k) ==
    FoldLeft(LAMBDA acc, e : IF e.name = "rid" THEN acc ELSE acc + 1 + e.size, 0, SubSeq(Elements(c), 1, k - 1))

\* writeOneByteHeader: what has no size, is too long for one byte of header or
\* does not fit is left out.
WriteOneByteHeader(body, offset, e) ==
    IF e.size \notin 1 .. 16 \/ offset + 1 + e.size > Len(body) THEN body
    ELSE [i \in DOMAIN body |-> IF i \in offset + 1 .. offset + 1 + e.size THEN e.name ELSE body[i]]

WriteExtensions(c) ==
    FoldLeftDomain(LAMBDA acc, k : WriteOneByteHeader(acc, Offset(c, k), Elements(c)[k]),
                   [i \in 1 .. BodySize(c) |-> "padding"], Elements(c))
--------------------------------------------------------------------------
(* RtcpSdes                                                                 *)

ItemSize(n) == n + 2

\* Items of a type and a length byte and their text, a zero, padded to words,
\* and the SSRC.
ChunkSize(lengths) == 4 * ((((FoldLeft(LAMBDA acc, n : acc + ItemSize(n), 0, lengths) + 1 + 3) \div 4) % 256) + 1)
SdesSize(chunks) == FoldLeft(LAMBDA acc, c : acc + ChunkSize(c), 0, chunks)

\* safelyCountChunkSize: zero for an invalid chunk.  Every item is compared with
\* the whole of the chunk, and the sum once all have been read.
SafeChunkSize(lengths, most) ==
    IF most < ChunkSize(<<>>) \/ (\E i \in DOMAIN lengths : 4 + ItemSize(lengths[i]) >= most) THEN 0
    ELSE IF ChunkSize(lengths) > most THEN 0 ELSE ChunkSize(lengths)

\* isValid: chunk after chunk, until the size is reached exactly.
SdesValid(chunks, size) ==
    LET step(acc, c) ==
            IF acc = size \/ acc > size + 1 THEN acc
            ELSE LET n == SafeChunkSize(c, size - acc) IN IF n = 0 THEN size + 2 ELSE acc + n
    IN size = 0 \/ FoldLeft(step, 0, chunks) = size

\* chunksCount: the chunks up to the size.
ChunksCount(chunks, size) ==
    IF ~SdesValid(chunks, size) THEN 0
    ELSE Cardinality({k \in DOMAIN chunks : SdesSize(SubSeq(chunks, 1, k)) <= size})
--------------------------------------------------------------------------
FormatsInit ==
    /\ extConfig \in [rotation : BOOLEAN, delay : BOOLEAN, mid : IdLengths \cup {None}, rid : IdLengths \cup {None}]
    /\ extBody = <<>> /\ sdesChunks = <<>> /\ sdesCut = 0

WritePacket ==
    /\ extBody = <<>> /\ extBody' = WriteExtensions(extConfig)
    /\ UNCHANGED <<extConfig, sdesChunks, sdesCut>>

\* RtcpSdes::preparePacket with one more chunk.
WriteChunk ==
    /\ Len(sdesChunks) < MaxChunks /\ extConfig.mid = None /\ extConfig.rid = None /\ ~extConfig.rotation
    /\ \E c \in UNION {[1 .. n -> TextLengths] : n \in 0 .. 2} : sdesChunks' = Append(sdesChunks, c)
    /\ sdesCut' = 0 /\ UNCHANGED <<extConfig, extBody>>

\* A packet whose header says less than was written.
Cut ==
    /\ sdesCut = 0 /\ \E k \in 1 .. SdesSize(sdesChunks) \div 4 - 1 : sdesCut' = k
    /\ UNCHANGED <<extConfig, extBody, sdesChunks>>

FormatsNext == WritePacket \/ WriteChunk \/ Cut
FormatsSpec == FormatsInit /\ [][FormatsNext]_formatVars
--------------------------------------------------------------------------
Intact(name, size) == Cardinality({i \in DOMAIN extBody : extBody[i] = name}) = size + 1

\* Every extension that is asked for and can be written is in the header as a
\* whole and none overlaps another: except the RID, over which the playout delay
\* is written.
ExtensionsIntact ==
    extBody # <<>> =>
        \A k \in DOMAIN Elements(extConfig) :
            LET e == Elements(extConfig)[k] IN
            (e.name # "rid" \/ ~extConfig.delay) /\ e.size \in 1 .. 16 => Intact(e.name, e.size)

\* A packet as it was written is valid and has as many chunks as were written;
\* one that is cut inside a chunk is refused, and one that is cut between two
\* chunks has those before.
SdesReadBack ==
    LET size == SdesSize(sdesChunks) - 4 * sdesCut
        whole == {k \in 0 .. Len(sdesChunks) : SdesSize(SubSeq(sdesChunks, 1, k)) = size}
    IN ChunksCount(sdesChunks, size) = IF whole = {} THEN 0 ELSE CHOOSE k \in whole : TRUE
============================================================================
