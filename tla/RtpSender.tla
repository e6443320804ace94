----------------------------- MODULE RtpSender -----------------------------
(***************************************************************************)
(* The chain of media handlers of a track that sends: RtpPacketizer numbers *)
(* the packets, RtcpSrReporter counts them, RtcpNackResponder keeps the     *)
(* last ones and sends again what a NACK names.  A message vector passes    *)
(* one handler after the other.  Sequence numbers have SeqRange values and a  *)
(* NACK part names BlpBits numbers after its first, in the code 2^16 and    *)
(* 16.                                                                      *)
(***************************************************************************)
EXTENDS Naturals, Sequences, FiniteSets, SequencesExt

CONSTANTS
    SeqRange,         \* sequence numbers
    BlpBits,        \* bits of the mask of a NACK part
    StoreMax,       \* maxSize of the storage
    MaxSent,        \* bounds the packets sent
    MaxRepeats,     \* bounds the packets that the application sends under a number that is stored
    MaxMissing      \* bounds the numbers of a NACK

ASSUME SenderAssumption ==
    /\ SeqRange \in Nat /\ StoreMax \in 1 .. SeqRange - 1 /\ BlpBits \in 1 .. SeqRange - 1
    /\ MaxSent \in Nat /\ MaxRepeats \in Nat /\ MaxMissing \in Nat

VARIABLES
    rtpSeq,         \* rtpConfig->sequenceNumber
    sentSeq,        \* ghost: the number of each packet sent, in order
    storeList,      \* the list from oldest to newest: indices into sentSeq
    storeMap,       \* storage: number |-> index
    repeats,        \* ghost: stores that found their number in the storage
    packetCount,    \* mPacketCount
    needsToReport,  \* mNeedsToReport
    lastReport,     \* the last sender report: what it says and how much had been sent
    nackParts,      \* the parts of the NACK a receiver is writing
    nackPid,        \* *fciPID
    missing,        \* ghost: the numbers it was told to write, in order
    resent          \* what the last NACK made the responder send, or <<>>

senderVars == <<rtpSeq, sentSeq, storeList, storeMap, repeats, packetCount, needsToReport, lastReport, nackParts, nackPid,
                missing, resent>>

SeqNumbers == 0 .. SeqRange - 1
NackPart == [pid : SeqNumbers, blp : SUBSET (0 .. BlpBits - 1)]

SenderTypeOK ==
    /\ rtpSeq \in SeqNumbers /\ sentSeq \in Seq(SeqNumbers) /\ storeList \in Seq(DOMAIN sentSeq)
    /\ DOMAIN storeMap \subseteq SeqNumbers /\ Range(storeMap) \subseteq DOMAIN sentSeq
    /\ repeats \in Nat /\ packetCount \in Nat /\ needsToReport \in BOOLEAN
    /\ nackParts \in Seq(NackPart) /\ nackPid \in SeqNumbers

\* The first sequence number is random.
SenderInit ==
    /\ rtpSeq \in SeqNumbers /\ sentSeq = <<>> /\ storeList = <<>> /\ storeMap = <<>> /\ repeats = 0
    /\ packetCount = 0 /\ needsToReport = FALSE /\ lastReport = [says |-> 0, sent |-> 0]
    /\ nackParts = <<>> /\ nackPid = 0 /\ missing = <<>> /\ resent = <<>>
--------------------------------------------------------------------------
(* Storage::store                                                           *)

MapPut(f, k, v) == [x \in DOMAIN f \cup {k} |-> IF x = k THEN v ELSE f[x]]
MapDrop(f, k) == [x \in DOMAIN f \ {k} |-> f[x]]

\* A bug: the number that leaves the storage is that of the newest packet.
Mut_StoreNewest(st, i, s) ==
    LET list == IF DOMAIN st.map = {} THEN <<i>> ELSE Append(st.list, i)
        map == IF s \in DOMAIN st.map THEN st.map ELSE MapPut(st.map, s, i)
    IN IF Cardinality(DOMAIN map) > StoreMax
         THEN [list |-> Tail(list), map |-> MapDrop(map, st.num[Last(list)]), num |-> st.num]
         ELSE [list |-> list, map |-> map, num |-> st.num]

\* A packet is appended to the list, and entered in the table unless its number
\* is there already; when the table is too large the number of the oldest packet
\* of the list goes from it, whichever packet it stands for.
Store(st, i, s) ==
    LET list == IF DOMAIN st.map = {} THEN <<i>> ELSE Append(st.list, i)
        map == IF s \in DOMAIN st.map THEN st.map ELSE MapPut(st.map, s, i)
    IN IF Cardinality(DOMAIN map) > StoreMax
         THEN [list |-> Tail(list), map |-> MapDrop(map, st.num[Head(list)]), num |-> st.num]
         ELSE [list |-> list, map |-> map, num |-> st.num]

\* RtcpNackResponder::outgoing over the packets from index a on.
StoreAll(nums, a) ==
    LET st == [list |-> storeList, map |-> storeMap, num |-> nums]
    IN FoldLeftDomain(LAMBDA acc, k : IF k < a THEN acc ELSE Store(acc, k, nums[k]), st, nums)
--------------------------------------------------------------------------
(* outgoing                                                                 *)

\* RtcpSrReporter::outgoing: a report that was asked for follows the packets.
Report(count, total) ==
    /\ lastReport' = IF needsToReport THEN [says |-> count, sent |-> total] ELSE lastReport
    /\ needsToReport' = FALSE

\* RtpPacketizer: a frame of n packets gets n numbers in a row.
PacketNumbers(n) == [k \in 1 .. n |-> (rtpSeq + k - 1) % SeqRange]

\* A track without packetizer takes packets that are numbered already: the
\* application may send one again, under a number that is still stored.
SendPackets(nums) ==
    LET all == sentSeq \o nums
        st == StoreAll(all, Len(sentSeq) + 1)
    IN /\ Len(all) <= MaxSent
       /\ sentSeq' = all /\ storeList' = st.list /\ storeMap' = st.map
       /\ packetCount' = packetCount + Len(nums)
       /\ Report(packetCount + Len(nums), Len(all))
       /\ resent' = <<>>

SendFrame(n) ==
    /\ SendPackets(PacketNumbers(n)) /\ rtpSeq' = (rtpSeq + n) % SeqRange
    /\ UNCHANGED <<repeats, nackParts, nackPid, missing>>
SendAgain ==
    /\ repeats < MaxRepeats /\ repeats' = repeats + 1
    /\ \E s \in DOMAIN storeMap : SendPackets(<<s>>)
    /\ UNCHANGED <<rtpSeq, nackParts, nackPid, missing>>

\* RTCP that the application sends passes the handlers; it is neither counted
\* nor stored, but a report that is due follows it.
SendControl ==
    /\ needsToReport /\ Report(packetCount, Len(sentSeq)) /\ resent' = <<>>
    /\ UNCHANGED <<rtpSeq, sentSeq, storeList, storeMap, repeats, packetCount, nackParts, nackPid, missing>>

SetNeedsToReport ==
    /\ ~needsToReport /\ needsToReport' = TRUE
    /\ UNCHANGED <<rtpSeq, sentSeq, storeList, storeMap, repeats, packetCount, lastReport, nackParts, nackPid, missing,
                   resent>>
--------------------------------------------------------------------------
(* A NACK: RtcpNack::addMissingPacket on one side, getSequenceNumbers and    *)
(* RtcpNackResponder::incoming on the other.                                *)

\* A number goes to a part of its own unless it is among those that follow the
\* first of the last part: never across the end of the number range.  A receiver
\* reports a number once; with the first of a part again the code would shift by
\* a negative count.
NewPart(s) == nackParts = <<>> \/ s < nackPid \/ s > nackPid + BlpBits

AddMissingPacket(s) ==
    /\ Len(missing) < MaxMissing /\ s \notin Range(missing)
    /\ missing' = Append(missing, s)
    /\ IF NewPart(s)
         THEN nackParts' = Append(nackParts, [pid |-> s, blp |-> {}]) /\ nackPid' = s
         ELSE /\ nackParts' = [nackParts EXCEPT ![Len(nackParts)].blp =
                                 @ \cup ({s - (1 + nackPid)} \cap (0 .. BlpBits - 1))]
              /\ UNCHANGED nackPid
    /\ UNCHANGED <<rtpSeq, sentSeq, storeList, storeMap, repeats, packetCount, needsToReport, lastReport, resent>>

SequenceNumbers(part) == {part.pid} \cup {(part.pid + 1 + b) % SeqRange : b \in part.blp}

Asked == UNION {SequenceNumbers(nackParts[k]) : k \in DOMAIN nackParts}

\* The NACK arrives: what is stored under its numbers is sent again, past the
\* handlers, so that it is neither counted nor stored once more.
NackIncoming ==
    /\ nackParts # <<>>
    /\ resent' = [s \in Asked \cap DOMAIN storeMap |-> storeMap[s]]
    /\ nackParts' = <<>> /\ nackPid' = 0 /\ missing' = <<>>
    /\ UNCHANGED <<rtpSeq, sentSeq, storeList, storeMap, repeats, packetCount, needsToReport, lastReport>>

\* The NACK is lost.
NackLost ==
    /\ nackParts # <<>> /\ nackParts' = <<>> /\ nackPid' = 0 /\ missing' = <<>> /\ resent' = <<>>
    /\ UNCHANGED <<rtpSeq, sentSeq, storeList, storeMap, repeats, packetCount, needsToReport, lastReport>>

SenderNext ==
    \/ \E n \in 1 .. 2 : SendFrame(n)
    \/ SendAgain \/ SendControl \/ SetNeedsToReport
    \/ \E s \in Range(sentSeq) : AddMissingPacket(s)
    \/ NackIncoming \/ NackLost

SenderSpec == SenderInit /\ [][SenderNext]_senderVars
--------------------------------------------------------------------------
\* The index of the last packet that was sent under a number.
Latest(s) == CHOOSE i \in DOMAIN sentSeq : sentSeq[i] = s /\ \A j \in DOMAIN sentSeq : j > i => sentSeq[j] # s

\* As long as every packet has a number of its own, the storage holds the last
\* packets and no others, also when the numbers start again from zero.
StorageIsWindow ==
    repeats = 0 =>
        LET n == Len(sentSeq)
            kept == {i \in 1 .. n : i + StoreMax > n}
        IN /\ Range(storeList) = kept
           /\ storeMap = [s \in {sentSeq[i] : i \in kept} |-> Latest(s)]

\* Every packet that is sent under a number that is stored makes the storage
\* one larger than its maximum for good, and no more than that.
StorageBounded == Cardinality(DOMAIN storeMap) <= StoreMax + repeats

\* A NACK names the packets it was written for, across the end of the number
\* range too, and no others.
NackNamesMissing == Asked = Range(missing)

\* What is sent again under a number was the last packet sent under it.
RetransmitsLatest == repeats = 0 => \A s \in DOMAIN resent : resent[s] = Latest(s)

\* A report counts all that was sent before it: the packets of its own call,
\* and none that a NACK or RTCP has made the track send.
ReportsExact == lastReport.says = lastReport.sent
============================================================================
