---------------------------- MODULE SctpReceive ----------------------------
(***************************************************************************)
(* The receiving half of src/src/impl/sctptransport.cpp: doRecv() puts     *)
(* together what usrsctp_recvv returns in pieces, with notifications       *)
(* between the pieces of a message, and processData() turns messages into  *)
(* what the data channels receive, including messages that an old peer     *)
(* fragmented with the deprecated partial PPIDs.                           *)
(*                                                                         *)
(* Contents are sequences of bytes.  The bytes of message i are <<i, 1>>,  *)
(* <<i, 2>>, ..., so that every byte can be told; Zero is what resize()    *)
(* appends.                                                                *)
(***************************************************************************)
EXTENDS Naturals, Sequences

CONSTANTS
    Streams,
    Ppids,              \* the PPIDs the peer uses
    MaxMessageSize,     \* mMaxMessageSize
    MaxPiece,           \* the size of the buffer of usrsctp_recvv
    MaxLength,          \* bounds the length of a message of the peer
    MaxMessages         \* bounds the messages of the peer

AllPpids == {"Control", "String", "StringPartial", "StringEmpty",
             "Binary", "BinaryPartial", "BinaryEmpty"}

ASSUME PpidsAssumption == Ppids \subseteq AllPpids
ASSUME SizesAssumption == {MaxMessageSize, MaxPiece, MaxLength, MaxMessages} \subseteq Nat \ {0}

VARIABLES
    mPartialMessage, mPartialNotification,
    mPartialStringData, mPartialBinaryData,
    delivered,      \* what recv() was called with
    notified,       \* the notifications processNotification() got
    message,        \* the message usrsctp returns pieces of
    rest,           \* how many of its bytes are still to come
    half,           \* a notification of which the first half was returned
    intended,       \* what the peer sent, fragments put together
    fragments,      \* fragments[s][t]: the bytes of a message not yet complete
    fragmented,     \* history: the peer used a partial PPID
    count           \* messages of the peer so far

vars == <<mPartialMessage, mPartialNotification, mPartialStringData, mPartialBinaryData,
          delivered, notified, message, rest, half, intended, fragments, fragmented,
          count>>

peerVars == <<intended, fragments, fragmented, count>>
partialVars == <<mPartialStringData, mPartialBinaryData>>

Zero == <<0, 0>>
Types == {"Control", "String", "Binary"}
NoMessage == [stream |-> "none", ppid |-> "none", length |-> 0]
Bytes(i, from, to) == [k \in 1 .. to - from + 1 |-> <<i, from + k - 1>>]
Upto(bytes, n) == SubSeq(bytes, 1, IF Len(bytes) < n THEN Len(bytes) ELSE n)

Init ==
    /\ mPartialMessage = <<>> /\ mPartialNotification = <<>>
    /\ mPartialStringData = <<>> /\ mPartialBinaryData = <<>>
    /\ delivered = <<>> /\ notified = <<>>
    /\ message = NoMessage
    /\ rest = 0
    /\ half = FALSE
    /\ intended = <<>>
    /\ fragments = [s \in Streams |-> [t \in Types |-> <<>>]]
    /\ fragmented = FALSE
    /\ count = 0

-----------------------------------------------------------------------------

TypeOf(ppid) ==
    CASE ppid = "Control" -> "Control"
      [] ppid \in {"String", "StringPartial", "StringEmpty"} -> "String"
      [] ppid \in {"Binary", "BinaryPartial", "BinaryEmpty"} -> "Binary"

(* The peer sends the next message: a whole one, a fragment of one or an     *)
(* empty one, which has one byte that does not count.  A receiver may cut    *)
(* what is longer than it announced.                                         *)
PeerSends(s, ppid, n) ==
    /\ rest = 0
    /\ count < MaxMessages
    /\ ppid \in {"StringEmpty", "BinaryEmpty"} => n = 1
    /\ count' = count + 1
    /\ message' = [stream |-> s, ppid |-> ppid, length |-> n]
    /\ rest' = n
    /\ LET t == TypeOf(ppid)
           bytes == IF ppid \in {"StringEmpty", "BinaryEmpty"} THEN <<>> ELSE Bytes(count + 1, 1, n)
           whole == Upto(fragments[s][t] \o bytes, MaxMessageSize)
           partial == ppid \in {"StringPartial", "BinaryPartial"}
       IN  /\ fragments' = [fragments EXCEPT ![s][t] = IF partial THEN whole ELSE <<>>]
           /\ intended' = IF partial THEN intended
                          ELSE Append(intended, [type |-> t, stream |-> s, bytes |-> whole])
           /\ fragmented' = (fragmented \/ partial)
    /\ UNCHANGED <<mPartialMessage, mPartialNotification, partialVars, delivered, notified, half>>

(* vector::resize                                                            *)
Resize(bytes, n) == [k \in 1 .. n |-> IF k <= Len(bytes) THEN bytes[k] ELSE Zero]

Recv(t, bytes) ==
    delivered' = Append(delivered, [type |-> t, stream |-> message.stream, bytes |-> bytes])

(* The part of processData() for strings, or the same for binary, with what  *)
(* was kept of earlier fragments: kept' is what is kept from now on.         *)
Reassemble(t, kept, keptNext, data) ==
    \/ /\ message.ppid \in {"StringPartial", "BinaryPartial"}
       /\ keptNext = Resize(kept \o data, MaxMessageSize)
       /\ UNCHANGED delivered
    \/ /\ message.ppid \in {"String", "Binary"}
       /\ Recv(t, IF kept = <<>> THEN data ELSE Resize(kept \o data, MaxMessageSize))
       /\ keptNext = <<>>
    \/ /\ message.ppid \in {"StringEmpty", "BinaryEmpty"}
       /\ Recv(t, kept)
       /\ keptNext = <<>>

processData(data) ==
    LET t == TypeOf(message.ppid) IN
    \/ /\ t = "Control"
       /\ Recv(t, data)
       /\ UNCHANGED partialVars
    \/ /\ t = "String"
       /\ Reassemble(t, mPartialStringData, mPartialStringData', data)
       /\ UNCHANGED mPartialBinaryData
    \/ /\ t = "Binary"
       /\ Reassemble(t, mPartialBinaryData, mPartialBinaryData', data)
       /\ UNCHANGED mPartialStringData

(* doRecv() gets the next n bytes of the message: they are appended, cut at  *)
(* the maximum size, and if they are the last the message is processed.      *)
RecvPiece(n) ==
    /\ n <= rest
    /\ rest' = rest - n
    /\ LET sofar == message.length - rest
           bytes == Upto(mPartialMessage \o Bytes(count, sofar + 1, sofar + n), MaxMessageSize)
       IN  IF rest = n
           THEN mPartialMessage' = <<>> /\ processData(bytes)
           ELSE mPartialMessage' = bytes /\ UNCHANGED <<delivered, partialVars>>
    /\ UNCHANGED <<mPartialNotification, notified, message, half, peerVars>>

Mut_RecvNotificationOneBuffer(first) ==
    /\ half # first
    /\ mPartialNotification' = <<>>
    /\ half' = first
    /\ mPartialMessage' = IF first THEN Append(mPartialMessage, "first") ELSE <<>>
    /\ notified' = IF first THEN notified ELSE Append(notified, Append(mPartialMessage, "last"))
    /\ UNCHANGED <<partialVars, delivered, message, rest, peerVars>>

(* doRecv() gets the first or the last piece of a notification.              *)
RecvNotification(first) ==
    /\ half # first
    /\ Len(notified) < MaxMessages
    /\ half' = first
    /\ \/ /\ first
          /\ mPartialNotification' = Append(mPartialNotification, "first")
          /\ UNCHANGED notified
       \/ /\ ~first
          /\ mPartialNotification' = <<>>
          /\ notified' = Append(notified, Append(mPartialNotification, "last"))
    /\ UNCHANGED <<mPartialMessage, partialVars, delivered, message, rest, peerVars>>

Next ==
    \/ \E s \in Streams, ppid \in Ppids, n \in 1 .. MaxLength : PeerSends(s, ppid, n)
    \/ \E n \in 1 .. MaxPiece : RecvPiece(n)
    \/ \E first \in BOOLEAN : RecvNotification(first)

Spec == Init /\ [][Next]_vars

-----------------------------------------------------------------------------

(* Notifications are processed whole, whatever messages come between their   *)
(* pieces.                                                                   *)
NotificationsWhole == \A i \in 1 .. Len(notified) : notified[i] = <<"first", "last">>

(* The data channels receive the messages the peer sent, in order, on their  *)
(* streams and with their types, put together from pieces and fragments and  *)
(* cut at the maximum size: no byte is added, lost or moved elsewhere.       *)
DeliveredAsSent ==
    delivered = IF rest = 0 THEN intended ELSE SubSeq(intended, 1, Len(delivered))

(* The same for a peer that, like this library, never uses the partial PPIDs.*)
WholeDeliveredAsSent == ~fragmented => DeliveredAsSent

(* Even with fragments, one message is received for each one the peer ended, *)
(* on its stream, with its type, and no longer than the maximum size.        *)
BoundariesKept ==
    /\ Len(delivered) <= Len(intended)
    /\ rest = 0 => Len(delivered) = Len(intended)
    /\ \A i \in 1 .. Len(delivered) :
          /\ delivered[i].type = intended[i].type
          /\ delivered[i].stream = intended[i].stream
          /\ Len(delivered[i].bytes) <= MaxMessageSize
=============================================================================
