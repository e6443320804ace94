---------------------------- MODULE WsTransport ----------------------------
(***************************************************************************)
(* WsTransport: the HTTP handshake, the frames that are cut out of a byte   *)
(* stream which TCP segments at will, fragmented messages with control      *)
(* frames between the fragments, messages and frames over the limit, pings  *)
(* on an idle connection, and the closing handshake with its timeout.  The  *)
(* peer keeps to RFC 6455.  A byte of the stream is <<kind, value>>: "http" *)
(* for the handshake, "head" for a frame header, whose value is the frame,  *)
(* "pay" for a byte of payload.                                             *)
(***************************************************************************)
EXTENDS Integers, Sequences, SequencesExt

CONSTANTS MaxMessageSize,   \* mMaxMessageSize
          MaxControl,       \* maxControlFrameLength
          MaxPings,         \* mMaxOutstandingPings, 0 is no limit
          Lengths,          \* payload lengths of the frames of the peer
          NFrames,          \* data and ping frames the peer sends
          NIdle             \* idle events

ASSUME WsConstants ==
    /\ {MaxMessageSize, MaxControl, MaxPings, NFrames, NIdle} \subseteq Nat
    /\ MaxMessageSize > 0 /\ Lengths \subseteq Nat

VARIABLES
    wsState,            \* Transport::mState
    mBuffer, mPartial, mPartialOpcode, mIgnoreLength,
    mOutstandingPings, mCloseSent,
    wrong,              \* a message that the peer did not send was given to recv()
    unanswered,         \* pings sent, which the peer may answer
    timer,              \* the closing timeout is scheduled
    stream,             \* bytes of the peer that have not arrived
    peerOpen,           \* the peer is in the middle of a fragmented message
    peerMessages,       \* finished messages of the peer that were not received yet
    peerPartial,        \* the message of the peer that is unfinished
    peerClosed,         \* the peer sent a CLOSE frame or ended the connection
    frames, idles,      \* how many frames and idle events
    paid                \* numbers the payload bytes, modulo Numbers

heldVars == <<mBuffer, mPartial, mPartialOpcode, mIgnoreLength, mOutstandingPings, mCloseSent, wrong, unanswered, timer>>
recvVars == <<heldVars, peerMessages>>
peerVars == <<stream, peerOpen, peerPartial, peerClosed, frames, paid>>
wsVars == <<wsState, recvVars, peerVars, idles>>

WsInit ==
    /\ wsState = "Connecting"
    /\ mBuffer = <<>> /\ mPartial = <<>> /\ mPartialOpcode = "binary" /\ mIgnoreLength = 0
    /\ mOutstandingPings = 0 /\ mCloseSent = FALSE /\ wrong = FALSE /\ unanswered = 0 /\ timer = FALSE
    /\ \E r \in {"ok", "refused"} : stream = <<<<"http", "part">>, <<"http", r>>>>
    /\ peerOpen = FALSE /\ peerMessages = <<>> /\ peerPartial = <<>> /\ peerClosed = FALSE
    /\ frames = 0 /\ idles = 0 /\ paid = 0

-----------------------------------------------------------------------------
(* The receiver's variables are threaded through the loop of incoming() as  *)
(* a record.                                                                *)

Here == [st |-> wsState, buf |-> mBuffer, part |-> mPartial, pop |-> mPartialOpcode,
         ign |-> mIgnoreLength, pings |-> mOutstandingPings, closeSent |-> mCloseSent,
         exp |-> peerMessages, wrong |-> wrong, out |-> unanswered, timer |-> timer]

Becomes(r) ==
    /\ wsState' = r.st /\ mBuffer' = r.buf /\ mPartial' = r.part /\ mPartialOpcode' = r.pop
    /\ mIgnoreLength' = r.ign /\ mOutstandingPings' = r.pings /\ mCloseSent' = r.closeSent
    /\ peerMessages' = r.exp /\ wrong' = r.wrong /\ unanswered' = r.out /\ timer' = r.timer

Smaller(a, b) == IF a < b THEN a ELSE b
Larger(a, b) == IF a > b THEN a ELSE b
MaxFrameLength == Larger(MaxControl, MaxMessageSize)
Cut(s, n) == SubSeq(s, 1, Smaller(n, Len(s)))
Rest(s, n) == SubSeq(s, n + 1, Len(s))

\* parseFrame(): a frame can be read once the header and the payload, or as
\* much of it as is kept, are there.  The value is 0 or the length of the whole
\* frame, which can be more than is in the buffer.
FrameLength(buf) ==
    IF buf = <<>> THEN 0
    ELSE LET length == Head(buf)[2].len IN
         IF Len(buf) - 1 < Smaller(length, MaxFrameLength) THEN 0 ELSE 1 + length

\* recv(message): the next message of the peer is expected.
Deliver(r, type, payload) ==
    IF r.exp # <<>> /\ Head(r.exp) = [type |-> type, data |-> payload]
    THEN [r EXCEPT !.exp = Tail(@)] ELSE [r EXCEPT !.wrong = TRUE]

\* close().
Closing(r) ==
    IF r.st # "Connected" \/ r.closeSent THEN r
    ELSE [r EXCEPT !.closeSent = TRUE, !.timer = TRUE]

\* recvFrame() of a data frame.
RecvData(r, f, payload) ==
    LET kept == Cut(payload, MaxMessageSize)
        q == IF r.part = <<>> THEN r ELSE [Deliver(r, r.pop, r.part) EXCEPT !.part = <<>>]
        n == [q EXCEPT !.pop = f.op]
    IN  IF f.fin THEN Deliver(n, f.op, kept) ELSE [n EXCEPT !.part = kept]

\* recvFrame() of a continuation.
RecvContinuation(r, f, payload) ==
    LET whole == Cut(r.part \o payload, MaxMessageSize)
    IN  IF f.fin THEN [Deliver(r, r.pop, whole) EXCEPT !.part = <<>>] ELSE [r EXCEPT !.part = whole]

RecvFrame(r, f, payload) ==
    CASE f.op \in {"text", "binary"} -> RecvData(r, f, payload)
      [] f.op = "continuation" -> RecvContinuation(r, f, payload)
      [] f.op = "ping" -> r
      [] f.op = "pong" -> [r EXCEPT !.pings = 0]
      [] f.op = "close" -> [Closing(r) EXCEPT !.st = "Disconnected"]

\* What is left of a frame that is longer than the buffer is ignored when it
\* arrives.
Ignored(r, len) == [r EXCEPT !.ign = len - Len(r.buf), !.buf = <<>>]

Mut_OneFrame(r) ==
    LET len == FrameLength(r.buf) IN
    IF len = 0 THEN r
    ELSE LET next == RecvFrame(r, Head(r.buf)[2], SubSeq(r.buf, 2, Smaller(len, 1 + MaxFrameLength)))
         IN  IF len > Len(r.buf) THEN Ignored(next, len) ELSE [next EXCEPT !.buf = Rest(@, len)]

\* The loop of incoming() over the frames in the buffer, as often as there are
\* headers in it.
RECURSIVE Frames(_)
Frames(r) ==
    LET len == FrameLength(r.buf) IN
    IF len = 0 THEN r
    ELSE LET f == Head(r.buf)[2]
             payload == SubSeq(r.buf, 2, Smaller(1 + f.len, 1 + MaxFrameLength))
             next == RecvFrame(r, f, payload)
         IN  IF len > Len(r.buf) THEN Ignored(next, len)
             ELSE Frames([next EXCEPT !.buf = Rest(@, len)])

\* The open connection: ignored bytes first, then the frames.
Open(r) ==
    LET n == Smaller(r.ign, Len(r.buf))
        q == [r EXCEPT !.buf = Rest(@, n), !.ign = @ - n]
    IN  IF q.ign = 0 THEN Frames(q) ELSE q

\* The end of incoming(): an exception, or nullptr, which
\* is passed on as the end.
Ended(r) ==
    IF r.st = "Connected" THEN [r EXCEPT !.st = "Disconnected"]
    ELSE [r EXCEPT !.st = "Failed"]

\* incoming(message).  The handshake is over when the whole answer is there;
\* what follows it in the buffer is read at once.
IncomingMessage(r) ==
    IF r.st = "Connecting"
    THEN IF Len(r.buf) < 2 THEN r
         ELSE IF r.buf[2][2] = "refused" THEN Ended(r)
         ELSE Open([r EXCEPT !.st = "Connected", !.buf = Rest(@, 2)])
    ELSE Open(r)

Live == wsState \in {"Connecting", "Connected"}

\* A segment arrives.  What arrives after the end is dropped, so nothing is
\* left to happen then.
Incoming ==
    /\ Live /\ stream # <<>>
    /\ \E n \in 1..Len(stream) :
        /\ stream' = Rest(stream, n)
        /\ Becomes(IncomingMessage([Here EXCEPT !.buf = @ \o Cut(stream, n)]))
    /\ UNCHANGED <<peerOpen, peerPartial, peerClosed, frames, paid, idles>>

\* The connection below ends.
IncomingNull ==
    /\ peerClosed /\ stream = <<>> /\ Live
    /\ Becomes(Ended(Here))
    /\ UNCHANGED <<peerVars, idles>>

\* addOutstandingPing().
PingsAfter(n) == n + 1
TooMany(n) == MaxPings > 0 /\ n > MaxPings

\* An empty message: TCP is idle.
IncomingIdle ==
    /\ Live /\ idles < NIdle /\ idles' = idles + 1
    /\ IF wsState # "Connected" THEN UNCHANGED <<wsState, recvVars>>
       ELSE Becomes([Here EXCEPT !.out = @ + 1, !.pings = PingsAfter(@),
                                 !.st = IF TooMany(PingsAfter(mOutstandingPings)) THEN "Failed" ELSE @])
    /\ UNCHANGED peerVars

\* stop() and close(), by the application: the frame is sent, or cannot be.
WsClose ==
    /\ wsState = "Connected" /\ ~mCloseSent
    /\ \/ Becomes(Closing(Here))
       \/ Becomes([Here EXCEPT !.closeSent = TRUE, !.st = "Disconnected"])
    /\ UNCHANGED <<peerVars, idles>>

\* The closing timeout, ten seconds later, whatever the state is by then.
CloseTimeout ==
    /\ timer
    /\ Becomes([Here EXCEPT !.st = "Disconnected", !.timer = FALSE])
    /\ UNCHANGED <<peerVars, idles>>

-----------------------------------------------------------------------------
(* The peer *)

Numbers == 7
Payload(n) == [i \in 1..n |-> <<"pay", (paid + i) % Numbers>>]
Send(f) == stream' = (stream \o <<<<"head", f>>>>) \o Payload(f.len) /\ paid' = (paid + f.len) % Numbers
Frame(op, fin, len) == [op |-> op, fin |-> fin, len |-> len]

PeerFrame ==
    /\ Live /\ ~peerClosed /\ frames < NFrames /\ frames' = frames + 1
    /\ \/ \E len \in Lengths, fin \in BOOLEAN, op \in {"text", "binary"} :
            LET type == IF peerOpen THEN peerPartial.type ELSE op
                data == (IF peerOpen THEN peerPartial.data ELSE <<>>) \o Payload(len)
                m == [type |-> type, data |-> data]
            IN  /\ peerOpen => op = "text"
                /\ Send(Frame(IF peerOpen THEN "continuation" ELSE op, fin, len))
                /\ peerOpen' = ~fin
                /\ peerPartial' = IF fin THEN <<>> ELSE m
                /\ peerMessages' = IF fin THEN Append(peerMessages, [m EXCEPT !.data = Cut(@, MaxMessageSize)]) ELSE peerMessages
       \/ /\ Send(Frame("ping", TRUE, 1)) /\ UNCHANGED <<peerOpen, peerMessages, peerPartial>>
    /\ UNCHANGED <<wsState, heldVars, peerClosed, idles>>

\* The peer answers a ping, closes, or ends the connection without a word.
PeerPong ==
    /\ Live /\ ~peerClosed /\ unanswered > 0 /\ unanswered' = unanswered - 1
    /\ Send(Frame("pong", TRUE, 0))
    /\ UNCHANGED <<wsState, mBuffer, mPartial, mPartialOpcode, mIgnoreLength, mOutstandingPings, mCloseSent,
                   wrong, timer, peerOpen, peerMessages, peerPartial, peerClosed, frames, idles>>
PeerClose ==
    /\ Live /\ ~peerClosed /\ peerClosed' = TRUE
    /\ Send(Frame("close", TRUE, 0)) \/ UNCHANGED <<stream, paid>>
    /\ UNCHANGED <<wsState, recvVars, peerOpen, peerPartial, frames, idles>>

WsNext == Incoming \/ IncomingNull \/ IncomingIdle \/ WsClose \/ CloseTimeout \/ PeerFrame \/ PeerPong \/ PeerClose
WsSpec == WsInit /\ [][WsNext]_wsVars /\ WF_wsVars(CloseTimeout)

-----------------------------------------------------------------------------
WsTypeOK ==
    /\ wsState \in {"Connecting", "Connected", "Disconnected", "Failed"}
    /\ mIgnoreLength \in Nat /\ Len(mPartial) <= MaxMessageSize

\* Every message of the peer is received once, in order, with its type and its
\* bytes up to the limit, however it was fragmented, interrupted by control
\* frames and cut into segments.
MessagesIntact == ~wrong

\* Nothing that has arrived is left over: on an open connection all that was
\* finished by the peer has been received.
NothingHeld == wsState = "Connected" /\ stream = <<>> => peerMessages = <<>>

\* A peer that answers is not given up: when the limit is reached there are
\* more pings than that unanswered, or answered by pongs which are on the way.
Pongs(bytes) == Len(SelectSeq(bytes, LAMBDA b : b = <<"head", Frame("pong", TRUE, 0)>>))
AnsweringPeerKept ==
    wsState = "Failed" /\ mOutstandingPings > 0 => unanswered + Pongs(stream) + Pongs(mBuffer) > MaxPings

\* Once the close frame is sent the connection ends, with or without an answer.
CloseEnds == mCloseSent ~> (wsState # "Connected")

\* Frames in segments of any size: messages are put together from their own
\* fragments, nothing complete is held back, and a peer that answers pings is kept.
WsInv == MessagesIntact /\ NothingHeld /\ AnsweringPeerKept
=============================================================================
