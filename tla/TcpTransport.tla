---------------------------- MODULE TcpTransport ----------------------------
(***************************************************************************)
(* TcpTransport on top of the singleton PollService: resolving the host    *)
(* and trying its addresses in jobs of the thread pool, the poll thread    *)
(* which runs every callback while it holds the recursive mutex of the     *)
(* poll service, and the send queue under mSendMutex.  Threads: the         *)
(* application, which sends, the poll thread, a worker of the pool.  A      *)
(* message is a sequence of bytes <<message, position>>, so that a write    *)
(* which stops half way is visible.  The kernel (sockets, poll(), the send  *)
(* buffer) is external.                                                     *)
(***************************************************************************)
EXTENDS Integers, Sequences, SequencesExt, FiniteSets

CONSTANTS NAddr,   \* addresses the resolution may give at most
          NApp,    \* messages the application sends
          NPing,   \* incoming messages, each answered from the callback
          Size,    \* bytes of a message
          Room     \* bytes the kernel buffers

ASSUME TcpConstants == /\ {NAddr, NApp, NPing} \subseteq Nat
                       /\ {Size, Room} \subseteq Nat \ {0}

VARIABLES
    state,         \* Transport::mState
    sock,          \* mSock: the number of the socket, 0 is INVALID_SOCKET
    mResolved,     \* how many addresses are left
    tried,         \* how many were tried
    job,           \* the job of this transport in the thread pool
    sockets,       \* kernel: the sockets that are open and their condition
    entry,         \* mSocks of the poll service
    interrupted,   \* the pipe of the PollInterrupter has a byte
    pfd,           \* what poll() was given, and then what it returned
    sendMutex, pollMutex,
    th,            \* what the two sending threads are doing
    mSendQueue, mBufferedAmount,
    accepted,      \* messages in the order outgoing() took them
    wire,          \* bytes written to the socket
    room,          \* kernel: free bytes of the send buffer
    inbox,         \* kernel: messages that can be read
    peer,          \* kernel: the peer's end of the connection
    sends, pings,  \* how many were sent and came
    overlap,       \* ghost: two threads were inside of the send queue at once
    early          \* ghost: the poll direction fell back to In with messages queued

connVars  == <<state, sock, mResolved, tried, job, sockets>>
pollVars  == <<entry, interrupted, pfd, pollMutex>>
queueVars == <<mSendQueue, mBufferedAmount, accepted, wire, room, sendMutex>>
netVars   == <<inbox, peer, sends, pings>>
ghosts    == <<overlap, early>>
vars == <<connVars, pollVars, queueVars, netVars, ghosts, th>>

None == [fd |-> 0, dir |-> "none", cb |-> "none", timeout |-> FALSE]
NoPfd == [fd |-> 0, dir |-> "none", ev |-> {}]
Idle == [pc |-> "idle", own |-> <<>>, cur |-> <<>>]
Message(m) == [i \in 1..Size |-> <<m, i>>]
Inside == {"peek", "flush", "direct"}

Init ==
    /\ state = "Disconnected" /\ sock = 0 /\ mResolved = 0 /\ tried = 0
    /\ job = "none" /\ sockets = <<>>
    /\ entry = None /\ interrupted = FALSE /\ pfd = NoPfd /\ pollMutex = "none"
    /\ th = [app |-> Idle, poll |-> [Idle EXCEPT !.pc = "prepare"]]
    /\ mSendQueue = <<>> /\ mBufferedAmount = 0 /\ accepted = <<>>
    /\ wire = <<>> /\ room = Room /\ sendMutex = "none"
    /\ inbox = 0 /\ peer = "open" /\ sends = 0 /\ pings = 0
    /\ overlap = FALSE /\ early = FALSE

-----------------------------------------------------------------------------
(* Connecting *)

\* start() and connect() of an active transport.
Connect ==
    /\ state = "Disconnected" /\ tried = 0 /\ job = "none" /\ sock = 0
    /\ state' = "Connecting" /\ job' = "resolve"
    /\ UNCHANGED <<sock, mResolved, tried, sockets, pollVars, queueVars, netVars, ghosts, th>>

\* resolve(): any number of addresses; no address at all is an error.
Resolve ==
    /\ job = "resolve" /\ sendMutex = "none"
    /\ \/ /\ state # "Connecting" /\ job' = "none" /\ mResolved' = 0
          /\ UNCHANGED state
       \/ /\ state = "Connecting"
          /\ \/ \E n \in 1..NAddr : mResolved' = n /\ job' = "attempt" /\ UNCHANGED state
             \/ mResolved' = 0 /\ state' = "Failed" /\ job' = "none"
    /\ UNCHANGED <<sock, tried, sockets, pollVars, queueVars, netVars, ghosts, th>>

\* The first part of attempt(), under the mutex.  The test of mSock before
\* the next try is the wrong way round: the socket of the failed try is left.
Attempt ==
    /\ job = "attempt" /\ sendMutex = "none"
    /\ \/ state # "Connecting" /\ job' = "none" /\ UNCHANGED <<state, sock, mResolved, tried, sockets>>
       \/ /\ state = "Connecting" /\ mResolved = 0
          /\ state' = "Failed" /\ job' = "none" /\ UNCHANGED <<sock, mResolved, tried, sockets>>
       \/ /\ state = "Connecting" /\ mResolved > 0
          /\ mResolved' = mResolved - 1 /\ tried' = tried + 1
          /\ \/ /\ sock' = tried + 1 /\ job' = "add"
                /\ sockets' = Append(sockets, "connecting")
             \/ sock' = 0 /\ job' = "attempt" /\ sockets' = Append(sockets, "closed")
          /\ UNCHANGED state
    /\ UNCHANGED <<pollVars, queueVars, netVars, ghosts, th>>

Mut_AddSilent(dir, cb) ==
    /\ entry' = [fd |-> sock, dir |-> dir, cb |-> cb, timeout |-> dir # "Both"]
    /\ UNCHANGED interrupted

\* PollService::add(), called with a socket, a direction and a callback.
Add(dir, cb) ==
    /\ entry' = [fd |-> sock, dir |-> dir, cb |-> cb, timeout |-> dir # "Both"]
    /\ interrupted' = TRUE

\* The end of attempt(), without the mutex.
AttemptAdd ==
    /\ job = "add" /\ pollMutex = "none"
    /\ Add("Out", "attempt") /\ job' = "none"
    /\ UNCHANGED <<state, sock, mResolved, tried, sockets, pfd, pollMutex, queueVars, netVars, ghosts, th>>

-----------------------------------------------------------------------------
(* Sending: t is the application, in send(), or the poll thread, in the     *)
(* callback for Out or in a callback whose receiver sends.                  *)

Other(t) == IF t = "app" THEN "poll" ELSE "app"
Goto(t, pc) == th' = [th EXCEPT ![t].pc = pc]
\* send() returns.  The callback of In goes on reading; those after connecting
\* and for an idle socket register the socket for In again.
Return(t) ==
    IF t = "app" THEN th' = [th EXCEPT !.app = Idle]
    ELSE IF th.poll.own = <<>> THEN Goto("poll", "done")
    ELSE IF th.poll.own[1][1][1] = "pong" THEN th' = [th EXCEPT !.poll = [Idle EXCEPT !.pc = "recv"]]
    ELSE Goto("poll", "setin")
\* The mutex is released when t holds it, which the callback for Out does not.
Release(t) == sendMutex' = IF sendMutex = t THEN "none" ELSE sendMutex
\* updateBufferedAmount().
Buffered(delta) == LET b == mBufferedAmount + delta IN IF b < 0 THEN 0 ELSE b
Enter(t) == overlap' = (overlap \/ th[Other(t)].pc \in Inside)

AppSend ==
    /\ th.app.pc = "idle" /\ sends < NApp /\ state = "Connected"
    /\ sends' = sends + 1
    /\ th' = [th EXCEPT !.app = [pc |-> "lock", own |-> Message(<<"app", sends + 1>>), cur |-> <<>>]]
    /\ UNCHANGED <<connVars, pollVars, queueVars, inbox, peer, pings, ghosts>>

\* send() takes the mutex, and throws when the transport is not connected.
Lock(t) ==
    /\ th[t].pc = "lock" /\ sendMutex = "none"
    /\ \/ /\ state = "Connected" /\ sendMutex' = t /\ Goto(t, "peek") /\ Enter(t)
          /\ accepted' = Append(accepted, th[t].own[1][1])
       \/ /\ state # "Connected" /\ Return(t)
          /\ UNCHANGED <<sendMutex, overlap, accepted>>
    /\ UNCHANGED <<connVars, pollVars, mSendQueue, mBufferedAmount, wire, room, netVars, early>>

\* The loop of trySendQueue() takes the next message; with an empty queue the
\* message that is being sent, if there is one, is tried directly.
Peek(t) ==
    /\ th[t].pc = "peek"
    /\ IF mSendQueue # <<>>
       THEN th' = [th EXCEPT ![t].pc = "flush", ![t].cur = Head(mSendQueue)]
       ELSE IF th[t].own = <<>> THEN Goto(t, "setin")
       ELSE th' = [th EXCEPT ![t].pc = "direct", ![t].cur = th[t].own]
    /\ UNCHANGED <<connVars, pollVars, queueVars, netVars, ghosts>>

\* The message is written to the end: trySendQueue() removes it from the queue.
Written(t) ==
    IF th[t].pc = "direct"
    THEN Return(t) /\ Release(t) /\ UNCHANGED <<mSendQueue, mBufferedAmount>>
    ELSE /\ Goto(t, "peek") /\ UNCHANGED sendMutex
         /\ mSendQueue' = Tail(mSendQueue)
         /\ mBufferedAmount' = Buffered(-Len(Head(mSendQueue)))

\* trySendMessage(): one successful call of ::send().
Write(t) ==
    /\ th[t].pc \in {"flush", "direct"} /\ room > 0 /\ peer # "reset"
    /\ wire' = Append(wire, Head(th[t].cur)) /\ room' = room - 1
    /\ IF Len(th[t].cur) = 1 THEN Written(t)
       ELSE th' = [th EXCEPT ![t].cur = Tail(@)] /\ UNCHANGED <<mSendQueue, mBufferedAmount, sendMutex>>
    /\ UNCHANGED <<connVars, pollVars, accepted, netVars, ghosts>>

Mut_PushFront(queue, t) == <<th[t].own>> \o queue

\* outgoing() puts the message that is being sent behind the queue.
Pushed(queue, t) == Append(queue, th[t].own)

\* ::send() would block: what is left of the message stays in its place, and
\* the message of outgoing() waits behind it.
WouldBlock(t) ==
    /\ th[t].pc \in {"flush", "direct"} /\ room = 0 /\ peer # "reset"
    /\ IF th[t].pc = "direct"
       THEN /\ mSendQueue' = Append(mSendQueue, th[t].cur)
            /\ mBufferedAmount' = Buffered(Len(th[t].cur)) /\ Goto(t, "setpoll")
       ELSE LET left == <<th[t].cur>> \o Tail(mSendQueue)
                sent == Len(Head(mSendQueue)) - Len(th[t].cur)
            IN  IF th[t].own = <<>>
                THEN /\ mSendQueue' = left /\ mBufferedAmount' = Buffered(-sent) /\ Return(t)
                ELSE /\ mSendQueue' = Pushed(left, t) /\ Goto(t, "setpoll")
                     /\ mBufferedAmount' = Buffered(Len(th[t].own) - sent)
    /\ UNCHANGED <<connVars, pollVars, accepted, wire, room, sendMutex, netVars, ghosts>>

\* ::send() fails: the exception leaves send(), or process() of the event Out.
Broken(t) ==
    /\ th[t].pc \in {"flush", "direct"} /\ peer = "reset"
    /\ (IF th[t].own = <<>> THEN Goto(t, "disconnect") ELSE Return(t)) /\ Release(t)
    /\ UNCHANGED <<connVars, pollVars, mSendQueue, mBufferedAmount, accepted, wire, room, netVars, ghosts>>

\* The poll mutex is recursive.
CanPoll(t) == pollMutex \in {"none", t}

\* outgoing() asks for writability while it holds the send mutex.
SetPollBoth(t) ==
    /\ th[t].pc = "setpoll" /\ CanPoll(t)
    /\ Add("Both", "process") /\ Release(t) /\ Return(t) /\ early' = FALSE
    /\ UNCHANGED <<connVars, pfd, pollMutex, mSendQueue, mBufferedAmount, accepted, wire, room, netVars, overlap>>

-----------------------------------------------------------------------------
(* The poll thread.  th.poll.own holds the message a callback sends; pfd.ev *)
(* what poll() returned, from which the events already handled are removed. *)

\* prepare().
Prepare ==
    /\ th.poll.pc = "prepare" /\ pollMutex = "none"
    /\ pfd' = [fd |-> entry.fd, dir |-> entry.dir, ev |-> {}]
    /\ Goto("poll", "poll")
    /\ UNCHANGED <<connVars, entry, interrupted, pollMutex, queueVars, netVars, ghosts>>

\* What the kernel reports for the socket.
Ready ==
    IF pfd.fd = 0 THEN {} ELSE
    {e \in {"err", "in", "out"} :
        \/ e = "err" /\ sockets[pfd.fd] \in {"failed", "closed"}
        \/ e = "in"  /\ pfd.dir \in {"In", "Both"} /\ (inbox > 0 \/ peer # "open")
        \/ e = "out" /\ pfd.dir \in {"Out", "Both"} /\ sockets[pfd.fd] = "connected"
                     /\ (room > 0 \/ peer = "reset")}

\* A timeout may have passed: of a connection attempt, or of an idle socket,
\* which is one of the NPing events.
Expires == pfd.fd # 0 /\ entry.timeout /\ (entry.cb = "attempt" \/ pings < NPing)

\* poll() returns: something is ready, it is interrupted, or time has passed.
PollReturn ==
    /\ th.poll.pc = "poll"
    /\ Ready # {} \/ interrupted \/ Expires
    /\ pfd' = [pfd EXCEPT !.ev = Ready \cup (IF interrupted THEN {"interrupt"} ELSE {})]
    /\ Goto("poll", "process")
    /\ UNCHANGED <<connVars, entry, interrupted, pollMutex, queueVars, netVars, ghosts>>

Finish == Goto("poll", "prepare") /\ pollMutex' = "none"
Retry  == job' = "attempt" /\ Finish /\ UNCHANGED <<state, sock, mResolved, tried, sockets>>

\* The callback of attempt(): try the next address, or connected, upon which
\* the transport above sends its first message.
AttemptCallback(event) ==
    IF event # "out" THEN Retry /\ UNCHANGED ghosts
    ELSE /\ state' = "Connected" /\ pollMutex' = "poll"
         /\ th' = [th EXCEPT !.poll = [pc |-> "lock", own |-> Message(<<"hello", 0>>), cur |-> <<>>]]
         /\ UNCHANGED <<sock, mResolved, tried, job, sockets, ghosts>>

\* The beginning of process(event) of the transport.
ProcessCallback(event) ==
    /\ pollMutex' = "poll" /\ UNCHANGED connVars
    /\ CASE event = "err" -> Goto("poll", "disconnect") /\ UNCHANGED ghosts
         [] event = "in" -> Goto("poll", "recv") /\ UNCHANGED ghosts
         [] event = "out" -> Goto("poll", "peek") /\ Enter("poll") /\ UNCHANGED early
         [] event = "timeout" -> /\ th' = [th EXCEPT !.poll = [pc |-> "lock", own |-> Message(<<"ping", 0>>), cur |-> <<>>]]
                                 /\ UNCHANGED ghosts

\* The callback for an event, In before Out; for an error or a timeout the
\* entry is erased first.
Callback(event) ==
    /\ entry' = IF event \in {"err", "timeout"} \/ (entry.cb = "attempt" /\ event # "out") THEN None ELSE entry
    /\ interrupted' = ((interrupted /\ "interrupt" \notin pfd.ev)
                         \/ (entry.cb = "attempt" /\ event # "out"))
    /\ pfd' = [pfd EXCEPT !.ev = @ \cap (IF event = "in" THEN {"out"} ELSE {})]
    /\ IF entry.cb = "attempt" THEN AttemptCallback(event) ELSE ProcessCallback(event)

\* process() of the poll service, which takes the mutex and looks the entry up
\* again.
Process ==
    /\ th.poll.pc = "process" /\ pollMutex = "none"
    /\ LET known == entry.fd = pfd.fd /\ entry.fd # 0
           events == pfd.ev \ {"interrupt"}
       IN  \/ /\ ~known \/ events = {}
              /\ Finish /\ interrupted' = (interrupted /\ "interrupt" \notin pfd.ev)
              /\ UNCHANGED <<connVars, entry, pfd, ghosts, pings>>
           \/ /\ known /\ events # {}
              /\ Callback(IF "err" \in events THEN "err" ELSE IF "in" \in events THEN "in" ELSE "out")
              /\ UNCHANGED pings
           \/ /\ known /\ events = {} /\ Expires
              /\ pings' = IF entry.cb = "process" THEN pings + 1 ELSE pings
              /\ Callback("timeout")
    /\ UNCHANGED <<queueVars, inbox, peer, sends>>

\* The callback for In has returned: the event Out of the same poll() is next.
AfterIn ==
    /\ pfd' = [pfd EXCEPT !.ev = {}]
    /\ IF "out" \in pfd.ev
       THEN th' = [th EXCEPT !.poll = [Idle EXCEPT !.pc = "peek"]] /\ Enter("poll") /\ UNCHANGED pollMutex
       ELSE th' = [th EXCEPT !.poll = [Idle EXCEPT !.pc = "prepare"]] /\ pollMutex' = "none" /\ UNCHANGED overlap

\* The receiving loop of process(In): every message is answered.
Recv ==
    /\ th.poll.pc = "recv"
    /\ IF inbox > 0
       THEN /\ inbox' = inbox - 1 /\ UNCHANGED <<pollMutex, overlap>>
            /\ th' = [th EXCEPT !.poll = [pc |-> "lock", own |-> Message(<<"pong", 0>>), cur |-> <<>>]]
            /\ UNCHANGED pfd
       ELSE /\ UNCHANGED inbox
            /\ IF peer = "open" THEN AfterIn
               ELSE Goto("poll", "disconnect") /\ UNCHANGED <<pollMutex, overlap, pfd>>
    /\ UNCHANGED <<connVars, entry, interrupted, queueVars, peer, sends, pings, early>>

\* The callback has returned.
CallbackDone ==
    /\ th.poll.pc = "done" /\ pollMutex' = "none"
    /\ th' = [th EXCEPT !.poll = [Idle EXCEPT !.pc = "prepare"]]
    /\ UNCHANGED <<connVars, entry, interrupted, pfd, queueVars, netVars, ghosts>>

\* setPoll(In) after the first message, after an idle event, or after the
\* queue was flushed.
SetPollIn ==
    /\ th.poll.pc = "setin" /\ CanPoll("poll")
    /\ Add("In", "process") /\ pollMutex' = "none"
    /\ early' = (th.poll.own # <<>> /\ mSendQueue # <<>>)
    /\ th' = [th EXCEPT !.poll = [Idle EXCEPT !.pc = "prepare"]]
    /\ UNCHANGED <<connVars, pfd, queueVars, netVars, overlap>>

\* The end of process() of the transport: disconnected.  An Out event that
\* came together with the end of the stream is still handled.
Disconnect ==
    /\ th.poll.pc = "disconnect"
    /\ entry' = None /\ interrupted' = TRUE /\ state' = "Disconnected"
    /\ AfterIn
    /\ UNCHANGED <<sock, mResolved, tried, job, sockets, queueVars, netVars, early>>

-----------------------------------------------------------------------------
(* The destructor, and the kernel *)

\* close(), called by the destructor alone: no thread has a reference.
Close ==
    /\ state # "Gone" /\ th.app.pc = "idle" /\ job # "add"
    /\ sendMutex = "none" /\ pollMutex = "none"
    /\ IF sock = 0 THEN UNCHANGED <<sockets, entry, interrupted>>
       ELSE /\ sockets' = [sockets EXCEPT ![sock] = "closed"]
            /\ entry' = None /\ interrupted' = TRUE
    /\ sock' = 0 /\ state' = "Gone"
    /\ UNCHANGED <<mResolved, tried, job, pfd, pollMutex, queueVars, netVars, ghosts, th>>

\* connect() of the kernel succeeds or fails.
Connected ==
    /\ sock # 0 /\ sockets[sock] = "connecting"
    /\ \E r \in {"connected", "failed"} : sockets' = [sockets EXCEPT ![sock] = r]
    /\ UNCHANGED <<state, sock, mResolved, tried, job, pollVars, queueVars, netVars, ghosts, th>>

\* The peer reads a byte.
Drain ==
    /\ room < Room /\ room' = room + 1
    /\ UNCHANGED <<connVars, pollVars, mSendQueue, mBufferedAmount, accepted, wire, sendMutex, netVars, ghosts, th>>

\* The peer sends a message, ends its stream or resets the connection.
Peer ==
    /\ state = "Connected" /\ peer = "open"
    /\ \/ pings < NPing /\ pings' = pings + 1 /\ inbox' = inbox + 1 /\ UNCHANGED peer
       \/ peer' \in {"closed", "reset"} /\ UNCHANGED <<inbox, pings>>
    /\ UNCHANGED <<connVars, pollVars, queueVars, sends, ghosts, th>>

Threads == {"app", "poll"}
Sending(t) == Lock(t) \/ Peek(t) \/ Write(t) \/ WouldBlock(t) \/ Broken(t) \/ SetPollBoth(t)
Worker == Resolve \/ Attempt \/ AttemptAdd
App == Sending("app")
Poll == Sending("poll") \/ Prepare \/ PollReturn \/ Process \/ Recv \/ CallbackDone \/ SetPollIn \/ Disconnect
Kernel == Connected \/ Drain

\* What follows two threads inside of the queue is not explored.
Next == ~overlap /\ (Worker \/ App \/ Poll \/ Kernel \/ Connect \/ AppSend \/ Close \/ Peer)

Spec == /\ Init /\ [][Next]_vars
        /\ WF_vars(~overlap /\ Worker) /\ WF_vars(~overlap /\ App)
        /\ WF_vars(~overlap /\ Poll) /\ WF_vars(~overlap /\ Kernel)

-----------------------------------------------------------------------------
TypeOK ==
    /\ state \in {"Disconnected", "Connecting", "Connected", "Failed", "Gone"}
    /\ sock \in 0..NAddr /\ mResolved \in 0..NAddr /\ room \in 0..Room
    /\ {sendMutex, pollMutex} \subseteq Threads \cup {"none"}

Flat(s) == FoldLeft(LAMBDA x, m : x \o Message(m), <<>>, s)

\* The application waits for the poll mutex with the send mutex in its hand,
\* and the poll thread for the send mutex in a callback.
Inversion == /\ th.app.pc = "setpoll" /\ pollMutex = "poll"
             /\ th.poll.pc = "lock" /\ sendMutex = "app"

\* The bytes on the wire are those of the accepted messages, in order and each
\* once, with several senders, partial writes and flushes; except that
\* process(Out) uses the queue without mSendMutex, and was there together with
\* a sender (trySendQueue() asks for the mutex).
WireIntact == ~overlap => IsPrefix(wire, Flat(accepted))

\* The buffered amount is what the queue holds when no thread is inside.
BufferedExact ==
    ~overlap /\ th.app.pc = "idle" /\ th.poll.pc \in {"prepare", "poll"} =>
        mBufferedAmount = FoldLeft(LAMBDA n, x : n + Len(x), 0, mSendQueue)

\* A queued message is written, for the poll thread is told to wait for
\* writability: unless the connection ends, the callback which queued it
\* registers the socket for reading alone (after connecting, and when idle), or
\* the two mutexes are taken in opposite orders.
QueueFlushed ==
    (mSendQueue # <<>> /\ state = "Connected") ~>
        (mSendQueue = <<>> \/ state # "Connected" \/ early \/ Inversion \/ overlap)

\* Connecting ends, whatever the addresses do and whenever tries time out, and
\* fails only when every address that was resolved has been tried.
ConnectSettles == (state = "Connecting") ~> (state \in {"Connected", "Gone"} \/ (state = "Failed" /\ mResolved = 0))

\* After the destructor the only sockets left open are those of failed tries.
Leaked == {f \in 1..Len(sockets) : sockets[f] # "closed"}
OnlyFailedLeak == state = "Gone" => entry = None /\ \A f \in Leaked : f < tried

\* Senders, the poll thread and connection attempts share a socket and a queue:
\* the stream has the messages whole and in order, the amount is that of the queue,
\* and only a failed attempt leaves an entry behind.
TcpInv == WireIntact /\ BufferedExact /\ OnlyFailedLeak
=============================================================================
