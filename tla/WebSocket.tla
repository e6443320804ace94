----------------------------- MODULE WebSocket -----------------------------
(***************************************************************************)
(* The life cycle of WebSocket: open(), close(), forceClose(), the chain of *)
(* transports (TCP, then a proxy, then TLS, then WebSocket) that is built   *)
(* from the state callback of the one below, the connection timeout, and    *)
(* closeTransports() with its teardown job.  Threads: the application, the  *)
(* timer, the poll thread (callbacks of TCP and of what runs on top of it   *)
(* without TLS) and the thread pool (TLS and above).  A thread is the list  *)
(* of instructions <<operation, transport, generation>> it still has to     *)
(* execute; the generation is the number of the open() a transport is from. *)
(***************************************************************************)
EXTENDS Integers, Sequences, FiniteSets

CONSTANTS MaxOpens,  \* the largest number of calls of open()
          MaxCloses, \* calls of close() and forceClose()
          Configs    \* with or without proxy and TLS, connecting or accepted, and the calls of open()

ASSUME BoundsAreNatural == MaxOpens \in Nat \ {0} /\ MaxCloses \in Nat
ASSUME ConfigsAreValid ==
    Configs \subseteq {c \in [proxy : BOOLEAN, secure : BOOLEAN, passive : BOOLEAN, opens : 1..MaxOpens] :
                         ~(c.proxy /\ c.passive)}

VARIABLES
    config,     \* the proxy, TLS, and whether the socket was accepted
    wstate,     \* state
    gen,        \* calls of open() so far
    ptr,        \* mTcpTransport, mProxyTransport, mTlsTransport, mWsTransport
    ts,         \* the states of the transports
    cb,         \* whether the state callback is set
    stacks,     \* the threads
    timers,     \* connection timeouts that are scheduled
    torn,       \* teardown jobs
    closeSent,  \* mCloseSent of the WebSocket transports
    closed,     \* calls of onClosed
    closes,     \* calls of close() and forceClose() so far
    revived,    \* ghost: Open or Closing was stored over Closed
    early       \* ghost: close() found the WebSocket handshake not done

vars == <<config, wstate, gen, ptr, ts, cb, stacks, timers, torn, closeSent, closed, closes, revived, early>>

Kinds == {"tcp", "proxy", "tls", "ws"}
Gens == 1..MaxOpens
ThreadNames == {"app", "timer", "poll", "pool"}

\* The transport above k, and the one below.
Above(k) == CASE k = "tcp" -> IF config.proxy THEN "proxy" ELSE IF config.secure THEN "tls" ELSE "ws"
              [] k = "proxy" -> IF config.secure THEN "tls" ELSE "ws"
              [] k = "tls" -> "ws"
Below(k) == CASE k = "ws" -> IF config.secure THEN "tls" ELSE IF config.proxy THEN "proxy" ELSE "tcp"
              [] k = "tls" -> IF config.proxy THEN "proxy" ELSE "tcp"
              [] k = "proxy" -> "tcp"
ThreadOf(k) == IF k = "tls" \/ (k = "ws" /\ config.secure) THEN "pool" ELSE "poll"

Init ==
    /\ config \in Configs /\ wstate = "Closed" /\ gen = 0
    /\ ptr = [k \in Kinds |-> 0] /\ ts = [k \in Kinds |-> [g \in Gens |-> "none"]]
    /\ cb = [k \in Kinds |-> [g \in Gens |-> FALSE]]
    /\ stacks = [t \in ThreadNames |-> <<>>] /\ timers = {} /\ torn = {} /\ closeSent = {}
    /\ closed = 0 /\ closes = 0 /\ revived = FALSE /\ early = FALSE

Idle == \A t \in ThreadNames : stacks[t] = <<>>
I(op, k, g) == <<op, k, g>>
Top(t) == stacks[t][1]
At(t, op) == stacks[t] # <<>> /\ Top(t)[1] = op
\* The instruction of t is done and program is executed in its place.
\* "end" is the end of a state callback: it takes no step of its own.
Do(t, program) ==
    LET rest == program \o Tail(stacks[t])
    IN  stacks' = [stacks EXCEPT ![t] = IF rest # <<>> /\ rest[1][1] = "end" THEN Tail(rest) ELSE rest]
\* The callback of transport k runs in t, with the mutex of the callback held.
Holds(t, k, g) == \E i \in DOMAIN stacks[t] : stacks[t][i] = I("end", k, g)
RemoteClose == <<I("close", "-", 0), I("shut", "-", 0)>>

-----------------------------------------------------------------------------
(* Calls of the application *)

\* open(), and the server's setTcpTransport() for an accepted socket.  A socket is
\* opened again once its onClosed and every other call have returned.
Open ==
    /\ Idle /\ torn = {} /\ wstate = "Closed" /\ gen < config.opens
    /\ gen' = gen + 1 /\ wstate' = "Connecting" /\ closeSent' = {} /\ early' = FALSE
    /\ stacks' = [stacks EXCEPT !.app = <<I("setTcp", "tcp", gen + 1)>>]
    /\ UNCHANGED <<config, ptr, ts, cb, timers, torn, closed, closes, revived>>

\* close(), and forceClose() or the destructor.
AppClose ==
    /\ stacks.app = <<>> /\ gen > 0 /\ wstate # "Closed" /\ closes < MaxCloses /\ closes' = closes + 1
    /\ \E program \in {<<I("close", "-", 0)>>, RemoteClose} : stacks' = [stacks EXCEPT !.app = program]
    /\ UNCHANGED <<config, wstate, gen, ptr, ts, cb, timers, torn, closeSent, closed, revived, early>>

-----------------------------------------------------------------------------
(* Instructions *)

\* The first half of close(): a state in which there is something to close.
CloseTest(t) ==
    /\ At(t, "close")
    /\ Do(t, IF wstate \in {"Connecting", "Open"} THEN <<I("closing", "-", 0)>> ELSE <<>>)
    /\ UNCHANGED <<config, wstate, gen, ptr, ts, cb, timers, torn, closeSent, closed, closes, revived, early>>

CloseChange(t) ==
    /\ At(t, "closing") /\ wstate' = "Closing" /\ Do(t, <<I("stop", "-", 0)>>)
    /\ revived' = (revived \/ wstate = "Closed")
    /\ UNCHANGED <<config, gen, ptr, ts, cb, timers, torn, closeSent, closed, closes, early>>

\* The second half of close(): the WebSocket transport is stopped, which sends a
\* CLOSE frame when it is connected; without one the transports are closed.
CloseStop(t) ==
    /\ At(t, "stop")
    /\ LET g == ptr.ws IN
       /\ Do(t, IF g = 0 THEN RemoteClose ELSE <<>>)
       /\ closeSent' = IF g # 0 /\ ts.ws[g] = "Connected" THEN closeSent \cup {g} ELSE closeSent
       /\ early' = (early \/ (g # 0 /\ ts.ws[g] = "Connecting"))
    /\ UNCHANGED <<config, wstate, gen, ptr, ts, cb, timers, torn, closed, closes, revived>>

\* The rest of remoteClose(), and closeTransports(): one caller gets to Closed first.
Shut(t) ==
    /\ At(t, "shut") /\ wstate' = "Closed"
    /\ Do(t, IF wstate = "Closed" THEN <<>> ELSE <<I("detach", "-", 0)>>)
    /\ UNCHANGED <<config, gen, ptr, ts, cb, timers, torn, closeSent, closed, closes, revived, early>>

\* The pointers are taken, except for the one of the proxy.
Detach(t) ==
    /\ At(t, "detach")
    /\ ptr' = [ptr EXCEPT !.ws = 0, !.tls = 0, !.tcp = 0]
    /\ Do(t, <<I("reset", ptr, 0)>>)
    /\ UNCHANGED <<config, wstate, gen, ts, cb, timers, torn, closeSent, closed, closes, revived, early>>

\* onStateChange(nullptr), for each, waits for a callback that runs in another
\* thread; then the teardown job is enqueued and the application told.
Reset(t) ==
    /\ At(t, "reset")
    /\ LET taken == Top(t)[2] IN
       /\ ~\E u \in ThreadNames \ {t}, k \in {"ws", "tls", "tcp"} : Holds(u, k, taken[k])
       /\ cb' = [k \in Kinds |-> [g \in Gens |-> cb[k][g] /\ ~(k # "proxy" /\ taken[k] = g)]]
       /\ torn' = torn \cup ({taken.tcp} \ {0})
    /\ closed' = closed + 1 /\ Do(t, <<>>)
    /\ UNCHANGED <<config, wstate, gen, ptr, ts, timers, closeSent, closes, revived, early>>

\* setTcpTransport() up to emplaceTransport().
SetTcp(t) ==
    /\ At(t, "setTcp")
    /\ LET g == Top(t)[3] IN
       IF ptr.tcp # 0 THEN Do(t, RemoteClose) /\ UNCHANGED <<cb, timers>>
       ELSE /\ cb' = [cb EXCEPT !.tcp[g] = TRUE] /\ timers' = timers \cup {g}
            /\ Do(t, <<I("start", "tcp", g)>>)
    /\ UNCHANGED <<config, wstate, gen, ptr, ts, torn, closeSent, closed, closes, revived, early>>

\* initProxyTransport(), initTlsTransport(), initWsTransport(): nothing if the
\* transport is there already, an error if the one below is not.
InitTransport(t) ==
    /\ At(t, "init")
    /\ LET k == Top(t)[2]  g == ptr[Below(k)] IN
       IF ptr[k] # 0 THEN Do(t, <<>>) /\ UNCHANGED cb
       ELSE IF g = 0 \/ ts[k][IF g = 0 THEN 1 ELSE g] # "none" THEN Do(t, RemoteClose) /\ UNCHANGED cb
       ELSE /\ cb' = [cb EXCEPT ![k][g] = TRUE] /\ Do(t, <<I("start", k, g)>>)
    /\ UNCHANGED <<config, wstate, gen, ptr, ts, timers, torn, closeSent, closed, closes, revived, early>>

\* What the state callback of k does for a new state.
CallbackOf(k, s, g) ==
    CASE s = "Connected" /\ k # "ws" -> <<I("init", Above(k), g)>>
      [] s = "Connected" /\ k = "ws" -> <<I("onOpen", "-", 0)>>
      [] s = "Failed" -> RemoteClose
      [] s = "Disconnected" /\ k = "ws" -> RemoteClose
      [] s = "Disconnected" /\ k # "ws" -> <<I("ifConnecting", "-", 0)>>

\* emplaceTransport(): the pointer is stored and the transport started.  What it
\* sends at once needs the transport below; otherwise it is dropped again.  An
\* accepted TCP transport is connected, and calls back, in start().
StartTransport(t) ==
    /\ At(t, "start")
    /\ LET k == Top(t)[2]  g == Top(t)[3]
           fails == k # "tcp" /\ ts[Below(k)][g] # "Connected"
           up == k = "tcp" /\ config.passive
       IN  /\ ptr' = [ptr EXCEPT ![k] = IF fails THEN 0 ELSE g]
           /\ ts' = [ts EXCEPT ![k][g] = IF fails THEN "gone" ELSE IF up THEN "Connected" ELSE "Connecting"]
           /\ Do(t, IF fails THEN RemoteClose
                    ELSE (IF up THEN CallbackOf("tcp", "Connected", g) \o <<I("end", "tcp", g)>> ELSE <<>>)
                         \o <<I("check", k, g)>>)
    /\ UNCHANGED <<config, wstate, gen, cb, timers, torn, closeSent, closed, closes, revived, early>>

Mut_NoCheck(t) ==
    /\ At(t, "check") /\ Do(t, <<>>)
    /\ UNCHANGED <<config, wstate, gen, ptr, ts, cb, timers, torn, closeSent, closed, closes, revived, early>>

\* The end of emplaceTransport(): closed meanwhile.
EmplaceCheck(t) ==
    /\ At(t, "check") /\ Do(t, <<>>)
    /\ LET k == Top(t)[2]  g == Top(t)[3] IN
       IF wstate = "Closed" THEN /\ ptr' = [ptr EXCEPT ![k] = 0]
                                 /\ ts' = [ts EXCEPT ![k][g] = "gone"]
       ELSE UNCHANGED <<ptr, ts>>
    /\ UNCHANGED <<config, wstate, gen, cb, timers, torn, closeSent, closed, closes, revived, early>>

\* Connected, of the WebSocket transport: the state is tested, then changed.
OnOpenTest(t) ==
    /\ At(t, "onOpen") /\ Do(t, IF wstate = "Connecting" THEN <<I("open", "-", 0)>> ELSE <<>>)
    /\ UNCHANGED <<config, wstate, gen, ptr, ts, cb, timers, torn, closeSent, closed, closes, revived, early>>

OnOpen(t) ==
    /\ At(t, "open") /\ Do(t, <<>>) /\ wstate' = "Open"
    /\ revived' = (revived \/ wstate = "Closed")
    /\ UNCHANGED <<config, gen, ptr, ts, cb, timers, torn, closeSent, closed, closes, early>>

IfConnecting(t) ==
    /\ At(t, "ifConnecting") /\ Do(t, IF wstate = "Connecting" THEN RemoteClose ELSE <<>>)
    /\ UNCHANGED <<config, wstate, gen, ptr, ts, cb, timers, torn, closeSent, closed, closes, revived, early>>

Step(t) ==
    \/ CloseTest(t) \/ CloseChange(t) \/ CloseStop(t) \/ Shut(t) \/ Detach(t) \/ Reset(t)
    \/ SetTcp(t) \/ InitTransport(t) \/ StartTransport(t) \/ EmplaceCheck(t)
    \/ OnOpenTest(t) \/ OnOpen(t) \/ IfConnecting(t)

-----------------------------------------------------------------------------
(* The network and the timers *)

\* The transport k of generation g changes its state, on its thread, and runs the
\* state callback with its mutex held.  (Without a callback nobody looks.)
Change(k, g, s) ==
    LET t == ThreadOf(k) IN
    /\ stacks[t] = <<>> /\ cb[k][g] /\ ts' = [ts EXCEPT ![k][g] = s]
    /\ stacks' = [stacks EXCEPT ![t] = CallbackOf(k, s, g) \o <<I("end", k, g)>>]
    /\ UNCHANGED <<config, wstate, gen, ptr, cb, timers, torn, closeSent, closed, closes, revived, early>>

Up(k, g) ==
    /\ ts[k][g] = "Connecting" /\ ~(k # "tcp" /\ ts[Below(k)][g] # "Connected")
    /\ Change(k, g, "Connected")
Down(k, g) ==
    \/ ts[k][g] = "Connecting" /\ Change(k, g, "Failed")
    \/ ts[k][g] = "Connected" /\ Change(k, g, "Disconnected")

\* The WebSocket transport ends when the CLOSE frame was not answered in time, and
\* when the transport below has ended.
WsEnds(g) ==
    /\ ts.ws[g] = "Connected" /\ (g \in closeSent \/ ts[Below("ws")][g] # "Connected")
    /\ Change("ws", g, "Disconnected")

\* The connection timeout does not know which open() scheduled it.
Timer(g) ==
    /\ g \in timers /\ stacks.timer = <<>> /\ timers' = timers \ {g}
    /\ stacks' = [stacks EXCEPT !.timer = IF wstate = "Connecting" THEN RemoteClose ELSE <<>>]
    /\ UNCHANGED <<config, wstate, gen, ptr, ts, cb, torn, closeSent, closed, closes, revived, early>>

\* The teardown job drops the transports; a TCP transport that mProxyTransport
\* still holds stays.
TearDownJob(g) ==
    /\ g \in torn /\ torn' = torn \ {g}
    /\ ts' = [ts EXCEPT !.ws[g] = "gone", !.tls[g] = "gone",
                        !.tcp[g] = IF ptr.proxy = g THEN @ ELSE "gone"]
    /\ UNCHANGED <<config, wstate, gen, ptr, cb, stacks, timers, closeSent, closed, closes, revived, early>>

Network == \E k \in Kinds, g \in Gens : Up(k, g) \/ Down(k, g)
Closer == \E g \in Gens : WsEnds(g)
Expiry == \E g \in Gens : Timer(g)
Dropping == \E g \in Gens : TearDownJob(g)
\* Nothing is left to do; what follows a state stored over Closed is not explored.
Rest ==
    /\ UNCHANGED vars
    /\ IF revived THEN TRUE ELSE Idle /\ timers = {} /\ torn = {} /\ gen = config.opens /\ wstate # "Connecting"
Run(t) == ~revived /\ Step(t)

Next ==
    \/ (\E t \in ThreadNames : Run(t))
    \/ ~revived /\ (Open \/ AppClose \/ Network \/ Closer \/ Expiry \/ Dropping)
    \/ Rest

\* Threads run and timers expire; neither the application nor the network has to
\* do anything.
TimerThread == Run("timer") \/ (~revived /\ Expiry)
Spec == /\ Init /\ [][Next]_vars
        /\ WF_vars(Run("app")) /\ WF_vars(TimerThread) /\ WF_vars(Run("poll")) /\ WF_vars(Run("pool"))
        /\ WF_vars(~revived /\ Closer)

-----------------------------------------------------------------------------
(* Properties *)

TypeOK ==
    /\ config \in Configs /\ wstate \in {"Connecting", "Open", "Closing", "Closed"} /\ gen \in 0..MaxOpens
    /\ ptr \in [Kinds -> 0..MaxOpens] /\ timers \subseteq Gens /\ torn \subseteq Gens /\ closeSent \subseteq Gens
    /\ ts \in [Kinds -> [Gens -> {"none", "Connecting", "Connected", "Disconnected", "Failed", "gone"}]]
    /\ cb \in [Kinds -> [Gens -> BOOLEAN]] /\ closed \in Nat /\ closes \in 0..MaxCloses /\ revived \in BOOLEAN /\ early \in BOOLEAN

\* A closed WebSocket with no call in progress holds no TCP, TLS or WebSocket
\* transport, whatever thread was starting one when it was closed.
ClosedHasNothing ==
    Idle /\ wstate = "Closed" => ptr.tcp = 0 /\ ptr.tls = 0 /\ ptr.ws = 0

\* An open WebSocket has a WebSocket transport to send with (outgoing() tests the
\* state and uses the pointer), unless its Open was stored over Closed.
OpenHasTransport == Idle /\ wstate = "Open" /\ ~revived => ptr.ws # 0

\* Every open() ends with exactly one onClosed, whichever of the application, the
\* timeout and the callbacks of the transports close it, and in whatever order.
ClosedOnce == Idle /\ ~revived => closed = IF wstate = "Closed" THEN gen ELSE gen - 1

\* The socket of a closed WebSocket is closed in the end, unless the proxy
\* transport that closeTransports() leaves in place keeps it.
NoLeak ==
    Idle /\ wstate = "Closed" /\ torn = {} =>
        \A g \in Gens : ts.tcp[g] \in {"none", "gone"} \/ ptr.proxy = g

\* A connection attempt ends: the timeout sees to it.
ConnectingEnds == wstate = "Connecting" ~> wstate # "Connecting"

\* Closing ends, by the timeout of the CLOSE frame, unless the WebSocket
\* handshake was not done (then close() sends nothing and waits for the peer) or
\* Closing was stored by a close() that lost the race with closeTransports().
ClosingEnds ==
    wstate = "Closing" ~> (wstate # "Closing" \/ revived \/ early)
=============================================================================
