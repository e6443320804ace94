------------------------------ MODULE SctpGate ------------------------------
(***************************************************************************)
(* The wait at the beginning of SctpTransport::incoming()                  *)
(* (src/src/impl/sctptransport.cpp): nothing goes up to usrsctp before the *)
(* first packet of our own, the INIT, went down.                           *)
(*                                                                         *)
(* Threads: the lower transport's, which calls incoming() holding the      *)
(* mutex of the lower transport's mRecvCallback; those of usrsctp, which   *)
(* call handleWrite(); and the tear-down thread, which calls close() and   *)
(* then destroys the transport (PeerConnection::closeTransports).          *)
(***************************************************************************)
EXTENDS Naturals

CONSTANT MaxPackets     \* bounds the packets from the lower transport

VARIABLES
    state,          \* Transport::mState
    mWrittenOnce,
    wrote,          \* a packet of our own really went down
    lower,          \* where the lower transport's thread is
    owner,          \* where the tear-down thread is
    registered,     \* incoming() is the lower transport's callback
    inputs,         \* packets passed to usrsctp_conninput before our own
    packets,        \* packets so far
    missed          \* the destructor notified between the test and the sleep

vars == <<state, mWrittenOnce, wrote, lower, owner, registered, inputs, packets, missed>>

TypeOK ==
    /\ state \in {"Connecting", "Disconnected", "Failed"}
    /\ mWrittenOnce \in BOOLEAN
    /\ wrote \in BOOLEAN
    /\ lower \in {"idle", "called", "locked", "blocked", "passed"}
    /\ owner \in {"idle", "close", "closeNotify", "destroy", "notify", "unregister", "done"}
    /\ registered \in BOOLEAN
    /\ inputs \in Nat
    /\ packets \in 0 .. MaxPackets
    /\ missed \in BOOLEAN

(* In start(), after registerIncoming() and before the INIT is written.      *)
Init ==
    /\ state = "Connecting"
    /\ mWrittenOnce = FALSE
    /\ wrote = FALSE
    /\ lower = "idle"
    /\ owner = "idle"
    /\ registered = TRUE
    /\ inputs = 0
    /\ packets = 0
    /\ missed = FALSE

-----------------------------------------------------------------------------

(* Transport::recv() of the lower transport calls incoming(), holding the    *)
(* callback's mutex until it returns.                                        *)
Incoming ==
    /\ lower = "idle"
    /\ registered
    /\ packets < MaxPackets
    /\ packets' = packets + 1
    /\ lower' = IF mWrittenOnce THEN "passed" ELSE "called"
    /\ UNCHANGED <<state, mWrittenOnce, wrote, owner, registered, inputs, missed>>

(* The wait: its predicate is tested under mWriteMutex, ...                  *)
Opened == mWrittenOnce \/ state = "Failed"

WaitTest ==
    /\ lower = "called"
    /\ lower' = IF Opened THEN "passed" ELSE "locked"
    /\ UNCHANGED <<state, mWrittenOnce, wrote, owner, registered, inputs, packets, missed>>

(* ... and if it fails the thread goes to sleep and releases it.             *)
WaitSleep ==
    /\ lower = "locked"
    /\ lower' = "blocked"
    /\ UNCHANGED <<state, mWrittenOnce, wrote, owner, registered, inputs, packets, missed>>

SpuriousWakeup ==
    /\ lower = "blocked"
    /\ lower' = "called"
    /\ UNCHANGED <<state, mWrittenOnce, wrote, owner, registered, inputs, packets, missed>>

(* The rest of incoming(): of a packet, or of the end of the lower transport *)
(* (no message).                                                             *)
IncomingReturns(message) ==
    /\ lower = "passed"
    /\ lower' = "idle"
    /\ state' = IF state # "Failed" /\ ~message THEN "Disconnected" ELSE state
    /\ inputs' = IF state # "Failed" /\ message /\ ~wrote THEN inputs + 1 ELSE inputs
    /\ UNCHANGED <<mWrittenOnce, wrote, owner, registered, packets, missed>>

(* notify_all wakes the sleeper, which tests the predicate again.            *)
NotifyAll == lower' = IF lower = "blocked" THEN "called" ELSE lower

(* handleWrite(), under mWriteMutex, if the lower transport takes the packet.*)
HandleWrite ==
    /\ lower # "locked"
    /\ owner # "done"
    /\ wrote' = TRUE
    /\ mWrittenOnce' = TRUE
    /\ NotifyAll
    /\ UNCHANGED <<state, owner, registered, inputs, packets, missed>>

(* close() of a transport that still connects; it does not take mWriteMutex. *)
CloseBegin ==
    /\ owner = "idle"
    /\ owner' = IF state = "Connecting" THEN "close" ELSE "destroy"
    /\ UNCHANGED <<state, mWrittenOnce, wrote, lower, registered, inputs, packets, missed>>

CloseFails ==
    /\ owner = "close"
    /\ owner' = "closeNotify"
    /\ state' = "Failed"
    /\ UNCHANGED <<mWrittenOnce, wrote, lower, registered, inputs, packets, missed>>

CloseNotify ==
    /\ owner = "closeNotify"
    /\ owner' = "destroy"
    /\ NotifyAll
    /\ UNCHANGED <<state, mWrittenOnce, wrote, registered, inputs, packets, missed>>

(* The destructor: the flag, the notification, unregisterIncoming(), which   *)
(* waits for the mutex of the callback.                                      *)
DestroyFlag ==
    /\ owner = "destroy"
    /\ owner' = "notify"
    /\ mWrittenOnce' = TRUE
    /\ UNCHANGED <<state, wrote, lower, registered, inputs, packets, missed>>

Mut_DestroyNotify ==
    /\ owner = "notify"
    /\ owner' = "unregister"
    /\ UNCHANGED <<state, mWrittenOnce, wrote, lower, registered, inputs, packets, missed>>

(* notify_all without mWriteMutex: a thread that has tested the predicate and *)
(* does not sleep yet misses it.                                             *)
DestroyNotify ==
    /\ owner = "notify"
    /\ owner' = "unregister"
    /\ NotifyAll
    /\ missed' = (lower = "locked")
    /\ UNCHANGED <<state, mWrittenOnce, wrote, registered, inputs, packets>>

Unregister ==
    /\ owner = "unregister"
    /\ lower = "idle"
    /\ owner' = "done"
    /\ registered' = FALSE
    /\ UNCHANGED <<state, mWrittenOnce, wrote, lower, inputs, packets, missed>>

Lower == WaitTest \/ WaitSleep \/ \E message \in BOOLEAN : IncomingReturns(message)

TearDown == CloseBegin \/ CloseFails \/ CloseNotify \/ DestroyFlag \/ DestroyNotify \/ Unregister

Next == Incoming \/ Lower \/ SpuriousWakeup \/ HandleWrite \/ TearDown

(* The lower transport's thread runs on, and a tear-down once begun.  Our    *)
(* packets may never go down: the lower transport may refuse them.           *)
Fairness == WF_vars(Lower) /\ WF_vars(owner # "idle" /\ TearDown)

Spec == Init /\ [][Next]_vars /\ Fairness

-----------------------------------------------------------------------------

(* The remote INIT is not processed before ours was sent, unless the         *)
(* transport is being destroyed; and once the destructor has unregistered    *)
(* incoming() no thread is in it.                                            *)
GateInv ==
    /\ TypeOK
    /\ inputs > 0 => owner \in {"notify", "unregister", "done"}
    /\ owner = "done" => lower = "idle"

(* Writing our first packet releases the lower transport's thread: it is not *)
(* left in the wait, whatever else happens.                                  *)
WriteReleases == wrote ~> lower \notin {"locked", "blocked"}

(* The destructor ends: the thread from lower layers is not left blocked in  *)
(* incoming() when it unregisters it, unless it missed the notification.     *)
DestructorEnds == owner = "unregister" ~> owner = "done" \/ missed
=============================================================================
