----------------------------- MODULE GlobalInit -----------------------------
(***************************************************************************)
(* The global resources of the library: the singleton Init of              *)
(* src/src/impl/init.cpp.                                                  *)
(*                                                                         *)
(* Every PeerConnection, Transport, Certificate and WebSocket holds a      *)
(* token, a shared pointer to a TokenPayload.  The constructor of a        *)
(* payload loads the resources (doInit); its destructor, run when the last *)
(* reference is dropped, starts a detached thread that unloads them        *)
(* (doCleanup) and then fulfils the promise behind the future cleanup()    *)
(* returned.  Everything else runs under Init::mMutex, so one action is    *)
(* one critical section; the detached threads run whenever they run.       *)
(*                                                                         *)
(* A payload is recycled once nobody can tell it apart from a new one, so  *)
(* |Payloads| bounds only how many of them exist at the same time.         *)
(***************************************************************************)
CONSTANTS
    Objects,        \* what holds a token: peer connections, transports, ...
    Payloads,       \* the TokenPayloads that may exist at the same time
    Settings,       \* values of SctpSettings
    DefaultSettings,
    NoPayload       \* a null pointer; a ready future

ASSUME NoPayloadAssumption == NoPayload \notin Payloads
ASSUME SettingsAssumption == DefaultSettings \in Settings

VARIABLES
    mGlobal,              \* Init::mGlobal
    mWeak,                \* Init::mWeak
    mInitialized,         \* Init::mInitialized: the resources are loaded
    mCleanupFuture,       \* Init::mCleanupFuture: the payload whose promise it is
    mCurrentSctpSettings, \* Init::mCurrentSctpSettings
    sctpSettings,         \* what SctpTransport::SetSettings was last given
    token,                \* token[o]: the payload object o keeps alive
    phase,                \* phase[p]: where payload p is in its life
    awaited,              \* the future the caller of cleanup() is blocked on
    gaveUp                \* history: a caller of cleanup() did not wait long enough

vars == <<mGlobal, mWeak, mInitialized, mCleanupFuture, mCurrentSctpSettings,
          sctpSettings, token, phase, awaited, gaveUp>>

Pointer == Payloads \union {NoPayload}

(* "unused": never constructed or forgotten; "alive": referenced; "dying":   *)
(* destroyed, its cleanup thread has not run; "ready": its promise is set.   *)
Phases == {"unused", "alive", "dying", "ready"}

TypeOK ==
    /\ mGlobal \in Pointer
    /\ mWeak \in Pointer
    /\ mInitialized \in BOOLEAN
    /\ mCleanupFuture \in Pointer
    /\ mCurrentSctpSettings \in Settings
    /\ sctpSettings \in Settings
    /\ token \in [Objects -> Pointer]
    /\ phase \in [Payloads -> Phases]
    /\ awaited \in Pointer
    /\ gaveUp \in BOOLEAN

Init ==
    /\ mGlobal = NoPayload
    /\ mWeak = NoPayload
    /\ mInitialized = FALSE
    /\ mCleanupFuture = NoPayload
    /\ mCurrentSctpSettings = DefaultSettings
    /\ sctpSettings = DefaultSettings
    /\ token = [o \in Objects |-> NoPayload]
    /\ phase = [p \in Payloads |-> "unused"]
    /\ awaited = NoPayload
    /\ gaveUp = FALSE

-----------------------------------------------------------------------------

(* The weak pointer can be locked: somebody still refers to the payload.     *)
Locks(p) == p \in Payloads /\ phase[p] = "alive"

Free(p) == p \in Payloads /\ phase[p] \in {"unused", "ready"} /\ p # awaited

(* Init::doInit, called by the constructor of a payload: loads the resources *)
(* and applies the stored settings, unless they are loaded already.          *)
doInit ==
    /\ mInitialized' = TRUE
    /\ sctpSettings' = IF mInitialized THEN sctpSettings ELSE mCurrentSctpSettings

(* std::make_shared<TokenPayload>(&mCleanupFuture), kept in mGlobal.         *)
NewPayload(p) ==
    /\ Free(p)
    /\ doInit
    /\ mGlobal' = p
    /\ mWeak' = p
    /\ mCleanupFuture' = p

(* The phases after reference r to a payload is dropped, others remaining:   *)
(* ~TokenPayload runs exactly when there are none.                           *)
Unref(r, othersRefer) ==
    IF r = NoPayload \/ othersRefer THEN phase
                                    ELSE [phase EXCEPT ![r] = "dying"]

(* Init::token, called when an object is constructed.                        *)
Token(o) ==
    /\ token[o] = NoPayload
    /\ \/ /\ Locks(mWeak)
          /\ token' = [token EXCEPT ![o] = mWeak]
          /\ UNCHANGED <<mGlobal, mWeak, mInitialized, mCleanupFuture,
                         sctpSettings, phase>>
       \/ /\ ~Locks(mWeak)
          /\ \E p \in Payloads :
                /\ NewPayload(p)
                /\ token' = [token EXCEPT ![o] = p]
                /\ phase' = [Unref(mGlobal, \E x \in Objects : token[x] = mGlobal)
                                EXCEPT ![p] = "alive"]
    /\ UNCHANGED <<mCurrentSctpSettings, awaited, gaveUp>>

(* An object is destroyed and drops its token.                               *)
Release(o) ==
    /\ token[o] # NoPayload
    /\ token' = [token EXCEPT ![o] = NoPayload]
    /\ phase' = Unref(token[o], \/ mGlobal = token[o]
                                \/ \E x \in Objects \ {o} : token[x] = token[o])
    /\ UNCHANGED <<mGlobal, mWeak, mInitialized, mCleanupFuture,
                   mCurrentSctpSettings, sctpSettings, awaited, gaveUp>>

(* Init::preload.  The application's thread is not blocked in cleanup().     *)
Preload ==
    /\ awaited = NoPayload
    /\ \/ /\ mGlobal # NoPayload
          /\ UNCHANGED <<mGlobal, mWeak, mInitialized, mCleanupFuture,
                         sctpSettings, phase>>
       \/ /\ mGlobal = NoPayload
          /\ \E p \in Payloads :
                /\ NewPayload(p)
                /\ phase' = [phase EXCEPT ![p] = "alive"]
    /\ UNCHANGED <<token, mCurrentSctpSettings, awaited, gaveUp>>

(* Init::cleanup: drops the global reference and returns the future, which   *)
(* the application then waits on.                                            *)
Cleanup ==
    /\ awaited = NoPayload
    /\ mGlobal' = NoPayload
    /\ phase' = Unref(mGlobal, \E x \in Objects : token[x] = mGlobal)
    /\ awaited' = mCleanupFuture
    /\ UNCHANGED <<mWeak, mInitialized, mCleanupFuture, mCurrentSctpSettings,
                   sctpSettings, token, gaveUp>>

(* The future became ready: the caller of cleanup() goes on.                 *)
CleanupReturns ==
    /\ awaited # NoPayload
    /\ phase[awaited] = "ready"
    /\ awaited' = NoPayload
    /\ UNCHANGED <<mGlobal, mWeak, mInitialized, mCleanupFuture,
                   mCurrentSctpSettings, sctpSettings, token, phase, gaveUp>>

(* wait_for(10s) times out, or the caller does not wait for the future.      *)
CleanupGivesUp ==
    /\ awaited # NoPayload
    /\ phase[awaited] # "ready"
    /\ awaited' = NoPayload
    /\ gaveUp' = TRUE
    /\ UNCHANGED <<mGlobal, mWeak, mInitialized, mCleanupFuture,
                   mCurrentSctpSettings, sctpSettings, token, phase>>

(* Init::setSctpSettings.                                                    *)
SetSctpSettings(s) ==
    /\ awaited = NoPayload
    /\ sctpSettings' = IF mGlobal # NoPayload THEN s ELSE sctpSettings
    /\ mCurrentSctpSettings' = s
    /\ UNCHANGED <<mGlobal, mWeak, mInitialized, mCleanupFuture, token, phase, awaited, gaveUp>>

Mut_CleanupThreadNoCheck(p) ==
    /\ phase[p] = "dying"
    /\ mInitialized' = FALSE
    /\ phase' = [phase EXCEPT ![p] = "ready"]
    /\ UNCHANGED <<mGlobal, mWeak, mCleanupFuture, mCurrentSctpSettings,
                   sctpSettings, token, awaited, gaveUp>>

Mut_CleanupThreadNoPromise(p) ==
    /\ phase[p] = "dying"
    /\ mInitialized' = (mInitialized /\ mGlobal # NoPayload)
    /\ phase' = [phase EXCEPT ![p] = IF mInitialized /\ mGlobal = NoPayload
                                     THEN "ready" ELSE "unused"]
    /\ UNCHANGED <<mGlobal, mWeak, mCleanupFuture, mCurrentSctpSettings,
                   sctpSettings, token, awaited, gaveUp>>

(* The detached thread of ~TokenPayload: Init::doCleanup, which joins and    *)
(* clears the thread pool and unloads the transports, then set_value.        *)
CleanupThread(p) ==
    /\ phase[p] = "dying"
    /\ mInitialized' = (mInitialized /\ mGlobal # NoPayload)
    /\ phase' = [phase EXCEPT ![p] = "ready"]
    /\ UNCHANGED <<mGlobal, mWeak, mCleanupFuture, mCurrentSctpSettings,
                   sctpSettings, token, awaited, gaveUp>>

Next ==
    \/ \E o \in Objects : Token(o) \/ Release(o)
    \/ Preload
    \/ Cleanup
    \/ CleanupReturns
    \/ CleanupGivesUp
    \/ \E s \in Settings : SetSctpSettings(s)
    \/ \E p \in Payloads : CleanupThread(p)

(* A detached thread that was started runs, and a blocked caller is woken.   *)
Fairness ==
    /\ \A p \in Payloads : WF_vars(CleanupThread(p))
    /\ WF_vars(CleanupReturns)

Spec == Init /\ [][Next]_vars /\ Fairness

-----------------------------------------------------------------------------

(* The application's reference is never left behind an unload: while mGlobal *)
(* is set, the resources are loaded, mWeak names the same payload and        *)
(* cleanup() returns the future of that payload, although cleanup threads of *)
(* earlier payloads may run late.                                            *)
GlobalLoaded ==
    mGlobal # NoPayload =>
        mInitialized /\ phase[mGlobal] = "alive" /\ mWeak = mGlobal /\ mCleanupFuture = mGlobal

(* A token is never left dangling: its payload is alive.                     *)
TokensAlive ==
    \A o \in Objects : token[o] # NoPayload => phase[token[o]] = "alive"

(* The resources are not leaked: while they are loaded, some payload is      *)
(* still referenced or has a cleanup thread left to run.                     *)
NoLeak ==
    mInitialized => \E p \in Payloads : phase[p] \in {"alive", "dying"}

(* The part of the inductive invariant that does not depend on the caller of *)
(* cleanup() waiting for its future.                                         *)
BaseInv == TypeOK /\ GlobalLoaded /\ TokensAlive /\ NoLeak

(* The part that does: a payload that lost the global reference is the one   *)
(* the application waits for, so there is never a second one to unload.      *)
WaitInv ==
    /\ \A p \in Payloads : phase[p] = "alive" =>
          mInitialized /\ mWeak = p /\ mCleanupFuture = p /\ (mGlobal = p \/ awaited = p)
    /\ \A p \in Payloads : phase[p] = "dying" => awaited = p
    /\ mInitialized => sctpSettings = mCurrentSctpSettings

(* What makes the life cycle of the resources correct, in inductive form:    *)
(* tokens and the global reference name live payloads and, as long as every  *)
(* caller of cleanup() waited, every reference, weak reference, future and   *)
(* cleanup thread agrees on one payload, and that payload is loaded.         *)
LifecycleInv == BaseInv /\ (gaveUp \/ WaitInv)

(* The resources are loaded if any object holds a token.                     *)
LoadedWhileUsed ==
    \A o \in Objects : token[o] # NoPayload => mInitialized

(* doCleanup never joins the pool or unloads SCTP, DTLS or ICE under a live  *)
(* connection, whatever order the cleanup threads, the constructors and the  *)
(* destructors run in, if the application waits for every cleanup.           *)
LoadedIfAwaited == ~gaveUp => LoadedWhileUsed

(* SctpTransport works with the settings set last, from the moment the       *)
(* application has the resources loaded again, if it waits for every         *)
(* cleanup.                                                                  *)
SettingsApplied ==
    ~gaveUp /\ mGlobal # NoPayload => sctpSettings = mCurrentSctpSettings

(* An application that waits for every cleanup has the resources unloaded    *)
(* only when nobody uses them and while it waits.                            *)
UnloadedOnRequest ==
    [][~gaveUp /\ mInitialized /\ ~mInitialized' =>
         awaited # NoPayload /\ \A o \in Objects : token[o] = NoPayload]_vars

(* If the objects are all destroyed in the end and none is created again, a  *)
(* caller blocked in cleanup() returns.                                      *)
CleanupTerminates ==
    []<>(\E o \in Objects : token[o] # NoPayload) \/ []<>(awaited = NoPayload)

\* The life cycle of the resources: tokens and references agree, and for an
\* application that waits for every cleanup no object is left without resources and
\* SctpTransport has the settings set last.
ResourcesInv == LifecycleInv /\ LoadedIfAwaited /\ SettingsApplied
=============================================================================
