------------------------------ MODULE ApiProofs ------------------------------
(***************************************************************************)
(* Proofs about the two modules behind the C interface, GlobalInit and     *)
(* CApi, for any number of threads, identifiers, messages, configurations, *)
(* objects and payloads.                                                   *)
(*                                                                         *)
(* GlobalInit: BaseInv holds whatever the application does; the rest holds *)
(* while it waits for the future of cleanup(): WaitInv is what that        *)
(* waiting buys.                                                           *)
(*                                                                         *)
(* CApi: ApiInv is not inductive.  ApiIInv adds what calls and callbacks   *)
(* in progress rely on between two critical sections (CBase), that an      *)
(* object being made is known to its maker alone (PendingInv), and for     *)
(* each part of ApiInv the reason it holds.  The first lemmas say what a   *)
(* step does to the call of its thread (Moves); then every invariant has a *)
(* lemma with one step per action.                                         *)
(***************************************************************************)
EXTENDS GlobalInit, CApi, FiniteSetTheorems, TLAPS


(* The initial state satisfies the inductive invariant.                      *)
LEMMA InitLifecycle == Init => LifecycleInv
BY NoPayloadAssumption, SettingsAssumption
   DEF Init, LifecycleInv, BaseInv, WaitInv, TypeOK, GlobalLoaded, TokensAlive, NoLeak,
       Pointer, Phases

(* Every critical section of Init and every cleanup thread preserve BaseInv, *)
(* in any order.                                                             *)
LEMMA NextBase == BaseInv /\ [Next]_vars => BaseInv'
<1> SUFFICES ASSUME BaseInv, [Next]_vars
             PROVE  BaseInv'
  OBVIOUS
<1> USE NoPayloadAssumption
     DEF BaseInv, TypeOK, GlobalLoaded, TokensAlive, NoLeak, Pointer, Phases
<1>1. ASSUME NEW o \in Objects, Token(o)
      PROVE  BaseInv'
  <2>1. CASE Locks(mWeak)
    BY <1>1, <2>1 DEF Token, Locks
  <2>2. CASE ~Locks(mWeak)
    <3>1. mGlobal = NoPayload
      BY <2>2 DEF Locks
    <3>2. PICK p \in Payloads :
            /\ NewPayload(p)
            /\ token' = [token EXCEPT ![o] = p]
            /\ phase' = [phase EXCEPT ![p] = "alive"]
      BY <1>1, <2>2, <3>1 DEF Token, Unref
    <3>3. UNCHANGED <<mCurrentSctpSettings, awaited, gaveUp>>
      BY <1>1 DEF Token
    <3> QED
      BY <1>1, <3>2, <3>3, SettingsAssumption DEF NewPayload, doInit, Free
  <2> QED
    BY <2>1, <2>2
<1>2. ASSUME NEW o \in Objects, Release(o)
      PROVE  BaseInv'
  BY <1>2 DEF Release, Unref
<1>3. CASE Preload
  <2>1. CASE mGlobal # NoPayload
    <3>1. UNCHANGED vars
      BY <1>3, <2>1 DEF Preload, vars
    <3> QED
      BY <3>1 DEF vars
  <2>2. CASE mGlobal = NoPayload
    BY <1>3, <2>2 DEF Preload, NewPayload, doInit, Free
  <2> QED
    BY <2>1, <2>2
<1>4. CASE Cleanup
  BY <1>4 DEF Cleanup, Unref
<1>5. CASE CleanupReturns
  BY <1>5 DEF CleanupReturns
<1>6. CASE CleanupGivesUp
  BY <1>6 DEF CleanupGivesUp
<1>7. ASSUME NEW s \in Settings, SetSctpSettings(s)
      PROVE  BaseInv'
  BY <1>7 DEF SetSctpSettings
<1>8. ASSUME NEW p \in Payloads, CleanupThread(p)
      PROVE  BaseInv'
  BY <1>8 DEF CleanupThread
<1>9. CASE UNCHANGED vars
  BY <1>9 DEF vars
<1> QED
  BY <1>1, <1>2, <1>3, <1>4, <1>5, <1>6, <1>7, <1>8, <1>9 DEF Next

(* Unless the caller of cleanup() gives up, every step preserves WaitInv: at *)
(* most one payload is alive, and the application waits for it as soon as it *)
(* dropped the global reference.                                             *)
LEMMA NextWait == BaseInv /\ WaitInv /\ [Next]_vars /\ ~gaveUp' => WaitInv'
<1> SUFFICES ASSUME BaseInv, WaitInv, [Next]_vars, ~gaveUp'
             PROVE  WaitInv'
  OBVIOUS

<1> USE NoPayloadAssumption
     DEF BaseInv, WaitInv, TypeOK, GlobalLoaded, TokensAlive, NoLeak, Pointer, Phases
<1>1. ASSUME NEW o \in Objects, Token(o)
      PROVE  WaitInv'
  <2>1. CASE Locks(mWeak)
    BY <1>1, <2>1 DEF Token, Locks
  <2>2. CASE ~Locks(mWeak)
    <3>1. mGlobal = NoPayload /\ \A q \in Payloads : phase[q] # "alive"
      BY <2>2 DEF Locks
    <3>2. PICK p \in Payloads :
            /\ NewPayload(p)
            /\ phase' = [phase EXCEPT ![p] = "alive"]
      BY <1>1, <2>2, <3>1 DEF Token, Unref
    <3>3. UNCHANGED <<mCurrentSctpSettings, awaited, gaveUp>>
      BY <1>1 DEF Token
    <3> QED
      BY <3>1, <3>2, <3>3 DEF NewPayload, doInit, Free
  <2> QED
    BY <2>1, <2>2
<1>2. ASSUME NEW o \in Objects, Release(o)
      PROVE  WaitInv'
  BY <1>2 DEF Release, Unref
<1>3. CASE Preload
  <2>1. CASE mGlobal # NoPayload
    BY <1>3, <2>1 DEF Preload
  <2>2. CASE mGlobal = NoPayload
    <3>1. \A q \in Payloads : phase[q] \notin {"alive", "dying"}
      BY <1>3, <2>2 DEF Preload
    <3> QED
      BY <1>3, <2>2, <3>1 DEF Preload, NewPayload, doInit, Free
  <2> QED
    BY <2>1, <2>2
<1>4. CASE Cleanup
  BY <1>4 DEF Cleanup, Unref
<1>5. CASE CleanupReturns
  BY <1>5 DEF CleanupReturns
<1>6. CASE CleanupGivesUp
  BY <1>6 DEF CleanupGivesUp
<1>7. ASSUME NEW s \in Settings, SetSctpSettings(s)
      PROVE  WaitInv'
  <2>1. mInitialized => mGlobal # NoPayload
    BY <1>7 DEF SetSctpSettings
  <2> QED
    BY <1>7, <2>1 DEF SetSctpSettings
<1>8. ASSUME NEW p \in Payloads, CleanupThread(p)
      PROVE  WaitInv'
  <2>1. \A q \in Payloads : phase[q] = "alive" => mGlobal = q
    BY <1>8 DEF CleanupThread
  <2> QED
    BY <1>8, <2>1 DEF CleanupThread
<1>9. CASE UNCHANGED vars
  BY <1>9 DEF vars
<1> QED
  BY <1>1, <1>2, <1>3, <1>4, <1>5, <1>6, <1>7, <1>8, <1>9 DEF Next

-----------------------------------------------------------------------------

(* Whatever the application does with the future of cleanup(), tokens name   *)
(* live payloads, the global reference keeps the resources loaded, and       *)
(* loaded resources always have somebody left to unload them.                *)
THEOREM BaseCorrect == Spec => []BaseInv
<1>1. Init => BaseInv
  BY InitLifecycle DEF LifecycleInv
<1>2. BaseInv /\ [Next]_vars => BaseInv'
  BY NextBase
<1> QED
  BY <1>1, <1>2, PTL DEF Spec

(* Once a caller of cleanup() gave up, that stays so.                        *)
LEMMA GaveUpStays == [Next]_vars /\ gaveUp => gaveUp'
BY DEF Next, vars, Token, Release, Preload, Cleanup, CleanupReturns, CleanupGivesUp,
       SetSctpSettings, CleanupThread

(* The inductive invariant of the resources' life cycle.                     *)
THEOREM LifecycleCorrect == Spec => []LifecycleInv
<1>1. LifecycleInv /\ [Next]_vars => LifecycleInv'
  BY NextBase, NextWait, GaveUpStays DEF LifecycleInv
<1> QED
  BY InitLifecycle, <1>1, PTL DEF Spec

(* If the application waits for every cleanup, doCleanup never unloads the   *)
(* resources while an object holds a token.                                  *)
THEOREM LoadedIfAwaitedCorrect == Spec => []LoadedIfAwaited
<1>1. LifecycleInv => LoadedIfAwaited
  BY DEF LifecycleInv, BaseInv, WaitInv, TypeOK, TokensAlive, Pointer, LoadedIfAwaited,
         LoadedWhileUsed
<1> QED
  BY LifecycleCorrect, <1>1, PTL

(* If the application waits for every cleanup, SctpTransport always has the  *)
(* settings that were set last.                                              *)
THEOREM SettingsAppliedCorrect == Spec => []SettingsApplied
<1>1. LifecycleInv => SettingsApplied
  BY DEF LifecycleInv, BaseInv, WaitInv, GlobalLoaded, SettingsApplied
<1> QED
  BY LifecycleCorrect, <1>1, PTL

(* The life cycle of the resources as Init keeps it, for any number of       *)
(* objects and payloads.                                                     *)
THEOREM ResourcesCorrect == Spec => []ResourcesInv
BY LifecycleCorrect, LoadedIfAwaitedCorrect, SettingsAppliedCorrect, PTL DEF ResourcesInv

(* If the application waits for every cleanup, the step that unloads the     *)
(* resources happens while it waits and when no object is left.              *)
THEOREM UnloadedOnRequestCorrect == Spec => UnloadedOnRequest
<1>1. LifecycleInv /\ [Next]_vars =>
        [~gaveUp /\ mInitialized /\ ~mInitialized' =>
           awaited # NoPayload /\ \A o \in Objects : token[o] = NoPayload]_vars
  <2> SUFFICES ASSUME LifecycleInv, [Next]_vars, ~gaveUp, mInitialized, ~mInitialized'
               PROVE  awaited # NoPayload /\ \A o \in Objects : token[o] = NoPayload
    OBVIOUS
  <2>1. PICK p \in Payloads : CleanupThread(p)
    BY DEF Next, vars, Token, NewPayload, doInit, Release, Preload, Cleanup,
           CleanupReturns, CleanupGivesUp, SetSctpSettings
  <2> QED
    BY <2>1, NoPayloadAssumption DEF CleanupThread, LifecycleInv, BaseInv, WaitInv, TypeOK,
           TokensAlive, Pointer
<1> QED
  BY LifecycleCorrect, <1>1, PTL DEF Spec, UnloadedOnRequest

-----------------------------------------------------------------------------

(* What a call and a callback in progress are made of.                         *)
Ops == {"none", "callback", "close", "delete", "channel", "track", "receive", "use", "packetizer",
        "silentPacketizer", "reporter", "cleanup"}
Steps == {"none", "got", "release", "inherit", "peeked", "empty", "stored", "found", "closed",
          "resetting", "erased", "clearing"}
CallRecord == [op : Ops, step : Steps, id : 0 .. MaxId, x : Nat]
Pointers == {"absent", "null", "p"}
CallbackRecord == [step : {"idle", "offer", "locked", "inherit", "running"}, id : 0 .. MaxId,
                   new : 0 .. MaxId, ptr : Pointers]

Known == installed \subseteq 1 .. lastId /\ reported \subseteq 1 .. lastId /\ gone \subseteq 1 .. lastId
Recorded ==
    /\ \A i \in Ids : parent[i] <= lastId
    /\ raced \in [Ids -> {"no", "call", "self", "closing"}]
    /\ ownSet \in [Ids -> {"unset", "p"}] /\ cleaned \in BOOLEAN /\ topic \in Topics
TableTypes == CApiTypeOK /\ Known /\ Recorded
CallsOK == call \in [Threads -> CallRecord] /\ \A t \in Threads : call[t].id <= lastId
CallbackOK == inCallback \in CallbackRecord /\ inCallback.id <= lastId /\ inCallback.new <= lastId
CallTypes == CallsOK /\ CallbackOK
MessageTypes ==
    /\ queue \in [Ids -> Seq(Nat)] /\ arrived \in Nat /\ got \in Seq(Nat \X BOOLEAN)
    /\ emptied \subseteq Nat /\ probed \subseteq Nat /\ twice \in BOOLEAN
MediaTypes ==
    /\ rtpConfigMap \in [Ids -> Nat] /\ packetizer \in [Ids -> Nat]
    /\ rtcpSrReporterMap \in [Ids -> Nat] /\ made \in [Ids -> Nat]

(* A call that has looked its object up works on an identifier that was        *)
(* reported; each step belongs to certain calls; the library's thread only     *)
(* deletes, from a callback of the object, which is on record as a race.       *)
ShapeOf(t) ==
    /\ call[t].id = 0 => call[t].op \in {"none", "cleanup"} /\ call[t].step \in {"none", "clearing"}
    /\ call[t].step = "clearing" => t \in Apps /\ call[t].id = 0
    /\ call[t].id # 0 =>
          call[t].id \in reported /\ call[t].step \notin {"none", "clearing"} /\ call[t].op \notin {"none", "cleanup"}
    /\ call[t].step \in {"closed", "erased"} => call[t].op = "delete"
    /\ call[t].step = "inherit" => call[t].op \in {"channel", "track"}
    /\ call[t].step \in {"peeked", "empty"} => call[t].op = "receive"
    /\ call[t].step = "stored" => call[t].op \in {"packetizer", "silentPacketizer"}
    /\ call[t].step = "found" => call[t].op = "reporter"
    /\ call[t].step = "resetting" => call[t].x \in {0, 1}
LibraryShape ==
    call[Lib].id # 0 =>
        /\ call[Lib].op \in {"delete", "use"} /\ raced[call[Lib].id] # "no"
        /\ call[Lib].op = "use" => call[Lib].step = "resetting" /\ call[Lib].x = 0
        /\ inCallback.step = "running"
CallShape == (\A t \in Threads : ShapeOf(t)) /\ LibraryShape
CallbackShape ==
    /\ inCallback.step = "idle" => inCallback.id = 0 /\ inCallback.new = 0
    /\ inCallback.step # "idle" => inCallback.id # 0
    /\ inCallback.step = "offer" => inCallback.new = 0
    /\ inCallback.step = "inherit" => inCallback.new # 0 /\ inCallback.ptr # "absent"

(* An object being made: its identifier is known to the thread that makes it   *)
(* and to nobody else, so that nobody deletes it but rtcCleanup.               *)
Offering == inCallback.step \in {"locked", "inherit"} /\ inCallback.new # 0
PendingInv ==
    /\ \A t \in Threads : call[t].step = "inherit" =>
          call[t].x \in 1 .. lastId /\ call[t].x \notin reported /\ (call[t].x \in table \/ cleaned)
    /\ \A t, u \in Threads : t # u /\ call[t].step = "inherit" /\ call[u].step = "inherit" => call[t].x # call[u].x
    /\ Offering => /\ inCallback.new \notin reported /\ (inCallback.new \in table \/ cleaned)
                   /\ \A t \in Threads : call[t].step = "inherit" => call[t].x # inCallback.new
CBase ==
    /\ TableTypes /\ CallTypes /\ MessageTypes /\ MediaTypes
    /\ CallShape /\ CallbackShape /\ PendingInv

(* An object nobody was told of is one being made, or one whose connection or  *)
(* server has gone.                                                            *)
ReportInv ==
    \A id \in table \ reported :
        IF parent[id] = 0 THEN \E t \in Threads : call[t].step = "inherit" /\ call[t].x = id
        ELSE \/ parent[id] \notin table
             \/ Offering /\ inCallback.new = id /\ inCallback.id = parent[id]

(* The table of pointers has the objects' entries, and those of objects whose  *)
(* last writer was overtaken by rtcCleanup.                                    *)
PointerInv ==
    /\ \A id \in table : userPointerMap[id] # "absent"
    /\ ~cleaned => \A id \in Ids : userPointerMap[id] # "absent" => id \in table
    /\ \A id \in Ids : ownSet[id] # "unset" => id \in reported
    /\ PointerKept

(* A server is erased when its callback is reset, and that waits for it.       *)
ServerInv ==
    /\ \A t \in Threads : call[t].step = "closed" /\ kind[call[t].id] = "srv" => call[t].id \notin installed
    /\ \A id \in installed : kind[id] = "srv" => id \in table \/ cleaned
    /\ inCallback.step \in {"offer", "locked", "inherit"} /\ kind[inCallback.id] = "srv" =>
          inCallback.id \in installed \/ cleaned

(* What makes the end of a deletion the end of the callbacks.                  *)
RaceInv ==
    /\ \A t, u \in Threads : t # u /\ call[t].id = call[u].id /\ call[t].id # 0 /\ call[t].op = "delete" =>
          raced[call[t].id] # "no"
    /\ \A t \in Threads : call[t].step = "erased" => call[t].id \notin table
    /\ \A t \in Threads : call[t].step = "resetting" /\ call[t].x = 0 =>
          call[t].id # 0 /\ call[t].id \notin table /\ \A u \in Threads \ {t} : call[u].id # call[t].id
CallbackInv ==
    inCallback.step # "idle" /\ raced[inCallback.id] = "no" => inCallback.id \in installed
GoneInv ==
    \A id \in gone : raced[id] = "no" =>
        id \notin installed /\ id \notin table /\ \A u \in Threads : call[u].id # id
OrphanInv ==
    \A id \in installed : id \in table \/ raced[id] # "no" \/ \E u \in Threads : call[u].id = id
DeleteInv == RaceInv /\ CallbackInv /\ GoneInv /\ OrphanInv

(* A call that may still store a configuration finds its object in the table,  *)
(* unless the two were on record as a race.                                    *)
Deleting(t) == call[t].op = "delete" \/ (call[t].step = "resetting" /\ call[t].x = 0)
EntryInv ==
    /\ \A t \in Threads :
          call[t].id # 0 => call[t].id \in table \/ raced[call[t].id] # "no" \/ cleaned \/ Deleting(t)
    /\ \A id \in Ids : rtpConfigMap[id] # 0 \/ rtcpSrReporterMap[id] # 0 => id \in table \/ raced[id] # "no" \/ cleaned

(* Every message is in one place, and a receiver is at the first of its queue. *)
InQueue(id, i, m) == i \in DOMAIN queue[id] /\ queue[id][i] = m
PlaceInv ==
    /\ \A id \in Ids : \A i \in DOMAIN queue[id] : queue[id][i] \in 1 .. arrived
    /\ \A id, jd \in Ids : \A i \in DOMAIN queue[id], j \in DOMAIN queue[jd] :
          queue[id][i] = queue[jd][j] => id = jd /\ i = j
    /\ \A i \in DOMAIN got : got[i][1] \in 1 .. arrived
    /\ \A i, j \in DOMAIN got : got[i][1] = got[j][1] => i = j
    /\ \A i \in DOMAIN got, id \in Ids : \A j \in DOMAIN queue[id] : got[i][1] # queue[id][j]
    /\ \A m \in 1 .. arrived : \/ \E i \in DOMAIN got : got[i][1] = m
                               \/ \E id \in Ids : \E i \in DOMAIN queue[id] : queue[id][i] = m
Looking(t) == call[t].step \in {"peeked", "empty"}
LookInv ==
    /\ \A t, u \in Threads : t # u /\ call[t].op = "receive" /\ call[u].op = "receive" => call[t].id # call[u].id
    /\ \A t \in Threads : Looking(t) => queue[call[t].id] # <<>> /\ Head(queue[call[t].id]) = call[t].x
WholeInv ==
    /\ \A t \in Threads : call[t].step = "empty" => call[t].x \in probed
    /\ \A m \in emptied : \/ m \in probed
                          \/ \E i \in DOMAIN got : got[i][1] = m
                          \/ \E t \in Threads : call[t].step = "peeked" /\ call[t].x = m /\ kind[call[t].id] = "tr"
    /\ \A i \in DOMAIN got : got[i][2] \/ got[i][1] \in probed
ReceiveInv == ~twice => PlaceInv /\ LookInv /\ WholeInv

(* Configurations are numbered, and the first one is used or about to be.      *)
ConfigInv ==
    /\ \A id \in Ids : rtpConfigMap[id] <= made[id] /\ rtcpSrReporterMap[id] <= made[id]
    /\ \A t \in Threads : call[t].step = "stored" => call[t].x \in 1 .. made[call[t].id]
    /\ \A t \in Threads : call[t].step = "found" => call[t].x <= made[call[t].id]
    /\ \A id \in Ids : made[id] = 1 => packetizer[id] = 1 \/ \E t \in Threads : call[t].step = "stored" /\ call[t].id = id

(* The steps, with the calls that work alike taken together.                  *)
CStep ==
    \/ \E t \in Threads, op \in OpsOf(topic), id \in Ids : Get(t, op, id)
    \/ \E t \in Threads, k \in {"pc", "ws", "srv"} : installed' \in {installed, installed \cup {lastId'}} /\ CreateObject(t, k)
    \/ \E t \in Threads, id \in Ids : SetUserPointer(t, id, "p")
    \/ \E t \in Threads : CleanupStart(t)
    \/ \E t \in Threads, k \in {"pc", "dc", "tr"} : Use(t, k)
    \/ \E t \in Threads, kinds \in SUBSET {"pc", "dc", "ws", "tr"} : Install(t, kinds)
    \/ \E t \in Threads, op \in {"channel", "track"}, k \in {"dc", "tr"} : NewChannel(t, op, k)
    \/ \E t \in Threads : InheritPointer(t)
    \/ \E t \in Threads : Peek(t)
    \/ \E t \in Threads : Keep(t)
    \/ \E t \in Threads : Take(t)
    \/ \E t \in Threads : StoreConfig(t)
    \/ \E t \in Threads : OmitConfig(t)
    \/ \E t \in Threads : SetPacketizer(t)
    \/ \E t \in Threads : FindConfig(t)
    \/ \E t \in Threads : ChainReporter(t)
    \/ \E t \in Threads : CloseChannel(t)
    \/ \E t \in Threads, force \in BOOLEAN : CloseWebSocket(t, force)
    \/ \E t \in Threads : ClosePeerConnection(t)
    \/ \E t \in Threads : ResetCallbacks(t)
    \/ \E t \in Threads : StopServer(t)
    \/ \E t \in Threads : Erase(t)
    \/ \E t \in Threads : ReleaseRef(t)
    \/ \E t \in Threads : EraseAll(t)
    \/ CallbackEmplace
    \/ CallbackCheck
    \/ CallbackInherit
    \/ CallbackReturn
    \/ \E id \in Ids : Arrive(id)
    \/ \E id \in Ids : RemoteShut(id)
    \/ \E id \in Ids : RemoteReset(id)
    \/ \E id \in Ids, offer \in BOOLEAN : CallbackStart(id, offer)
    \/ UNCHANGED cVars

(* The calls of the application and the library do nothing else.              *)
LEMMA CSteps == [CNext]_cVars => CStep
<1>. SUFFICES ASSUME [CNext]_cVars PROVE CStep
  OBVIOUS
<1>. QED BY DEF CStep, CNext, Call, Callback, CreatePeerConnection, CreateWebSocket, CreateWebSocketServer, UsePeerConnection, UseChannel, UseTrack, SetPeerConnectionCallback, SetChannelCallback, ChainHandler, CreateDataChannel, AddTrack

(* What the calls of a behaviour are.                                          *)
LEMMA OpsKnown == ASSUME topic \in Topics, NEW op \in OpsOf(topic) PROVE op \in Ops \ {"none", "cleanup"}
BY DEF Topics, OpsOf, Ops

(* A new identifier is the next one, and changes nothing about the others.      *)
EmplaceFacts(k, p) ==
    /\ lastId' = lastId + 1 /\ lastId' \in Ids /\ lastId \in 0 .. MaxId /\ table' = table \cup {lastId'} /\ mutexOwner' = mutexOwner
    /\ kind' \in [Ids -> {"none", "pc", "srv"} \cup Channels] /\ parent' \in [Ids -> 0 .. MaxId]
    /\ userPointerMap' \in [Ids -> Pointers]
    /\ kind'[lastId'] = k /\ parent'[lastId'] = p /\ userPointerMap'[lastId'] = "null"
    /\ \A i \in Ids : i # lastId' =>
          kind'[i] = kind[i] /\ parent'[i] = parent[i] /\ userPointerMap'[i] = userPointerMap[i]
    /\ \A i \in 1 .. lastId : i # lastId'

LEMMA NewIdentifier ==
    ASSUME TableTypes, NEW k \in {"pc", "srv"} \cup Channels, NEW p \in 0 .. MaxId, Emplace(k, p)
    PROVE  EmplaceFacts(k, p)
BY CApiAssumption DEF EmplaceFacts, Emplace, TableTypes, CApiTypeOK, Ids, Pointers


(* The identifiers that calls and callbacks work on.                           *)
CallFacts(t) ==
    /\ call[t].id \in 0 .. lastId /\ call[t].x \in Nat
    /\ call[t].step \notin {"none", "clearing"} => call[t].id \in Ids /\ call[t].id \in 1 .. lastId
    /\ call[t].step = "inherit" => call[t].x \in Ids /\ call[t].x \in 1 .. lastId

LEMMA CallIds ==
    TableTypes /\ CallTypes /\ CallShape /\ PendingInv => \A t \in Threads : CallFacts(t)
<1>. SUFFICES ASSUME TableTypes, CallTypes, CallShape, PendingInv, NEW t \in Threads PROVE CallFacts(t)
  OBVIOUS
<1>1. /\ lastId \in 0 .. MaxId /\ MaxId \in Nat /\ call[t] \in CallRecord /\ call[t].id <= lastId
  BY CApiAssumption DEF TableTypes, CApiTypeOK, CallTypes, CallsOK
<1>2. call[t].id = 0 => call[t].step \in {"none", "clearing"}
  BY DEF CallShape, ShapeOf
<1>3. call[t].step = "inherit" => call[t].x \in 1 .. lastId
  BY DEF PendingInv
<1>. QED BY <1>1, <1>2, <1>3 DEF CallFacts, CallRecord, Ids

CallbackFacts ==
    /\ inCallback.id \in 0 .. lastId /\ inCallback.new \in 0 .. lastId /\ inCallback.ptr \in Pointers
    /\ inCallback.step # "idle" => inCallback.id \in Ids /\ inCallback.id \in 1 .. lastId
    /\ inCallback.new # 0 => inCallback.new \in Ids /\ inCallback.new \in 1 .. lastId
    /\ inCallback.step = "inherit" => inCallback.new \in Ids /\ inCallback.new # 0 /\ inCallback.ptr # "absent"

LEMMA CallbackIds == TableTypes /\ CallTypes /\ CallbackShape => CallbackFacts
BY CApiAssumption DEF TableTypes, CApiTypeOK, CallTypes, CallbackOK, CallbackRecord, CallbackShape, CallbackFacts, Ids

(* The tables have their types.                                                *)
LEMMA TableStep == TableTypes /\ CallTypes /\ CallShape /\ CallbackShape /\ PendingInv /\ [CNext]_cVars => CApiTypeOK'
<1>. SUFFICES ASSUME TableTypes, CallTypes, CallShape, CallbackShape, PendingInv, CStep PROVE
    CApiTypeOK'
  BY CSteps
<1>1. ASSUME NEW t \in Threads, NEW op \in OpsOf(topic), NEW id \in Ids, Get(t, op, id) PROVE
    CApiTypeOK'
  BY <1>1, CApiAssumption, CallIds, CallbackIds
  DEF Get, tables, messages, media, history, objects, TableTypes, CApiTypeOK, Known, Recorded,
      Ids, Pointers, Channels, CallFacts, CallbackFacts
<1>2. ASSUME NEW t \in Threads, NEW k \in {"pc", "ws", "srv"}, installed' \in {installed,
    installed \cup {lastId'}}, CreateObject(t, k) PROVE CApiTypeOK'
  <2>1. EmplaceFacts(k, 0)
    BY <1>2, NewIdentifier, CApiAssumption DEF Channels, TableTypes, CApiTypeOK, CreateObject
  <2>2. installed' \subseteq installed \cup {lastId'} /\ closer' = closer
    BY <1>2 DEF CreateObject
  <2>3. installed' \subseteq Ids
    BY <2>1, <2>2 DEF EmplaceFacts, TableTypes, CApiTypeOK
  <2>4. table' \subseteq 1 .. lastId'
    BY <2>1, CApiAssumption DEF EmplaceFacts, TableTypes, CApiTypeOK
  <2>. QED BY <2>1, <2>2, <2>3, <2>4 DEF EmplaceFacts, TableTypes, CApiTypeOK, Pointers, Ids
<1>3. ASSUME NEW t \in Threads, NEW id \in Ids, SetUserPointer(t, id, "p") PROVE CApiTypeOK'
  BY <1>3, CApiAssumption, CallIds, CallbackIds
  DEF SetUserPointer, tables, messages, media, history, objects, TableTypes, CApiTypeOK, Known,
      Recorded, Ids, Pointers, Channels, CallFacts, CallbackFacts
<1>4. ASSUME NEW t \in Threads, CleanupStart(t) PROVE CApiTypeOK'
  BY <1>4, CApiAssumption, CallIds, CallbackIds
  DEF CleanupStart, tables, messages, media, history, objects, TableTypes, CApiTypeOK, Known,
      Recorded, Ids, Pointers, Channels, CallFacts, CallbackFacts
<1>5. ASSUME NEW t \in Threads, NEW k \in {"pc", "dc", "tr"}, Use(t, k) PROVE CApiTypeOK'
  BY <1>5, CApiAssumption, CallIds, CallbackIds
  DEF Use, In, Step, tables, messages, media, history, objects, TableTypes, CApiTypeOK, Known,
      Recorded, Ids, Pointers, Channels, CallFacts, CallbackFacts
<1>6. ASSUME NEW t \in Threads, NEW kinds \in SUBSET {"pc", "dc", "ws", "tr"}, Install(t, kinds)
    PROVE CApiTypeOK'
  <2>1. call[t].id \in Ids
    BY <1>6, CallIds DEF Install, In, CallFacts
  <2>2. installed' = installed \cup {call[t].id} /\ UNCHANGED <<lastId, kind, parent, table, userPointerMap, mutexOwner, closer>>
    BY <1>6 DEF Install, tables
  <2>. QED BY <2>1, <2>2 DEF TableTypes, CApiTypeOK
<1>7. ASSUME NEW t \in Threads, NEW op \in {"channel", "track"}, NEW k \in {"dc", "tr"},
    NewChannel(t, op, k) PROVE CApiTypeOK'
  <2>1. EmplaceFacts(k, 0)
    BY <1>7, NewIdentifier, CApiAssumption DEF Channels, TableTypes, CApiTypeOK, NewChannel
  <2>2. installed' = installed /\ closer' = closer
    BY <1>7 DEF NewChannel, objects
  <2>. QED BY <2>1, <2>2 DEF EmplaceFacts, TableTypes, CApiTypeOK, Pointers, Ids
<1>8. ASSUME NEW t \in Threads, InheritPointer(t) PROVE CApiTypeOK'
  BY <1>8, CApiAssumption, CallIds, CallbackIds
  DEF InheritPointer, Step, tables, messages, media, history, objects, TableTypes, CApiTypeOK,
      Known, Recorded, Ids, Pointers, Channels, CallFacts, CallbackFacts
<1>9. ASSUME NEW t \in Threads, Peek(t) PROVE CApiTypeOK'
  BY <1>9, CApiAssumption, CallIds, CallbackIds
  DEF Peek, In, Step, tables, messages, media, history, objects, TableTypes, CApiTypeOK, Known,
      Recorded, Ids, Pointers, Channels, CallFacts, CallbackFacts
<1>10. ASSUME NEW t \in Threads, Keep(t) PROVE CApiTypeOK'
  BY <1>10, CApiAssumption, CallIds, CallbackIds
  DEF Keep, Step, tables, messages, media, history, objects, TableTypes, CApiTypeOK, Known,
      Recorded, Ids, Pointers, Channels, CallFacts, CallbackFacts
<1>11. ASSUME NEW t \in Threads, Take(t) PROVE CApiTypeOK'
  BY <1>11, CApiAssumption, CallIds, CallbackIds
  DEF Take, Step, tables, messages, media, history, objects, TableTypes, CApiTypeOK, Known,
      Recorded, Ids, Pointers, Channels, CallFacts, CallbackFacts
<1>12. ASSUME NEW t \in Threads, StoreConfig(t) PROVE CApiTypeOK'
  BY <1>12, CApiAssumption, CallIds, CallbackIds
  DEF StoreConfig, NewConfig, In, tables, messages, media, history, objects, TableTypes,
      CApiTypeOK, Known, Recorded, Ids, Pointers, Channels, CallFacts, CallbackFacts
<1>13. ASSUME NEW t \in Threads, OmitConfig(t) PROVE CApiTypeOK'
  BY <1>13, CApiAssumption, CallIds, CallbackIds
  DEF OmitConfig, NewConfig, In, tables, messages, media, history, objects, TableTypes,
      CApiTypeOK, Known, Recorded, Ids, Pointers, Channels, CallFacts, CallbackFacts
<1>14. ASSUME NEW t \in Threads, SetPacketizer(t) PROVE CApiTypeOK'
  BY <1>14, CApiAssumption, CallIds, CallbackIds
  DEF SetPacketizer, Step, tables, messages, media, history, objects, TableTypes, CApiTypeOK,
      Known, Recorded, Ids, Pointers, Channels, CallFacts, CallbackFacts
<1>15. ASSUME NEW t \in Threads, FindConfig(t) PROVE CApiTypeOK'
  BY <1>15, CApiAssumption, CallIds, CallbackIds
  DEF FindConfig, In, tables, messages, media, history, objects, TableTypes, CApiTypeOK, Known,
      Recorded, Ids, Pointers, Channels, CallFacts, CallbackFacts
<1>16. ASSUME NEW t \in Threads, ChainReporter(t) PROVE CApiTypeOK'
  BY <1>16, CApiAssumption, CallIds, CallbackIds
  DEF ChainReporter, Step, tables, messages, media, history, objects, TableTypes, CApiTypeOK,
      Known, Recorded, Ids, Pointers, Channels, CallFacts, CallbackFacts
<1>17. ASSUME NEW t \in Threads, CloseChannel(t) PROVE CApiTypeOK'
  BY <1>17, CApiAssumption, CallIds, CallbackIds
  DEF CloseChannel, Step, Quiet, tables, messages, media, history, objects, TableTypes,
      CApiTypeOK, Known, Recorded, Ids, Pointers, Channels, CallFacts, CallbackFacts
<1>18. ASSUME NEW t \in Threads, NEW force \in BOOLEAN, CloseWebSocket(t, force) PROVE CApiTypeOK'
  BY <1>18, CApiAssumption, CallIds, CallbackIds
  DEF CloseWebSocket, Step, Quiet, tables, messages, media, history, objects, TableTypes,
      CApiTypeOK, Known, Recorded, Ids, Pointers, Channels, CallFacts, CallbackFacts
<1>19. ASSUME NEW t \in Threads, ClosePeerConnection(t) PROVE CApiTypeOK'
  <2>1. UNCHANGED <<lastId, kind, parent, table, userPointerMap, mutexOwner, installed>>
    BY <1>19 DEF ClosePeerConnection, tables
  <2>2. closer' \in [Ids -> {"open", "shut", "reset"}]
    BY <1>19 DEF ClosePeerConnection, TableTypes, CApiTypeOK
  <2>. QED BY <2>1, <2>2 DEF TableTypes, CApiTypeOK
<1>20. ASSUME NEW t \in Threads, ResetCallbacks(t) PROVE CApiTypeOK'
  BY <1>20, CApiAssumption, CallIds, CallbackIds
  DEF ResetCallbacks, Step, Quiet, tables, messages, media, history, objects, TableTypes,
      CApiTypeOK, Known, Recorded, Ids, Pointers, Channels, CallFacts, CallbackFacts
<1>21. ASSUME NEW t \in Threads, StopServer(t) PROVE CApiTypeOK'
  BY <1>21, CApiAssumption, CallIds, CallbackIds
  DEF StopServer, In, Step, Quiet, tables, messages, media, history, objects, TableTypes,
      CApiTypeOK, Known, Recorded, Ids, Pointers, Channels, CallFacts, CallbackFacts
<1>22. ASSUME NEW t \in Threads, Erase(t) PROVE CApiTypeOK'
  BY <1>22, CApiAssumption, CallIds, CallbackIds
  DEF Erase, In, Step, tables, messages, media, history, objects, TableTypes, CApiTypeOK, Known,
      Recorded, Ids, Pointers, Channels, CallFacts, CallbackFacts
<1>23. ASSUME NEW t \in Threads, ReleaseRef(t) PROVE CApiTypeOK'
  BY <1>23, CApiAssumption, CallIds, CallbackIds
  DEF ReleaseRef, LastRef, Quiet, Unwaited, tables, messages, media, history, objects, TableTypes,
      CApiTypeOK, Known, Recorded, Ids, Pointers, Channels, CallFacts, CallbackFacts
<1>24. ASSUME NEW t \in Threads, EraseAll(t) PROVE CApiTypeOK'
  BY <1>24, CApiAssumption, CallIds, CallbackIds
  DEF EraseAll, LastRef, Quiet, Unwaited, tables, messages, media, history, objects, TableTypes,
      CApiTypeOK, Known, Recorded, Ids, Pointers, Channels, CallFacts, CallbackFacts
<1>25. CASE CallbackEmplace
  <2>0. PICK k \in {"ws", "dc", "tr"} : Emplace(k, inCallback.id)
    BY <1>25 DEF CallbackEmplace
  <2>1. EmplaceFacts(k, inCallback.id)
    BY <2>0, NewIdentifier DEF Channels, CallTypes, CallbackOK, CallbackRecord
  <2>2. installed' = installed /\ closer' = closer
    BY <1>25 DEF CallbackEmplace, objects
  <2>3. table' \subseteq 1 .. lastId'
    BY <2>1, CApiAssumption DEF EmplaceFacts, TableTypes, CApiTypeOK
  <2>. QED BY <2>1, <2>2, <2>3 DEF EmplaceFacts, TableTypes, CApiTypeOK, Pointers, Ids
<1>26. CASE CallbackCheck
  BY <1>26, CApiAssumption, CallIds, CallbackIds
  DEF CallbackCheck, tables, messages, media, history, objects, TableTypes, CApiTypeOK, Known,
      Recorded, Ids, Pointers, Channels, CallFacts, CallbackFacts
<1>27. CASE CallbackInherit
  BY <1>27, CApiAssumption, CallIds, CallbackIds
  DEF CallbackInherit, tables, messages, media, history, objects, TableTypes, CApiTypeOK, Known,
      Recorded, Ids, Pointers, Channels, CallFacts, CallbackFacts
<1>28. CASE CallbackReturn
  BY <1>28, CApiAssumption, CallIds, CallbackIds
  DEF CallbackReturn, tables, messages, media, history, objects, TableTypes, CApiTypeOK, Known,
      Recorded, Ids, Pointers, Channels, CallFacts, CallbackFacts
<1>29. ASSUME NEW id \in Ids, Arrive(id) PROVE CApiTypeOK'
  BY <1>29, CApiAssumption, CallIds, CallbackIds
  DEF Arrive, tables, messages, media, history, objects, TableTypes, CApiTypeOK, Known, Recorded,
      Ids, Pointers, Channels, CallFacts, CallbackFacts
<1>30. ASSUME NEW id \in Ids, RemoteShut(id) PROVE CApiTypeOK'
  BY <1>30, CApiAssumption, CallIds, CallbackIds
  DEF RemoteShut, tables, messages, media, history, objects, TableTypes, CApiTypeOK, Known,
      Recorded, Ids, Pointers, Channels, CallFacts, CallbackFacts
<1>31. ASSUME NEW id \in Ids, RemoteReset(id) PROVE CApiTypeOK'
  BY <1>31, CApiAssumption, CallIds, CallbackIds
  DEF RemoteReset, tables, messages, media, history, objects, TableTypes, CApiTypeOK, Known,
      Recorded, Ids, Pointers, Channels, CallFacts, CallbackFacts
<1>32. ASSUME NEW id \in Ids, NEW offer \in BOOLEAN, CallbackStart(id, offer) PROVE CApiTypeOK'
  BY <1>32, CApiAssumption, CallIds, CallbackIds
  DEF CallbackStart, tables, messages, media, history, objects, TableTypes, CApiTypeOK, Known,
      Recorded, Ids, Pointers, Channels, CallFacts, CallbackFacts
<1>33. CASE UNCHANGED cVars
  BY <1>33
  DEF cVars, tables, messages, media, history, objects, TableTypes, CApiTypeOK, Known, Recorded,
      Ids, Pointers, Channels, CallFacts, CallbackFacts
<1>. QED BY <1>1, <1>2, <1>3, <1>4, <1>5, <1>6, <1>7, <1>8, <1>9, <1>10, <1>11, <1>12, <1>13,
    <1>14, <1>15, <1>16, <1>17, <1>18, <1>19, <1>20, <1>21, <1>22, <1>23, <1>24, <1>25, <1>26,
    <1>27, <1>28, <1>29, <1>30, <1>31, <1>32, <1>33 DEF CStep
(* Identifiers are at most lastId.                                             *)
LEMMA KnownStep == TableTypes /\ CallTypes /\ CallShape /\ CallbackShape /\ PendingInv /\ [CNext]_cVars => Known'
<1>. SUFFICES ASSUME TableTypes, CallTypes, CallShape, CallbackShape, PendingInv, CStep PROVE
    Known'
  BY CSteps
<1>1. ASSUME NEW t \in Threads, NEW op \in OpsOf(topic), NEW id \in Ids, Get(t, op, id) PROVE
    Known'
  BY <1>1, CApiAssumption, CallIds, CallbackIds
  DEF Get, tables, messages, media, history, objects, TableTypes, CApiTypeOK, Known, Recorded,
      Ids, Pointers, Channels, CallFacts, CallbackFacts
<1>2. ASSUME NEW t \in Threads, NEW k \in {"pc", "ws", "srv"}, installed' \in {installed,
    installed \cup {lastId'}}, CreateObject(t, k) PROVE Known'
  <2>1. EmplaceFacts(k, 0)
    BY <1>2, NewIdentifier, CApiAssumption DEF Channels, TableTypes, CApiTypeOK, CreateObject
  <2>. QED BY <1>2, <2>1, CApiAssumption, CallIds, CallbackIds
    DEF EmplaceFacts, CreateObject, tables, messages, media, history, objects, TableTypes,
        CApiTypeOK, Known, Recorded, Ids, Pointers, Channels, CallFacts, CallbackFacts
<1>3. ASSUME NEW t \in Threads, NEW id \in Ids, SetUserPointer(t, id, "p") PROVE Known'
  BY <1>3, CApiAssumption, CallIds, CallbackIds
  DEF SetUserPointer, tables, messages, media, history, objects, TableTypes, CApiTypeOK, Known,
      Recorded, Ids, Pointers, Channels, CallFacts, CallbackFacts
<1>4. ASSUME NEW t \in Threads, CleanupStart(t) PROVE Known'
  BY <1>4, CApiAssumption, CallIds, CallbackIds
  DEF CleanupStart, tables, messages, media, history, objects, TableTypes, CApiTypeOK, Known,
      Recorded, Ids, Pointers, Channels, CallFacts, CallbackFacts
<1>5. ASSUME NEW t \in Threads, NEW k \in {"pc", "dc", "tr"}, Use(t, k) PROVE Known'
  BY <1>5, CApiAssumption, CallIds, CallbackIds
  DEF Use, In, Step, tables, messages, media, history, objects, TableTypes, CApiTypeOK, Known,
      Recorded, Ids, Pointers, Channels, CallFacts, CallbackFacts
<1>6. ASSUME NEW t \in Threads, NEW kinds \in SUBSET {"pc", "dc", "ws", "tr"}, Install(t, kinds)
    PROVE Known'
  <2>1. call[t].id \in 1 .. lastId
    BY <1>6, CallIds DEF Install, In, CallFacts
  <2>2. installed' = installed \cup {call[t].id} /\ UNCHANGED <<gone, reported, lastId>>
    BY <1>6 DEF Install, tables, history
  <2>. QED BY <2>1, <2>2 DEF TableTypes, Known
<1>7. ASSUME NEW t \in Threads, NEW op \in {"channel", "track"}, NEW k \in {"dc", "tr"},
    NewChannel(t, op, k) PROVE Known'
  <2>1. EmplaceFacts(k, 0)
    BY <1>7, NewIdentifier, CApiAssumption DEF Channels, TableTypes, CApiTypeOK, NewChannel
  <2>. QED BY <1>7, <2>1, CApiAssumption, CallIds, CallbackIds
    DEF EmplaceFacts, NewChannel, In, Step, tables, messages, media, history, objects, TableTypes,
        CApiTypeOK, Known, Recorded, Ids, Pointers, Channels, CallFacts, CallbackFacts
<1>8. ASSUME NEW t \in Threads, InheritPointer(t) PROVE Known'
  BY <1>8, CApiAssumption, CallIds, CallbackIds
  DEF InheritPointer, Step, tables, messages, media, history, objects, TableTypes, CApiTypeOK,
      Known, Recorded, Ids, Pointers, Channels, CallFacts, CallbackFacts
<1>9. ASSUME NEW t \in Threads, Peek(t) PROVE Known'
  BY <1>9, CApiAssumption, CallIds, CallbackIds
  DEF Peek, In, Step, tables, messages, media, history, objects, TableTypes, CApiTypeOK, Known,
      Recorded, Ids, Pointers, Channels, CallFacts, CallbackFacts
<1>10. ASSUME NEW t \in Threads, Keep(t) PROVE Known'
  BY <1>10, CApiAssumption, CallIds, CallbackIds
  DEF Keep, Step, tables, messages, media, history, objects, TableTypes, CApiTypeOK, Known,
      Recorded, Ids, Pointers, Channels, CallFacts, CallbackFacts
<1>11. ASSUME NEW t \in Threads, Take(t) PROVE Known'
  BY <1>11, CApiAssumption, CallIds, CallbackIds
  DEF Take, Step, tables, messages, media, history, objects, TableTypes, CApiTypeOK, Known,
      Recorded, Ids, Pointers, Channels, CallFacts, CallbackFacts
<1>12. ASSUME NEW t \in Threads, StoreConfig(t) PROVE Known'
  BY <1>12, CApiAssumption, CallIds, CallbackIds
  DEF StoreConfig, NewConfig, In, tables, messages, media, history, objects, TableTypes,
      CApiTypeOK, Known, Recorded, Ids, Pointers, Channels, CallFacts, CallbackFacts
<1>13. ASSUME NEW t \in Threads, OmitConfig(t) PROVE Known'
  BY <1>13, CApiAssumption, CallIds, CallbackIds
  DEF OmitConfig, NewConfig, In, tables, messages, media, history, objects, TableTypes,
      CApiTypeOK, Known, Recorded, Ids, Pointers, Channels, CallFacts, CallbackFacts
<1>14. ASSUME NEW t \in Threads, SetPacketizer(t) PROVE Known'
  BY <1>14, CApiAssumption, CallIds, CallbackIds
  DEF SetPacketizer, Step, tables, messages, media, history, objects, TableTypes, CApiTypeOK,
      Known, Recorded, Ids, Pointers, Channels, CallFacts, CallbackFacts
<1>15. ASSUME NEW t \in Threads, FindConfig(t) PROVE Known'
  BY <1>15, CApiAssumption, CallIds, CallbackIds
  DEF FindConfig, In, tables, messages, media, history, objects, TableTypes, CApiTypeOK, Known,
      Recorded, Ids, Pointers, Channels, CallFacts, CallbackFacts
<1>16. ASSUME NEW t \in Threads, ChainReporter(t) PROVE Known'
  BY <1>16, CApiAssumption, CallIds, CallbackIds
  DEF ChainReporter, Step, tables, messages, media, history, objects, TableTypes, CApiTypeOK,
      Known, Recorded, Ids, Pointers, Channels, CallFacts, CallbackFacts
<1>17. ASSUME NEW t \in Threads, CloseChannel(t) PROVE Known'
  BY <1>17, CApiAssumption, CallIds, CallbackIds
  DEF CloseChannel, Step, Quiet, tables, messages, media, history, objects, TableTypes,
      CApiTypeOK, Known, Recorded, Ids, Pointers, Channels, CallFacts, CallbackFacts
<1>18. ASSUME NEW t \in Threads, NEW force \in BOOLEAN, CloseWebSocket(t, force) PROVE Known'
  BY <1>18, CApiAssumption, CallIds, CallbackIds
  DEF CloseWebSocket, Step, Quiet, tables, messages, media, history, objects, TableTypes,
      CApiTypeOK, Known, Recorded, Ids, Pointers, Channels, CallFacts, CallbackFacts
<1>19. ASSUME NEW t \in Threads, ClosePeerConnection(t) PROVE Known'
  BY <1>19, CApiAssumption, CallIds, CallbackIds
  DEF ClosePeerConnection, Step, tables, messages, media, history, objects, TableTypes,
      CApiTypeOK, Known, Recorded, Ids, Pointers, Channels, CallFacts, CallbackFacts
<1>20. ASSUME NEW t \in Threads, ResetCallbacks(t) PROVE Known'
  <2>1. call[t].id \in 1 .. lastId
    BY <1>20, CallIds DEF ResetCallbacks, CallFacts
  <2>2. installed' \subseteq installed /\ gone' \subseteq gone \cup {call[t].id} /\ reported' = reported /\ lastId' = lastId
    BY <1>20 DEF ResetCallbacks, Step, tables
  <2>. QED BY <2>1, <2>2 DEF TableTypes, Known
<1>21. ASSUME NEW t \in Threads, StopServer(t) PROVE Known'
  BY <1>21, CApiAssumption, CallIds, CallbackIds
  DEF StopServer, In, Step, Quiet, tables, messages, media, history, objects, TableTypes,
      CApiTypeOK, Known, Recorded, Ids, Pointers, Channels, CallFacts, CallbackFacts
<1>22. ASSUME NEW t \in Threads, Erase(t) PROVE Known'
  BY <1>22, CApiAssumption, CallIds, CallbackIds
  DEF Erase, In, Step, tables, messages, media, history, objects, TableTypes, CApiTypeOK, Known,
      Recorded, Ids, Pointers, Channels, CallFacts, CallbackFacts
<1>23. ASSUME NEW t \in Threads, ReleaseRef(t) PROVE Known'
  <2>1. call[t].id \in 1 .. lastId
    BY <1>23, CallIds DEF ReleaseRef, CallFacts
  <2>2. installed' \subseteq installed /\ gone' \subseteq gone \cup {call[t].id} /\ reported' = reported /\ lastId' = lastId
    BY <1>23 DEF ReleaseRef, Step, tables
  <2>. QED BY <2>1, <2>2 DEF TableTypes, Known
<1>24. ASSUME NEW t \in Threads, EraseAll(t) PROVE Known'
  BY <1>24, CApiAssumption, CallIds, CallbackIds
  DEF EraseAll, LastRef, Quiet, Unwaited, tables, messages, media, history, objects, TableTypes,
      CApiTypeOK, Known, Recorded, Ids, Pointers, Channels, CallFacts, CallbackFacts
<1>25. CASE CallbackEmplace
  <2>0. PICK k \in {"ws", "dc", "tr"} : Emplace(k, inCallback.id)
    BY <1>25 DEF CallbackEmplace
  <2>1. EmplaceFacts(k, inCallback.id)
    BY <1>25, <2>0, NewIdentifier, CApiAssumption DEF Channels, TableTypes, CApiTypeOK,
        CallbackEmplace, CallTypes, CallbackOK, CallbackRecord
  <2>. QED BY <1>25, <2>1, CApiAssumption, CallIds, CallbackIds
    DEF EmplaceFacts, CallbackEmplace, tables, messages, media, history, objects, TableTypes,
        CApiTypeOK, Known, Recorded, Ids, Pointers, Channels, CallFacts, CallbackFacts
<1>26. CASE CallbackCheck
  BY <1>26, CApiAssumption, CallIds, CallbackIds
  DEF CallbackCheck, tables, messages, media, history, objects, TableTypes, CApiTypeOK, Known,
      Recorded, Ids, Pointers, Channels, CallFacts, CallbackFacts
<1>27. CASE CallbackInherit
  BY <1>27, CApiAssumption, CallIds, CallbackIds
  DEF CallbackInherit, tables, messages, media, history, objects, TableTypes, CApiTypeOK, Known,
      Recorded, Ids, Pointers, Channels, CallFacts, CallbackFacts
<1>28. CASE CallbackReturn
  BY <1>28, CApiAssumption, CallIds, CallbackIds
  DEF CallbackReturn, tables, messages, media, history, objects, TableTypes, CApiTypeOK, Known,
      Recorded, Ids, Pointers, Channels, CallFacts, CallbackFacts
<1>29. ASSUME NEW id \in Ids, Arrive(id) PROVE Known'
  BY <1>29, CApiAssumption, CallIds, CallbackIds
  DEF Arrive, tables, messages, media, history, objects, TableTypes, CApiTypeOK, Known, Recorded,
      Ids, Pointers, Channels, CallFacts, CallbackFacts
<1>30. ASSUME NEW id \in Ids, RemoteShut(id) PROVE Known'
  BY <1>30, CApiAssumption, CallIds, CallbackIds
  DEF RemoteShut, tables, messages, media, history, objects, TableTypes, CApiTypeOK, Known,
      Recorded, Ids, Pointers, Channels, CallFacts, CallbackFacts
<1>31. ASSUME NEW id \in Ids, RemoteReset(id) PROVE Known'
  BY <1>31, CApiAssumption, CallIds, CallbackIds
  DEF RemoteReset, tables, messages, media, history, objects, TableTypes, CApiTypeOK, Known,
      Recorded, Ids, Pointers, Channels, CallFacts, CallbackFacts
<1>32. ASSUME NEW id \in Ids, NEW offer \in BOOLEAN, CallbackStart(id, offer) PROVE Known'
  BY <1>32, CApiAssumption, CallIds, CallbackIds
  DEF CallbackStart, tables, messages, media, history, objects, TableTypes, CApiTypeOK, Known,
      Recorded, Ids, Pointers, Channels, CallFacts, CallbackFacts
<1>33. CASE UNCHANGED cVars
  BY <1>33
  DEF cVars, tables, messages, media, history, objects, TableTypes, CApiTypeOK, Known, Recorded,
      Ids, Pointers, Channels, CallFacts, CallbackFacts
<1>. QED BY <1>1, <1>2, <1>3, <1>4, <1>5, <1>6, <1>7, <1>8, <1>9, <1>10, <1>11, <1>12, <1>13,
    <1>14, <1>15, <1>16, <1>17, <1>18, <1>19, <1>20, <1>21, <1>22, <1>23, <1>24, <1>25, <1>26,
    <1>27, <1>28, <1>29, <1>30, <1>31, <1>32, <1>33 DEF CStep
(* The histories have their types.                                             *)
LEMMA RecordedStep == TableTypes /\ CallTypes /\ CallShape /\ CallbackShape /\ PendingInv /\ [CNext]_cVars => Recorded'
<1>. SUFFICES ASSUME TableTypes, CallTypes, CallShape, CallbackShape, PendingInv, CStep PROVE
    Recorded'
  BY CSteps
<1>1. ASSUME NEW t \in Threads, NEW op \in OpsOf(topic), NEW id \in Ids, Get(t, op, id) PROVE
    Recorded'
  BY <1>1, CApiAssumption, CallIds, CallbackIds
  DEF Get, tables, messages, media, history, objects, TableTypes, CApiTypeOK, Known, Recorded,
      Ids, Pointers, Channels, CallFacts, CallbackFacts
<1>2. ASSUME NEW t \in Threads, NEW k \in {"pc", "ws", "srv"}, installed' \in {installed,
    installed \cup {lastId'}}, CreateObject(t, k) PROVE Recorded'
  <2>1. EmplaceFacts(k, 0)
    BY <1>2, NewIdentifier, CApiAssumption
       DEF Channels, TableTypes, CApiTypeOK, CreateObject
  <2>2. \A i \in Ids : parent'[i] <= lastId'
    BY <2>1, CApiAssumption, CallbackIds DEF EmplaceFacts, TableTypes, CApiTypeOK, Recorded, CallbackFacts
  <2>. QED BY <1>2, <2>2 DEF CreateObject, TableTypes, Recorded, history, messages, media
<1>3. ASSUME NEW t \in Threads, NEW id \in Ids, SetUserPointer(t, id, "p") PROVE Recorded'
  BY <1>3, CApiAssumption, CallIds, CallbackIds
  DEF SetUserPointer, tables, messages, media, history, objects, TableTypes, CApiTypeOK, Known,
      Recorded, Ids, Pointers, Channels, CallFacts, CallbackFacts
<1>4. ASSUME NEW t \in Threads, CleanupStart(t) PROVE Recorded'
  BY <1>4, CApiAssumption, CallIds, CallbackIds
  DEF CleanupStart, tables, messages, media, history, objects, TableTypes, CApiTypeOK, Known,
      Recorded, Ids, Pointers, Channels, CallFacts, CallbackFacts
<1>5. ASSUME NEW t \in Threads, NEW k \in {"pc", "dc", "tr"}, Use(t, k) PROVE Recorded'
  BY <1>5, CApiAssumption, CallIds, CallbackIds
  DEF Use, In, Step, tables, messages, media, history, objects, TableTypes, CApiTypeOK, Known,
      Recorded, Ids, Pointers, Channels, CallFacts, CallbackFacts
<1>6. ASSUME NEW t \in Threads, NEW kinds \in SUBSET {"pc", "dc", "ws", "tr"}, Install(t, kinds)
    PROVE Recorded'
  BY <1>6, CApiAssumption, CallIds, CallbackIds
  DEF Install, In, Step, Quiet, tables, messages, media, history, objects, TableTypes, CApiTypeOK,
      Known, Recorded, Ids, Pointers, Channels, CallFacts, CallbackFacts
<1>7. ASSUME NEW t \in Threads, NEW op \in {"channel", "track"}, NEW k \in {"dc", "tr"},
    NewChannel(t, op, k) PROVE Recorded'
  <2>1. EmplaceFacts(k, 0)
    BY <1>7, NewIdentifier, CApiAssumption
       DEF Channels, TableTypes, CApiTypeOK, NewChannel
  <2>2. \A i \in Ids : parent'[i] <= lastId'
    BY <2>1, CApiAssumption, CallbackIds DEF EmplaceFacts, TableTypes, CApiTypeOK, Recorded, CallbackFacts
  <2>. QED BY <1>7, <2>2 DEF NewChannel, TableTypes, Recorded, history, messages, media
<1>8. ASSUME NEW t \in Threads, InheritPointer(t) PROVE Recorded'
  BY <1>8, CApiAssumption, CallIds, CallbackIds
  DEF InheritPointer, Step, tables, messages, media, history, objects, TableTypes, CApiTypeOK,
      Known, Recorded, Ids, Pointers, Channels, CallFacts, CallbackFacts
<1>9. ASSUME NEW t \in Threads, Peek(t) PROVE Recorded'
  BY <1>9, CApiAssumption, CallIds, CallbackIds
  DEF Peek, In, Step, tables, messages, media, history, objects, TableTypes, CApiTypeOK, Known,
      Recorded, Ids, Pointers, Channels, CallFacts, CallbackFacts
<1>10. ASSUME NEW t \in Threads, Keep(t) PROVE Recorded'
  BY <1>10, CApiAssumption, CallIds, CallbackIds
  DEF Keep, Step, tables, messages, media, history, objects, TableTypes, CApiTypeOK, Known,
      Recorded, Ids, Pointers, Channels, CallFacts, CallbackFacts
<1>11. ASSUME NEW t \in Threads, Take(t) PROVE Recorded'
  BY <1>11, CApiAssumption, CallIds, CallbackIds
  DEF Take, Step, tables, messages, media, history, objects, TableTypes, CApiTypeOK, Known,
      Recorded, Ids, Pointers, Channels, CallFacts, CallbackFacts
<1>12. ASSUME NEW t \in Threads, StoreConfig(t) PROVE Recorded'
  BY <1>12, CApiAssumption, CallIds, CallbackIds
  DEF StoreConfig, NewConfig, In, tables, messages, media, history, objects, TableTypes,
      CApiTypeOK, Known, Recorded, Ids, Pointers, Channels, CallFacts, CallbackFacts
<1>13. ASSUME NEW t \in Threads, OmitConfig(t) PROVE Recorded'
  BY <1>13, CApiAssumption, CallIds, CallbackIds
  DEF OmitConfig, NewConfig, In, tables, messages, media, history, objects, TableTypes,
      CApiTypeOK, Known, Recorded, Ids, Pointers, Channels, CallFacts, CallbackFacts
<1>14. ASSUME NEW t \in Threads, SetPacketizer(t) PROVE Recorded'
  BY <1>14, CApiAssumption, CallIds, CallbackIds
  DEF SetPacketizer, Step, tables, messages, media, history, objects, TableTypes, CApiTypeOK,
      Known, Recorded, Ids, Pointers, Channels, CallFacts, CallbackFacts
<1>15. ASSUME NEW t \in Threads, FindConfig(t) PROVE Recorded'
  BY <1>15, CApiAssumption, CallIds, CallbackIds
  DEF FindConfig, In, tables, messages, media, history, objects, TableTypes, CApiTypeOK, Known,
      Recorded, Ids, Pointers, Channels, CallFacts, CallbackFacts
<1>16. ASSUME NEW t \in Threads, ChainReporter(t) PROVE Recorded'
  BY <1>16, CApiAssumption, CallIds, CallbackIds
  DEF ChainReporter, Step, tables, messages, media, history, objects, TableTypes, CApiTypeOK,
      Known, Recorded, Ids, Pointers, Channels, CallFacts, CallbackFacts
<1>17. ASSUME NEW t \in Threads, CloseChannel(t) PROVE Recorded'
  BY <1>17, CApiAssumption, CallIds, CallbackIds
  DEF CloseChannel, Step, Quiet, tables, messages, media, history, objects, TableTypes,
      CApiTypeOK, Known, Recorded, Ids, Pointers, Channels, CallFacts, CallbackFacts
<1>18. ASSUME NEW t \in Threads, NEW force \in BOOLEAN, CloseWebSocket(t, force) PROVE Recorded'
  BY <1>18, CApiAssumption, CallIds, CallbackIds
  DEF CloseWebSocket, Step, Quiet, tables, messages, media, history, objects, TableTypes,
      CApiTypeOK, Known, Recorded, Ids, Pointers, Channels, CallFacts, CallbackFacts
<1>19. ASSUME NEW t \in Threads, ClosePeerConnection(t) PROVE Recorded'
  BY <1>19, CApiAssumption, CallIds, CallbackIds
  DEF ClosePeerConnection, Step, tables, messages, media, history, objects, TableTypes,
      CApiTypeOK, Known, Recorded, Ids, Pointers, Channels, CallFacts, CallbackFacts
<1>20. ASSUME NEW t \in Threads, ResetCallbacks(t) PROVE Recorded'
  BY <1>20, CApiAssumption, CallIds, CallbackIds
  DEF ResetCallbacks, Step, Quiet, tables, messages, media, history, objects, TableTypes,
      CApiTypeOK, Known, Recorded, Ids, Pointers, Channels, CallFacts, CallbackFacts
<1>21. ASSUME NEW t \in Threads, StopServer(t) PROVE Recorded'
  BY <1>21, CApiAssumption, CallIds, CallbackIds
  DEF StopServer, In, Step, Quiet, tables, messages, media, history, objects, TableTypes,
      CApiTypeOK, Known, Recorded, Ids, Pointers, Channels, CallFacts, CallbackFacts
<1>22. ASSUME NEW t \in Threads, Erase(t) PROVE Recorded'
  BY <1>22, CApiAssumption, CallIds, CallbackIds
  DEF Erase, In, Step, tables, messages, media, history, objects, TableTypes, CApiTypeOK, Known,
      Recorded, Ids, Pointers, Channels, CallFacts, CallbackFacts
<1>23. ASSUME NEW t \in Threads, ReleaseRef(t) PROVE Recorded'
  BY <1>23, CApiAssumption, CallIds, CallbackIds
  DEF ReleaseRef, LastRef, Quiet, Unwaited, tables, messages, media, history, objects, TableTypes,
      CApiTypeOK, Known, Recorded, Ids, Pointers, Channels, CallFacts, CallbackFacts
<1>24. ASSUME NEW t \in Threads, EraseAll(t) PROVE Recorded'
  BY <1>24, CApiAssumption, CallIds, CallbackIds
  DEF EraseAll, LastRef, Quiet, Unwaited, tables, messages, media, history, objects, TableTypes,
      CApiTypeOK, Known, Recorded, Ids, Pointers, Channels, CallFacts, CallbackFacts
<1>25. CASE CallbackEmplace
  <2>0. PICK k \in {"ws", "dc", "tr"} : Emplace(k, inCallback.id)
    BY <1>25 DEF CallbackEmplace
  <2>1. EmplaceFacts(k, inCallback.id)
    BY <1>25, <2>0, NewIdentifier, CApiAssumption
       DEF Channels, TableTypes, CApiTypeOK, CallbackEmplace, CallTypes, CallbackOK, CallbackRecord
  <2>2. \A i \in Ids : parent'[i] <= lastId'
    BY <2>1, CApiAssumption, CallbackIds DEF EmplaceFacts, TableTypes, CApiTypeOK, Recorded, CallbackFacts
  <2>. QED BY <1>25, <2>2 DEF CallbackEmplace, TableTypes, Recorded, history, messages, media
<1>26. CASE CallbackCheck
  BY <1>26, CApiAssumption, CallIds, CallbackIds
  DEF CallbackCheck, tables, messages, media, history, objects, TableTypes, CApiTypeOK, Known,
      Recorded, Ids, Pointers, Channels, CallFacts, CallbackFacts
<1>27. CASE CallbackInherit
  BY <1>27, CApiAssumption, CallIds, CallbackIds
  DEF CallbackInherit, tables, messages, media, history, objects, TableTypes, CApiTypeOK, Known,
      Recorded, Ids, Pointers, Channels, CallFacts, CallbackFacts
<1>28. CASE CallbackReturn
  BY <1>28, CApiAssumption, CallIds, CallbackIds
  DEF CallbackReturn, tables, messages, media, history, objects, TableTypes, CApiTypeOK, Known,
      Recorded, Ids, Pointers, Channels, CallFacts, CallbackFacts
<1>29. ASSUME NEW id \in Ids, Arrive(id) PROVE Recorded'
  BY <1>29, CApiAssumption, CallIds, CallbackIds
  DEF Arrive, tables, messages, media, history, objects, TableTypes, CApiTypeOK, Known, Recorded,
      Ids, Pointers, Channels, CallFacts, CallbackFacts
<1>30. ASSUME NEW id \in Ids, RemoteShut(id) PROVE Recorded'
  BY <1>30, CApiAssumption, CallIds, CallbackIds
  DEF RemoteShut, tables, messages, media, history, objects, TableTypes, CApiTypeOK, Known,
      Recorded, Ids, Pointers, Channels, CallFacts, CallbackFacts
<1>31. ASSUME NEW id \in Ids, RemoteReset(id) PROVE Recorded'
  BY <1>31, CApiAssumption, CallIds, CallbackIds
  DEF RemoteReset, tables, messages, media, history, objects, TableTypes, CApiTypeOK, Known,
      Recorded, Ids, Pointers, Channels, CallFacts, CallbackFacts
<1>32. ASSUME NEW id \in Ids, NEW offer \in BOOLEAN, CallbackStart(id, offer) PROVE Recorded'
  BY <1>32, CApiAssumption, CallIds, CallbackIds
  DEF CallbackStart, tables, messages, media, history, objects, TableTypes, CApiTypeOK, Known,
      Recorded, Ids, Pointers, Channels, CallFacts, CallbackFacts
<1>33. CASE UNCHANGED cVars
  BY <1>33
  DEF cVars, tables, messages, media, history, objects, TableTypes, CApiTypeOK, Known, Recorded,
      Ids, Pointers, Channels, CallFacts, CallbackFacts
<1>. QED BY <1>1, <1>2, <1>3, <1>4, <1>5, <1>6, <1>7, <1>8, <1>9, <1>10, <1>11, <1>12, <1>13,
    <1>14, <1>15, <1>16, <1>17, <1>18, <1>19, <1>20, <1>21, <1>22, <1>23, <1>24, <1>25, <1>26,
    <1>27, <1>28, <1>29, <1>30, <1>31, <1>32, <1>33 DEF CStep

-----------------------------------------------------------------------------

(* What a step does to the call of its thread, field by field.                 *)
Moves(t, o, s, i, n) ==
    /\ call' \in [Threads -> CallRecord]
    /\ call'[t].op = o /\ call'[t].step = s /\ call'[t].id = i /\ call'[t].x = n
    /\ \A u \in Threads : u # t => call'[u] = call[u]
StepsTo(t, s) == Moves(t, call[t].op, s, call[t].id, call[t].x)

LEMMA StepMoves ==
    ASSUME CallTypes, NEW t \in Threads, NEW s \in Steps, Step(t, s) PROVE StepsTo(t, s)
BY DEF CallTypes, CallsOK, CallRecord, Step, StepsTo, Moves

LEMMA SetMoves ==
    ASSUME CallTypes, NEW t \in Threads, NEW o \in Ops, NEW s \in Steps, NEW i \in 0 .. MaxId, NEW n \in Nat,
           call' = [call EXCEPT ![t] = [op |-> o, step |-> s, id |-> i, x |-> n]]
    PROVE  Moves(t, o, s, i, n)
BY DEF CallTypes, CallsOK, CallRecord, Moves

LEMMA IdleMoves ==
    ASSUME CallTypes, NEW t \in Threads, call' = [call EXCEPT ![t] = Idle] PROVE Moves(t, "none", "none", 0, 0)
<1>1. "none" \in Ops /\ "none" \in Steps /\ 0 \in 0 .. MaxId /\ 0 \in Nat
  BY CApiAssumption DEF Ops, Steps
<1>2. call' = [call EXCEPT ![t] = [op |-> "none", step |-> "none", id |-> 0, x |-> 0]]
  BY DEF Idle
<1>. QED BY <1>1, <1>2, SetMoves

LEMMA FieldMoves ==
    ASSUME CallTypes, NEW t \in Threads, NEW s \in Steps, NEW n \in Nat,
           call' = [call EXCEPT ![t].step = s, ![t].x = n]
    PROVE  Moves(t, call[t].op, s, call[t].id, n)
BY DEF CallTypes, CallsOK, CallRecord, Moves

LEMMA OpMoves ==
    ASSUME CallTypes, NEW t \in Threads, NEW s \in Steps, NEW n \in Nat, NEW o \in Ops,
           call' = [call EXCEPT ![t].step = s, ![t].x = n, ![t].op = o]
    PROVE  Moves(t, o, s, call[t].id, n)
BY DEF CallTypes, CallsOK, CallRecord, Moves

(* The same for the callback in progress.                                      *)
CallbackMoves(s, i, n, p) ==
    /\ inCallback' \in CallbackRecord
    /\ inCallback'.step = s /\ inCallback'.id = i /\ inCallback'.new = n /\ inCallback'.ptr = p

(* The calls, one by one.                                                      *)
LEMMA GetMoves ==
    ASSUME TableTypes, CallTypes, CallShape, PendingInv, MessageTypes, MediaTypes, NEW t \in
        Threads, NEW op \in OpsOf(topic), NEW id \in Ids, Get(t, op, id)
    PROVE  Moves(t, op, "got", id, 0)
<1>1. op \in Ops /\ "got" \in Steps /\ id \in 0 .. MaxId /\ 0 \in Nat
  BY CApiAssumption, OpsKnown DEF TableTypes, Recorded, Steps, Ids
<1>2. call' = [call EXCEPT ![t] = [op |-> op, step |-> "got", id |-> id, x |-> 0]]
  BY DEF Get
<1>. QED BY <1>1, <1>2, SetMoves

LEMMA CleanupStartMoves ==
    ASSUME TableTypes, CallTypes, CallShape, PendingInv, MessageTypes, MediaTypes, NEW t \in
        Threads, CleanupStart(t)
    PROVE  Moves(t, "cleanup", "clearing", 0, 0)
<1>1. "cleanup" \in Ops /\ "clearing" \in Steps /\ 0 \in 0 .. MaxId /\ 0 \in Nat
  BY CApiAssumption DEF Ops, Steps
<1>2. call' = [call EXCEPT ![t] = [op |-> "cleanup", step |-> "clearing", id |-> 0, x |-> 0]]
  BY DEF CleanupStart
<1>. QED BY <1>1, <1>2, SetMoves

LEMMA UseMoves ==
    ASSUME TableTypes, CallTypes, CallShape, PendingInv, MessageTypes, MediaTypes, NEW t \in
        Threads, NEW k \in {"pc", "dc", "tr"}, Use(t, k)
    PROVE  StepsTo(t, "release")
BY CApiAssumption, StepMoves DEF Use, Steps

LEMMA InstallMoves ==
    ASSUME TableTypes, CallTypes, CallShape, PendingInv, MessageTypes, MediaTypes, NEW t \in
        Threads, NEW kinds \in SUBSET {"pc", "dc", "ws", "tr"}, Install(t, kinds)
    PROVE  StepsTo(t, "release")
BY CApiAssumption, StepMoves DEF Install, Steps

LEMMA NewChannelMoves ==
    ASSUME TableTypes, CallTypes, CallShape, PendingInv, MessageTypes, MediaTypes, NEW t \in
        Threads, NEW op \in {"channel", "track"}, NEW k \in {"dc", "tr"}, NewChannel(t, op, k)
    PROVE  Moves(t, call[t].op, "inherit", call[t].id, lastId')
<1>1. lastId' \in Nat /\ "inherit" \in Steps
  BY CApiAssumption, NewIdentifier DEF NewChannel, EmplaceFacts, Channels, Steps, Ids
<1>2. call' = [call EXCEPT ![t].step = "inherit", ![t].x = lastId']
  BY DEF NewChannel
<1>. QED BY <1>1, <1>2, FieldMoves

LEMMA InheritPointerMoves ==
    ASSUME TableTypes, CallTypes, CallShape, PendingInv, MessageTypes, MediaTypes, NEW t \in
        Threads, InheritPointer(t)
    PROVE  StepsTo(t, "release")
BY CApiAssumption, StepMoves DEF InheritPointer, Steps

LEMMA PeekMoves ==
    ASSUME TableTypes, CallTypes, CallShape, PendingInv, MessageTypes, MediaTypes, NEW t \in
        Threads, Peek(t)
    PROVE  \/ queue[call[t].id] = <<>> /\ StepsTo(t, "release")
           \/ queue[call[t].id] # <<>> /\ Moves(t, "receive", IF Head(queue[call[t].id]) \in emptied THEN "empty" ELSE "peeked", call[t].id, Head(queue[call[t].id]))
<1>1. CASE queue[call[t].id] = <<>>
  BY <1>1, StepMoves DEF Peek, Steps
<1>2. CASE queue[call[t].id] # <<>>
  <2>. DEFINE h == Head(queue[call[t].id])  s == IF h \in emptied THEN "empty" ELSE "peeked"
  <2>0. call[t].id \in Ids
    BY CallIds DEF Peek, In, CallFacts
  <2>1. h \in Nat /\ s \in Steps
    BY <1>2, <2>0 DEF MessageTypes, Steps
  <2>2. call' = [call EXCEPT ![t].step = s, ![t].x = h] /\ call[t].op = "receive"
    BY <1>2 DEF Peek, In
  <2>. HIDE DEF h, s
  <2>3. Moves(t, call[t].op, s, call[t].id, h)
    BY <2>1, <2>2, FieldMoves
  <2>. QED BY <1>2, <2>2, <2>3 DEF h, s
<1>. QED BY <1>1, <1>2

LEMMA KeepMoves ==
    ASSUME TableTypes, CallTypes, CallShape, PendingInv, MessageTypes, MediaTypes, NEW t \in
        Threads, Keep(t)
    PROVE  StepsTo(t, "release")
BY CApiAssumption, StepMoves DEF Keep, Steps

LEMMA TakeMoves ==
    ASSUME TableTypes, CallTypes, CallShape, PendingInv, MessageTypes, MediaTypes, NEW t \in
        Threads, Take(t)
    PROVE  StepsTo(t, "release")
BY CApiAssumption, StepMoves DEF Take, Steps

LEMMA StoreConfigMoves ==
    ASSUME TableTypes, CallTypes, CallShape, PendingInv, MessageTypes, MediaTypes, NEW t \in
        Threads, StoreConfig(t)
    PROVE  Moves(t, call[t].op, "stored", call[t].id, made'[call[t].id])
<1>0. call[t].id \in Ids
  BY CallIds DEF StoreConfig, NewConfig, In, CallFacts
<1>1. made'[call[t].id] \in Nat /\ "stored" \in Steps
  BY <1>0 DEF StoreConfig, NewConfig, MediaTypes, Steps
<1>2. call' = [call EXCEPT ![t].step = "stored", ![t].x = made'[call[t].id]]
  BY DEF StoreConfig, NewConfig
<1>. QED BY <1>1, <1>2, FieldMoves

LEMMA OmitConfigMoves ==
    ASSUME TableTypes, CallTypes, CallShape, PendingInv, MessageTypes, MediaTypes, NEW t \in
        Threads, OmitConfig(t)
    PROVE  Moves(t, call[t].op, "stored", call[t].id, made'[call[t].id])
<1>0. call[t].id \in Ids
  BY CallIds DEF OmitConfig, NewConfig, In, CallFacts
<1>1. made'[call[t].id] \in Nat /\ "stored" \in Steps
  BY <1>0 DEF OmitConfig, NewConfig, MediaTypes, Steps
<1>2. call' = [call EXCEPT ![t].step = "stored", ![t].x = made'[call[t].id]]
  BY DEF OmitConfig, NewConfig
<1>. QED BY <1>1, <1>2, FieldMoves

LEMMA SetPacketizerMoves ==
    ASSUME TableTypes, CallTypes, CallShape, PendingInv, MessageTypes, MediaTypes, NEW t \in
        Threads, SetPacketizer(t)
    PROVE  StepsTo(t, "release")
BY CApiAssumption, StepMoves DEF SetPacketizer, Steps

LEMMA FindConfigMoves ==
    ASSUME TableTypes, CallTypes, CallShape, PendingInv, MessageTypes, MediaTypes, NEW t \in
        Threads, FindConfig(t)
    PROVE  \/ rtpConfigMap[call[t].id] = 0 /\ Moves(t, call[t].op, "release", call[t].id, 0)
           \/ rtpConfigMap[call[t].id] # 0 /\ Moves(t, call[t].op, "found", call[t].id, rtpConfigMap[call[t].id])
BY CApiAssumption, FieldMoves, CallIds DEF FindConfig, In, CallFacts, MediaTypes, Steps

LEMMA ChainReporterMoves ==
    ASSUME TableTypes, CallTypes, CallShape, PendingInv, MessageTypes, MediaTypes, NEW t \in
        Threads, ChainReporter(t)
    PROVE  StepsTo(t, "release")
BY CApiAssumption, StepMoves DEF ChainReporter, Steps

LEMMA CloseChannelMoves ==
    ASSUME TableTypes, CallTypes, CallShape, PendingInv, MessageTypes, MediaTypes, NEW t \in
        Threads, CloseChannel(t)
    PROVE  \/ call[t].op = "delete" /\ StepsTo(t, "closed")
           \/ call[t].op # "delete" /\ StepsTo(t, "release")
BY CApiAssumption, StepMoves DEF CloseChannel, Steps

LEMMA CloseWebSocketMoves ==
    ASSUME TableTypes, CallTypes, CallShape, PendingInv, MessageTypes, MediaTypes, NEW t \in
        Threads, NEW force \in BOOLEAN, CloseWebSocket(t, force)
    PROVE  \/ call[t].op = "delete" /\ StepsTo(t, "closed")
           \/ call[t].op # "delete" /\ StepsTo(t, "release")
BY CApiAssumption, StepMoves DEF CloseWebSocket, Steps

LEMMA ClosePeerConnectionMoves ==
    ASSUME TableTypes, CallTypes, CallShape, PendingInv, MessageTypes, MediaTypes, NEW t \in
        Threads, ClosePeerConnection(t)
    PROVE  \/ call[t].op = "delete" /\ StepsTo(t, "closed")
           \/ call[t].op # "delete" /\ StepsTo(t, "release")
           \/ Moves(t, call[t].op, "resetting", call[t].id, 1)
BY CApiAssumption, StepMoves, FieldMoves DEF ClosePeerConnection, Steps

LEMMA ResetCallbacksMoves ==
    ASSUME TableTypes, CallTypes, CallShape, PendingInv, MessageTypes, MediaTypes, NEW t \in
        Threads, ResetCallbacks(t)
    PROVE  \/ call[t].x = 1 /\ call[t].op = "delete" /\ StepsTo(t, "closed")
           \/ call[t].x = 1 /\ call[t].op # "delete" /\ StepsTo(t, "release")
           \/ call[t].x # 1 /\ Moves(t, "none", "none", 0, 0)
BY CApiAssumption, StepMoves, IdleMoves DEF ResetCallbacks, Steps

LEMMA StopServerMoves ==
    ASSUME TableTypes, CallTypes, CallShape, PendingInv, MessageTypes, MediaTypes, NEW t \in
        Threads, StopServer(t)
    PROVE  \/ t = Lib /\ StepsTo(t, "release")
           \/ t # Lib /\ StepsTo(t, "closed")
BY CApiAssumption, StepMoves DEF StopServer, Steps

LEMMA EraseMoves ==
    ASSUME TableTypes, CallTypes, CallShape, PendingInv, MessageTypes, MediaTypes, NEW t \in
        Threads, Erase(t)
    PROVE  \/ call[t].id \in table /\ StepsTo(t, "erased")
           \/ call[t].id \notin table /\ StepsTo(t, "release")
BY CApiAssumption, StepMoves DEF Erase, Steps

LEMMA ReleaseRefMoves ==
    ASSUME TableTypes, CallTypes, CallShape, PendingInv, MessageTypes, MediaTypes, NEW t \in
        Threads, ReleaseRef(t)
    PROVE  \/ call[t].id \notin table /\ LastRef(t, call[t].id) /\ kind[call[t].id] = "pc" /\ closer[call[t].id] = "open" /\ Moves(t, IF call[t].step = "erased" THEN "delete" ELSE "use", "resetting", call[t].id, 0)
           \/ Moves(t, "none", "none", 0, 0)
BY CApiAssumption, OpMoves, IdleMoves DEF ReleaseRef, Steps, Ops

LEMMA EraseAllMoves ==
    ASSUME TableTypes, CallTypes, CallShape, PendingInv, MessageTypes, MediaTypes, NEW t \in
        Threads, EraseAll(t)
    PROVE  Moves(t, "none", "none", 0, 0)
BY CApiAssumption, IdleMoves DEF EraseAll, Steps


LEMMA CallbackStartMoves ==
    ASSUME TableTypes, CallTypes, NEW id \in Ids, NEW offer \in BOOLEAN, CallbackStart(id, offer)
    PROVE  CallbackMoves(IF offer THEN "offer" ELSE "locked", id, 0, "absent")
<1>. DEFINE s == IF offer THEN "offer" ELSE "locked"
<1>1. s \in {"offer", "locked"} /\ id \in 0 .. MaxId /\ 0 \in 0 .. MaxId
  BY CApiAssumption DEF Ids
<1>2. inCallback' = [NoCallback EXCEPT !.step = s, !.id = id]
  BY DEF CallbackStart
<1>. HIDE DEF s
<1>3. CallbackMoves(s, id, 0, "absent")
  BY <1>1, <1>2 DEF CallbackMoves, CallbackRecord, NoCallback, Pointers
<1>. QED BY <1>3 DEF s

LEMMA CallbackEmplaceMoves ==
    ASSUME TableTypes, CallTypes, CallShape, NEW k \in Channels, Emplace(k, inCallback.id), CallbackEmplace
    PROVE  CallbackMoves("locked", inCallback.id, lastId', inCallback.ptr)
<1>1. inCallback.id \in 0 .. MaxId
  BY DEF CallTypes, CallbackOK, CallbackRecord
<1>2. lastId' \in 0 .. MaxId
  BY <1>1, NewIdentifier, CApiAssumption DEF EmplaceFacts, Ids, Channels, TableTypes, CApiTypeOK
<1>3. inCallback' = [inCallback EXCEPT !.step = "locked", !.new = lastId']
  BY DEF CallbackEmplace
<1>. QED BY <1>2, <1>3 DEF CallTypes, CallbackOK, CallbackRecord, CallbackMoves

LEMMA CallbackCheckMoves ==
    ASSUME TableTypes, CallTypes, CallbackShape, CallbackCheck
    PROVE  \/ userPointerMap[inCallback.id] = "absent" /\ CallbackMoves("idle", 0, 0, "absent")
           \/ /\ userPointerMap[inCallback.id] # "absent"
              /\ CallbackMoves(IF inCallback.new = 0 THEN "running" ELSE "inherit", inCallback.id,
                               inCallback.new, userPointerMap[inCallback.id])
<1>1. CASE userPointerMap[inCallback.id] = "absent"
  BY <1>1, CApiAssumption DEF CallbackCheck, CallbackMoves, CallbackRecord, NoCallback, Pointers
<1>2. CASE userPointerMap[inCallback.id] # "absent"
  <2>. DEFINE s == IF inCallback.new = 0 THEN "running" ELSE "inherit"  p == userPointerMap[inCallback.id]
  <2>1. p \in Pointers
    BY CallbackIds DEF CallbackCheck, CallbackFacts, TableTypes, CApiTypeOK, Pointers
  <2>2. inCallback' = [inCallback EXCEPT !.step = s, !.ptr = p]
    BY <1>2 DEF CallbackCheck
  <2>3. s \in {"running", "inherit"}
    OBVIOUS
  <2>. HIDE DEF s, p
  <2>4. CallbackMoves(s, inCallback.id, inCallback.new, p)
    BY <2>1, <2>2, <2>3 DEF CallTypes, CallbackOK, CallbackRecord, CallbackMoves
  <2>. QED BY <1>2, <2>4 DEF s, p
<1>. QED BY <1>1, <1>2

LEMMA CallbackInheritMoves ==
    ASSUME TableTypes, CallTypes, CallbackInherit
    PROVE  CallbackMoves("running", inCallback.id, inCallback.new, inCallback.ptr)
BY DEF CallbackInherit, CallTypes, CallbackOK, CallbackRecord, CallbackMoves

LEMMA CallbackReturnMoves == ASSUME CallbackReturn PROVE CallbackMoves("idle", 0, 0, "absent")
BY CApiAssumption DEF CallbackReturn, CallbackMoves, CallbackRecord, NoCallback, Pointers

(* Calls are made of what calls are made of.                                   *)
LEMMA CallsStep == CBase /\ [CNext]_cVars => CallsOK'
<1>. SUFFICES ASSUME TableTypes, CallTypes, MessageTypes, MediaTypes, CallShape, CallbackShape,
    PendingInv, CStep PROVE CallsOK'
  BY CSteps DEF CBase
<1>1. ASSUME NEW t \in Threads, NEW op \in OpsOf(topic), NEW id \in Ids, Get(t, op, id) PROVE
    CallsOK'
  <2>2. Moves(t, op, "got", id, 0)
    BY <1>1, GetMoves
  <2>. QED BY <1>1, <2>2, CApiAssumption, CallIds
    DEF Get, tables, messages, media, history, objects, Moves, StepsTo, TableTypes, CApiTypeOK,
        Ids, CallTypes, CallsOK, CallFacts
<1>2. ASSUME NEW t \in Threads, NEW k \in {"pc", "ws", "srv"}, installed' \in {installed,
    installed \cup {lastId'}}, CreateObject(t, k) PROVE CallsOK'
  <2>1. EmplaceFacts(k, 0)
    BY <1>2, NewIdentifier, CApiAssumption DEF Channels, TableTypes, CApiTypeOK, CreateObject
  <2>2. call' = call
    BY <1>2 DEF CreateObject
  <2>. QED BY <2>1, <2>2, CApiAssumption DEF EmplaceFacts, CallTypes, CallsOK, CallRecord
<1>3. ASSUME NEW t \in Threads, NEW id \in Ids, SetUserPointer(t, id, "p") PROVE CallsOK'
  BY <1>3, CApiAssumption, CallIds
  DEF SetUserPointer, tables, messages, media, history, objects, TableTypes, CApiTypeOK, Ids,
      CallTypes, CallsOK, CallFacts
<1>4. ASSUME NEW t \in Threads, CleanupStart(t) PROVE CallsOK'
  <2>2. Moves(t, "cleanup", "clearing", 0, 0)
    BY <1>4, CleanupStartMoves
  <2>. QED BY <1>4, <2>2, CApiAssumption, CallIds
    DEF CleanupStart, tables, messages, media, history, objects, Moves, StepsTo, TableTypes,
        CApiTypeOK, Ids, CallTypes, CallsOK, CallFacts
<1>5. ASSUME NEW t \in Threads, NEW k \in {"pc", "dc", "tr"}, Use(t, k) PROVE CallsOK'
  <2>2. StepsTo(t, "release")
    BY <1>5, UseMoves
  <2>. QED BY <1>5, <2>2, CApiAssumption, CallIds
    DEF Use, In, Step, tables, messages, media, history, objects, Moves, StepsTo, TableTypes,
        CApiTypeOK, Ids, CallTypes, CallsOK, CallFacts
<1>6. ASSUME NEW t \in Threads, NEW kinds \in SUBSET {"pc", "dc", "ws", "tr"}, Install(t, kinds)
    PROVE CallsOK'
  <2>2. StepsTo(t, "release")
    BY <1>6, InstallMoves
  <2>. QED BY <1>6, <2>2, CApiAssumption, CallIds
    DEF Install, In, Step, Quiet, tables, messages, media, history, objects, Moves, StepsTo,
        TableTypes, CApiTypeOK, Ids, CallTypes, CallsOK, CallFacts
<1>7. ASSUME NEW t \in Threads, NEW op \in {"channel", "track"}, NEW k \in {"dc", "tr"},
    NewChannel(t, op, k) PROVE CallsOK'
  <2>1. EmplaceFacts(k, 0)
    BY <1>7, NewIdentifier, CApiAssumption DEF Channels, TableTypes, CApiTypeOK, NewChannel
  <2>2. Moves(t, call[t].op, "inherit", call[t].id, lastId')
    BY <1>7, NewChannelMoves
  <2>. QED BY <1>7, <2>1, <2>2, CApiAssumption, CallIds
    DEF NewChannel, In, Step, tables, messages, media, history, objects, Moves, StepsTo,
        EmplaceFacts, TableTypes, CApiTypeOK, Ids, CallTypes, CallsOK, CallFacts
<1>8. ASSUME NEW t \in Threads, InheritPointer(t) PROVE CallsOK'
  <2>2. StepsTo(t, "release")
    BY <1>8, InheritPointerMoves
  <2>. QED BY <1>8, <2>2, CApiAssumption, CallIds
    DEF InheritPointer, Step, tables, messages, media, history, objects, Moves, StepsTo,
        TableTypes, CApiTypeOK, Ids, CallTypes, CallsOK, CallFacts
<1>9. ASSUME NEW t \in Threads, Peek(t) PROVE CallsOK'
  <2>2. \/ queue[call[t].id] = <<>> /\ StepsTo(t, "release")
        \/ queue[call[t].id] # <<>> /\ Moves(t, "receive", IF Head(queue[call[t].id]) \in emptied THEN "empty" ELSE "peeked", call[t].id, Head(queue[call[t].id]))
    BY <1>9, PeekMoves
  <2>. QED BY <1>9, <2>2, CApiAssumption, CallIds
    DEF Peek, In, Step, tables, messages, media, history, objects, Moves, StepsTo, TableTypes,
        CApiTypeOK, Ids, CallTypes, CallsOK, CallFacts
<1>10. ASSUME NEW t \in Threads, Keep(t) PROVE CallsOK'
  <2>2. StepsTo(t, "release")
    BY <1>10, KeepMoves
  <2>. QED BY <1>10, <2>2, CApiAssumption, CallIds
    DEF Keep, Step, tables, messages, media, history, objects, Moves, StepsTo, TableTypes,
        CApiTypeOK, Ids, CallTypes, CallsOK, CallFacts
<1>11. ASSUME NEW t \in Threads, Take(t) PROVE CallsOK'
  <2>2. StepsTo(t, "release")
    BY <1>11, TakeMoves
  <2>. QED BY <1>11, <2>2, CApiAssumption, CallIds
    DEF Take, Step, tables, messages, media, history, objects, Moves, StepsTo, TableTypes,
        CApiTypeOK, Ids, CallTypes, CallsOK, CallFacts
<1>12. ASSUME NEW t \in Threads, StoreConfig(t) PROVE CallsOK'
  <2>2. Moves(t, call[t].op, "stored", call[t].id, made'[call[t].id])
    BY <1>12, StoreConfigMoves
  <2>. QED BY <1>12, <2>2, CApiAssumption, CallIds
    DEF StoreConfig, NewConfig, In, tables, messages, media, history, objects, Moves, StepsTo,
        TableTypes, CApiTypeOK, Ids, CallTypes, CallsOK, CallFacts
<1>13. ASSUME NEW t \in Threads, OmitConfig(t) PROVE CallsOK'
  <2>2. Moves(t, call[t].op, "stored", call[t].id, made'[call[t].id])
    BY <1>13, OmitConfigMoves
  <2>. QED BY <1>13, <2>2, CApiAssumption, CallIds
    DEF OmitConfig, NewConfig, In, tables, messages, media, history, objects, Moves, StepsTo,
        TableTypes, CApiTypeOK, Ids, CallTypes, CallsOK, CallFacts
<1>14. ASSUME NEW t \in Threads, SetPacketizer(t) PROVE CallsOK'
  <2>2. StepsTo(t, "release")
    BY <1>14, SetPacketizerMoves
  <2>. QED BY <1>14, <2>2, CApiAssumption, CallIds
    DEF SetPacketizer, Step, tables, messages, media, history, objects, Moves, StepsTo,
        TableTypes, CApiTypeOK, Ids, CallTypes, CallsOK, CallFacts
<1>15. ASSUME NEW t \in Threads, FindConfig(t) PROVE CallsOK'
  <2>2. \/ rtpConfigMap[call[t].id] = 0 /\ Moves(t, call[t].op, "release", call[t].id, 0)
        \/ rtpConfigMap[call[t].id] # 0 /\ Moves(t, call[t].op, "found", call[t].id, rtpConfigMap[call[t].id])
    BY <1>15, FindConfigMoves
  <2>. QED BY <1>15, <2>2, CApiAssumption, CallIds
    DEF FindConfig, In, tables, messages, media, history, objects, Moves, StepsTo, TableTypes,
        CApiTypeOK, Ids, CallTypes, CallsOK, CallFacts
<1>16. ASSUME NEW t \in Threads, ChainReporter(t) PROVE CallsOK'
  <2>2. StepsTo(t, "release")
    BY <1>16, ChainReporterMoves
  <2>. QED BY <1>16, <2>2, CApiAssumption, CallIds
    DEF ChainReporter, Step, tables, messages, media, history, objects, Moves, StepsTo,
        TableTypes, CApiTypeOK, Ids, CallTypes, CallsOK, CallFacts
<1>17. ASSUME NEW t \in Threads, CloseChannel(t) PROVE CallsOK'
  <2>2. \/ call[t].op = "delete" /\ StepsTo(t, "closed")
        \/ call[t].op # "delete" /\ StepsTo(t, "release")
    BY <1>17, CloseChannelMoves
  <2>. QED BY <1>17, <2>2, CApiAssumption, CallIds
    DEF CloseChannel, Step, Quiet, tables, messages, media, history, objects, Moves, StepsTo,
        TableTypes, CApiTypeOK, Ids, CallTypes, CallsOK, CallFacts
<1>18. ASSUME NEW t \in Threads, NEW force \in BOOLEAN, CloseWebSocket(t, force) PROVE CallsOK'
  <2>2. \/ call[t].op = "delete" /\ StepsTo(t, "closed")
        \/ call[t].op # "delete" /\ StepsTo(t, "release")
    BY <1>18, CloseWebSocketMoves
  <2>. QED BY <1>18, <2>2, CApiAssumption, CallIds
    DEF CloseWebSocket, Step, Quiet, tables, messages, media, history, objects, Moves, StepsTo,
        TableTypes, CApiTypeOK, Ids, CallTypes, CallsOK, CallFacts
<1>19. ASSUME NEW t \in Threads, ClosePeerConnection(t) PROVE CallsOK'
  <2>2. \/ call[t].op = "delete" /\ StepsTo(t, "closed")
        \/ call[t].op # "delete" /\ StepsTo(t, "release")
        \/ Moves(t, call[t].op, "resetting", call[t].id, 1)
    BY <1>19, ClosePeerConnectionMoves
  <2>. QED BY <1>19, <2>2, CApiAssumption, CallIds
    DEF ClosePeerConnection, Step, tables, messages, media, history, objects, Moves, StepsTo,
        TableTypes, CApiTypeOK, Ids, CallTypes, CallsOK, CallFacts
<1>20. ASSUME NEW t \in Threads, ResetCallbacks(t) PROVE CallsOK'
  <2>2. \/ call[t].x = 1 /\ call[t].op = "delete" /\ StepsTo(t, "closed")
        \/ call[t].x = 1 /\ call[t].op # "delete" /\ StepsTo(t, "release")
        \/ call[t].x # 1 /\ Moves(t, "none", "none", 0, 0)
    BY <1>20, ResetCallbacksMoves
  <2>4. lastId' = lastId
    BY <1>20 DEF ResetCallbacks, tables
  <2>. QED BY <2>2, <2>4 DEF Moves, StepsTo, CallTypes, CallsOK, TableTypes, CApiTypeOK
<1>21. ASSUME NEW t \in Threads, StopServer(t) PROVE CallsOK'
  <2>2. \/ t = Lib /\ StepsTo(t, "release")
        \/ t # Lib /\ StepsTo(t, "closed")
    BY <1>21, StopServerMoves
  <2>. QED BY <1>21, <2>2, CApiAssumption, CallIds
    DEF StopServer, In, Step, Quiet, tables, messages, media, history, objects, Moves, StepsTo,
        TableTypes, CApiTypeOK, Ids, CallTypes, CallsOK, CallFacts
<1>22. ASSUME NEW t \in Threads, Erase(t) PROVE CallsOK'
  <2>2. \/ call[t].id \in table /\ StepsTo(t, "erased")
        \/ call[t].id \notin table /\ StepsTo(t, "release")
    BY <1>22, EraseMoves
  <2>. QED BY <1>22, <2>2, CApiAssumption, CallIds
    DEF Erase, In, Step, tables, messages, media, history, objects, Moves, StepsTo, TableTypes,
        CApiTypeOK, Ids, CallTypes, CallsOK, CallFacts
<1>23. ASSUME NEW t \in Threads, ReleaseRef(t) PROVE CallsOK'
  <2>2. \/ call[t].id \notin table /\ LastRef(t, call[t].id) /\ kind[call[t].id] = "pc" /\ closer[call[t].id] = "open" /\ Moves(t, IF call[t].step = "erased" THEN "delete" ELSE "use", "resetting", call[t].id, 0)
        \/ Moves(t, "none", "none", 0, 0)
    BY <1>23, ReleaseRefMoves
  <2>4. lastId' = lastId
    BY <1>23 DEF ReleaseRef, tables
  <2>. QED BY <2>2, <2>4 DEF Moves, StepsTo, CallTypes, CallsOK, TableTypes, CApiTypeOK
<1>24. ASSUME NEW t \in Threads, EraseAll(t) PROVE CallsOK'
  <2>2. Moves(t, "none", "none", 0, 0)
    BY <1>24, EraseAllMoves
  <2>. QED BY <1>24, <2>2, CApiAssumption, CallIds
    DEF EraseAll, LastRef, Quiet, Unwaited, tables, messages, media, history, objects, Moves,
        StepsTo, TableTypes, CApiTypeOK, Ids, CallTypes, CallsOK, CallFacts
<1>25. CASE CallbackEmplace
  <2>0. PICK k \in {"ws", "dc", "tr"} : Emplace(k, inCallback.id)
    BY <1>25 DEF CallbackEmplace
  <2>1. EmplaceFacts(k, inCallback.id)
    BY <1>25, <2>0, NewIdentifier, CApiAssumption DEF Channels, TableTypes, CApiTypeOK,
        CallbackEmplace, CallTypes, CallbackOK, CallbackRecord
  <2>3. CallbackMoves("locked", inCallback.id, lastId', inCallback.ptr)
    BY <1>25, <2>0, CallbackEmplaceMoves DEF Channels
  <2>. QED BY <1>25, <2>1, <2>3, CApiAssumption, CallIds
    DEF CallbackEmplace, tables, messages, media, history, objects, EmplaceFacts, CallbackMoves,
        TableTypes, CApiTypeOK, Ids, CallTypes, CallsOK, CallFacts
<1>26. CASE CallbackCheck
  <2>3. \/ userPointerMap[inCallback.id] = "absent" /\ CallbackMoves("idle", 0, 0, "absent")
       \/ /\ userPointerMap[inCallback.id] # "absent"
          /\ CallbackMoves(IF inCallback.new = 0 THEN "running" ELSE "inherit", inCallback.id,
                           inCallback.new, userPointerMap[inCallback.id])
    BY <1>26, CallbackCheckMoves
  <2>. QED BY <1>26, <2>3, CApiAssumption, CallIds
    DEF CallbackCheck, tables, messages, media, history, objects, CallbackMoves, TableTypes,
        CApiTypeOK, Ids, CallTypes, CallsOK, CallFacts
<1>27. CASE CallbackInherit
  <2>3. CallbackMoves("running", inCallback.id, inCallback.new, inCallback.ptr)
    BY <1>27, CallbackInheritMoves
  <2>. QED BY <1>27, <2>3, CApiAssumption, CallIds
    DEF CallbackInherit, tables, messages, media, history, objects, CallbackMoves, TableTypes,
        CApiTypeOK, Ids, CallTypes, CallsOK, CallFacts
<1>28. CASE CallbackReturn
  <2>3. CallbackMoves("idle", 0, 0, "absent")
    BY <1>28, CallbackReturnMoves
  <2>. QED BY <1>28, <2>3, CApiAssumption, CallIds
    DEF CallbackReturn, tables, messages, media, history, objects, CallbackMoves, TableTypes,
        CApiTypeOK, Ids, CallTypes, CallsOK, CallFacts
<1>29. ASSUME NEW id \in Ids, Arrive(id) PROVE CallsOK'
  BY <1>29, CApiAssumption, CallIds
  DEF Arrive, tables, messages, media, history, objects, TableTypes, CApiTypeOK, Ids, CallTypes,
      CallsOK, CallFacts
<1>30. ASSUME NEW id \in Ids, RemoteShut(id) PROVE CallsOK'
  BY <1>30, CApiAssumption, CallIds
  DEF RemoteShut, tables, messages, media, history, objects, TableTypes, CApiTypeOK, Ids,
      CallTypes, CallsOK, CallFacts
<1>31. ASSUME NEW id \in Ids, RemoteReset(id) PROVE CallsOK'
  BY <1>31, CApiAssumption, CallIds
  DEF RemoteReset, tables, messages, media, history, objects, TableTypes, CApiTypeOK, Ids,
      CallTypes, CallsOK, CallFacts
<1>32. ASSUME NEW id \in Ids, NEW offer \in BOOLEAN, CallbackStart(id, offer) PROVE CallsOK'
  <2>3. CallbackMoves(IF offer THEN "offer" ELSE "locked", id, 0, "absent")
    BY <1>32, CallbackStartMoves
  <2>. QED BY <1>32, <2>3, CApiAssumption, CallIds
    DEF CallbackStart, tables, messages, media, history, objects, CallbackMoves, TableTypes,
        CApiTypeOK, Ids, CallTypes, CallsOK, CallFacts
<1>33. CASE UNCHANGED cVars
  BY <1>33
  DEF cVars, tables, messages, media, history, objects, TableTypes, CApiTypeOK, Ids, CallTypes,
      CallsOK, CallFacts
<1>. QED BY <1>1, <1>2, <1>3, <1>4, <1>5, <1>6, <1>7, <1>8, <1>9, <1>10, <1>11, <1>12, <1>13,
    <1>14, <1>15, <1>16, <1>17, <1>18, <1>19, <1>20, <1>21, <1>22, <1>23, <1>24, <1>25, <1>26,
    <1>27, <1>28, <1>29, <1>30, <1>31, <1>32, <1>33 DEF CStep
(* So are callbacks.                                                           *)
LEMMA CallbackStep == CBase /\ [CNext]_cVars => CallbackOK'
<1>. SUFFICES ASSUME TableTypes, CallTypes, MessageTypes, MediaTypes, CallShape, CallbackShape,
    PendingInv, CStep PROVE CallbackOK'
  BY CSteps DEF CBase
<1>1. ASSUME NEW t \in Threads, NEW op \in OpsOf(topic), NEW id \in Ids, Get(t, op, id) PROVE
    CallbackOK'
  <2>2. Moves(t, op, "got", id, 0)
    BY <1>1, GetMoves
  <2>. QED BY <1>1, <2>2, CApiAssumption, CallbackIds
    DEF Get, tables, messages, media, history, objects, Moves, StepsTo, TableTypes, CApiTypeOK,
        Known, CallTypes, CallbackOK, Ids, CallbackFacts
<1>2. ASSUME NEW t \in Threads, NEW k \in {"pc", "ws", "srv"}, installed' \in {installed,
    installed \cup {lastId'}}, CreateObject(t, k) PROVE CallbackOK'
  <2>1. EmplaceFacts(k, 0)
    BY <1>2, NewIdentifier, CApiAssumption DEF Channels, TableTypes, CApiTypeOK, CreateObject
  <2>2. inCallback' = inCallback
    BY <1>2 DEF CreateObject
  <2>. QED BY <2>1, <2>2, CApiAssumption DEF EmplaceFacts, CallTypes, CallbackOK, CallbackRecord
<1>3. ASSUME NEW t \in Threads, NEW id \in Ids, SetUserPointer(t, id, "p") PROVE CallbackOK'
  BY <1>3, CApiAssumption, CallbackIds
  DEF SetUserPointer, tables, messages, media, history, objects, TableTypes, CApiTypeOK, Known,
      CallTypes, CallbackOK, Ids, CallbackFacts
<1>4. ASSUME NEW t \in Threads, CleanupStart(t) PROVE CallbackOK'
  <2>2. Moves(t, "cleanup", "clearing", 0, 0)
    BY <1>4, CleanupStartMoves
  <2>. QED BY <1>4, <2>2, CApiAssumption, CallbackIds
    DEF CleanupStart, tables, messages, media, history, objects, Moves, StepsTo, TableTypes,
        CApiTypeOK, Known, CallTypes, CallbackOK, Ids, CallbackFacts
<1>5. ASSUME NEW t \in Threads, NEW k \in {"pc", "dc", "tr"}, Use(t, k) PROVE CallbackOK'
  <2>2. StepsTo(t, "release")
    BY <1>5, UseMoves
  <2>. QED BY <1>5, <2>2, CApiAssumption, CallbackIds
    DEF Use, In, Step, tables, messages, media, history, objects, Moves, StepsTo, TableTypes,
        CApiTypeOK, Known, CallTypes, CallbackOK, Ids, CallbackFacts
<1>6. ASSUME NEW t \in Threads, NEW kinds \in SUBSET {"pc", "dc", "ws", "tr"}, Install(t, kinds)
    PROVE CallbackOK'
  <2>2. StepsTo(t, "release")
    BY <1>6, InstallMoves
  <2>. QED BY <1>6, <2>2, CApiAssumption, CallbackIds
    DEF Install, In, Step, Quiet, tables, messages, media, history, objects, Moves, StepsTo,
        TableTypes, CApiTypeOK, Known, CallTypes, CallbackOK, Ids, CallbackFacts
<1>7. ASSUME NEW t \in Threads, NEW op \in {"channel", "track"}, NEW k \in {"dc", "tr"},
    NewChannel(t, op, k) PROVE CallbackOK'
  <2>1. EmplaceFacts(k, 0)
    BY <1>7, NewIdentifier, CApiAssumption DEF Channels, TableTypes, CApiTypeOK, NewChannel
  <2>2. Moves(t, call[t].op, "inherit", call[t].id, lastId')
    BY <1>7, NewChannelMoves
  <2>. QED BY <1>7, <2>1, <2>2, CApiAssumption, CallbackIds
    DEF NewChannel, In, Step, tables, messages, media, history, objects, Moves, StepsTo,
        EmplaceFacts, TableTypes, CApiTypeOK, Known, CallTypes, CallbackOK, Ids, CallbackFacts
<1>8. ASSUME NEW t \in Threads, InheritPointer(t) PROVE CallbackOK'
  <2>2. StepsTo(t, "release")
    BY <1>8, InheritPointerMoves
  <2>. QED BY <1>8, <2>2, CApiAssumption, CallbackIds
    DEF InheritPointer, Step, tables, messages, media, history, objects, Moves, StepsTo,
        TableTypes, CApiTypeOK, Known, CallTypes, CallbackOK, Ids, CallbackFacts
<1>9. ASSUME NEW t \in Threads, Peek(t) PROVE CallbackOK'
  <2>2. \/ queue[call[t].id] = <<>> /\ StepsTo(t, "release")
        \/ queue[call[t].id] # <<>> /\ Moves(t, "receive", IF Head(queue[call[t].id]) \in emptied THEN "empty" ELSE "peeked", call[t].id, Head(queue[call[t].id]))
    BY <1>9, PeekMoves
  <2>. QED BY <1>9, <2>2, CApiAssumption, CallbackIds
    DEF Peek, In, Step, tables, messages, media, history, objects, Moves, StepsTo, TableTypes,
        CApiTypeOK, Known, CallTypes, CallbackOK, Ids, CallbackFacts
<1>10. ASSUME NEW t \in Threads, Keep(t) PROVE CallbackOK'
  <2>2. StepsTo(t, "release")
    BY <1>10, KeepMoves
  <2>. QED BY <1>10, <2>2, CApiAssumption, CallbackIds
    DEF Keep, Step, tables, messages, media, history, objects, Moves, StepsTo, TableTypes,
        CApiTypeOK, Known, CallTypes, CallbackOK, Ids, CallbackFacts
<1>11. ASSUME NEW t \in Threads, Take(t) PROVE CallbackOK'
  <2>2. StepsTo(t, "release")
    BY <1>11, TakeMoves
  <2>. QED BY <1>11, <2>2, CApiAssumption, CallbackIds
    DEF Take, Step, tables, messages, media, history, objects, Moves, StepsTo, TableTypes,
        CApiTypeOK, Known, CallTypes, CallbackOK, Ids, CallbackFacts
<1>12. ASSUME NEW t \in Threads, StoreConfig(t) PROVE CallbackOK'
  <2>2. Moves(t, call[t].op, "stored", call[t].id, made'[call[t].id])
    BY <1>12, StoreConfigMoves
  <2>. QED BY <1>12, <2>2, CApiAssumption, CallbackIds
    DEF StoreConfig, NewConfig, In, tables, messages, media, history, objects, Moves, StepsTo,
        TableTypes, CApiTypeOK, Known, CallTypes, CallbackOK, Ids, CallbackFacts
<1>13. ASSUME NEW t \in Threads, OmitConfig(t) PROVE CallbackOK'
  <2>2. Moves(t, call[t].op, "stored", call[t].id, made'[call[t].id])
    BY <1>13, OmitConfigMoves
  <2>. QED BY <1>13, <2>2, CApiAssumption, CallbackIds
    DEF OmitConfig, NewConfig, In, tables, messages, media, history, objects, Moves, StepsTo,
        TableTypes, CApiTypeOK, Known, CallTypes, CallbackOK, Ids, CallbackFacts
<1>14. ASSUME NEW t \in Threads, SetPacketizer(t) PROVE CallbackOK'
  <2>2. StepsTo(t, "release")
    BY <1>14, SetPacketizerMoves
  <2>. QED BY <1>14, <2>2, CApiAssumption, CallbackIds
    DEF SetPacketizer, Step, tables, messages, media, history, objects, Moves, StepsTo,
        TableTypes, CApiTypeOK, Known, CallTypes, CallbackOK, Ids, CallbackFacts
<1>15. ASSUME NEW t \in Threads, FindConfig(t) PROVE CallbackOK'
  <2>2. \/ rtpConfigMap[call[t].id] = 0 /\ Moves(t, call[t].op, "release", call[t].id, 0)
        \/ rtpConfigMap[call[t].id] # 0 /\ Moves(t, call[t].op, "found", call[t].id, rtpConfigMap[call[t].id])
    BY <1>15, FindConfigMoves
  <2>. QED BY <1>15, <2>2, CApiAssumption, CallbackIds
    DEF FindConfig, In, tables, messages, media, history, objects, Moves, StepsTo, TableTypes,
        CApiTypeOK, Known, CallTypes, CallbackOK, Ids, CallbackFacts
<1>16. ASSUME NEW t \in Threads, ChainReporter(t) PROVE CallbackOK'
  <2>2. StepsTo(t, "release")
    BY <1>16, ChainReporterMoves
  <2>. QED BY <1>16, <2>2, CApiAssumption, CallbackIds
    DEF ChainReporter, Step, tables, messages, media, history, objects, Moves, StepsTo,
        TableTypes, CApiTypeOK, Known, CallTypes, CallbackOK, Ids, CallbackFacts
<1>17. ASSUME NEW t \in Threads, CloseChannel(t) PROVE CallbackOK'
  <2>2. \/ call[t].op = "delete" /\ StepsTo(t, "closed")
        \/ call[t].op # "delete" /\ StepsTo(t, "release")
    BY <1>17, CloseChannelMoves
  <2>. QED BY <1>17, <2>2, CApiAssumption, CallbackIds
    DEF CloseChannel, Step, Quiet, tables, messages, media, history, objects, Moves, StepsTo,
        TableTypes, CApiTypeOK, Known, CallTypes, CallbackOK, Ids, CallbackFacts
<1>18. ASSUME NEW t \in Threads, NEW force \in BOOLEAN, CloseWebSocket(t, force) PROVE CallbackOK'
  <2>2. \/ call[t].op = "delete" /\ StepsTo(t, "closed")
        \/ call[t].op # "delete" /\ StepsTo(t, "release")
    BY <1>18, CloseWebSocketMoves
  <2>. QED BY <1>18, <2>2, CApiAssumption, CallbackIds
    DEF CloseWebSocket, Step, Quiet, tables, messages, media, history, objects, Moves, StepsTo,
        TableTypes, CApiTypeOK, Known, CallTypes, CallbackOK, Ids, CallbackFacts
<1>19. ASSUME NEW t \in Threads, ClosePeerConnection(t) PROVE CallbackOK'
  <2>2. \/ call[t].op = "delete" /\ StepsTo(t, "closed")
        \/ call[t].op # "delete" /\ StepsTo(t, "release")
        \/ Moves(t, call[t].op, "resetting", call[t].id, 1)
    BY <1>19, ClosePeerConnectionMoves
  <2>. QED BY <1>19, <2>2, CApiAssumption, CallbackIds
    DEF ClosePeerConnection, Step, tables, messages, media, history, objects, Moves, StepsTo,
        TableTypes, CApiTypeOK, Known, CallTypes, CallbackOK, Ids, CallbackFacts
<1>20. ASSUME NEW t \in Threads, ResetCallbacks(t) PROVE CallbackOK'
  <2>2. \/ call[t].x = 1 /\ call[t].op = "delete" /\ StepsTo(t, "closed")
        \/ call[t].x = 1 /\ call[t].op # "delete" /\ StepsTo(t, "release")
        \/ call[t].x # 1 /\ Moves(t, "none", "none", 0, 0)
    BY <1>20, ResetCallbacksMoves
  <2>. QED BY <1>20, <2>2, CApiAssumption, CallbackIds
    DEF ResetCallbacks, Step, Quiet, tables, messages, media, history, objects, Moves, StepsTo,
        TableTypes, CApiTypeOK, Known, CallTypes, CallbackOK, Ids, CallbackFacts
<1>21. ASSUME NEW t \in Threads, StopServer(t) PROVE CallbackOK'
  <2>2. \/ t = Lib /\ StepsTo(t, "release")
        \/ t # Lib /\ StepsTo(t, "closed")
    BY <1>21, StopServerMoves
  <2>. QED BY <1>21, <2>2, CApiAssumption, CallbackIds
    DEF StopServer, In, Step, Quiet, tables, messages, media, history, objects, Moves, StepsTo,
        TableTypes, CApiTypeOK, Known, CallTypes, CallbackOK, Ids, CallbackFacts
<1>22. ASSUME NEW t \in Threads, Erase(t) PROVE CallbackOK'
  <2>2. \/ call[t].id \in table /\ StepsTo(t, "erased")
        \/ call[t].id \notin table /\ StepsTo(t, "release")
    BY <1>22, EraseMoves
  <2>. QED BY <1>22, <2>2, CApiAssumption, CallbackIds
    DEF Erase, In, Step, tables, messages, media, history, objects, Moves, StepsTo, TableTypes,
        CApiTypeOK, Known, CallTypes, CallbackOK, Ids, CallbackFacts
<1>23. ASSUME NEW t \in Threads, ReleaseRef(t) PROVE CallbackOK'
  <2>2. \/ call[t].id \notin table /\ LastRef(t, call[t].id) /\ kind[call[t].id] = "pc" /\ closer[call[t].id] = "open" /\ Moves(t, IF call[t].step = "erased" THEN "delete" ELSE "use", "resetting", call[t].id, 0)
        \/ Moves(t, "none", "none", 0, 0)
    BY <1>23, ReleaseRefMoves
  <2>. QED BY <1>23, <2>2, CApiAssumption, CallbackIds
    DEF ReleaseRef, LastRef, Quiet, Unwaited, tables, messages, media, history, objects, Moves,
        StepsTo, TableTypes, CApiTypeOK, Known, CallTypes, CallbackOK, Ids, CallbackFacts
<1>24. ASSUME NEW t \in Threads, EraseAll(t) PROVE CallbackOK'
  <2>2. Moves(t, "none", "none", 0, 0)
    BY <1>24, EraseAllMoves
  <2>. QED BY <1>24, <2>2, CApiAssumption, CallbackIds
    DEF EraseAll, LastRef, Quiet, Unwaited, tables, messages, media, history, objects, Moves,
        StepsTo, TableTypes, CApiTypeOK, Known, CallTypes, CallbackOK, Ids, CallbackFacts
<1>25. CASE CallbackEmplace
  <2>0. PICK k \in {"ws", "dc", "tr"} : Emplace(k, inCallback.id)
    BY <1>25 DEF CallbackEmplace
  <2>1. EmplaceFacts(k, inCallback.id)
    BY <1>25, <2>0, NewIdentifier, CApiAssumption DEF Channels, TableTypes, CApiTypeOK,
        CallbackEmplace, CallTypes, CallbackOK, CallbackRecord
  <2>3. CallbackMoves("locked", inCallback.id, lastId', inCallback.ptr)
    BY <1>25, <2>0, CallbackEmplaceMoves DEF Channels
  <2>. QED BY <1>25, <2>1, <2>3, CApiAssumption, CallbackIds
    DEF CallbackEmplace, tables, messages, media, history, objects, EmplaceFacts, CallbackMoves,
        TableTypes, CApiTypeOK, Known, CallTypes, CallbackOK, Ids, CallbackFacts
<1>26. CASE CallbackCheck
  <2>3. \/ userPointerMap[inCallback.id] = "absent" /\ CallbackMoves("idle", 0, 0, "absent")
       \/ /\ userPointerMap[inCallback.id] # "absent"
          /\ CallbackMoves(IF inCallback.new = 0 THEN "running" ELSE "inherit", inCallback.id,
                           inCallback.new, userPointerMap[inCallback.id])
    BY <1>26, CallbackCheckMoves
  <2>. QED BY <1>26, <2>3, CApiAssumption, CallbackIds
    DEF CallbackCheck, tables, messages, media, history, objects, CallbackMoves, TableTypes,
        CApiTypeOK, Known, CallTypes, CallbackOK, Ids, CallbackFacts
<1>27. CASE CallbackInherit
  <2>3. CallbackMoves("running", inCallback.id, inCallback.new, inCallback.ptr)
    BY <1>27, CallbackInheritMoves
  <2>. QED BY <1>27, <2>3, CApiAssumption, CallbackIds
    DEF CallbackInherit, tables, messages, media, history, objects, CallbackMoves, TableTypes,
        CApiTypeOK, Known, CallTypes, CallbackOK, Ids, CallbackFacts
<1>28. CASE CallbackReturn
  <2>3. CallbackMoves("idle", 0, 0, "absent")
    BY <1>28, CallbackReturnMoves
  <2>. QED BY <1>28, <2>3, CApiAssumption, CallbackIds
    DEF CallbackReturn, tables, messages, media, history, objects, CallbackMoves, TableTypes,
        CApiTypeOK, Known, CallTypes, CallbackOK, Ids, CallbackFacts
<1>29. ASSUME NEW id \in Ids, Arrive(id) PROVE CallbackOK'
  BY <1>29, CApiAssumption, CallbackIds
  DEF Arrive, tables, messages, media, history, objects, TableTypes, CApiTypeOK, Known, CallTypes,
      CallbackOK, Ids, CallbackFacts
<1>30. ASSUME NEW id \in Ids, RemoteShut(id) PROVE CallbackOK'
  BY <1>30, CApiAssumption, CallbackIds
  DEF RemoteShut, tables, messages, media, history, objects, TableTypes, CApiTypeOK, Known,
      CallTypes, CallbackOK, Ids, CallbackFacts
<1>31. ASSUME NEW id \in Ids, RemoteReset(id) PROVE CallbackOK'
  BY <1>31, CApiAssumption, CallbackIds
  DEF RemoteReset, tables, messages, media, history, objects, TableTypes, CApiTypeOK, Known,
      CallTypes, CallbackOK, Ids, CallbackFacts
<1>32. ASSUME NEW id \in Ids, NEW offer \in BOOLEAN, CallbackStart(id, offer) PROVE CallbackOK'
  <2>3. CallbackMoves(IF offer THEN "offer" ELSE "locked", id, 0, "absent")
    BY <1>32, CallbackStartMoves
  <2>. QED BY <1>32, <2>3, CApiAssumption, CallbackIds
    DEF CallbackStart, tables, messages, media, history, objects, CallbackMoves, TableTypes,
        CApiTypeOK, Known, CallTypes, CallbackOK, Ids, CallbackFacts
<1>33. CASE UNCHANGED cVars
  BY <1>33
  DEF cVars, tables, messages, media, history, objects, TableTypes, CApiTypeOK, Known, CallTypes,
      CallbackOK, Ids, CallbackFacts
<1>. QED BY <1>1, <1>2, <1>3, <1>4, <1>5, <1>6, <1>7, <1>8, <1>9, <1>10, <1>11, <1>12, <1>13,
    <1>14, <1>15, <1>16, <1>17, <1>18, <1>19, <1>20, <1>21, <1>22, <1>23, <1>24, <1>25, <1>26,
    <1>27, <1>28, <1>29, <1>30, <1>31, <1>32, <1>33 DEF CStep
(* Messages are numbers.                                                       *)
LEMMA MessageStep == CBase /\ [CNext]_cVars => MessageTypes'
<1>. SUFFICES ASSUME TableTypes, CallTypes, MessageTypes, MediaTypes, CallShape, CallbackShape,
    PendingInv, CStep PROVE MessageTypes'
  BY CSteps DEF CBase
<1>1. ASSUME NEW t \in Threads, NEW op \in OpsOf(topic), NEW id \in Ids, Get(t, op, id) PROVE
    MessageTypes'
  <2>2. Moves(t, op, "got", id, 0)
    BY <1>1, GetMoves
  <2>. QED BY <1>1, <2>2, CApiAssumption, CallIds
    DEF Get, tables, messages, media, history, objects, Moves, StepsTo, MessageTypes, CallFacts
<1>2. ASSUME NEW t \in Threads, NEW k \in {"pc", "ws", "srv"}, installed' \in {installed,
    installed \cup {lastId'}}, CreateObject(t, k) PROVE MessageTypes'
  <2>1. EmplaceFacts(k, 0)
    BY <1>2, NewIdentifier, CApiAssumption DEF Channels, TableTypes, CApiTypeOK, CreateObject
  <2>. QED BY <1>2, <2>1, CApiAssumption, CallIds
    DEF CreateObject, tables, messages, media, history, objects, EmplaceFacts, MessageTypes,
        CallFacts
<1>3. ASSUME NEW t \in Threads, NEW id \in Ids, SetUserPointer(t, id, "p") PROVE MessageTypes'
  BY <1>3, CApiAssumption, CallIds
  DEF SetUserPointer, tables, messages, media, history, objects, MessageTypes, CallFacts
<1>4. ASSUME NEW t \in Threads, CleanupStart(t) PROVE MessageTypes'
  <2>2. Moves(t, "cleanup", "clearing", 0, 0)
    BY <1>4, CleanupStartMoves
  <2>. QED BY <1>4, <2>2, CApiAssumption, CallIds
    DEF CleanupStart, tables, messages, media, history, objects, Moves, StepsTo, MessageTypes,
        CallFacts
<1>5. ASSUME NEW t \in Threads, NEW k \in {"pc", "dc", "tr"}, Use(t, k) PROVE MessageTypes'
  <2>2. StepsTo(t, "release")
    BY <1>5, UseMoves
  <2>. QED BY <1>5, <2>2, CApiAssumption, CallIds
    DEF Use, In, Step, tables, messages, media, history, objects, Moves, StepsTo, MessageTypes,
        CallFacts
<1>6. ASSUME NEW t \in Threads, NEW kinds \in SUBSET {"pc", "dc", "ws", "tr"}, Install(t, kinds)
    PROVE MessageTypes'
  <2>2. StepsTo(t, "release")
    BY <1>6, InstallMoves
  <2>. QED BY <1>6, <2>2, CApiAssumption, CallIds
    DEF Install, In, Step, Quiet, tables, messages, media, history, objects, Moves, StepsTo,
        MessageTypes, CallFacts
<1>7. ASSUME NEW t \in Threads, NEW op \in {"channel", "track"}, NEW k \in {"dc", "tr"},
    NewChannel(t, op, k) PROVE MessageTypes'
  <2>1. EmplaceFacts(k, 0)
    BY <1>7, NewIdentifier, CApiAssumption DEF Channels, TableTypes, CApiTypeOK, NewChannel
  <2>2. Moves(t, call[t].op, "inherit", call[t].id, lastId')
    BY <1>7, NewChannelMoves
  <2>. QED BY <1>7, <2>1, <2>2, CApiAssumption, CallIds
    DEF NewChannel, In, Step, tables, messages, media, history, objects, Moves, StepsTo,
        EmplaceFacts, MessageTypes, CallFacts
<1>8. ASSUME NEW t \in Threads, InheritPointer(t) PROVE MessageTypes'
  <2>2. StepsTo(t, "release")
    BY <1>8, InheritPointerMoves
  <2>. QED BY <1>8, <2>2, CApiAssumption, CallIds
    DEF InheritPointer, Step, tables, messages, media, history, objects, Moves, StepsTo,
        MessageTypes, CallFacts
<1>9. ASSUME NEW t \in Threads, Peek(t) PROVE MessageTypes'
  <2>2. \/ queue[call[t].id] = <<>> /\ StepsTo(t, "release")
        \/ queue[call[t].id] # <<>> /\ Moves(t, "receive", IF Head(queue[call[t].id]) \in emptied THEN "empty" ELSE "peeked", call[t].id, Head(queue[call[t].id]))
    BY <1>9, PeekMoves
  <2>4. emptied' \subseteq Nat
    <3>1. call[t].id \in Ids
      BY <1>9, CallIds DEF Peek, In, CallFacts
    <3>2. queue[call[t].id] # <<>> => Head(queue[call[t].id]) \in Nat
      BY <3>1 DEF MessageTypes
    <3>3. queue[call[t].id] = <<>> => emptied' = emptied
      BY <1>9 DEF Peek
    <3>4. queue[call[t].id] # <<>> => emptied' \subseteq emptied \cup {Head(queue[call[t].id])}
      BY <1>9 DEF Peek
    <3>. QED BY <3>2, <3>3, <3>4 DEF MessageTypes
  <2>. QED BY <1>9, <2>4 DEF Peek, MessageTypes
<1>10. ASSUME NEW t \in Threads, Keep(t) PROVE MessageTypes'
  <2>2. StepsTo(t, "release")
    BY <1>10, KeepMoves
  <2>. QED BY <1>10, <2>2, CApiAssumption, CallIds
    DEF Keep, Step, tables, messages, media, history, objects, Moves, StepsTo, MessageTypes,
        CallFacts
<1>11. ASSUME NEW t \in Threads, Take(t) PROVE MessageTypes'
  <2>2. StepsTo(t, "release")
    BY <1>11, TakeMoves
  <2>4. call[t].x \in Nat /\ call[t].id \in Ids
    BY <1>11, CallIds DEF Take, CallFacts
  <2>5. got' \in Seq(Nat \X BOOLEAN)
    <3>. DEFINE e == <<call[t].x, call[t].step = "peeked">>
    <3>1. e \in Nat \X BOOLEAN
      BY <2>4
    <3>2. got' = Append(got, e)
      BY <1>11 DEF Take
    <3>. HIDE DEF e
    <3>. QED BY <3>1, <3>2 DEF MessageTypes
  <2>6. queue' \in [Ids -> Seq(Nat)]
    BY <1>11, <2>4 DEF Take, MessageTypes
  <2>. QED BY <1>11, <2>5, <2>6 DEF Take, MessageTypes
<1>12. ASSUME NEW t \in Threads, StoreConfig(t) PROVE MessageTypes'
  <2>2. Moves(t, call[t].op, "stored", call[t].id, made'[call[t].id])
    BY <1>12, StoreConfigMoves
  <2>. QED BY <1>12, <2>2, CApiAssumption, CallIds
    DEF StoreConfig, NewConfig, In, tables, messages, media, history, objects, Moves, StepsTo,
        MessageTypes, CallFacts
<1>13. ASSUME NEW t \in Threads, OmitConfig(t) PROVE MessageTypes'
  <2>2. Moves(t, call[t].op, "stored", call[t].id, made'[call[t].id])
    BY <1>13, OmitConfigMoves
  <2>. QED BY <1>13, <2>2, CApiAssumption, CallIds
    DEF OmitConfig, NewConfig, In, tables, messages, media, history, objects, Moves, StepsTo,
        MessageTypes, CallFacts
<1>14. ASSUME NEW t \in Threads, SetPacketizer(t) PROVE MessageTypes'
  <2>2. StepsTo(t, "release")
    BY <1>14, SetPacketizerMoves
  <2>. QED BY <1>14, <2>2, CApiAssumption, CallIds
    DEF SetPacketizer, Step, tables, messages, media, history, objects, Moves, StepsTo,
        MessageTypes, CallFacts
<1>15. ASSUME NEW t \in Threads, FindConfig(t) PROVE MessageTypes'
  <2>2. \/ rtpConfigMap[call[t].id] = 0 /\ Moves(t, call[t].op, "release", call[t].id, 0)
        \/ rtpConfigMap[call[t].id] # 0 /\ Moves(t, call[t].op, "found", call[t].id, rtpConfigMap[call[t].id])
    BY <1>15, FindConfigMoves
  <2>. QED BY <1>15, <2>2, CApiAssumption, CallIds
    DEF FindConfig, In, tables, messages, media, history, objects, Moves, StepsTo, MessageTypes,
        CallFacts
<1>16. ASSUME NEW t \in Threads, ChainReporter(t) PROVE MessageTypes'
  <2>2. StepsTo(t, "release")
    BY <1>16, ChainReporterMoves
  <2>. QED BY <1>16, <2>2, CApiAssumption, CallIds
    DEF ChainReporter, Step, tables, messages, media, history, objects, Moves, StepsTo,
        MessageTypes, CallFacts
<1>17. ASSUME NEW t \in Threads, CloseChannel(t) PROVE MessageTypes'
  <2>2. \/ call[t].op = "delete" /\ StepsTo(t, "closed")
        \/ call[t].op # "delete" /\ StepsTo(t, "release")
    BY <1>17, CloseChannelMoves
  <2>. QED BY <1>17, <2>2, CApiAssumption, CallIds
    DEF CloseChannel, Step, Quiet, tables, messages, media, history, objects, Moves, StepsTo,
        MessageTypes, CallFacts
<1>18. ASSUME NEW t \in Threads, NEW force \in BOOLEAN, CloseWebSocket(t, force) PROVE
    MessageTypes'
  <2>2. \/ call[t].op = "delete" /\ StepsTo(t, "closed")
        \/ call[t].op # "delete" /\ StepsTo(t, "release")
    BY <1>18, CloseWebSocketMoves
  <2>. QED BY <1>18, <2>2, CApiAssumption, CallIds
    DEF CloseWebSocket, Step, Quiet, tables, messages, media, history, objects, Moves, StepsTo,
        MessageTypes, CallFacts
<1>19. ASSUME NEW t \in Threads, ClosePeerConnection(t) PROVE MessageTypes'
  <2>2. \/ call[t].op = "delete" /\ StepsTo(t, "closed")
        \/ call[t].op # "delete" /\ StepsTo(t, "release")
        \/ Moves(t, call[t].op, "resetting", call[t].id, 1)
    BY <1>19, ClosePeerConnectionMoves
  <2>. QED BY <1>19, <2>2, CApiAssumption, CallIds
    DEF ClosePeerConnection, Step, tables, messages, media, history, objects, Moves, StepsTo,
        MessageTypes, CallFacts
<1>20. ASSUME NEW t \in Threads, ResetCallbacks(t) PROVE MessageTypes'
  <2>2. \/ call[t].x = 1 /\ call[t].op = "delete" /\ StepsTo(t, "closed")
        \/ call[t].x = 1 /\ call[t].op # "delete" /\ StepsTo(t, "release")
        \/ call[t].x # 1 /\ Moves(t, "none", "none", 0, 0)
    BY <1>20, ResetCallbacksMoves
  <2>. QED BY <1>20, <2>2, CApiAssumption, CallIds
    DEF ResetCallbacks, Step, Quiet, tables, messages, media, history, objects, Moves, StepsTo,
        MessageTypes, CallFacts
<1>21. ASSUME NEW t \in Threads, StopServer(t) PROVE MessageTypes'
  <2>2. \/ t = Lib /\ StepsTo(t, "release")
        \/ t # Lib /\ StepsTo(t, "closed")
    BY <1>21, StopServerMoves
  <2>. QED BY <1>21, <2>2, CApiAssumption, CallIds
    DEF StopServer, In, Step, Quiet, tables, messages, media, history, objects, Moves, StepsTo,
        MessageTypes, CallFacts
<1>22. ASSUME NEW t \in Threads, Erase(t) PROVE MessageTypes'
  <2>2. \/ call[t].id \in table /\ StepsTo(t, "erased")
        \/ call[t].id \notin table /\ StepsTo(t, "release")
    BY <1>22, EraseMoves
  <2>. QED BY <1>22, <2>2, CApiAssumption, CallIds
    DEF Erase, In, Step, tables, messages, media, history, objects, Moves, StepsTo, MessageTypes,
        CallFacts
<1>23. ASSUME NEW t \in Threads, ReleaseRef(t) PROVE MessageTypes'
  <2>2. \/ call[t].id \notin table /\ LastRef(t, call[t].id) /\ kind[call[t].id] = "pc" /\ closer[call[t].id] = "open" /\ Moves(t, IF call[t].step = "erased" THEN "delete" ELSE "use", "resetting", call[t].id, 0)
        \/ Moves(t, "none", "none", 0, 0)
    BY <1>23, ReleaseRefMoves
  <2>. QED BY <1>23, <2>2, CApiAssumption, CallIds
    DEF ReleaseRef, LastRef, Quiet, Unwaited, tables, messages, media, history, objects, Moves,
        StepsTo, MessageTypes, CallFacts
<1>24. ASSUME NEW t \in Threads, EraseAll(t) PROVE MessageTypes'
  <2>2. Moves(t, "none", "none", 0, 0)
    BY <1>24, EraseAllMoves
  <2>. QED BY <1>24, <2>2, CApiAssumption, CallIds
    DEF EraseAll, LastRef, Quiet, Unwaited, tables, messages, media, history, objects, Moves,
        StepsTo, MessageTypes, CallFacts
<1>25. CASE CallbackEmplace
  <2>0. PICK k \in {"ws", "dc", "tr"} : Emplace(k, inCallback.id)
    BY <1>25 DEF CallbackEmplace
  <2>1. EmplaceFacts(k, inCallback.id)
    BY <1>25, <2>0, NewIdentifier, CApiAssumption DEF Channels, TableTypes, CApiTypeOK,
        CallbackEmplace, CallTypes, CallbackOK, CallbackRecord
  <2>3. CallbackMoves("locked", inCallback.id, lastId', inCallback.ptr)
    BY <1>25, <2>0, CallbackEmplaceMoves DEF Channels
  <2>. QED BY <1>25, <2>1, <2>3, CApiAssumption, CallIds
    DEF CallbackEmplace, tables, messages, media, history, objects, EmplaceFacts, CallbackMoves,
        MessageTypes, CallFacts
<1>26. CASE CallbackCheck
  <2>3. \/ userPointerMap[inCallback.id] = "absent" /\ CallbackMoves("idle", 0, 0, "absent")
       \/ /\ userPointerMap[inCallback.id] # "absent"
          /\ CallbackMoves(IF inCallback.new = 0 THEN "running" ELSE "inherit", inCallback.id,
                           inCallback.new, userPointerMap[inCallback.id])
    BY <1>26, CallbackCheckMoves
  <2>. QED BY <1>26, <2>3, CApiAssumption, CallIds
    DEF CallbackCheck, tables, messages, media, history, objects, CallbackMoves, MessageTypes,
        CallFacts
<1>27. CASE CallbackInherit
  <2>3. CallbackMoves("running", inCallback.id, inCallback.new, inCallback.ptr)
    BY <1>27, CallbackInheritMoves
  <2>. QED BY <1>27, <2>3, CApiAssumption, CallIds
    DEF CallbackInherit, tables, messages, media, history, objects, CallbackMoves, MessageTypes,
        CallFacts
<1>28. CASE CallbackReturn
  <2>3. CallbackMoves("idle", 0, 0, "absent")
    BY <1>28, CallbackReturnMoves
  <2>. QED BY <1>28, <2>3, CApiAssumption, CallIds
    DEF CallbackReturn, tables, messages, media, history, objects, CallbackMoves, MessageTypes,
        CallFacts
<1>29. ASSUME NEW id \in Ids, Arrive(id) PROVE MessageTypes'
  BY <1>29, CApiAssumption, CallIds
  DEF Arrive, tables, messages, media, history, objects, MessageTypes, CallFacts
<1>30. ASSUME NEW id \in Ids, RemoteShut(id) PROVE MessageTypes'
  BY <1>30, CApiAssumption, CallIds
  DEF RemoteShut, tables, messages, media, history, objects, MessageTypes, CallFacts
<1>31. ASSUME NEW id \in Ids, RemoteReset(id) PROVE MessageTypes'
  BY <1>31, CApiAssumption, CallIds
  DEF RemoteReset, tables, messages, media, history, objects, MessageTypes, CallFacts
<1>32. ASSUME NEW id \in Ids, NEW offer \in BOOLEAN, CallbackStart(id, offer) PROVE MessageTypes'
  <2>3. CallbackMoves(IF offer THEN "offer" ELSE "locked", id, 0, "absent")
    BY <1>32, CallbackStartMoves
  <2>. QED BY <1>32, <2>3, CApiAssumption, CallIds
    DEF CallbackStart, tables, messages, media, history, objects, CallbackMoves, MessageTypes,
        CallFacts
<1>33. CASE UNCHANGED cVars
  BY <1>33
  DEF cVars, tables, messages, media, history, objects, MessageTypes, CallFacts
<1>. QED BY <1>1, <1>2, <1>3, <1>4, <1>5, <1>6, <1>7, <1>8, <1>9, <1>10, <1>11, <1>12, <1>13,
    <1>14, <1>15, <1>16, <1>17, <1>18, <1>19, <1>20, <1>21, <1>22, <1>23, <1>24, <1>25, <1>26,
    <1>27, <1>28, <1>29, <1>30, <1>31, <1>32, <1>33 DEF CStep
(* Configurations are numbers.                                                 *)
LEMMA MediaStep == CBase /\ [CNext]_cVars => MediaTypes'
<1>. SUFFICES ASSUME TableTypes, CallTypes, MessageTypes, MediaTypes, CallShape, CallbackShape,
    PendingInv, CStep PROVE MediaTypes'
  BY CSteps DEF CBase
<1>1. ASSUME NEW t \in Threads, NEW op \in OpsOf(topic), NEW id \in Ids, Get(t, op, id) PROVE
    MediaTypes'
  <2>2. Moves(t, op, "got", id, 0)
    BY <1>1, GetMoves
  <2>. QED BY <1>1, <2>2, CApiAssumption, CallIds
    DEF Get, tables, messages, media, history, objects, Moves, StepsTo, MediaTypes, CallFacts
<1>2. ASSUME NEW t \in Threads, NEW k \in {"pc", "ws", "srv"}, installed' \in {installed,
    installed \cup {lastId'}}, CreateObject(t, k) PROVE MediaTypes'
  <2>1. EmplaceFacts(k, 0)
    BY <1>2, NewIdentifier, CApiAssumption DEF Channels, TableTypes, CApiTypeOK, CreateObject
  <2>. QED BY <1>2, <2>1, CApiAssumption, CallIds
    DEF CreateObject, tables, messages, media, history, objects, EmplaceFacts, MediaTypes,
        CallFacts
<1>3. ASSUME NEW t \in Threads, NEW id \in Ids, SetUserPointer(t, id, "p") PROVE MediaTypes'
  BY <1>3, CApiAssumption, CallIds
  DEF SetUserPointer, tables, messages, media, history, objects, MediaTypes, CallFacts
<1>4. ASSUME NEW t \in Threads, CleanupStart(t) PROVE MediaTypes'
  <2>2. Moves(t, "cleanup", "clearing", 0, 0)
    BY <1>4, CleanupStartMoves
  <2>. QED BY <1>4, <2>2, CApiAssumption, CallIds
    DEF CleanupStart, tables, messages, media, history, objects, Moves, StepsTo, MediaTypes,
        CallFacts
<1>5. ASSUME NEW t \in Threads, NEW k \in {"pc", "dc", "tr"}, Use(t, k) PROVE MediaTypes'
  <2>2. StepsTo(t, "release")
    BY <1>5, UseMoves
  <2>. QED BY <1>5, <2>2, CApiAssumption, CallIds
    DEF Use, In, Step, tables, messages, media, history, objects, Moves, StepsTo, MediaTypes,
        CallFacts
<1>6. ASSUME NEW t \in Threads, NEW kinds \in SUBSET {"pc", "dc", "ws", "tr"}, Install(t, kinds)
    PROVE MediaTypes'
  <2>2. StepsTo(t, "release")
    BY <1>6, InstallMoves
  <2>. QED BY <1>6, <2>2, CApiAssumption, CallIds
    DEF Install, In, Step, Quiet, tables, messages, media, history, objects, Moves, StepsTo,
        MediaTypes, CallFacts
<1>7. ASSUME NEW t \in Threads, NEW op \in {"channel", "track"}, NEW k \in {"dc", "tr"},
    NewChannel(t, op, k) PROVE MediaTypes'
  <2>1. EmplaceFacts(k, 0)
    BY <1>7, NewIdentifier, CApiAssumption DEF Channels, TableTypes, CApiTypeOK, NewChannel
  <2>2. Moves(t, call[t].op, "inherit", call[t].id, lastId')
    BY <1>7, NewChannelMoves
  <2>. QED BY <1>7, <2>1, <2>2, CApiAssumption, CallIds
    DEF NewChannel, In, Step, tables, messages, media, history, objects, Moves, StepsTo,
        EmplaceFacts, MediaTypes, CallFacts
<1>8. ASSUME NEW t \in Threads, InheritPointer(t) PROVE MediaTypes'
  <2>2. StepsTo(t, "release")
    BY <1>8, InheritPointerMoves
  <2>. QED BY <1>8, <2>2, CApiAssumption, CallIds
    DEF InheritPointer, Step, tables, messages, media, history, objects, Moves, StepsTo,
        MediaTypes, CallFacts
<1>9. ASSUME NEW t \in Threads, Peek(t) PROVE MediaTypes'
  <2>2. \/ queue[call[t].id] = <<>> /\ StepsTo(t, "release")
        \/ queue[call[t].id] # <<>> /\ Moves(t, "receive", IF Head(queue[call[t].id]) \in emptied THEN "empty" ELSE "peeked", call[t].id, Head(queue[call[t].id]))
    BY <1>9, PeekMoves
  <2>. QED BY <1>9, <2>2, CApiAssumption, CallIds
    DEF Peek, In, Step, tables, messages, media, history, objects, Moves, StepsTo, MediaTypes,
        CallFacts
<1>10. ASSUME NEW t \in Threads, Keep(t) PROVE MediaTypes'
  <2>2. StepsTo(t, "release")
    BY <1>10, KeepMoves
  <2>. QED BY <1>10, <2>2, CApiAssumption, CallIds
    DEF Keep, Step, tables, messages, media, history, objects, Moves, StepsTo, MediaTypes,
        CallFacts
<1>11. ASSUME NEW t \in Threads, Take(t) PROVE MediaTypes'
  <2>2. StepsTo(t, "release")
    BY <1>11, TakeMoves
  <2>. QED BY <1>11, <2>2, CApiAssumption, CallIds
    DEF Take, Step, tables, messages, media, history, objects, Moves, StepsTo, MediaTypes,
        CallFacts
<1>12. ASSUME NEW t \in Threads, StoreConfig(t) PROVE MediaTypes'
  <2>2. Moves(t, call[t].op, "stored", call[t].id, made'[call[t].id])
    BY <1>12, StoreConfigMoves
  <2>. QED BY <1>12, <2>2, CApiAssumption, CallIds
    DEF StoreConfig, NewConfig, In, tables, messages, media, history, objects, Moves, StepsTo,
        MediaTypes, CallFacts
<1>13. ASSUME NEW t \in Threads, OmitConfig(t) PROVE MediaTypes'
  <2>2. Moves(t, call[t].op, "stored", call[t].id, made'[call[t].id])
    BY <1>13, OmitConfigMoves
  <2>. QED BY <1>13, <2>2, CApiAssumption, CallIds
    DEF OmitConfig, NewConfig, In, tables, messages, media, history, objects, Moves, StepsTo,
        MediaTypes, CallFacts
<1>14. ASSUME NEW t \in Threads, SetPacketizer(t) PROVE MediaTypes'
  <2>2. StepsTo(t, "release")
    BY <1>14, SetPacketizerMoves
  <2>. QED BY <1>14, <2>2, CApiAssumption, CallIds
    DEF SetPacketizer, Step, tables, messages, media, history, objects, Moves, StepsTo,
        MediaTypes, CallFacts
<1>15. ASSUME NEW t \in Threads, FindConfig(t) PROVE MediaTypes'
  <2>2. \/ rtpConfigMap[call[t].id] = 0 /\ Moves(t, call[t].op, "release", call[t].id, 0)
        \/ rtpConfigMap[call[t].id] # 0 /\ Moves(t, call[t].op, "found", call[t].id, rtpConfigMap[call[t].id])
    BY <1>15, FindConfigMoves
  <2>. QED BY <1>15, <2>2, CApiAssumption, CallIds
    DEF FindConfig, In, tables, messages, media, history, objects, Moves, StepsTo, MediaTypes,
        CallFacts
<1>16. ASSUME NEW t \in Threads, ChainReporter(t) PROVE MediaTypes'
  <2>2. StepsTo(t, "release")
    BY <1>16, ChainReporterMoves
  <2>. QED BY <1>16, <2>2, CApiAssumption, CallIds
    DEF ChainReporter, Step, tables, messages, media, history, objects, Moves, StepsTo,
        MediaTypes, CallFacts
<1>17. ASSUME NEW t \in Threads, CloseChannel(t) PROVE MediaTypes'
  <2>2. \/ call[t].op = "delete" /\ StepsTo(t, "closed")
        \/ call[t].op # "delete" /\ StepsTo(t, "release")
    BY <1>17, CloseChannelMoves
  <2>. QED BY <1>17, <2>2, CApiAssumption, CallIds
    DEF CloseChannel, Step, Quiet, tables, messages, media, history, objects, Moves, StepsTo,
        MediaTypes, CallFacts
<1>18. ASSUME NEW t \in Threads, NEW force \in BOOLEAN, CloseWebSocket(t, force) PROVE MediaTypes'
  <2>2. \/ call[t].op = "delete" /\ StepsTo(t, "closed")
        \/ call[t].op # "delete" /\ StepsTo(t, "release")
    BY <1>18, CloseWebSocketMoves
  <2>. QED BY <1>18, <2>2, CApiAssumption, CallIds
    DEF CloseWebSocket, Step, Quiet, tables, messages, media, history, objects, Moves, StepsTo,
        MediaTypes, CallFacts
<1>19. ASSUME NEW t \in Threads, ClosePeerConnection(t) PROVE MediaTypes'
  <2>2. \/ call[t].op = "delete" /\ StepsTo(t, "closed")
        \/ call[t].op # "delete" /\ StepsTo(t, "release")
        \/ Moves(t, call[t].op, "resetting", call[t].id, 1)
    BY <1>19, ClosePeerConnectionMoves
  <2>. QED BY <1>19, <2>2, CApiAssumption, CallIds
    DEF ClosePeerConnection, Step, tables, messages, media, history, objects, Moves, StepsTo,
        MediaTypes, CallFacts
<1>20. ASSUME NEW t \in Threads, ResetCallbacks(t) PROVE MediaTypes'
  <2>2. \/ call[t].x = 1 /\ call[t].op = "delete" /\ StepsTo(t, "closed")
        \/ call[t].x = 1 /\ call[t].op # "delete" /\ StepsTo(t, "release")
        \/ call[t].x # 1 /\ Moves(t, "none", "none", 0, 0)
    BY <1>20, ResetCallbacksMoves
  <2>. QED BY <1>20, <2>2, CApiAssumption, CallIds
    DEF ResetCallbacks, Step, Quiet, tables, messages, media, history, objects, Moves, StepsTo,
        MediaTypes, CallFacts
<1>21. ASSUME NEW t \in Threads, StopServer(t) PROVE MediaTypes'
  <2>2. \/ t = Lib /\ StepsTo(t, "release")
        \/ t # Lib /\ StepsTo(t, "closed")
    BY <1>21, StopServerMoves
  <2>. QED BY <1>21, <2>2, CApiAssumption, CallIds
    DEF StopServer, In, Step, Quiet, tables, messages, media, history, objects, Moves, StepsTo,
        MediaTypes, CallFacts
<1>22. ASSUME NEW t \in Threads, Erase(t) PROVE MediaTypes'
  <2>2. \/ call[t].id \in table /\ StepsTo(t, "erased")
        \/ call[t].id \notin table /\ StepsTo(t, "release")
    BY <1>22, EraseMoves
  <2>. QED BY <1>22, <2>2, CApiAssumption, CallIds
    DEF Erase, In, Step, tables, messages, media, history, objects, Moves, StepsTo, MediaTypes,
        CallFacts
<1>23. ASSUME NEW t \in Threads, ReleaseRef(t) PROVE MediaTypes'
  <2>2. \/ call[t].id \notin table /\ LastRef(t, call[t].id) /\ kind[call[t].id] = "pc" /\ closer[call[t].id] = "open" /\ Moves(t, IF call[t].step = "erased" THEN "delete" ELSE "use", "resetting", call[t].id, 0)
        \/ Moves(t, "none", "none", 0, 0)
    BY <1>23, ReleaseRefMoves
  <2>. QED BY <1>23, <2>2, CApiAssumption, CallIds
    DEF ReleaseRef, LastRef, Quiet, Unwaited, tables, messages, media, history, objects, Moves,
        StepsTo, MediaTypes, CallFacts
<1>24. ASSUME NEW t \in Threads, EraseAll(t) PROVE MediaTypes'
  <2>2. Moves(t, "none", "none", 0, 0)
    BY <1>24, EraseAllMoves
  <2>. QED BY <1>24, <2>2, CApiAssumption, CallIds
    DEF EraseAll, LastRef, Quiet, Unwaited, tables, messages, media, history, objects, Moves,
        StepsTo, MediaTypes, CallFacts
<1>25. CASE CallbackEmplace
  <2>0. PICK k \in {"ws", "dc", "tr"} : Emplace(k, inCallback.id)
    BY <1>25 DEF CallbackEmplace
  <2>1. EmplaceFacts(k, inCallback.id)
    BY <1>25, <2>0, NewIdentifier, CApiAssumption DEF Channels, TableTypes, CApiTypeOK,
        CallbackEmplace, CallTypes, CallbackOK, CallbackRecord
  <2>3. CallbackMoves("locked", inCallback.id, lastId', inCallback.ptr)
    BY <1>25, <2>0, CallbackEmplaceMoves DEF Channels
  <2>. QED BY <1>25, <2>1, <2>3, CApiAssumption, CallIds
    DEF CallbackEmplace, tables, messages, media, history, objects, EmplaceFacts, CallbackMoves,
        MediaTypes, CallFacts
<1>26. CASE CallbackCheck
  <2>3. \/ userPointerMap[inCallback.id] = "absent" /\ CallbackMoves("idle", 0, 0, "absent")
       \/ /\ userPointerMap[inCallback.id] # "absent"
          /\ CallbackMoves(IF inCallback.new = 0 THEN "running" ELSE "inherit", inCallback.id,
                           inCallback.new, userPointerMap[inCallback.id])
    BY <1>26, CallbackCheckMoves
  <2>. QED BY <1>26, <2>3, CApiAssumption, CallIds
    DEF CallbackCheck, tables, messages, media, history, objects, CallbackMoves, MediaTypes,
        CallFacts
<1>27. CASE CallbackInherit
  <2>3. CallbackMoves("running", inCallback.id, inCallback.new, inCallback.ptr)
    BY <1>27, CallbackInheritMoves
  <2>. QED BY <1>27, <2>3, CApiAssumption, CallIds
    DEF CallbackInherit, tables, messages, media, history, objects, CallbackMoves, MediaTypes,
        CallFacts
<1>28. CASE CallbackReturn
  <2>3. CallbackMoves("idle", 0, 0, "absent")
    BY <1>28, CallbackReturnMoves
  <2>. QED BY <1>28, <2>3, CApiAssumption, CallIds
    DEF CallbackReturn, tables, messages, media, history, objects, CallbackMoves, MediaTypes,
        CallFacts
<1>29. ASSUME NEW id \in Ids, Arrive(id) PROVE MediaTypes'
  BY <1>29, CApiAssumption, CallIds
  DEF Arrive, tables, messages, media, history, objects, MediaTypes, CallFacts
<1>30. ASSUME NEW id \in Ids, RemoteShut(id) PROVE MediaTypes'
  BY <1>30, CApiAssumption, CallIds
  DEF RemoteShut, tables, messages, media, history, objects, MediaTypes, CallFacts
<1>31. ASSUME NEW id \in Ids, RemoteReset(id) PROVE MediaTypes'
  BY <1>31, CApiAssumption, CallIds
  DEF RemoteReset, tables, messages, media, history, objects, MediaTypes, CallFacts
<1>32. ASSUME NEW id \in Ids, NEW offer \in BOOLEAN, CallbackStart(id, offer) PROVE MediaTypes'
  <2>3. CallbackMoves(IF offer THEN "offer" ELSE "locked", id, 0, "absent")
    BY <1>32, CallbackStartMoves
  <2>. QED BY <1>32, <2>3, CApiAssumption, CallIds
    DEF CallbackStart, tables, messages, media, history, objects, CallbackMoves, MediaTypes,
        CallFacts
<1>33. CASE UNCHANGED cVars
  BY <1>33
  DEF cVars, tables, messages, media, history, objects, MediaTypes, CallFacts
<1>. QED BY <1>1, <1>2, <1>3, <1>4, <1>5, <1>6, <1>7, <1>8, <1>9, <1>10, <1>11, <1>12, <1>13,
    <1>14, <1>15, <1>16, <1>17, <1>18, <1>19, <1>20, <1>21, <1>22, <1>23, <1>24, <1>25, <1>26,
    <1>27, <1>28, <1>29, <1>30, <1>31, <1>32, <1>33 DEF CStep
(* Steps belong to their calls.                                                *)
LEMMA ShapeStep == CBase /\ [CNext]_cVars => (\A z \in Threads : ShapeOf(z))'
<1>. SUFFICES ASSUME TableTypes, CallTypes, MessageTypes, MediaTypes, CallShape, CallbackShape,
    PendingInv, CStep PROVE (\A z \in Threads : ShapeOf(z))'
  BY CSteps DEF CBase
<1>1. ASSUME NEW t \in Threads, NEW op \in OpsOf(topic), NEW id \in Ids, Get(t, op, id) PROVE (\A
    z \in Threads : ShapeOf(z))'
  <2>2. Moves(t, op, "got", id, 0)
    BY <1>1, GetMoves
  <2>3. op \notin {"none", "cleanup"} /\ id \in Ids /\ id \in reported /\ reported' = reported
    BY <1>1, OpsKnown DEF Get, TableTypes, Recorded, history
  <2>4. id # 0
    BY <2>3, CApiAssumption DEF Ids
  <2>. QED BY <2>2, <2>3, <2>4 DEF Moves, ShapeOf, CallShape
<1>2. ASSUME NEW t \in Threads, NEW k \in {"pc", "ws", "srv"}, installed' \in {installed,
    installed \cup {lastId'}}, CreateObject(t, k) PROVE (\A z \in Threads : ShapeOf(z))'
  <2>1. EmplaceFacts(k, 0)
    BY <1>2, NewIdentifier, CApiAssumption DEF Channels, TableTypes, CApiTypeOK, CreateObject
  <2>. QED BY <1>2, <2>1, CApiAssumption, CallIds
    DEF CreateObject, tables, messages, media, history, objects, EmplaceFacts, CallShape, ShapeOf,
        Idle, Threads, CallFacts
<1>3. ASSUME NEW t \in Threads, NEW id \in Ids, SetUserPointer(t, id, "p") PROVE (\A z \in Threads
    : ShapeOf(z))'
  BY <1>3, CApiAssumption, CallIds
  DEF SetUserPointer, tables, messages, media, history, objects, CallShape, ShapeOf, Idle,
      Threads, CallFacts
<1>4. ASSUME NEW t \in Threads, CleanupStart(t) PROVE (\A z \in Threads : ShapeOf(z))'
  <2>2. Moves(t, "cleanup", "clearing", 0, 0)
    BY <1>4, CleanupStartMoves
  <2>. QED BY <1>4, <2>2, CApiAssumption, CallIds
    DEF CleanupStart, tables, messages, media, history, objects, Moves, StepsTo, CallShape,
        ShapeOf, Idle, Threads, CallFacts
<1>5. ASSUME NEW t \in Threads, NEW k \in {"pc", "dc", "tr"}, Use(t, k) PROVE (\A z \in Threads :
    ShapeOf(z))'
  <2>2. StepsTo(t, "release")
    BY <1>5, UseMoves
  <2>. QED BY <1>5, <2>2, CApiAssumption, CallIds
    DEF Use, In, Step, tables, messages, media, history, objects, Moves, StepsTo, CallShape,
        ShapeOf, Idle, Threads, CallFacts
<1>6. ASSUME NEW t \in Threads, NEW kinds \in SUBSET {"pc", "dc", "ws", "tr"}, Install(t, kinds)
    PROVE (\A z \in Threads : ShapeOf(z))'
  <2>2. StepsTo(t, "release")
    BY <1>6, InstallMoves
  <2>. QED BY <1>6, <2>2, CApiAssumption, CallIds
    DEF Install, In, Step, Quiet, tables, messages, media, history, objects, Moves, StepsTo,
        CallShape, ShapeOf, Idle, Threads, CallFacts
<1>7. ASSUME NEW t \in Threads, NEW op \in {"channel", "track"}, NEW k \in {"dc", "tr"},
    NewChannel(t, op, k) PROVE (\A z \in Threads : ShapeOf(z))'
  <2>1. EmplaceFacts(k, 0)
    BY <1>7, NewIdentifier, CApiAssumption DEF Channels, TableTypes, CApiTypeOK, NewChannel
  <2>2. Moves(t, call[t].op, "inherit", call[t].id, lastId')
    BY <1>7, NewChannelMoves
  <2>. QED BY <1>7, <2>1, <2>2, CApiAssumption, CallIds
    DEF NewChannel, In, Step, tables, messages, media, history, objects, Moves, StepsTo,
        EmplaceFacts, CallShape, ShapeOf, Idle, Threads, CallFacts
<1>8. ASSUME NEW t \in Threads, InheritPointer(t) PROVE (\A z \in Threads : ShapeOf(z))'
  <2>2. StepsTo(t, "release")
    BY <1>8, InheritPointerMoves
  <2>. QED BY <1>8, <2>2, CApiAssumption, CallIds
    DEF InheritPointer, Step, tables, messages, media, history, objects, Moves, StepsTo,
        CallShape, ShapeOf, Idle, Threads, CallFacts
<1>9. ASSUME NEW t \in Threads, Peek(t) PROVE (\A z \in Threads : ShapeOf(z))'
  <2>2. \/ queue[call[t].id] = <<>> /\ StepsTo(t, "release")
        \/ queue[call[t].id] # <<>> /\ Moves(t, "receive", IF Head(queue[call[t].id]) \in emptied THEN "empty" ELSE "peeked", call[t].id, Head(queue[call[t].id]))
    BY <1>9, PeekMoves
  <2>. QED BY <1>9, <2>2, CApiAssumption, CallIds
    DEF Peek, In, Step, tables, messages, media, history, objects, Moves, StepsTo, CallShape,
        ShapeOf, Idle, Threads, CallFacts
<1>10. ASSUME NEW t \in Threads, Keep(t) PROVE (\A z \in Threads : ShapeOf(z))'
  <2>2. StepsTo(t, "release")
    BY <1>10, KeepMoves
  <2>. QED BY <1>10, <2>2, CApiAssumption, CallIds
    DEF Keep, Step, tables, messages, media, history, objects, Moves, StepsTo, CallShape, ShapeOf,
        Idle, Threads, CallFacts
<1>11. ASSUME NEW t \in Threads, Take(t) PROVE (\A z \in Threads : ShapeOf(z))'
  <2>2. StepsTo(t, "release")
    BY <1>11, TakeMoves
  <2>. QED BY <1>11, <2>2, CApiAssumption, CallIds
    DEF Take, Step, tables, messages, media, history, objects, Moves, StepsTo, CallShape, ShapeOf,
        Idle, Threads, CallFacts
<1>12. ASSUME NEW t \in Threads, StoreConfig(t) PROVE (\A z \in Threads : ShapeOf(z))'
  <2>2. Moves(t, call[t].op, "stored", call[t].id, made'[call[t].id])
    BY <1>12, StoreConfigMoves
  <2>. QED BY <1>12, <2>2, CApiAssumption, CallIds
    DEF StoreConfig, NewConfig, In, tables, messages, media, history, objects, Moves, StepsTo,
        CallShape, ShapeOf, Idle, Threads, CallFacts
<1>13. ASSUME NEW t \in Threads, OmitConfig(t) PROVE (\A z \in Threads : ShapeOf(z))'
  <2>2. Moves(t, call[t].op, "stored", call[t].id, made'[call[t].id])
    BY <1>13, OmitConfigMoves
  <2>. QED BY <1>13, <2>2, CApiAssumption, CallIds
    DEF OmitConfig, NewConfig, In, tables, messages, media, history, objects, Moves, StepsTo,
        CallShape, ShapeOf, Idle, Threads, CallFacts
<1>14. ASSUME NEW t \in Threads, SetPacketizer(t) PROVE (\A z \in Threads : ShapeOf(z))'
  <2>2. StepsTo(t, "release")
    BY <1>14, SetPacketizerMoves
  <2>. QED BY <1>14, <2>2, CApiAssumption, CallIds
    DEF SetPacketizer, Step, tables, messages, media, history, objects, Moves, StepsTo, CallShape,
        ShapeOf, Idle, Threads, CallFacts
<1>15. ASSUME NEW t \in Threads, FindConfig(t) PROVE (\A z \in Threads : ShapeOf(z))'
  <2>2. \/ rtpConfigMap[call[t].id] = 0 /\ Moves(t, call[t].op, "release", call[t].id, 0)
        \/ rtpConfigMap[call[t].id] # 0 /\ Moves(t, call[t].op, "found", call[t].id, rtpConfigMap[call[t].id])
    BY <1>15, FindConfigMoves
  <2>3. call[t].op = "reporter" /\ call[t].step = "got" /\ reported' = reported
    BY <1>15 DEF FindConfig, In, history
  <2>4. call'[t].op = "reporter" /\ call'[t].step \in {"release", "found"} /\ call'[t].id = call[t].id
    BY <2>2, <2>3 DEF Moves
  <2>5. \A u \in Threads : u # t => call'[u] = call[u]
    BY <2>2 DEF Moves
  <2>. QED BY <2>3, <2>4, <2>5 DEF ShapeOf, CallShape
<1>16. ASSUME NEW t \in Threads, ChainReporter(t) PROVE (\A z \in Threads : ShapeOf(z))'
  <2>2. StepsTo(t, "release")
    BY <1>16, ChainReporterMoves
  <2>. QED BY <1>16, <2>2, CApiAssumption, CallIds
    DEF ChainReporter, Step, tables, messages, media, history, objects, Moves, StepsTo, CallShape,
        ShapeOf, Idle, Threads, CallFacts
<1>17. ASSUME NEW t \in Threads, CloseChannel(t) PROVE (\A z \in Threads : ShapeOf(z))'
  <2>2. \/ call[t].op = "delete" /\ StepsTo(t, "closed")
        \/ call[t].op # "delete" /\ StepsTo(t, "release")
    BY <1>17, CloseChannelMoves
  <2>. QED BY <1>17, <2>2, CApiAssumption, CallIds
    DEF CloseChannel, Step, Quiet, tables, messages, media, history, objects, Moves, StepsTo,
        CallShape, ShapeOf, Idle, Threads, CallFacts
<1>18. ASSUME NEW t \in Threads, NEW force \in BOOLEAN, CloseWebSocket(t, force) PROVE (\A z \in
    Threads : ShapeOf(z))'
  <2>2. \/ call[t].op = "delete" /\ StepsTo(t, "closed")
        \/ call[t].op # "delete" /\ StepsTo(t, "release")
    BY <1>18, CloseWebSocketMoves
  <2>. QED BY <1>18, <2>2, CApiAssumption, CallIds
    DEF CloseWebSocket, Step, Quiet, tables, messages, media, history, objects, Moves, StepsTo,
        CallShape, ShapeOf, Idle, Threads, CallFacts
<1>19. ASSUME NEW t \in Threads, ClosePeerConnection(t) PROVE (\A z \in Threads : ShapeOf(z))'
  <2>2. \/ call[t].op = "delete" /\ StepsTo(t, "closed")
        \/ call[t].op # "delete" /\ StepsTo(t, "release")
        \/ Moves(t, call[t].op, "resetting", call[t].id, 1)
    BY <1>19, ClosePeerConnectionMoves
  <2>. QED BY <1>19, <2>2, CApiAssumption, CallIds
    DEF ClosePeerConnection, Step, tables, messages, media, history, objects, Moves, StepsTo,
        CallShape, ShapeOf, Idle, Threads, CallFacts
<1>20. ASSUME NEW t \in Threads, ResetCallbacks(t) PROVE (\A z \in Threads : ShapeOf(z))'
  <2>2. \/ call[t].x = 1 /\ call[t].op = "delete" /\ StepsTo(t, "closed")
        \/ call[t].x = 1 /\ call[t].op # "delete" /\ StepsTo(t, "release")
        \/ call[t].x # 1 /\ Moves(t, "none", "none", 0, 0)
    BY <1>20, ResetCallbacksMoves
  <2>. QED BY <1>20, <2>2, CApiAssumption, CallIds
    DEF ResetCallbacks, Step, Quiet, tables, messages, media, history, objects, Moves, StepsTo,
        CallShape, ShapeOf, Idle, Threads, CallFacts
<1>21. ASSUME NEW t \in Threads, StopServer(t) PROVE (\A z \in Threads : ShapeOf(z))'
  <2>2. \/ t = Lib /\ StepsTo(t, "release")
        \/ t # Lib /\ StepsTo(t, "closed")
    BY <1>21, StopServerMoves
  <2>. QED BY <1>21, <2>2, CApiAssumption, CallIds
    DEF StopServer, In, Step, Quiet, tables, messages, media, history, objects, Moves, StepsTo,
        CallShape, ShapeOf, Idle, Threads, CallFacts
<1>22. ASSUME NEW t \in Threads, Erase(t) PROVE (\A z \in Threads : ShapeOf(z))'
  <2>2. \/ call[t].id \in table /\ StepsTo(t, "erased")
        \/ call[t].id \notin table /\ StepsTo(t, "release")
    BY <1>22, EraseMoves
  <2>. QED BY <1>22, <2>2, CApiAssumption, CallIds
    DEF Erase, In, Step, tables, messages, media, history, objects, Moves, StepsTo, CallShape,
        ShapeOf, Idle, Threads, CallFacts
<1>23. ASSUME NEW t \in Threads, ReleaseRef(t) PROVE (\A z \in Threads : ShapeOf(z))'
  <2>2. \/ call[t].id \notin table /\ LastRef(t, call[t].id) /\ kind[call[t].id] = "pc" /\ closer[call[t].id] = "open" /\ Moves(t, IF call[t].step = "erased" THEN "delete" ELSE "use", "resetting", call[t].id, 0)
        \/ Moves(t, "none", "none", 0, 0)
    BY <1>23, ReleaseRefMoves
  <2>. QED BY <1>23, <2>2, CApiAssumption, CallIds
    DEF ReleaseRef, LastRef, Quiet, Unwaited, tables, messages, media, history, objects, Moves,
        StepsTo, CallShape, ShapeOf, Idle, Threads, CallFacts
<1>24. ASSUME NEW t \in Threads, EraseAll(t) PROVE (\A z \in Threads : ShapeOf(z))'
  <2>2. Moves(t, "none", "none", 0, 0)
    BY <1>24, EraseAllMoves
  <2>. QED BY <1>24, <2>2, CApiAssumption, CallIds
    DEF EraseAll, LastRef, Quiet, Unwaited, tables, messages, media, history, objects, Moves,
        StepsTo, CallShape, ShapeOf, Idle, Threads, CallFacts
<1>25. CASE CallbackEmplace
  <2>0. PICK k \in {"ws", "dc", "tr"} : Emplace(k, inCallback.id)
    BY <1>25 DEF CallbackEmplace
  <2>1. EmplaceFacts(k, inCallback.id)
    BY <1>25, <2>0, NewIdentifier, CApiAssumption DEF Channels, TableTypes, CApiTypeOK,
        CallbackEmplace, CallTypes, CallbackOK, CallbackRecord
  <2>3. CallbackMoves("locked", inCallback.id, lastId', inCallback.ptr)
    BY <1>25, <2>0, CallbackEmplaceMoves DEF Channels
  <2>. QED BY <1>25, <2>1, <2>3, CApiAssumption, CallIds
    DEF CallbackEmplace, tables, messages, media, history, objects, EmplaceFacts, CallbackMoves,
        CallShape, ShapeOf, Idle, Threads, CallFacts
<1>26. CASE CallbackCheck
  <2>3. \/ userPointerMap[inCallback.id] = "absent" /\ CallbackMoves("idle", 0, 0, "absent")
       \/ /\ userPointerMap[inCallback.id] # "absent"
          /\ CallbackMoves(IF inCallback.new = 0 THEN "running" ELSE "inherit", inCallback.id,
                           inCallback.new, userPointerMap[inCallback.id])
    BY <1>26, CallbackCheckMoves
  <2>. QED BY <1>26, <2>3, CApiAssumption, CallIds
    DEF CallbackCheck, tables, messages, media, history, objects, CallbackMoves, CallShape,
        ShapeOf, Idle, Threads, CallFacts
<1>27. CASE CallbackInherit
  <2>3. CallbackMoves("running", inCallback.id, inCallback.new, inCallback.ptr)
    BY <1>27, CallbackInheritMoves
  <2>. QED BY <1>27, <2>3, CApiAssumption, CallIds
    DEF CallbackInherit, tables, messages, media, history, objects, CallbackMoves, CallShape,
        ShapeOf, Idle, Threads, CallFacts
<1>28. CASE CallbackReturn
  <2>3. CallbackMoves("idle", 0, 0, "absent")
    BY <1>28, CallbackReturnMoves
  <2>. QED BY <1>28, <2>3, CApiAssumption, CallIds
    DEF CallbackReturn, tables, messages, media, history, objects, CallbackMoves, CallShape,
        ShapeOf, Idle, Threads, CallFacts
<1>29. ASSUME NEW id \in Ids, Arrive(id) PROVE (\A z \in Threads : ShapeOf(z))'
  BY <1>29, CApiAssumption, CallIds
  DEF Arrive, tables, messages, media, history, objects, CallShape, ShapeOf, Idle, Threads,
      CallFacts
<1>30. ASSUME NEW id \in Ids, RemoteShut(id) PROVE (\A z \in Threads : ShapeOf(z))'
  BY <1>30, CApiAssumption, CallIds
  DEF RemoteShut, tables, messages, media, history, objects, CallShape, ShapeOf, Idle, Threads,
      CallFacts
<1>31. ASSUME NEW id \in Ids, RemoteReset(id) PROVE (\A z \in Threads : ShapeOf(z))'
  BY <1>31, CApiAssumption, CallIds
  DEF RemoteReset, tables, messages, media, history, objects, CallShape, ShapeOf, Idle, Threads,
      CallFacts
<1>32. ASSUME NEW id \in Ids, NEW offer \in BOOLEAN, CallbackStart(id, offer) PROVE (\A z \in
    Threads : ShapeOf(z))'
  <2>3. CallbackMoves(IF offer THEN "offer" ELSE "locked", id, 0, "absent")
    BY <1>32, CallbackStartMoves
  <2>. QED BY <1>32, <2>3, CApiAssumption, CallIds
    DEF CallbackStart, tables, messages, media, history, objects, CallbackMoves, CallShape,
        ShapeOf, Idle, Threads, CallFacts
<1>33. CASE UNCHANGED cVars
  BY <1>33
  DEF cVars, tables, messages, media, history, objects, CallShape, ShapeOf, Idle, Threads,
      CallFacts
<1>. QED BY <1>1, <1>2, <1>3, <1>4, <1>5, <1>6, <1>7, <1>8, <1>9, <1>10, <1>11, <1>12, <1>13,
    <1>14, <1>15, <1>16, <1>17, <1>18, <1>19, <1>20, <1>21, <1>22, <1>23, <1>24, <1>25, <1>26,
    <1>27, <1>28, <1>29, <1>30, <1>31, <1>32, <1>33 DEF CStep
(* The library only deletes, from a callback.                                  *)
LEMMA LibraryStep == CBase /\ [CNext]_cVars => LibraryShape'
<1>. SUFFICES ASSUME TableTypes, CallTypes, MessageTypes, MediaTypes, CallShape, CallbackShape,
    PendingInv, CStep PROVE LibraryShape'
  BY CSteps DEF CBase
<1>1. ASSUME NEW t \in Threads, NEW op \in OpsOf(topic), NEW id \in Ids, Get(t, op, id) PROVE
    LibraryShape'
  <2>2. Moves(t, op, "got", id, 0)
    BY <1>1, GetMoves
  <2>. QED BY <1>1, <2>2, CApiAssumption, CallIds
    DEF Get, tables, messages, media, history, objects, Moves, StepsTo, LibraryShape, CallShape,
        ShapeOf, Idle, Threads, CallFacts, TableTypes, CApiTypeOK, Recorded, Ids
<1>2. ASSUME NEW t \in Threads, NEW k \in {"pc", "ws", "srv"}, installed' \in {installed,
    installed \cup {lastId'}}, CreateObject(t, k) PROVE LibraryShape'
  <2>1. EmplaceFacts(k, 0)
    BY <1>2, NewIdentifier, CApiAssumption DEF Channels, TableTypes, CApiTypeOK, CreateObject
  <2>. QED BY <1>2, <2>1, CApiAssumption, CallIds
    DEF CreateObject, tables, messages, media, history, objects, EmplaceFacts, LibraryShape,
        CallShape, ShapeOf, Idle, Threads, CallFacts, TableTypes, CApiTypeOK, Recorded, Ids
<1>3. ASSUME NEW t \in Threads, NEW id \in Ids, SetUserPointer(t, id, "p") PROVE LibraryShape'
  BY <1>3, CApiAssumption, CallIds
  DEF SetUserPointer, tables, messages, media, history, objects, LibraryShape, CallShape, ShapeOf,
      Idle, Threads, CallFacts, TableTypes, CApiTypeOK, Recorded, Ids
<1>4. ASSUME NEW t \in Threads, CleanupStart(t) PROVE LibraryShape'
  <2>2. Moves(t, "cleanup", "clearing", 0, 0)
    BY <1>4, CleanupStartMoves
  <2>. QED BY <1>4, <2>2, CApiAssumption, CallIds
    DEF CleanupStart, tables, messages, media, history, objects, Moves, StepsTo, LibraryShape,
        CallShape, ShapeOf, Idle, Threads, CallFacts, TableTypes, CApiTypeOK, Recorded, Ids
<1>5. ASSUME NEW t \in Threads, NEW k \in {"pc", "dc", "tr"}, Use(t, k) PROVE LibraryShape'
  <2>2. StepsTo(t, "release")
    BY <1>5, UseMoves
  <2>. QED BY <1>5, <2>2, CApiAssumption, CallIds
    DEF Use, In, Step, tables, messages, media, history, objects, Moves, StepsTo, LibraryShape,
        CallShape, ShapeOf, Idle, Threads, CallFacts, TableTypes, CApiTypeOK, Recorded, Ids
<1>6. ASSUME NEW t \in Threads, NEW kinds \in SUBSET {"pc", "dc", "ws", "tr"}, Install(t, kinds)
    PROVE LibraryShape'
  <2>2. StepsTo(t, "release")
    BY <1>6, InstallMoves
  <2>. QED BY <1>6, <2>2, CApiAssumption, CallIds
    DEF Install, In, Step, Quiet, tables, messages, media, history, objects, Moves, StepsTo,
        LibraryShape, CallShape, ShapeOf, Idle, Threads, CallFacts, TableTypes, CApiTypeOK,
        Recorded, Ids
<1>7. ASSUME NEW t \in Threads, NEW op \in {"channel", "track"}, NEW k \in {"dc", "tr"},
    NewChannel(t, op, k) PROVE LibraryShape'
  <2>1. EmplaceFacts(k, 0)
    BY <1>7, NewIdentifier, CApiAssumption DEF Channels, TableTypes, CApiTypeOK, NewChannel
  <2>2. Moves(t, call[t].op, "inherit", call[t].id, lastId')
    BY <1>7, NewChannelMoves
  <2>. QED BY <1>7, <2>1, <2>2, CApiAssumption, CallIds
    DEF NewChannel, In, Step, tables, messages, media, history, objects, Moves, StepsTo,
        EmplaceFacts, LibraryShape, CallShape, ShapeOf, Idle, Threads, CallFacts, TableTypes,
        CApiTypeOK, Recorded, Ids
<1>8. ASSUME NEW t \in Threads, InheritPointer(t) PROVE LibraryShape'
  <2>2. StepsTo(t, "release")
    BY <1>8, InheritPointerMoves
  <2>. QED BY <1>8, <2>2, CApiAssumption, CallIds
    DEF InheritPointer, Step, tables, messages, media, history, objects, Moves, StepsTo,
        LibraryShape, CallShape, ShapeOf, Idle, Threads, CallFacts, TableTypes, CApiTypeOK,
        Recorded, Ids
<1>9. ASSUME NEW t \in Threads, Peek(t) PROVE LibraryShape'
  <2>2. \/ queue[call[t].id] = <<>> /\ StepsTo(t, "release")
        \/ queue[call[t].id] # <<>> /\ Moves(t, "receive", IF Head(queue[call[t].id]) \in emptied THEN "empty" ELSE "peeked", call[t].id, Head(queue[call[t].id]))
    BY <1>9, PeekMoves
  <2>. QED BY <1>9, <2>2, CApiAssumption, CallIds
    DEF Peek, In, Step, tables, messages, media, history, objects, Moves, StepsTo, LibraryShape,
        CallShape, ShapeOf, Idle, Threads, CallFacts, TableTypes, CApiTypeOK, Recorded, Ids
<1>10. ASSUME NEW t \in Threads, Keep(t) PROVE LibraryShape'
  <2>2. StepsTo(t, "release")
    BY <1>10, KeepMoves
  <2>. QED BY <1>10, <2>2, CApiAssumption, CallIds
    DEF Keep, Step, tables, messages, media, history, objects, Moves, StepsTo, LibraryShape,
        CallShape, ShapeOf, Idle, Threads, CallFacts, TableTypes, CApiTypeOK, Recorded, Ids
<1>11. ASSUME NEW t \in Threads, Take(t) PROVE LibraryShape'
  <2>2. StepsTo(t, "release")
    BY <1>11, TakeMoves
  <2>. QED BY <1>11, <2>2, CApiAssumption, CallIds
    DEF Take, Step, tables, messages, media, history, objects, Moves, StepsTo, LibraryShape,
        CallShape, ShapeOf, Idle, Threads, CallFacts, TableTypes, CApiTypeOK, Recorded, Ids
<1>12. ASSUME NEW t \in Threads, StoreConfig(t) PROVE LibraryShape'
  <2>2. Moves(t, call[t].op, "stored", call[t].id, made'[call[t].id])
    BY <1>12, StoreConfigMoves
  <2>. QED BY <1>12, <2>2, CApiAssumption, CallIds
    DEF StoreConfig, NewConfig, In, tables, messages, media, history, objects, Moves, StepsTo,
        LibraryShape, CallShape, ShapeOf, Idle, Threads, CallFacts, TableTypes, CApiTypeOK,
        Recorded, Ids
<1>13. ASSUME NEW t \in Threads, OmitConfig(t) PROVE LibraryShape'
  <2>2. Moves(t, call[t].op, "stored", call[t].id, made'[call[t].id])
    BY <1>13, OmitConfigMoves
  <2>. QED BY <1>13, <2>2, CApiAssumption, CallIds
    DEF OmitConfig, NewConfig, In, tables, messages, media, history, objects, Moves, StepsTo,
        LibraryShape, CallShape, ShapeOf, Idle, Threads, CallFacts, TableTypes, CApiTypeOK,
        Recorded, Ids
<1>14. ASSUME NEW t \in Threads, SetPacketizer(t) PROVE LibraryShape'
  <2>2. StepsTo(t, "release")
    BY <1>14, SetPacketizerMoves
  <2>. QED BY <1>14, <2>2, CApiAssumption, CallIds
    DEF SetPacketizer, Step, tables, messages, media, history, objects, Moves, StepsTo,
        LibraryShape, CallShape, ShapeOf, Idle, Threads, CallFacts, TableTypes, CApiTypeOK,
        Recorded, Ids
<1>15. ASSUME NEW t \in Threads, FindConfig(t) PROVE LibraryShape'
  <2>2. \/ rtpConfigMap[call[t].id] = 0 /\ Moves(t, call[t].op, "release", call[t].id, 0)
        \/ rtpConfigMap[call[t].id] # 0 /\ Moves(t, call[t].op, "found", call[t].id, rtpConfigMap[call[t].id])
    BY <1>15, FindConfigMoves
  <2>. QED BY <1>15, <2>2, CApiAssumption, CallIds
    DEF FindConfig, In, tables, messages, media, history, objects, Moves, StepsTo, LibraryShape,
        CallShape, ShapeOf, Idle, Threads, CallFacts, TableTypes, CApiTypeOK, Recorded, Ids
<1>16. ASSUME NEW t \in Threads, ChainReporter(t) PROVE LibraryShape'
  <2>2. StepsTo(t, "release")
    BY <1>16, ChainReporterMoves
  <2>. QED BY <1>16, <2>2, CApiAssumption, CallIds
    DEF ChainReporter, Step, tables, messages, media, history, objects, Moves, StepsTo,
        LibraryShape, CallShape, ShapeOf, Idle, Threads, CallFacts, TableTypes, CApiTypeOK,
        Recorded, Ids
<1>17. ASSUME NEW t \in Threads, CloseChannel(t) PROVE LibraryShape'
  <2>2. \/ call[t].op = "delete" /\ StepsTo(t, "closed")
        \/ call[t].op # "delete" /\ StepsTo(t, "release")
    BY <1>17, CloseChannelMoves
  <2>. QED BY <1>17, <2>2, CApiAssumption, CallIds
    DEF CloseChannel, Step, Quiet, tables, messages, media, history, objects, Moves, StepsTo,
        LibraryShape, CallShape, ShapeOf, Idle, Threads, CallFacts, TableTypes, CApiTypeOK,
        Recorded, Ids
<1>18. ASSUME NEW t \in Threads, NEW force \in BOOLEAN, CloseWebSocket(t, force) PROVE
    LibraryShape'
  <2>2. \/ call[t].op = "delete" /\ StepsTo(t, "closed")
        \/ call[t].op # "delete" /\ StepsTo(t, "release")
    BY <1>18, CloseWebSocketMoves
  <2>. QED BY <1>18, <2>2, CApiAssumption, CallIds
    DEF CloseWebSocket, Step, Quiet, tables, messages, media, history, objects, Moves, StepsTo,
        LibraryShape, CallShape, ShapeOf, Idle, Threads, CallFacts, TableTypes, CApiTypeOK,
        Recorded, Ids
<1>19. ASSUME NEW t \in Threads, ClosePeerConnection(t) PROVE LibraryShape'
  <2>2. \/ call[t].op = "delete" /\ StepsTo(t, "closed")
        \/ call[t].op # "delete" /\ StepsTo(t, "release")
        \/ Moves(t, call[t].op, "resetting", call[t].id, 1)
    BY <1>19, ClosePeerConnectionMoves
  <2>. QED BY <1>19, <2>2, CApiAssumption, CallIds
    DEF ClosePeerConnection, Step, tables, messages, media, history, objects, Moves, StepsTo,
        LibraryShape, CallShape, ShapeOf, Idle, Threads, CallFacts, TableTypes, CApiTypeOK,
        Recorded, Ids
<1>20. ASSUME NEW t \in Threads, ResetCallbacks(t) PROVE LibraryShape'
  <2>2. \/ call[t].x = 1 /\ call[t].op = "delete" /\ StepsTo(t, "closed")
        \/ call[t].x = 1 /\ call[t].op # "delete" /\ StepsTo(t, "release")
        \/ call[t].x # 1 /\ Moves(t, "none", "none", 0, 0)
    BY <1>20, ResetCallbacksMoves
  <2>. QED BY <1>20, <2>2, CApiAssumption, CallIds
    DEF ResetCallbacks, Step, Quiet, tables, messages, media, history, objects, Moves, StepsTo,
        LibraryShape, CallShape, ShapeOf, Idle, Threads, CallFacts, TableTypes, CApiTypeOK,
        Recorded, Ids
<1>21. ASSUME NEW t \in Threads, StopServer(t) PROVE LibraryShape'
  <2>2. \/ t = Lib /\ StepsTo(t, "release")
        \/ t # Lib /\ StepsTo(t, "closed")
    BY <1>21, StopServerMoves
  <2>. QED BY <1>21, <2>2, CApiAssumption, CallIds
    DEF StopServer, In, Step, Quiet, tables, messages, media, history, objects, Moves, StepsTo,
        LibraryShape, CallShape, ShapeOf, Idle, Threads, CallFacts, TableTypes, CApiTypeOK,
        Recorded, Ids
<1>22. ASSUME NEW t \in Threads, Erase(t) PROVE LibraryShape'
  <2>2. \/ call[t].id \in table /\ StepsTo(t, "erased")
        \/ call[t].id \notin table /\ StepsTo(t, "release")
    BY <1>22, EraseMoves
  <2>. QED BY <1>22, <2>2, CApiAssumption, CallIds
    DEF Erase, In, Step, tables, messages, media, history, objects, Moves, StepsTo, LibraryShape,
        CallShape, ShapeOf, Idle, Threads, CallFacts, TableTypes, CApiTypeOK, Recorded, Ids
<1>23. ASSUME NEW t \in Threads, ReleaseRef(t) PROVE LibraryShape'
  <2>2. \/ call[t].id \notin table /\ LastRef(t, call[t].id) /\ kind[call[t].id] = "pc" /\ closer[call[t].id] = "open" /\ Moves(t, IF call[t].step = "erased" THEN "delete" ELSE "use", "resetting", call[t].id, 0)
        \/ Moves(t, "none", "none", 0, 0)
    BY <1>23, ReleaseRefMoves
  <2>3. inCallback' = inCallback /\ \A i \in Ids : raced[i] # "no" => raced'[i] # "no"
    BY <1>23 DEF ReleaseRef, TableTypes, Recorded
  <2>4. Lib \in Threads /\ (call[Lib].id # 0 => call[Lib].id \in Ids)
    BY CallIds, CApiAssumption DEF Threads, CallFacts, CallShape, ShapeOf
  <2>5. t = Lib => call'[t].id = 0 \/ (call'[t].id = call[t].id /\ call'[t].op \in {"delete", "use"} /\ call'[t].step = "resetting" /\ call'[t].x = 0)
    BY <2>2 DEF Moves
  <2>6. CASE t = Lib
    BY <2>3, <2>4, <2>5, <2>6 DEF LibraryShape, CallShape
  <2>7. CASE t # Lib
    BY <2>2, <2>3, <2>4, <2>7 DEF LibraryShape, CallShape, Moves
  <2>. QED BY <2>6, <2>7
<1>24. ASSUME NEW t \in Threads, EraseAll(t) PROVE LibraryShape'
  <2>2. Moves(t, "none", "none", 0, 0)
    BY <1>24, EraseAllMoves
  <2>. QED BY <1>24, <2>2, CApiAssumption, CallIds
    DEF EraseAll, LastRef, Quiet, Unwaited, tables, messages, media, history, objects, Moves,
        StepsTo, LibraryShape, CallShape, ShapeOf, Idle, Threads, CallFacts, TableTypes,
        CApiTypeOK, Recorded, Ids
<1>25. CASE CallbackEmplace
  <2>0. PICK k \in {"ws", "dc", "tr"} : Emplace(k, inCallback.id)
    BY <1>25 DEF CallbackEmplace
  <2>1. EmplaceFacts(k, inCallback.id)
    BY <1>25, <2>0, NewIdentifier, CApiAssumption DEF Channels, TableTypes, CApiTypeOK,
        CallbackEmplace, CallTypes, CallbackOK, CallbackRecord
  <2>3. CallbackMoves("locked", inCallback.id, lastId', inCallback.ptr)
    BY <1>25, <2>0, CallbackEmplaceMoves DEF Channels
  <2>. QED BY <1>25, <2>1, <2>3, CApiAssumption, CallIds
    DEF CallbackEmplace, tables, messages, media, history, objects, EmplaceFacts, CallbackMoves,
        LibraryShape, CallShape, ShapeOf, Idle, Threads, CallFacts, TableTypes, CApiTypeOK,
        Recorded, Ids
<1>26. CASE CallbackCheck
  <2>3. \/ userPointerMap[inCallback.id] = "absent" /\ CallbackMoves("idle", 0, 0, "absent")
       \/ /\ userPointerMap[inCallback.id] # "absent"
          /\ CallbackMoves(IF inCallback.new = 0 THEN "running" ELSE "inherit", inCallback.id,
                           inCallback.new, userPointerMap[inCallback.id])
    BY <1>26, CallbackCheckMoves
  <2>. QED BY <1>26, <2>3, CApiAssumption, CallIds
    DEF CallbackCheck, tables, messages, media, history, objects, CallbackMoves, LibraryShape,
        CallShape, ShapeOf, Idle, Threads, CallFacts, TableTypes, CApiTypeOK, Recorded, Ids
<1>27. CASE CallbackInherit
  <2>3. CallbackMoves("running", inCallback.id, inCallback.new, inCallback.ptr)
    BY <1>27, CallbackInheritMoves
  <2>. QED BY <1>27, <2>3, CApiAssumption, CallIds
    DEF CallbackInherit, tables, messages, media, history, objects, CallbackMoves, LibraryShape,
        CallShape, ShapeOf, Idle, Threads, CallFacts, TableTypes, CApiTypeOK, Recorded, Ids
<1>28. CASE CallbackReturn
  <2>3. CallbackMoves("idle", 0, 0, "absent")
    BY <1>28, CallbackReturnMoves
  <2>. QED BY <1>28, <2>3, CApiAssumption, CallIds
    DEF CallbackReturn, tables, messages, media, history, objects, CallbackMoves, LibraryShape,
        CallShape, ShapeOf, Idle, Threads, CallFacts, TableTypes, CApiTypeOK, Recorded, Ids
<1>29. ASSUME NEW id \in Ids, Arrive(id) PROVE LibraryShape'
  BY <1>29, CApiAssumption, CallIds
  DEF Arrive, tables, messages, media, history, objects, LibraryShape, CallShape, ShapeOf, Idle,
      Threads, CallFacts, TableTypes, CApiTypeOK, Recorded, Ids
<1>30. ASSUME NEW id \in Ids, RemoteShut(id) PROVE LibraryShape'
  BY <1>30, CApiAssumption, CallIds
  DEF RemoteShut, tables, messages, media, history, objects, LibraryShape, CallShape, ShapeOf,
      Idle, Threads, CallFacts, TableTypes, CApiTypeOK, Recorded, Ids
<1>31. ASSUME NEW id \in Ids, RemoteReset(id) PROVE LibraryShape'
  BY <1>31, CApiAssumption, CallIds
  DEF RemoteReset, tables, messages, media, history, objects, LibraryShape, CallShape, ShapeOf,
      Idle, Threads, CallFacts, TableTypes, CApiTypeOK, Recorded, Ids
<1>32. ASSUME NEW id \in Ids, NEW offer \in BOOLEAN, CallbackStart(id, offer) PROVE LibraryShape'
  <2>3. CallbackMoves(IF offer THEN "offer" ELSE "locked", id, 0, "absent")
    BY <1>32, CallbackStartMoves
  <2>4. call' = call /\ raced' = raced /\ inCallback.step = "idle"
    BY <1>32 DEF CallbackStart, history, NoCallback
  <2>. QED BY <2>4 DEF LibraryShape, CallShape
<1>33. CASE UNCHANGED cVars
  BY <1>33
  DEF cVars, tables, messages, media, history, objects, LibraryShape, CallShape, ShapeOf, Idle,
      Threads, CallFacts, TableTypes, CApiTypeOK, Recorded, Ids
<1>. QED BY <1>1, <1>2, <1>3, <1>4, <1>5, <1>6, <1>7, <1>8, <1>9, <1>10, <1>11, <1>12, <1>13,
    <1>14, <1>15, <1>16, <1>17, <1>18, <1>19, <1>20, <1>21, <1>22, <1>23, <1>24, <1>25, <1>26,
    <1>27, <1>28, <1>29, <1>30, <1>31, <1>32, <1>33 DEF CStep
(* A callback has an object, and an object to report when it reports one.      *)
LEMMA CallbackShapeStep == CBase /\ [CNext]_cVars => CallbackShape'
<1>. SUFFICES ASSUME TableTypes, CallTypes, MessageTypes, MediaTypes, CallShape, CallbackShape,
    PendingInv, CStep PROVE CallbackShape'
  BY CSteps DEF CBase
<1>1. ASSUME NEW t \in Threads, NEW op \in OpsOf(topic), NEW id \in Ids, Get(t, op, id) PROVE
    CallbackShape'
  <2>2. Moves(t, op, "got", id, 0)
    BY <1>1, GetMoves
  <2>. QED BY <1>1, <2>2, CApiAssumption, CallbackIds
    DEF Get, tables, messages, media, history, objects, Moves, StepsTo, CallbackShape,
        CallbackFacts, Ids, TableTypes, CApiTypeOK
<1>2. ASSUME NEW t \in Threads, NEW k \in {"pc", "ws", "srv"}, installed' \in {installed,
    installed \cup {lastId'}}, CreateObject(t, k) PROVE CallbackShape'
  <2>1. EmplaceFacts(k, 0)
    BY <1>2, NewIdentifier, CApiAssumption DEF Channels, TableTypes, CApiTypeOK, CreateObject
  <2>. QED BY <1>2, <2>1, CApiAssumption, CallbackIds
    DEF CreateObject, tables, messages, media, history, objects, EmplaceFacts, CallbackShape,
        CallbackFacts, Ids, TableTypes, CApiTypeOK
<1>3. ASSUME NEW t \in Threads, NEW id \in Ids, SetUserPointer(t, id, "p") PROVE CallbackShape'
  BY <1>3, CApiAssumption, CallbackIds
  DEF SetUserPointer, tables, messages, media, history, objects, CallbackShape, CallbackFacts,
      Ids, TableTypes, CApiTypeOK
<1>4. ASSUME NEW t \in Threads, CleanupStart(t) PROVE CallbackShape'
  <2>2. Moves(t, "cleanup", "clearing", 0, 0)
    BY <1>4, CleanupStartMoves
  <2>. QED BY <1>4, <2>2, CApiAssumption, CallbackIds
    DEF CleanupStart, tables, messages, media, history, objects, Moves, StepsTo, CallbackShape,
        CallbackFacts, Ids, TableTypes, CApiTypeOK
<1>5. ASSUME NEW t \in Threads, NEW k \in {"pc", "dc", "tr"}, Use(t, k) PROVE CallbackShape'
  <2>2. StepsTo(t, "release")
    BY <1>5, UseMoves
  <2>. QED BY <1>5, <2>2, CApiAssumption, CallbackIds
    DEF Use, In, Step, tables, messages, media, history, objects, Moves, StepsTo, CallbackShape,
        CallbackFacts, Ids, TableTypes, CApiTypeOK
<1>6. ASSUME NEW t \in Threads, NEW kinds \in SUBSET {"pc", "dc", "ws", "tr"}, Install(t, kinds)
    PROVE CallbackShape'
  <2>2. StepsTo(t, "release")
    BY <1>6, InstallMoves
  <2>. QED BY <1>6, <2>2, CApiAssumption, CallbackIds
    DEF Install, In, Step, Quiet, tables, messages, media, history, objects, Moves, StepsTo,
        CallbackShape, CallbackFacts, Ids, TableTypes, CApiTypeOK
<1>7. ASSUME NEW t \in Threads, NEW op \in {"channel", "track"}, NEW k \in {"dc", "tr"},
    NewChannel(t, op, k) PROVE CallbackShape'
  <2>1. EmplaceFacts(k, 0)
    BY <1>7, NewIdentifier, CApiAssumption DEF Channels, TableTypes, CApiTypeOK, NewChannel
  <2>2. Moves(t, call[t].op, "inherit", call[t].id, lastId')
    BY <1>7, NewChannelMoves
  <2>. QED BY <1>7, <2>1, <2>2, CApiAssumption, CallbackIds
    DEF NewChannel, In, Step, tables, messages, media, history, objects, Moves, StepsTo,
        EmplaceFacts, CallbackShape, CallbackFacts, Ids, TableTypes, CApiTypeOK
<1>8. ASSUME NEW t \in Threads, InheritPointer(t) PROVE CallbackShape'
  <2>2. StepsTo(t, "release")
    BY <1>8, InheritPointerMoves
  <2>. QED BY <1>8, <2>2, CApiAssumption, CallbackIds
    DEF InheritPointer, Step, tables, messages, media, history, objects, Moves, StepsTo,
        CallbackShape, CallbackFacts, Ids, TableTypes, CApiTypeOK
<1>9. ASSUME NEW t \in Threads, Peek(t) PROVE CallbackShape'
  <2>2. \/ queue[call[t].id] = <<>> /\ StepsTo(t, "release")
        \/ queue[call[t].id] # <<>> /\ Moves(t, "receive", IF Head(queue[call[t].id]) \in emptied THEN "empty" ELSE "peeked", call[t].id, Head(queue[call[t].id]))
    BY <1>9, PeekMoves
  <2>. QED BY <1>9, <2>2, CApiAssumption, CallbackIds
    DEF Peek, In, Step, tables, messages, media, history, objects, Moves, StepsTo, CallbackShape,
        CallbackFacts, Ids, TableTypes, CApiTypeOK
<1>10. ASSUME NEW t \in Threads, Keep(t) PROVE CallbackShape'
  <2>2. StepsTo(t, "release")
    BY <1>10, KeepMoves
  <2>. QED BY <1>10, <2>2, CApiAssumption, CallbackIds
    DEF Keep, Step, tables, messages, media, history, objects, Moves, StepsTo, CallbackShape,
        CallbackFacts, Ids, TableTypes, CApiTypeOK
<1>11. ASSUME NEW t \in Threads, Take(t) PROVE CallbackShape'
  <2>2. StepsTo(t, "release")
    BY <1>11, TakeMoves
  <2>. QED BY <1>11, <2>2, CApiAssumption, CallbackIds
    DEF Take, Step, tables, messages, media, history, objects, Moves, StepsTo, CallbackShape,
        CallbackFacts, Ids, TableTypes, CApiTypeOK
<1>12. ASSUME NEW t \in Threads, StoreConfig(t) PROVE CallbackShape'
  <2>2. Moves(t, call[t].op, "stored", call[t].id, made'[call[t].id])
    BY <1>12, StoreConfigMoves
  <2>. QED BY <1>12, <2>2, CApiAssumption, CallbackIds
    DEF StoreConfig, NewConfig, In, tables, messages, media, history, objects, Moves, StepsTo,
        CallbackShape, CallbackFacts, Ids, TableTypes, CApiTypeOK
<1>13. ASSUME NEW t \in Threads, OmitConfig(t) PROVE CallbackShape'
  <2>2. Moves(t, call[t].op, "stored", call[t].id, made'[call[t].id])
    BY <1>13, OmitConfigMoves
  <2>. QED BY <1>13, <2>2, CApiAssumption, CallbackIds
    DEF OmitConfig, NewConfig, In, tables, messages, media, history, objects, Moves, StepsTo,
        CallbackShape, CallbackFacts, Ids, TableTypes, CApiTypeOK
<1>14. ASSUME NEW t \in Threads, SetPacketizer(t) PROVE CallbackShape'
  <2>2. StepsTo(t, "release")
    BY <1>14, SetPacketizerMoves
  <2>. QED BY <1>14, <2>2, CApiAssumption, CallbackIds
    DEF SetPacketizer, Step, tables, messages, media, history, objects, Moves, StepsTo,
        CallbackShape, CallbackFacts, Ids, TableTypes, CApiTypeOK
<1>15. ASSUME NEW t \in Threads, FindConfig(t) PROVE CallbackShape'
  <2>2. \/ rtpConfigMap[call[t].id] = 0 /\ Moves(t, call[t].op, "release", call[t].id, 0)
        \/ rtpConfigMap[call[t].id] # 0 /\ Moves(t, call[t].op, "found", call[t].id, rtpConfigMap[call[t].id])
    BY <1>15, FindConfigMoves
  <2>. QED BY <1>15, <2>2, CApiAssumption, CallbackIds
    DEF FindConfig, In, tables, messages, media, history, objects, Moves, StepsTo, CallbackShape,
        CallbackFacts, Ids, TableTypes, CApiTypeOK
<1>16. ASSUME NEW t \in Threads, ChainReporter(t) PROVE CallbackShape'
  <2>2. StepsTo(t, "release")
    BY <1>16, ChainReporterMoves
  <2>. QED BY <1>16, <2>2, CApiAssumption, CallbackIds
    DEF ChainReporter, Step, tables, messages, media, history, objects, Moves, StepsTo,
        CallbackShape, CallbackFacts, Ids, TableTypes, CApiTypeOK
<1>17. ASSUME NEW t \in Threads, CloseChannel(t) PROVE CallbackShape'
  <2>2. \/ call[t].op = "delete" /\ StepsTo(t, "closed")
        \/ call[t].op # "delete" /\ StepsTo(t, "release")
    BY <1>17, CloseChannelMoves
  <2>. QED BY <1>17, <2>2, CApiAssumption, CallbackIds
    DEF CloseChannel, Step, Quiet, tables, messages, media, history, objects, Moves, StepsTo,
        CallbackShape, CallbackFacts, Ids, TableTypes, CApiTypeOK
<1>18. ASSUME NEW t \in Threads, NEW force \in BOOLEAN, CloseWebSocket(t, force) PROVE
    CallbackShape'
  <2>2. \/ call[t].op = "delete" /\ StepsTo(t, "closed")
        \/ call[t].op # "delete" /\ StepsTo(t, "release")
    BY <1>18, CloseWebSocketMoves
  <2>. QED BY <1>18, <2>2, CApiAssumption, CallbackIds
    DEF CloseWebSocket, Step, Quiet, tables, messages, media, history, objects, Moves, StepsTo,
        CallbackShape, CallbackFacts, Ids, TableTypes, CApiTypeOK
<1>19. ASSUME NEW t \in Threads, ClosePeerConnection(t) PROVE CallbackShape'
  <2>2. \/ call[t].op = "delete" /\ StepsTo(t, "closed")
        \/ call[t].op # "delete" /\ StepsTo(t, "release")
        \/ Moves(t, call[t].op, "resetting", call[t].id, 1)
    BY <1>19, ClosePeerConnectionMoves
  <2>. QED BY <1>19, <2>2, CApiAssumption, CallbackIds
    DEF ClosePeerConnection, Step, tables, messages, media, history, objects, Moves, StepsTo,
        CallbackShape, CallbackFacts, Ids, TableTypes, CApiTypeOK
<1>20. ASSUME NEW t \in Threads, ResetCallbacks(t) PROVE CallbackShape'
  <2>2. \/ call[t].x = 1 /\ call[t].op = "delete" /\ StepsTo(t, "closed")
        \/ call[t].x = 1 /\ call[t].op # "delete" /\ StepsTo(t, "release")
        \/ call[t].x # 1 /\ Moves(t, "none", "none", 0, 0)
    BY <1>20, ResetCallbacksMoves
  <2>. QED BY <1>20, <2>2, CApiAssumption, CallbackIds
    DEF ResetCallbacks, Step, Quiet, tables, messages, media, history, objects, Moves, StepsTo,
        CallbackShape, CallbackFacts, Ids, TableTypes, CApiTypeOK
<1>21. ASSUME NEW t \in Threads, StopServer(t) PROVE CallbackShape'
  <2>2. \/ t = Lib /\ StepsTo(t, "release")
        \/ t # Lib /\ StepsTo(t, "closed")
    BY <1>21, StopServerMoves
  <2>. QED BY <1>21, <2>2, CApiAssumption, CallbackIds
    DEF StopServer, In, Step, Quiet, tables, messages, media, history, objects, Moves, StepsTo,
        CallbackShape, CallbackFacts, Ids, TableTypes, CApiTypeOK
<1>22. ASSUME NEW t \in Threads, Erase(t) PROVE CallbackShape'
  <2>2. \/ call[t].id \in table /\ StepsTo(t, "erased")
        \/ call[t].id \notin table /\ StepsTo(t, "release")
    BY <1>22, EraseMoves
  <2>. QED BY <1>22, <2>2, CApiAssumption, CallbackIds
    DEF Erase, In, Step, tables, messages, media, history, objects, Moves, StepsTo, CallbackShape,
        CallbackFacts, Ids, TableTypes, CApiTypeOK
<1>23. ASSUME NEW t \in Threads, ReleaseRef(t) PROVE CallbackShape'
  <2>2. \/ call[t].id \notin table /\ LastRef(t, call[t].id) /\ kind[call[t].id] = "pc" /\ closer[call[t].id] = "open" /\ Moves(t, IF call[t].step = "erased" THEN "delete" ELSE "use", "resetting", call[t].id, 0)
        \/ Moves(t, "none", "none", 0, 0)
    BY <1>23, ReleaseRefMoves
  <2>. QED BY <1>23, <2>2, CApiAssumption, CallbackIds
    DEF ReleaseRef, LastRef, Quiet, Unwaited, tables, messages, media, history, objects, Moves,
        StepsTo, CallbackShape, CallbackFacts, Ids, TableTypes, CApiTypeOK
<1>24. ASSUME NEW t \in Threads, EraseAll(t) PROVE CallbackShape'
  <2>2. Moves(t, "none", "none", 0, 0)
    BY <1>24, EraseAllMoves
  <2>. QED BY <1>24, <2>2, CApiAssumption, CallbackIds
    DEF EraseAll, LastRef, Quiet, Unwaited, tables, messages, media, history, objects, Moves,
        StepsTo, CallbackShape, CallbackFacts, Ids, TableTypes, CApiTypeOK
<1>25. CASE CallbackEmplace
  <2>0. PICK k \in {"ws", "dc", "tr"} : Emplace(k, inCallback.id)
    BY <1>25 DEF CallbackEmplace
  <2>1. EmplaceFacts(k, inCallback.id)
    BY <1>25, <2>0, NewIdentifier, CApiAssumption DEF Channels, TableTypes, CApiTypeOK,
        CallbackEmplace, CallTypes, CallbackOK, CallbackRecord
  <2>3. CallbackMoves("locked", inCallback.id, lastId', inCallback.ptr)
    BY <1>25, <2>0, CallbackEmplaceMoves DEF Channels
  <2>. QED BY <1>25, <2>1, <2>3, CApiAssumption, CallbackIds
    DEF CallbackEmplace, tables, messages, media, history, objects, EmplaceFacts, CallbackMoves,
        CallbackShape, CallbackFacts, Ids, TableTypes, CApiTypeOK
<1>26. CASE CallbackCheck
  <2>3. \/ userPointerMap[inCallback.id] = "absent" /\ CallbackMoves("idle", 0, 0, "absent")
       \/ /\ userPointerMap[inCallback.id] # "absent"
          /\ CallbackMoves(IF inCallback.new = 0 THEN "running" ELSE "inherit", inCallback.id,
                           inCallback.new, userPointerMap[inCallback.id])
    BY <1>26, CallbackCheckMoves
  <2>. QED BY <1>26, <2>3, CApiAssumption, CallbackIds
    DEF CallbackCheck, tables, messages, media, history, objects, CallbackMoves, CallbackShape,
        CallbackFacts, Ids, TableTypes, CApiTypeOK
<1>27. CASE CallbackInherit
  <2>3. CallbackMoves("running", inCallback.id, inCallback.new, inCallback.ptr)
    BY <1>27, CallbackInheritMoves
  <2>. QED BY <1>27, <2>3, CApiAssumption, CallbackIds
    DEF CallbackInherit, tables, messages, media, history, objects, CallbackMoves, CallbackShape,
        CallbackFacts, Ids, TableTypes, CApiTypeOK
<1>28. CASE CallbackReturn
  <2>3. CallbackMoves("idle", 0, 0, "absent")
    BY <1>28, CallbackReturnMoves
  <2>. QED BY <1>28, <2>3, CApiAssumption, CallbackIds
    DEF CallbackReturn, tables, messages, media, history, objects, CallbackMoves, CallbackShape,
        CallbackFacts, Ids, TableTypes, CApiTypeOK
<1>29. ASSUME NEW id \in Ids, Arrive(id) PROVE CallbackShape'
  BY <1>29, CApiAssumption, CallbackIds
  DEF Arrive, tables, messages, media, history, objects, CallbackShape, CallbackFacts, Ids,
      TableTypes, CApiTypeOK
<1>30. ASSUME NEW id \in Ids, RemoteShut(id) PROVE CallbackShape'
  BY <1>30, CApiAssumption, CallbackIds
  DEF RemoteShut, tables, messages, media, history, objects, CallbackShape, CallbackFacts, Ids,
      TableTypes, CApiTypeOK
<1>31. ASSUME NEW id \in Ids, RemoteReset(id) PROVE CallbackShape'
  BY <1>31, CApiAssumption, CallbackIds
  DEF RemoteReset, tables, messages, media, history, objects, CallbackShape, CallbackFacts, Ids,
      TableTypes, CApiTypeOK
<1>32. ASSUME NEW id \in Ids, NEW offer \in BOOLEAN, CallbackStart(id, offer) PROVE CallbackShape'
  <2>3. CallbackMoves(IF offer THEN "offer" ELSE "locked", id, 0, "absent")
    BY <1>32, CallbackStartMoves
  <2>. QED BY <1>32, <2>3, CApiAssumption, CallbackIds
    DEF CallbackStart, tables, messages, media, history, objects, CallbackMoves, CallbackShape,
        CallbackFacts, Ids, TableTypes, CApiTypeOK
<1>33. CASE UNCHANGED cVars
  BY <1>33
  DEF cVars, tables, messages, media, history, objects, CallbackShape, CallbackFacts, Ids,
      TableTypes, CApiTypeOK
<1>. QED BY <1>1, <1>2, <1>3, <1>4, <1>5, <1>6, <1>7, <1>8, <1>9, <1>10, <1>11, <1>12, <1>13,
    <1>14, <1>15, <1>16, <1>17, <1>18, <1>19, <1>20, <1>21, <1>22, <1>23, <1>24, <1>25, <1>26,
    <1>27, <1>28, <1>29, <1>30, <1>31, <1>32, <1>33 DEF CStep

(* A call that makes no object leaves those that do alone.                     *)
LEMMA PendingFrame ==
    ASSUME PendingInv, NEW t \in Threads, call'[t].step # "inherit", \A u \in Threads : u # t => call'[u] = call[u],
           UNCHANGED <<lastId, table, reported, cleaned, inCallback>>
    PROVE  PendingInv'
BY DEF PendingInv, Offering

(* Nobody else knows an object that is being made.                             *)
LEMMA PendingStep == CBase /\ [CNext]_cVars => PendingInv'
<1>. SUFFICES ASSUME TableTypes, CallTypes, MessageTypes, MediaTypes, CallShape, CallbackShape,
    PendingInv, CStep PROVE PendingInv'
  BY CSteps DEF CBase
<1>1. ASSUME NEW t \in Threads, NEW op \in OpsOf(topic), NEW id \in Ids, Get(t, op, id) PROVE
    PendingInv'
  <2>2. Moves(t, op, "got", id, 0)
    BY <1>1, GetMoves
  <2>4. call'[t].step # "inherit" /\ \A u \in Threads : u # t => call'[u] = call[u]
    BY <2>2 DEF Moves, StepsTo
  <2>5. UNCHANGED <<lastId, table, reported, cleaned, inCallback>>
    BY <1>1 DEF Get, tables, history
  <2>. QED BY <2>4, <2>5, PendingFrame
<1>2. ASSUME NEW t \in Threads, NEW k \in {"pc", "ws", "srv"}, installed' \in {installed,
    installed \cup {lastId'}}, CreateObject(t, k) PROVE PendingInv'
  <2>1. EmplaceFacts(k, 0)
    BY <1>2, NewIdentifier, CApiAssumption DEF Channels, TableTypes, CApiTypeOK, CreateObject
  <2>2. call' = call /\ inCallback' = inCallback /\ reported' = reported \cup {lastId'} /\ cleaned' = cleaned
    BY <1>2 DEF CreateObject, history
  <2>3. \A i \in 1 .. lastId : i \in 1 .. lastId'
    BY <2>1, CApiAssumption DEF EmplaceFacts
  <2>4. Offering => inCallback.new \in 1 .. lastId
    BY CallbackIds DEF Offering, CallbackFacts
  <2>. QED BY <2>1, <2>2, <2>3, <2>4 DEF EmplaceFacts, PendingInv, Offering
<1>3. ASSUME NEW t \in Threads, NEW id \in Ids, SetUserPointer(t, id, "p") PROVE PendingInv'
  <2>4. UNCHANGED <<call, lastId, table, reported, cleaned, inCallback>>
    BY <1>3 DEF SetUserPointer
  <2>. QED BY <2>4 DEF PendingInv, Offering
<1>4. ASSUME NEW t \in Threads, CleanupStart(t) PROVE PendingInv'
  <2>2. Moves(t, "cleanup", "clearing", 0, 0)
    BY <1>4, CleanupStartMoves
  <2>. QED BY <1>4, <2>2, CApiAssumption, CallIds, CallbackIds
    DEF CleanupStart, tables, messages, media, history, objects, Moves, StepsTo, PendingInv,
        Offering, CallShape, ShapeOf, CallFacts, CallbackFacts, TableTypes, CApiTypeOK, Known,
        Ids, Idle
<1>5. ASSUME NEW t \in Threads, NEW k \in {"pc", "dc", "tr"}, Use(t, k) PROVE PendingInv'
  <2>2. StepsTo(t, "release")
    BY <1>5, UseMoves
  <2>4. call'[t].step # "inherit" /\ \A u \in Threads : u # t => call'[u] = call[u]
    BY <2>2 DEF Moves, StepsTo
  <2>5. UNCHANGED <<lastId, table, reported, cleaned, inCallback>>
    BY <1>5 DEF Use, tables, history
  <2>. QED BY <2>4, <2>5, PendingFrame
<1>6. ASSUME NEW t \in Threads, NEW kinds \in SUBSET {"pc", "dc", "ws", "tr"}, Install(t, kinds)
    PROVE PendingInv'
  <2>2. StepsTo(t, "release")
    BY <1>6, InstallMoves
  <2>4. call'[t].step # "inherit" /\ \A u \in Threads : u # t => call'[u] = call[u]
    BY <2>2 DEF Moves, StepsTo
  <2>5. UNCHANGED <<lastId, table, reported, cleaned, inCallback>>
    BY <1>6 DEF Install, tables, history
  <2>. QED BY <2>4, <2>5, PendingFrame
<1>7. ASSUME NEW t \in Threads, NEW op \in {"channel", "track"}, NEW k \in {"dc", "tr"},
    NewChannel(t, op, k) PROVE PendingInv'
  <2>1. EmplaceFacts(k, 0)
    BY <1>7, NewIdentifier, CApiAssumption DEF Channels, TableTypes, CApiTypeOK, NewChannel
  <2>2. Moves(t, call[t].op, "inherit", call[t].id, lastId')
    BY <1>7, NewChannelMoves
  <2>3. inCallback' = inCallback /\ reported' = reported /\ cleaned' = cleaned
    BY <1>7 DEF NewChannel, history
  <2>4. \A i \in 1 .. lastId : i \in 1 .. lastId'
    BY <2>1, CApiAssumption DEF EmplaceFacts
  <2>5. Offering => inCallback.new \in 1 .. lastId
    BY CallbackIds DEF Offering, CallbackFacts
  <2>6. lastId' \notin reported /\ lastId' \in table' /\ lastId' \in 1 .. lastId'
    BY <2>1, CApiAssumption DEF EmplaceFacts, TableTypes, Known
  <2>. QED BY <2>1, <2>2, <2>3, <2>4, <2>5, <2>6 DEF EmplaceFacts, Moves, PendingInv, Offering
<1>8. ASSUME NEW t \in Threads, InheritPointer(t) PROVE PendingInv'
  <2>2. StepsTo(t, "release")
    BY <1>8, InheritPointerMoves
  <2>. QED BY <1>8, <2>2, CApiAssumption, CallIds, CallbackIds
    DEF InheritPointer, Step, tables, messages, media, history, objects, Moves, StepsTo,
        PendingInv, Offering, CallShape, ShapeOf, CallFacts, CallbackFacts, TableTypes,
        CApiTypeOK, Known, Ids, Idle
<1>9. ASSUME NEW t \in Threads, Peek(t) PROVE PendingInv'
  <2>2. \/ queue[call[t].id] = <<>> /\ StepsTo(t, "release")
        \/ queue[call[t].id] # <<>> /\ Moves(t, "receive", IF Head(queue[call[t].id]) \in emptied THEN "empty" ELSE "peeked", call[t].id, Head(queue[call[t].id]))
    BY <1>9, PeekMoves
  <2>4. call'[t].step # "inherit" /\ \A u \in Threads : u # t => call'[u] = call[u]
    BY <2>2 DEF Moves, StepsTo
  <2>5. UNCHANGED <<lastId, table, reported, cleaned, inCallback>>
    BY <1>9 DEF Peek, tables, history
  <2>. QED BY <2>4, <2>5, PendingFrame
<1>10. ASSUME NEW t \in Threads, Keep(t) PROVE PendingInv'
  <2>2. StepsTo(t, "release")
    BY <1>10, KeepMoves
  <2>4. call'[t].step # "inherit" /\ \A u \in Threads : u # t => call'[u] = call[u]
    BY <2>2 DEF Moves, StepsTo
  <2>5. UNCHANGED <<lastId, table, reported, cleaned, inCallback>>
    BY <1>10 DEF Keep, tables, history
  <2>. QED BY <2>4, <2>5, PendingFrame
<1>11. ASSUME NEW t \in Threads, Take(t) PROVE PendingInv'
  <2>2. StepsTo(t, "release")
    BY <1>11, TakeMoves
  <2>4. call'[t].step # "inherit" /\ \A u \in Threads : u # t => call'[u] = call[u]
    BY <2>2 DEF Moves, StepsTo
  <2>5. UNCHANGED <<lastId, table, reported, cleaned, inCallback>>
    BY <1>11 DEF Take, tables, history
  <2>. QED BY <2>4, <2>5, PendingFrame
<1>12. ASSUME NEW t \in Threads, StoreConfig(t) PROVE PendingInv'
  <2>2. Moves(t, call[t].op, "stored", call[t].id, made'[call[t].id])
    BY <1>12, StoreConfigMoves
  <2>4. call'[t].step # "inherit" /\ \A u \in Threads : u # t => call'[u] = call[u]
    BY <2>2 DEF Moves, StepsTo
  <2>5. UNCHANGED <<lastId, table, reported, cleaned, inCallback>>
    BY <1>12 DEF StoreConfig, NewConfig, tables, history
  <2>. QED BY <2>4, <2>5, PendingFrame
<1>13. ASSUME NEW t \in Threads, OmitConfig(t) PROVE PendingInv'
  <2>2. Moves(t, call[t].op, "stored", call[t].id, made'[call[t].id])
    BY <1>13, OmitConfigMoves
  <2>4. call'[t].step # "inherit" /\ \A u \in Threads : u # t => call'[u] = call[u]
    BY <2>2 DEF Moves, StepsTo
  <2>5. UNCHANGED <<lastId, table, reported, cleaned, inCallback>>
    BY <1>13 DEF OmitConfig, NewConfig, tables, history
  <2>. QED BY <2>4, <2>5, PendingFrame
<1>14. ASSUME NEW t \in Threads, SetPacketizer(t) PROVE PendingInv'
  <2>2. StepsTo(t, "release")
    BY <1>14, SetPacketizerMoves
  <2>4. call'[t].step # "inherit" /\ \A u \in Threads : u # t => call'[u] = call[u]
    BY <2>2 DEF Moves, StepsTo
  <2>5. UNCHANGED <<lastId, table, reported, cleaned, inCallback>>
    BY <1>14 DEF SetPacketizer, tables, history
  <2>. QED BY <2>4, <2>5, PendingFrame
<1>15. ASSUME NEW t \in Threads, FindConfig(t) PROVE PendingInv'
  <2>2. \/ rtpConfigMap[call[t].id] = 0 /\ Moves(t, call[t].op, "release", call[t].id, 0)
        \/ rtpConfigMap[call[t].id] # 0 /\ Moves(t, call[t].op, "found", call[t].id, rtpConfigMap[call[t].id])
    BY <1>15, FindConfigMoves
  <2>4. call'[t].step # "inherit" /\ \A u \in Threads : u # t => call'[u] = call[u]
    BY <2>2 DEF Moves, StepsTo
  <2>5. UNCHANGED <<lastId, table, reported, cleaned, inCallback>>
    BY <1>15 DEF FindConfig, tables, history
  <2>. QED BY <2>4, <2>5, PendingFrame
<1>16. ASSUME NEW t \in Threads, ChainReporter(t) PROVE PendingInv'
  <2>2. StepsTo(t, "release")
    BY <1>16, ChainReporterMoves
  <2>4. call'[t].step # "inherit" /\ \A u \in Threads : u # t => call'[u] = call[u]
    BY <2>2 DEF Moves, StepsTo
  <2>5. UNCHANGED <<lastId, table, reported, cleaned, inCallback>>
    BY <1>16 DEF ChainReporter, tables, history
  <2>. QED BY <2>4, <2>5, PendingFrame
<1>17. ASSUME NEW t \in Threads, CloseChannel(t) PROVE PendingInv'
  <2>2. \/ call[t].op = "delete" /\ StepsTo(t, "closed")
        \/ call[t].op # "delete" /\ StepsTo(t, "release")
    BY <1>17, CloseChannelMoves
  <2>4. call'[t].step # "inherit" /\ \A u \in Threads : u # t => call'[u] = call[u]
    BY <2>2 DEF Moves, StepsTo
  <2>5. UNCHANGED <<lastId, table, reported, cleaned, inCallback>>
    BY <1>17 DEF CloseChannel, tables, history
  <2>. QED BY <2>4, <2>5, PendingFrame
<1>18. ASSUME NEW t \in Threads, NEW force \in BOOLEAN, CloseWebSocket(t, force) PROVE PendingInv'
  <2>2. \/ call[t].op = "delete" /\ StepsTo(t, "closed")
        \/ call[t].op # "delete" /\ StepsTo(t, "release")
    BY <1>18, CloseWebSocketMoves
  <2>4. call'[t].step # "inherit" /\ \A u \in Threads : u # t => call'[u] = call[u]
    BY <2>2 DEF Moves, StepsTo
  <2>5. UNCHANGED <<lastId, table, reported, cleaned, inCallback>>
    BY <1>18 DEF CloseWebSocket, tables, history
  <2>. QED BY <2>4, <2>5, PendingFrame
<1>19. ASSUME NEW t \in Threads, ClosePeerConnection(t) PROVE PendingInv'
  <2>2. \/ call[t].op = "delete" /\ StepsTo(t, "closed")
        \/ call[t].op # "delete" /\ StepsTo(t, "release")
        \/ Moves(t, call[t].op, "resetting", call[t].id, 1)
    BY <1>19, ClosePeerConnectionMoves
  <2>4. call'[t].step # "inherit" /\ \A u \in Threads : u # t => call'[u] = call[u]
    BY <2>2 DEF Moves, StepsTo
  <2>5. UNCHANGED <<lastId, table, reported, cleaned, inCallback>>
    BY <1>19 DEF ClosePeerConnection, tables, history
  <2>. QED BY <2>4, <2>5, PendingFrame
<1>20. ASSUME NEW t \in Threads, ResetCallbacks(t) PROVE PendingInv'
  <2>2. \/ call[t].x = 1 /\ call[t].op = "delete" /\ StepsTo(t, "closed")
        \/ call[t].x = 1 /\ call[t].op # "delete" /\ StepsTo(t, "release")
        \/ call[t].x # 1 /\ Moves(t, "none", "none", 0, 0)
    BY <1>20, ResetCallbacksMoves
  <2>4. call'[t].step # "inherit" /\ \A u \in Threads : u # t => call'[u] = call[u]
    BY <2>2 DEF Moves, StepsTo
  <2>5. UNCHANGED <<lastId, table, reported, cleaned, inCallback>>
    BY <1>20 DEF ResetCallbacks, tables, history
  <2>. QED BY <2>4, <2>5, PendingFrame
<1>21. ASSUME NEW t \in Threads, StopServer(t) PROVE PendingInv'
  <2>2. \/ t = Lib /\ StepsTo(t, "release")
        \/ t # Lib /\ StepsTo(t, "closed")
    BY <1>21, StopServerMoves
  <2>4. call'[t].step # "inherit" /\ \A u \in Threads : u # t => call'[u] = call[u]
    BY <2>2 DEF Moves, StepsTo
  <2>5. UNCHANGED <<lastId, table, reported, cleaned, inCallback>>
    BY <1>21 DEF StopServer, tables, history
  <2>. QED BY <2>4, <2>5, PendingFrame
<1>22. ASSUME NEW t \in Threads, Erase(t) PROVE PendingInv'
  <2>2. \/ call[t].id \in table /\ StepsTo(t, "erased")
        \/ call[t].id \notin table /\ StepsTo(t, "release")
    BY <1>22, EraseMoves
  <2>. QED BY <1>22, <2>2, CApiAssumption, CallIds, CallbackIds
    DEF Erase, In, Step, tables, messages, media, history, objects, Moves, StepsTo, PendingInv,
        Offering, CallShape, ShapeOf, CallFacts, CallbackFacts, TableTypes, CApiTypeOK, Known,
        Ids, Idle
<1>23. ASSUME NEW t \in Threads, ReleaseRef(t) PROVE PendingInv'
  <2>2. \/ call[t].id \notin table /\ LastRef(t, call[t].id) /\ kind[call[t].id] = "pc" /\ closer[call[t].id] = "open" /\ Moves(t, IF call[t].step = "erased" THEN "delete" ELSE "use", "resetting", call[t].id, 0)
        \/ Moves(t, "none", "none", 0, 0)
    BY <1>23, ReleaseRefMoves
  <2>4. call'[t].step # "inherit" /\ \A u \in Threads : u # t => call'[u] = call[u]
    BY <2>2 DEF Moves, StepsTo
  <2>5. UNCHANGED <<lastId, table, reported, cleaned, inCallback>>
    BY <1>23 DEF ReleaseRef, tables, history
  <2>. QED BY <2>4, <2>5, PendingFrame
<1>24. ASSUME NEW t \in Threads, EraseAll(t) PROVE PendingInv'
  <2>2. Moves(t, "none", "none", 0, 0)
    BY <1>24, EraseAllMoves
  <2>3. inCallback' = inCallback /\ reported' = reported /\ lastId' = lastId
    BY <1>24 DEF EraseAll
  <2>4. Offering => cleaned'
    BY <1>24 DEF EraseAll, Offering
  <2>5. \A u \in Threads : u # t /\ call[u].step = "inherit" => cleaned'
    <3>. SUFFICES ASSUME NEW u \in Threads, u # t, call[u].step = "inherit" PROVE cleaned'
      OBVIOUS
    <3>1. call[u] # Idle
      BY DEF Idle
    <3>. QED BY <1>24, <3>1 DEF EraseAll
  <2>. QED BY <2>2, <2>3, <2>4, <2>5 DEF Moves, PendingInv, Offering
<1>25. CASE CallbackEmplace
  <2>0. PICK k \in {"ws", "dc", "tr"} : Emplace(k, inCallback.id)
    BY <1>25 DEF CallbackEmplace
  <2>1. EmplaceFacts(k, inCallback.id)
    BY <1>25, <2>0, NewIdentifier, CApiAssumption DEF Channels, TableTypes, CApiTypeOK,
        CallbackEmplace, CallTypes, CallbackOK, CallbackRecord
  <2>3. CallbackMoves("locked", inCallback.id, lastId', inCallback.ptr)
    BY <1>25, <2>0, CallbackEmplaceMoves DEF Channels
  <2>4. call' = call /\ reported' = reported /\ cleaned' = cleaned
    BY <1>25 DEF CallbackEmplace, history
  <2>5. \A i \in 1 .. lastId : i \in 1 .. lastId'
    BY <2>1, CApiAssumption DEF EmplaceFacts
  <2>6. lastId' \notin reported /\ lastId' \in table' /\ lastId' \in 1 .. lastId'
    BY <2>1, CApiAssumption DEF EmplaceFacts, TableTypes, Known
  <2>. QED BY <2>1, <2>3, <2>4, <2>5, <2>6 DEF EmplaceFacts, CallbackMoves, PendingInv, Offering
<1>26. CASE CallbackCheck
  <2>3. \/ userPointerMap[inCallback.id] = "absent" /\ CallbackMoves("idle", 0, 0, "absent")
       \/ /\ userPointerMap[inCallback.id] # "absent"
          /\ CallbackMoves(IF inCallback.new = 0 THEN "running" ELSE "inherit", inCallback.id,
                           inCallback.new, userPointerMap[inCallback.id])
    BY <1>26, CallbackCheckMoves
  <2>. QED BY <1>26, <2>3, CApiAssumption, CallIds, CallbackIds
    DEF CallbackCheck, tables, messages, media, history, objects, CallbackMoves, PendingInv,
        Offering, CallShape, ShapeOf, CallFacts, CallbackFacts, TableTypes, CApiTypeOK, Known,
        Ids, Idle
<1>27. CASE CallbackInherit
  <2>3. CallbackMoves("running", inCallback.id, inCallback.new, inCallback.ptr)
    BY <1>27, CallbackInheritMoves
  <2>. QED BY <1>27, <2>3, CApiAssumption, CallIds, CallbackIds
    DEF CallbackInherit, tables, messages, media, history, objects, CallbackMoves, PendingInv,
        Offering, CallShape, ShapeOf, CallFacts, CallbackFacts, TableTypes, CApiTypeOK, Known,
        Ids, Idle
<1>28. CASE CallbackReturn
  <2>3. CallbackMoves("idle", 0, 0, "absent")
    BY <1>28, CallbackReturnMoves
  <2>. QED BY <1>28, <2>3, CApiAssumption, CallIds, CallbackIds
    DEF CallbackReturn, tables, messages, media, history, objects, CallbackMoves, PendingInv,
        Offering, CallShape, ShapeOf, CallFacts, CallbackFacts, TableTypes, CApiTypeOK, Known,
        Ids, Idle
<1>29. ASSUME NEW id \in Ids, Arrive(id) PROVE PendingInv'
  BY <1>29, CApiAssumption, CallIds, CallbackIds
  DEF Arrive, tables, messages, media, history, objects, PendingInv, Offering, CallShape, ShapeOf,
      CallFacts, CallbackFacts, TableTypes, CApiTypeOK, Known, Ids, Idle
<1>30. ASSUME NEW id \in Ids, RemoteShut(id) PROVE PendingInv'
  BY <1>30, CApiAssumption, CallIds, CallbackIds
  DEF RemoteShut, tables, messages, media, history, objects, PendingInv, Offering, CallShape,
      ShapeOf, CallFacts, CallbackFacts, TableTypes, CApiTypeOK, Known, Ids, Idle
<1>31. ASSUME NEW id \in Ids, RemoteReset(id) PROVE PendingInv'
  BY <1>31, CApiAssumption, CallIds, CallbackIds
  DEF RemoteReset, tables, messages, media, history, objects, PendingInv, Offering, CallShape,
      ShapeOf, CallFacts, CallbackFacts, TableTypes, CApiTypeOK, Known, Ids, Idle
<1>32. ASSUME NEW id \in Ids, NEW offer \in BOOLEAN, CallbackStart(id, offer) PROVE PendingInv'
  <2>3. CallbackMoves(IF offer THEN "offer" ELSE "locked", id, 0, "absent")
    BY <1>32, CallbackStartMoves
  <2>. QED BY <1>32, <2>3, CApiAssumption, CallIds, CallbackIds
    DEF CallbackStart, tables, messages, media, history, objects, CallbackMoves, PendingInv,
        Offering, CallShape, ShapeOf, CallFacts, CallbackFacts, TableTypes, CApiTypeOK, Known,
        Ids, Idle
<1>33. CASE UNCHANGED cVars
  BY <1>33
  DEF cVars, tables, messages, media, history, objects, PendingInv, Offering, CallShape, ShapeOf,
      CallFacts, CallbackFacts, TableTypes, CApiTypeOK, Known, Ids, Idle
<1>. QED BY <1>1, <1>2, <1>3, <1>4, <1>5, <1>6, <1>7, <1>8, <1>9, <1>10, <1>11, <1>12, <1>13,
    <1>14, <1>15, <1>16, <1>17, <1>18, <1>19, <1>20, <1>21, <1>22, <1>23, <1>24, <1>25, <1>26,
    <1>27, <1>28, <1>29, <1>30, <1>31, <1>32, <1>33 DEF CStep

-----------------------------------------------------------------------------

(* A call that uses its object, receives or sets a configuration: it stays     *)
(* with its object, and changes neither tables nor callbacks.                  *)
Works(t) ==
    /\ call[t].step \in {"got", "peeked", "empty", "stored", "found"}
    /\ \E s \in {"release", "peeked", "empty", "stored", "found"}, n \in Nat : Moves(t, call[t].op, s, call[t].id, n)
    /\ UNCHANGED <<lastId, kind, parent, table, userPointerMap, mutexOwner, inCallback, installed, closer,
                   reported, gone, raced, ownSet, cleaned, topic>>

LEMMA UseWorks ==
    ASSUME TableTypes, CallTypes, CallShape, PendingInv, MessageTypes, MediaTypes, NEW t \in
        Threads, NEW k \in {"pc", "dc", "tr"}, Use(t, k)
    PROVE  Works(t)
<1>1. StepsTo(t, "release")
  BY UseMoves
<1>2. \E s \in {"release", "peeked", "empty", "stored", "found"} : \E n \in Nat : Moves(t, call[t].op, s, call[t].id, n)
  BY <1>1, CallIds DEF StepsTo, CallFacts
<1>. QED BY <1>2 DEF Works, Use, In, tables, objects, history

LEMMA PeekWorks ==
    ASSUME TableTypes, CallTypes, CallShape, PendingInv, MessageTypes, MediaTypes, NEW t \in
        Threads, Peek(t)
    PROVE  Works(t)
<1>1. \/ queue[call[t].id] = <<>> /\ StepsTo(t, "release")
      \/ queue[call[t].id] # <<>> /\ Moves(t, "receive", IF Head(queue[call[t].id]) \in emptied THEN "empty" ELSE "peeked", call[t].id, Head(queue[call[t].id]))
  BY PeekMoves
<1>2. \E s \in {"release", "peeked", "empty", "stored", "found"} : \E n \in Nat : Moves(t, call[t].op, s, call[t].id, n)
  <2>1. CASE queue[call[t].id] = <<>>
    BY <1>1, <2>1, CallIds DEF StepsTo, CallFacts
  <2>2. CASE queue[call[t].id] # <<>>
    <3>0. call[t].id \in Ids /\ call[t].op = "receive"
      BY CallIds DEF Peek, In, CallFacts
    <3>1. Head(queue[call[t].id]) \in Nat
      BY <2>2, <3>0 DEF MessageTypes
    <3>. QED BY <1>1, <2>2, <3>0, <3>1
  <2>. QED BY <2>1, <2>2
<1>. QED BY <1>2 DEF Works, Peek, In, tables, objects, history

LEMMA KeepWorks ==
    ASSUME TableTypes, CallTypes, CallShape, PendingInv, MessageTypes, MediaTypes, NEW t \in
        Threads, Keep(t)
    PROVE  Works(t)
<1>1. StepsTo(t, "release")
  BY KeepMoves
<1>2. \E s \in {"release", "peeked", "empty", "stored", "found"} : \E n \in Nat : Moves(t, call[t].op, s, call[t].id, n)
  BY <1>1, CallIds DEF StepsTo, CallFacts
<1>. QED BY <1>2 DEF Works, Keep, tables, objects, history

LEMMA TakeWorks ==
    ASSUME TableTypes, CallTypes, CallShape, PendingInv, MessageTypes, MediaTypes, NEW t \in
        Threads, Take(t)
    PROVE  Works(t)
<1>1. StepsTo(t, "release")
  BY TakeMoves
<1>2. \E s \in {"release", "peeked", "empty", "stored", "found"} : \E n \in Nat : Moves(t, call[t].op, s, call[t].id, n)
  BY <1>1, CallIds DEF StepsTo, CallFacts
<1>. QED BY <1>2 DEF Works, Take, tables, objects, history

LEMMA StoreConfigWorks ==
    ASSUME TableTypes, CallTypes, CallShape, PendingInv, MessageTypes, MediaTypes, NEW t \in
        Threads, StoreConfig(t)
    PROVE  Works(t)
<1>1. Moves(t, call[t].op, "stored", call[t].id, made'[call[t].id])
  BY StoreConfigMoves
<1>2. \E s \in {"release", "peeked", "empty", "stored", "found"} : \E n \in Nat : Moves(t, call[t].op, s, call[t].id, n)
  <2>1. call[t].id \in Ids
    BY CallIds DEF StoreConfig, NewConfig, In, CallFacts
  <2>2. made'[call[t].id] \in Nat
    BY <2>1 DEF StoreConfig, NewConfig, MediaTypes
  <2>. QED BY <1>1, <2>2
<1>. QED BY <1>2 DEF Works, StoreConfig, NewConfig, In, tables, objects, history

LEMMA OmitConfigWorks ==
    ASSUME TableTypes, CallTypes, CallShape, PendingInv, MessageTypes, MediaTypes, NEW t \in
        Threads, OmitConfig(t)
    PROVE  Works(t)
<1>1. Moves(t, call[t].op, "stored", call[t].id, made'[call[t].id])
  BY OmitConfigMoves
<1>2. \E s \in {"release", "peeked", "empty", "stored", "found"} : \E n \in Nat : Moves(t, call[t].op, s, call[t].id, n)
  <2>1. call[t].id \in Ids
    BY CallIds DEF OmitConfig, NewConfig, In, CallFacts
  <2>2. made'[call[t].id] \in Nat
    BY <2>1 DEF OmitConfig, NewConfig, MediaTypes
  <2>. QED BY <1>1, <2>2
<1>. QED BY <1>2 DEF Works, OmitConfig, NewConfig, In, tables, objects, history

LEMMA SetPacketizerWorks ==
    ASSUME TableTypes, CallTypes, CallShape, PendingInv, MessageTypes, MediaTypes, NEW t \in
        Threads, SetPacketizer(t)
    PROVE  Works(t)
<1>1. StepsTo(t, "release")
  BY SetPacketizerMoves
<1>2. \E s \in {"release", "peeked", "empty", "stored", "found"} : \E n \in Nat : Moves(t, call[t].op, s, call[t].id, n)
  BY <1>1, CallIds DEF StepsTo, CallFacts
<1>. QED BY <1>2 DEF Works, SetPacketizer, tables, objects, history

LEMMA FindConfigWorks ==
    ASSUME TableTypes, CallTypes, CallShape, PendingInv, MessageTypes, MediaTypes, NEW t \in
        Threads, FindConfig(t)
    PROVE  Works(t)
<1>1. \/ rtpConfigMap[call[t].id] = 0 /\ Moves(t, call[t].op, "release", call[t].id, 0)
      \/ rtpConfigMap[call[t].id] # 0 /\ Moves(t, call[t].op, "found", call[t].id, rtpConfigMap[call[t].id])
  BY FindConfigMoves
<1>2. \E s \in {"release", "peeked", "empty", "stored", "found"} : \E n \in Nat : Moves(t, call[t].op, s, call[t].id, n)
  BY <1>1, CallIds DEF FindConfig, In, CallFacts, MediaTypes
<1>. QED BY <1>2 DEF Works, FindConfig, In, tables, objects, history

LEMMA ChainReporterWorks ==
    ASSUME TableTypes, CallTypes, CallShape, PendingInv, MessageTypes, MediaTypes, NEW t \in
        Threads, ChainReporter(t)
    PROVE  Works(t)
<1>1. StepsTo(t, "release")
  BY ChainReporterMoves
<1>2. \E s \in {"release", "peeked", "empty", "stored", "found"} : \E n \in Nat : Moves(t, call[t].op, s, call[t].id, n)
  BY <1>1, CallIds DEF StepsTo, CallFacts
<1>. QED BY <1>2 DEF Works, ChainReporter, tables, objects, history

(* The steps, with those calls taken together.                                 *)
CBigStep ==
    \/ \E t \in Threads, op \in OpsOf(topic), id \in Ids : Get(t, op, id)
    \/ \E t \in Threads, k \in {"pc", "ws", "srv"} : installed' \in {installed, installed \cup {lastId'}} /\ CreateObject(t, k)
    \/ \E t \in Threads, id \in Ids : SetUserPointer(t, id, "p")
    \/ \E t \in Threads : CleanupStart(t)
    \/ \E t \in Threads : Works(t)
    \/ \E t \in Threads, kinds \in SUBSET {"pc", "dc", "ws", "tr"} : Install(t, kinds)
    \/ \E t \in Threads, op \in {"channel", "track"}, k \in {"dc", "tr"} : NewChannel(t, op, k)
    \/ \E t \in Threads : InheritPointer(t)
    \/ \E t \in Threads : CloseChannel(t)
    \/ \E t \in Threads, force \in BOOLEAN : CloseWebSocket(t, force)
    \/ \E t \in Threads : ClosePeerConnection(t)
    \/ \E t \in Threads : ResetCallbacks(t)
    \/ \E t \in Threads : StopServer(t)
    \/ \E t \in Threads : Erase(t)
    \/ \E t \in Threads : ReleaseRef(t)
    \/ \E t \in Threads : EraseAll(t)
    \/ CallbackEmplace
    \/ CallbackCheck
    \/ CallbackInherit
    \/ CallbackReturn
    \/ \E id \in Ids : Arrive(id)
    \/ \E id \in Ids : RemoteShut(id)
    \/ \E id \in Ids : RemoteReset(id)
    \/ \E id \in Ids, offer \in BOOLEAN : CallbackStart(id, offer)
    \/ UNCHANGED cVars

LEMMA CBigSteps == CBase /\ [CNext]_cVars => CBigStep
<1>. SUFFICES ASSUME TableTypes, CallTypes, MessageTypes, MediaTypes, CallShape, PendingInv, CStep PROVE CBigStep
  BY CSteps DEF CBase
<1>1. ASSUME NEW t \in Threads, NEW op \in OpsOf(topic), NEW id \in Ids, Get(t, op, id) PROVE
    CBigStep
  BY <1>1 DEF CBigStep
<1>2. ASSUME NEW t \in Threads, NEW k \in {"pc", "ws", "srv"}, installed' \in {installed,
    installed \cup {lastId'}}, CreateObject(t, k) PROVE CBigStep
  BY <1>2 DEF CBigStep
<1>3. ASSUME NEW t \in Threads, NEW id \in Ids, SetUserPointer(t, id, "p") PROVE CBigStep
  BY <1>3 DEF CBigStep
<1>4. ASSUME NEW t \in Threads, CleanupStart(t) PROVE CBigStep
  BY <1>4 DEF CBigStep
<1>5. ASSUME NEW t \in Threads, NEW k \in {"pc", "dc", "tr"}, Use(t, k) PROVE CBigStep
  BY <1>5, UseWorks DEF CBigStep
<1>6. ASSUME NEW t \in Threads, NEW kinds \in SUBSET {"pc", "dc", "ws", "tr"}, Install(t, kinds)
    PROVE CBigStep
  BY <1>6 DEF CBigStep
<1>7. ASSUME NEW t \in Threads, NEW op \in {"channel", "track"}, NEW k \in {"dc", "tr"},
    NewChannel(t, op, k) PROVE CBigStep
  BY <1>7 DEF CBigStep
<1>8. ASSUME NEW t \in Threads, InheritPointer(t) PROVE CBigStep
  BY <1>8 DEF CBigStep
<1>9. ASSUME NEW t \in Threads, Peek(t) PROVE CBigStep
  BY <1>9, PeekWorks DEF CBigStep
<1>10. ASSUME NEW t \in Threads, Keep(t) PROVE CBigStep
  BY <1>10, KeepWorks DEF CBigStep
<1>11. ASSUME NEW t \in Threads, Take(t) PROVE CBigStep
  BY <1>11, TakeWorks DEF CBigStep
<1>12. ASSUME NEW t \in Threads, StoreConfig(t) PROVE CBigStep
  BY <1>12, StoreConfigWorks DEF CBigStep
<1>13. ASSUME NEW t \in Threads, OmitConfig(t) PROVE CBigStep
  BY <1>13, OmitConfigWorks DEF CBigStep
<1>14. ASSUME NEW t \in Threads, SetPacketizer(t) PROVE CBigStep
  BY <1>14, SetPacketizerWorks DEF CBigStep
<1>15. ASSUME NEW t \in Threads, FindConfig(t) PROVE CBigStep
  BY <1>15, FindConfigWorks DEF CBigStep
<1>16. ASSUME NEW t \in Threads, ChainReporter(t) PROVE CBigStep
  BY <1>16, ChainReporterWorks DEF CBigStep
<1>17. ASSUME NEW t \in Threads, CloseChannel(t) PROVE CBigStep
  BY <1>17 DEF CBigStep
<1>18. ASSUME NEW t \in Threads, NEW force \in BOOLEAN, CloseWebSocket(t, force) PROVE CBigStep
  BY <1>18 DEF CBigStep
<1>19. ASSUME NEW t \in Threads, ClosePeerConnection(t) PROVE CBigStep
  BY <1>19 DEF CBigStep
<1>20. ASSUME NEW t \in Threads, ResetCallbacks(t) PROVE CBigStep
  BY <1>20 DEF CBigStep
<1>21. ASSUME NEW t \in Threads, StopServer(t) PROVE CBigStep
  BY <1>21 DEF CBigStep
<1>22. ASSUME NEW t \in Threads, Erase(t) PROVE CBigStep
  BY <1>22 DEF CBigStep
<1>23. ASSUME NEW t \in Threads, ReleaseRef(t) PROVE CBigStep
  BY <1>23 DEF CBigStep
<1>24. ASSUME NEW t \in Threads, EraseAll(t) PROVE CBigStep
  BY <1>24 DEF CBigStep
<1>25. CASE CallbackEmplace
  BY <1>25 DEF CBigStep
<1>26. CASE CallbackCheck
  BY <1>26 DEF CBigStep
<1>27. CASE CallbackInherit
  BY <1>27 DEF CBigStep
<1>28. CASE CallbackReturn
  BY <1>28 DEF CBigStep
<1>29. ASSUME NEW id \in Ids, Arrive(id) PROVE CBigStep
  BY <1>29 DEF CBigStep
<1>30. ASSUME NEW id \in Ids, RemoteShut(id) PROVE CBigStep
  BY <1>30 DEF CBigStep
<1>31. ASSUME NEW id \in Ids, RemoteReset(id) PROVE CBigStep
  BY <1>31 DEF CBigStep
<1>32. ASSUME NEW id \in Ids, NEW offer \in BOOLEAN, CallbackStart(id, offer) PROVE CBigStep
  BY <1>32 DEF CBigStep
<1>33. CASE UNCHANGED cVars
  BY <1>33 DEF CBigStep
<1>. QED BY <1>1, <1>2, <1>3, <1>4, <1>5, <1>6, <1>7, <1>8, <1>9, <1>10, <1>11, <1>12, <1>13,
    <1>14, <1>15, <1>16, <1>17, <1>18, <1>19, <1>20, <1>21, <1>22, <1>23, <1>24, <1>25, <1>26,
    <1>27, <1>28, <1>29, <1>30, <1>31, <1>32, <1>33 DEF CStep


(* Who changes neither the tables nor an object being made leaves that alone.  *)
LEMMA ReportFrame ==
    ASSUME ReportInv, \A u \in Threads : call[u].step = "inherit" => call'[u] = call[u],
           UNCHANGED <<table, reported, parent, inCallback>>
    PROVE  ReportInv'
BY DEF ReportInv, Offering

(* Nobody is left unreported but with its connection or server gone.           *)
LEMMA ReportStep == CBase /\ PointerInv /\ ReportInv /\ [CNext]_cVars => ReportInv'
<1>. SUFFICES ASSUME TableTypes, CallTypes, MessageTypes, MediaTypes, CallShape, CallbackShape,
    PendingInv, PointerInv, ReportInv, CBigStep PROVE ReportInv'
  BY CBigSteps DEF CBase
<1>1. ASSUME NEW t \in Threads, NEW op \in OpsOf(topic), NEW id \in Ids, Get(t, op, id) PROVE
    ReportInv'
  <2>2. Moves(t, op, "got", id, 0)
    BY <1>1, GetMoves
  <2>4. \A u \in Threads : call[u].step = "inherit" => call'[u] = call[u]
    BY <1>1, <2>2 DEF Get, Moves, StepsTo, Idle
  <2>5. UNCHANGED <<table, reported, parent, inCallback>>
    BY <1>1 DEF Get, tables, messages, media, history, objects
  <2>. QED BY <2>4, <2>5, ReportFrame
<1>2. ASSUME NEW t \in Threads, NEW k \in {"pc", "ws", "srv"}, installed' \in {installed,
    installed \cup {lastId'}}, CreateObject(t, k) PROVE ReportInv'
  <2>1. EmplaceFacts(k, 0)
    BY <1>2, NewIdentifier, CApiAssumption DEF Channels, TableTypes, CApiTypeOK, CreateObject
  <2>2. UNCHANGED <<call, inCallback>> /\ reported' = reported \cup {lastId'}
    BY <1>2 DEF CreateObject
  <2>3. \A i \in table' \ reported' : i \in table \ reported /\ i \in Ids /\ parent'[i] = parent[i]
    BY <2>1, <2>2, CApiAssumption DEF EmplaceFacts, TableTypes, CApiTypeOK, Ids
  <2>4. \A i \in Ids : parent[i] # lastId'
    BY <2>1, CApiAssumption DEF EmplaceFacts, TableTypes, CApiTypeOK, Recorded
  <2>5. table' = table \cup {lastId'}
    BY <2>1 DEF EmplaceFacts
  <2>. QED BY <2>2, <2>3, <2>4, <2>5 DEF ReportInv, Offering
<1>3. ASSUME NEW t \in Threads, NEW id \in Ids, SetUserPointer(t, id, "p") PROVE ReportInv'
  <2>4. \A u \in Threads : call[u].step = "inherit" => call'[u] = call[u]
    BY <1>3 DEF SetUserPointer
  <2>5. UNCHANGED <<table, reported, parent, inCallback>>
    BY <1>3 DEF SetUserPointer, tables, messages, media, history, objects
  <2>. QED BY <2>4, <2>5, ReportFrame
<1>4. ASSUME NEW t \in Threads, CleanupStart(t) PROVE ReportInv'
  <2>2. Moves(t, "cleanup", "clearing", 0, 0)
    BY <1>4, CleanupStartMoves
  <2>4. \A u \in Threads : call[u].step = "inherit" => call'[u] = call[u]
    BY <1>4, <2>2 DEF CleanupStart, Moves, StepsTo, Idle
  <2>5. UNCHANGED <<table, reported, parent, inCallback>>
    BY <1>4 DEF CleanupStart, tables, messages, media, history, objects
  <2>. QED BY <2>4, <2>5, ReportFrame
<1>5. ASSUME NEW t \in Threads, Works(t) PROVE ReportInv'
  <2>4. \A u \in Threads : call[u].step = "inherit" => call'[u] = call[u]
    BY <1>5 DEF Works, Moves
  <2>5. UNCHANGED <<table, reported, parent, inCallback>>
    BY <1>5 DEF Works, Moves, tables, messages, media, history, objects
  <2>. QED BY <2>4, <2>5, ReportFrame
<1>6. ASSUME NEW t \in Threads, NEW kinds \in SUBSET {"pc", "dc", "ws", "tr"}, Install(t, kinds)
    PROVE ReportInv'
  <2>2. StepsTo(t, "release")
    BY <1>6, InstallMoves
  <2>4. \A u \in Threads : call[u].step = "inherit" => call'[u] = call[u]
    BY <1>6, <2>2 DEF Install, In, Step, Quiet, Moves, StepsTo, Idle
  <2>5. UNCHANGED <<table, reported, parent, inCallback>>
    BY <1>6 DEF Install, In, Step, Quiet, tables, messages, media, history, objects
  <2>. QED BY <2>4, <2>5, ReportFrame
<1>7. ASSUME NEW t \in Threads, NEW op \in {"channel", "track"}, NEW k \in {"dc", "tr"},
    NewChannel(t, op, k) PROVE ReportInv'
  <2>1. EmplaceFacts(k, 0)
    BY <1>7, NewIdentifier, CApiAssumption DEF Channels, TableTypes, CApiTypeOK, NewChannel
  <2>2. Moves(t, call[t].op, "inherit", call[t].id, lastId')
    BY <1>7, NewChannelMoves
  <2>3. inCallback' = inCallback /\ reported' = reported
    BY <1>7 DEF NewChannel, history
  <2>4. call[t].step # "inherit"
    BY <1>7 DEF NewChannel, In
  <2>5. \A i \in Ids : parent[i] # lastId'
    BY <2>1, CApiAssumption DEF EmplaceFacts, TableTypes, CApiTypeOK, Recorded
  <2>6. SUFFICES ASSUME NEW id \in table', id \notin reported
        PROVE  IF parent'[id] = 0 THEN \E u \in Threads : call'[u].step = "inherit" /\ call'[u].x = id
               ELSE parent'[id] \notin table' \/ (Offering /\ inCallback.new = id /\ inCallback.id = parent'[id])
    BY <2>3 DEF ReportInv, Offering
  <2>7. CASE id = lastId'
    BY <2>1, <2>2, <2>7 DEF EmplaceFacts, Moves
  <2>8. CASE id # lastId'
    <3>1. id \in table /\ id \in Ids /\ parent'[id] = parent[id]
      BY <2>1, <2>6, <2>8, CApiAssumption DEF EmplaceFacts, TableTypes, CApiTypeOK, Ids
    <3>2. \A u \in Threads : call[u].step = "inherit" => call'[u] = call[u]
      BY <2>2, <2>4 DEF Moves
    <3>3. CASE parent[id] = 0
      BY <2>6, <3>1, <3>2, <3>3 DEF ReportInv
    <3>4. CASE parent[id] # 0
      <4>1. parent[id] # lastId' /\ table' = table \cup {lastId'}
        BY <2>1, <2>5, <3>1 DEF EmplaceFacts
      <4>. QED BY <2>6, <3>1, <3>4, <4>1 DEF ReportInv
    <3>. QED BY <3>3, <3>4
  <2>. QED BY <2>7, <2>8
<1>8. ASSUME NEW t \in Threads, InheritPointer(t) PROVE ReportInv'
  <2>2. StepsTo(t, "release")
    BY <1>8, InheritPointerMoves
  <2>4. UNCHANGED <<table, parent, inCallback>> /\ reported' = reported \cup {call[t].x} /\ call[t].step = "inherit"
    BY <1>8 DEF InheritPointer
  <2>5. \A u \in Threads : u # t => call'[u] = call[u]
    BY <2>2 DEF StepsTo, Moves
  <2>. QED BY <2>4, <2>5 DEF ReportInv, Offering
<1>9. ASSUME NEW t \in Threads, CloseChannel(t) PROVE ReportInv'
  <2>2. \/ call[t].op = "delete" /\ StepsTo(t, "closed")
        \/ call[t].op # "delete" /\ StepsTo(t, "release")
    BY <1>9, CloseChannelMoves
  <2>4. \A u \in Threads : call[u].step = "inherit" => call'[u] = call[u]
    BY <1>9, <2>2 DEF CloseChannel, Step, Quiet, Moves, StepsTo, Idle
  <2>5. UNCHANGED <<table, reported, parent, inCallback>>
    BY <1>9 DEF CloseChannel, Step, Quiet, tables, messages, media, history, objects
  <2>. QED BY <2>4, <2>5, ReportFrame
<1>10. ASSUME NEW t \in Threads, NEW force \in BOOLEAN, CloseWebSocket(t, force) PROVE ReportInv'
  <2>2. \/ call[t].op = "delete" /\ StepsTo(t, "closed")
        \/ call[t].op # "delete" /\ StepsTo(t, "release")
    BY <1>10, CloseWebSocketMoves
  <2>4. \A u \in Threads : call[u].step = "inherit" => call'[u] = call[u]
    BY <1>10, <2>2 DEF CloseWebSocket, Step, Quiet, Moves, StepsTo, Idle
  <2>5. UNCHANGED <<table, reported, parent, inCallback>>
    BY <1>10 DEF CloseWebSocket, Step, Quiet, tables, messages, media, history, objects
  <2>. QED BY <2>4, <2>5, ReportFrame
<1>11. ASSUME NEW t \in Threads, ClosePeerConnection(t) PROVE ReportInv'
  <2>2. \/ call[t].op = "delete" /\ StepsTo(t, "closed")
        \/ call[t].op # "delete" /\ StepsTo(t, "release")
        \/ Moves(t, call[t].op, "resetting", call[t].id, 1)
    BY <1>11, ClosePeerConnectionMoves
  <2>4. \A u \in Threads : call[u].step = "inherit" => call'[u] = call[u]
    BY <1>11, <2>2 DEF ClosePeerConnection, Step, Moves, StepsTo, Idle
  <2>5. UNCHANGED <<table, reported, parent, inCallback>>
    BY <1>11 DEF ClosePeerConnection, Step, tables, messages, media, history, objects
  <2>. QED BY <2>4, <2>5, ReportFrame
<1>12. ASSUME NEW t \in Threads, ResetCallbacks(t) PROVE ReportInv'
  <2>2. \/ call[t].x = 1 /\ call[t].op = "delete" /\ StepsTo(t, "closed")
        \/ call[t].x = 1 /\ call[t].op # "delete" /\ StepsTo(t, "release")
        \/ call[t].x # 1 /\ Moves(t, "none", "none", 0, 0)
    BY <1>12, ResetCallbacksMoves
  <2>4. \A u \in Threads : call[u].step = "inherit" => call'[u] = call[u]
    BY <1>12, <2>2 DEF ResetCallbacks, Step, Quiet, Moves, StepsTo, Idle
  <2>5. UNCHANGED <<table, reported, parent, inCallback>>
    BY <1>12 DEF ResetCallbacks, Step, Quiet, tables, messages, media, history, objects
  <2>. QED BY <2>4, <2>5, ReportFrame
<1>13. ASSUME NEW t \in Threads, StopServer(t) PROVE ReportInv'
  <2>2. \/ t = Lib /\ StepsTo(t, "release")
        \/ t # Lib /\ StepsTo(t, "closed")
    BY <1>13, StopServerMoves
  <2>4. \A u \in Threads : call[u].step = "inherit" => call'[u] = call[u]
    BY <1>13, <2>2 DEF StopServer, In, Step, Quiet, Moves, StepsTo, Idle
  <2>5. UNCHANGED <<table, reported, parent, inCallback>>
    BY <1>13 DEF StopServer, In, Step, Quiet, tables, messages, media, history, objects
  <2>. QED BY <2>4, <2>5, ReportFrame
<1>14. ASSUME NEW t \in Threads, Erase(t) PROVE ReportInv'
  <2>2. \/ call[t].id \in table /\ StepsTo(t, "erased")
        \/ call[t].id \notin table /\ StepsTo(t, "release")
    BY <1>14, EraseMoves
  <2>. QED BY <1>14, <2>2, CApiAssumption, CallIds, CallbackIds
    DEF Erase, In, Step, tables, messages, media, history, objects, Moves, StepsTo, ReportInv,
        PendingInv, PointerInv, Offering, CallShape, ShapeOf, LibraryShape, CallFacts,
        CallbackFacts, TableTypes, CApiTypeOK, Known, Recorded, Ids, Idle
<1>15. ASSUME NEW t \in Threads, ReleaseRef(t) PROVE ReportInv'
  <2>2. \/ call[t].id \notin table /\ LastRef(t, call[t].id) /\ kind[call[t].id] = "pc" /\ closer[call[t].id] = "open" /\ Moves(t, IF call[t].step = "erased" THEN "delete" ELSE "use", "resetting", call[t].id, 0)
        \/ Moves(t, "none", "none", 0, 0)
    BY <1>15, ReleaseRefMoves
  <2>4. \A u \in Threads : call[u].step = "inherit" => call'[u] = call[u]
    BY <1>15, <2>2 DEF ReleaseRef, LastRef, Quiet, Unwaited, Moves, StepsTo, Idle
  <2>5. UNCHANGED <<table, reported, parent, inCallback>>
    BY <1>15 DEF ReleaseRef, LastRef, Quiet, Unwaited, tables, messages, media, history, objects
  <2>. QED BY <2>4, <2>5, ReportFrame
<1>16. ASSUME NEW t \in Threads, EraseAll(t) PROVE ReportInv'
  <2>2. Moves(t, "none", "none", 0, 0)
    BY <1>16, EraseAllMoves
  <2>. QED BY <1>16, <2>2, CApiAssumption, CallIds, CallbackIds
    DEF EraseAll, LastRef, Quiet, Unwaited, tables, messages, media, history, objects, Moves,
        StepsTo, ReportInv, PendingInv, PointerInv, Offering, CallShape, ShapeOf, LibraryShape,
        CallFacts, CallbackFacts, TableTypes, CApiTypeOK, Known, Recorded, Ids, Idle
<1>17. CASE CallbackEmplace
  <2>0. PICK k \in {"ws", "dc", "tr"} : Emplace(k, inCallback.id)
    BY <1>17 DEF CallbackEmplace
  <2>1. EmplaceFacts(k, inCallback.id)
    BY <1>17, <2>0, NewIdentifier, CApiAssumption DEF Channels, TableTypes, CApiTypeOK,
        CallbackEmplace, CallTypes, CallbackOK, CallbackRecord
  <2>3. CallbackMoves("locked", inCallback.id, lastId', inCallback.ptr)
    BY <1>17, <2>0, CallbackEmplaceMoves DEF Channels
  <2>4. UNCHANGED <<call, reported>> /\ inCallback.step = "offer"
    BY <1>17 DEF CallbackEmplace, history
  <2>5. \A i \in Ids : parent[i] # lastId'
    BY <2>1, CApiAssumption DEF EmplaceFacts, TableTypes, CApiTypeOK, Recorded
  <2>6. \A i \in table' : i # lastId' => i \in table /\ i \in Ids /\ parent'[i] = parent[i]
    BY <2>1, CApiAssumption DEF EmplaceFacts, TableTypes, CApiTypeOK, Ids
  <2>7. table' = table \cup {lastId'} /\ parent'[lastId'] = inCallback.id /\ lastId' # 0
    BY <2>1, CApiAssumption DEF EmplaceFacts, Ids
  <2>8. inCallback.id # 0
    BY <2>4, CallbackIds, CApiAssumption DEF CallbackFacts, Ids
  <2>9. Offering' /\ inCallback'.new = lastId' /\ inCallback'.id = inCallback.id /\ ~Offering
    BY <2>3, <2>4, <2>7 DEF CallbackMoves, Offering
  <2>. QED BY <2>4, <2>5, <2>6, <2>7, <2>8, <2>9 DEF ReportInv
<1>18. CASE CallbackCheck
  <2>3. \/ userPointerMap[inCallback.id] = "absent" /\ CallbackMoves("idle", 0, 0, "absent")
       \/ /\ userPointerMap[inCallback.id] # "absent"
          /\ CallbackMoves(IF inCallback.new = 0 THEN "running" ELSE "inherit", inCallback.id,
                           inCallback.new, userPointerMap[inCallback.id])
    BY <1>18, CallbackCheckMoves
  <2>. QED BY <1>18, <2>3, CApiAssumption, CallIds, CallbackIds
    DEF CallbackCheck, tables, messages, media, history, objects, CallbackMoves, ReportInv,
        PendingInv, PointerInv, Offering, CallShape, ShapeOf, LibraryShape, CallFacts,
        CallbackFacts, TableTypes, CApiTypeOK, Known, Recorded, Ids, Idle
<1>19. CASE CallbackInherit
  <2>3. CallbackMoves("running", inCallback.id, inCallback.new, inCallback.ptr)
    BY <1>19, CallbackInheritMoves
  <2>. QED BY <1>19, <2>3, CApiAssumption, CallIds, CallbackIds
    DEF CallbackInherit, tables, messages, media, history, objects, CallbackMoves, ReportInv,
        PendingInv, PointerInv, Offering, CallShape, ShapeOf, LibraryShape, CallFacts,
        CallbackFacts, TableTypes, CApiTypeOK, Known, Recorded, Ids, Idle
<1>20. CASE CallbackReturn
  <2>3. CallbackMoves("idle", 0, 0, "absent")
    BY <1>20, CallbackReturnMoves
  <2>4. ~Offering /\ UNCHANGED <<table, reported, parent, call>>
    BY <1>20 DEF CallbackReturn, Offering, tables, history
  <2>. QED BY <2>4 DEF ReportInv, Offering
<1>21. ASSUME NEW id \in Ids, Arrive(id) PROVE ReportInv'
  <2>4. \A u \in Threads : call[u].step = "inherit" => call'[u] = call[u]
    BY <1>21 DEF Arrive
  <2>5. UNCHANGED <<table, reported, parent, inCallback>>
    BY <1>21 DEF Arrive, tables, messages, media, history, objects
  <2>. QED BY <2>4, <2>5, ReportFrame
<1>22. ASSUME NEW id \in Ids, RemoteShut(id) PROVE ReportInv'
  <2>4. \A u \in Threads : call[u].step = "inherit" => call'[u] = call[u]
    BY <1>22 DEF RemoteShut
  <2>5. UNCHANGED <<table, reported, parent, inCallback>>
    BY <1>22 DEF RemoteShut, tables, messages, media, history, objects
  <2>. QED BY <2>4, <2>5, ReportFrame
<1>23. ASSUME NEW id \in Ids, RemoteReset(id) PROVE ReportInv'
  <2>4. \A u \in Threads : call[u].step = "inherit" => call'[u] = call[u]
    BY <1>23 DEF RemoteReset
  <2>5. UNCHANGED <<table, reported, parent, inCallback>>
    BY <1>23 DEF RemoteReset, tables, messages, media, history, objects
  <2>. QED BY <2>4, <2>5, ReportFrame
<1>24. ASSUME NEW id \in Ids, NEW offer \in BOOLEAN, CallbackStart(id, offer) PROVE ReportInv'
  <2>3. CallbackMoves(IF offer THEN "offer" ELSE "locked", id, 0, "absent")
    BY <1>24, CallbackStartMoves
  <2>. QED BY <1>24, <2>3, CApiAssumption, CallIds, CallbackIds
    DEF CallbackStart, tables, messages, media, history, objects, CallbackMoves, ReportInv,
        PendingInv, PointerInv, Offering, CallShape, ShapeOf, LibraryShape, CallFacts,
        CallbackFacts, TableTypes, CApiTypeOK, Known, Recorded, Ids, Idle
<1>25. CASE UNCHANGED cVars
  BY <1>25
  DEF cVars, tables, messages, media, history, objects, ReportInv, PendingInv, PointerInv,
      Offering, CallShape, ShapeOf, LibraryShape, CallFacts, CallbackFacts, TableTypes,
      CApiTypeOK, Known, Recorded, Ids, Idle
<1>. QED BY <1>1, <1>2, <1>3, <1>4, <1>5, <1>6, <1>7, <1>8, <1>9, <1>10, <1>11, <1>12, <1>13,
    <1>14, <1>15, <1>16, <1>17, <1>18, <1>19, <1>20, <1>21, <1>22, <1>23, <1>24, <1>25 DEF CBigStep

(* Calls that leave the table of pointers alone.                               *)
LEMMA PointerFrame ==
    ASSUME PointerInv, UNCHANGED <<table, userPointerMap, kind, ownSet, reported, cleaned>> PROVE PointerInv'
BY DEF PointerInv, PointerKept

(* The table of pointers follows that of the objects.                          *)
LEMMA PointerStep == CBase /\ PointerInv /\ ServerInv /\ [CNext]_cVars => PointerInv'
<1>. SUFFICES ASSUME TableTypes, CallTypes, MessageTypes, MediaTypes, CallShape, CallbackShape,
    PendingInv, PointerInv, ServerInv, CBigStep PROVE PointerInv'
  BY CBigSteps DEF CBase
<1>1. ASSUME NEW t \in Threads, NEW op \in OpsOf(topic), NEW id \in Ids, Get(t, op, id) PROVE
    PointerInv'
  <2>2. Moves(t, op, "got", id, 0)
    BY <1>1, GetMoves
  <2>5. UNCHANGED <<table, userPointerMap, kind, ownSet, reported, cleaned>>
    BY <1>1 DEF Get, tables, messages, media, history, objects
  <2>. QED BY <2>5, PointerFrame
<1>2. ASSUME NEW t \in Threads, NEW k \in {"pc", "ws", "srv"}, installed' \in {installed,
    installed \cup {lastId'}}, CreateObject(t, k) PROVE PointerInv'
  <2>1. EmplaceFacts(k, 0)
    BY <1>2, NewIdentifier, CApiAssumption DEF Channels, TableTypes, CApiTypeOK, CreateObject
  <2>2. UNCHANGED <<ownSet, cleaned>> /\ reported' = reported \cup {lastId'}
    BY <1>2 DEF CreateObject
  <2>3. \A i \in table : i \in Ids /\ i # lastId'
    BY <2>1, CApiAssumption DEF EmplaceFacts, TableTypes, CApiTypeOK, Ids
  <2>4. lastId' \in Ids /\ lastId' \notin reported
    BY <2>1, CApiAssumption DEF EmplaceFacts, TableTypes, Known
  <2>. QED BY <2>1, <2>2, <2>3, <2>4 DEF EmplaceFacts, PointerInv, PointerKept
<1>3. ASSUME NEW t \in Threads, NEW id \in Ids, SetUserPointer(t, id, "p") PROVE PointerInv'
  <2>1. id \in reported /\ id \in table /\ UNCHANGED <<table, kind, reported, cleaned>>
    BY <1>3 DEF SetUserPointer
  <2>2. userPointerMap' = [userPointerMap EXCEPT ![id] = "p"] /\ ownSet' = [ownSet EXCEPT ![id] = "p"]
    BY <1>3 DEF SetUserPointer
  <2>3. \A i \in Ids : /\ userPointerMap'[i] = IF i = id THEN "p" ELSE userPointerMap[i]
                       /\ ownSet'[i] = IF i = id THEN "p" ELSE ownSet[i]
    BY <2>2 DEF TableTypes, CApiTypeOK, Recorded
  <2>4. \A i \in table : i \in Ids
    BY CApiAssumption DEF TableTypes, CApiTypeOK, Ids
  <2>. QED BY <2>1, <2>3, <2>4 DEF PointerInv, PointerKept
<1>4. ASSUME NEW t \in Threads, CleanupStart(t) PROVE PointerInv'
  <2>2. Moves(t, "cleanup", "clearing", 0, 0)
    BY <1>4, CleanupStartMoves
  <2>5. UNCHANGED <<table, userPointerMap, kind, ownSet, reported, cleaned>>
    BY <1>4 DEF CleanupStart, tables, messages, media, history, objects
  <2>. QED BY <2>5, PointerFrame
<1>5. ASSUME NEW t \in Threads, Works(t) PROVE PointerInv'
  <2>5. UNCHANGED <<table, userPointerMap, kind, ownSet, reported, cleaned>>
    BY <1>5 DEF Works, Moves, tables, messages, media, history, objects
  <2>. QED BY <2>5, PointerFrame
<1>6. ASSUME NEW t \in Threads, NEW kinds \in SUBSET {"pc", "dc", "ws", "tr"}, Install(t, kinds)
    PROVE PointerInv'
  <2>2. StepsTo(t, "release")
    BY <1>6, InstallMoves
  <2>5. UNCHANGED <<table, userPointerMap, kind, ownSet, reported, cleaned>>
    BY <1>6 DEF Install, In, Step, Quiet, tables, messages, media, history, objects
  <2>. QED BY <2>5, PointerFrame
<1>7. ASSUME NEW t \in Threads, NEW op \in {"channel", "track"}, NEW k \in {"dc", "tr"},
    NewChannel(t, op, k) PROVE PointerInv'
  <2>1. EmplaceFacts(k, 0)
    BY <1>7, NewIdentifier, CApiAssumption DEF Channels, TableTypes, CApiTypeOK, NewChannel
  <2>2. Moves(t, call[t].op, "inherit", call[t].id, lastId')
    BY <1>7, NewChannelMoves
  <2>. QED BY <1>7, <2>1, <2>2, CApiAssumption, CallIds, CallbackIds
    DEF NewChannel, In, Step, tables, messages, media, history, objects, Moves, StepsTo,
        EmplaceFacts, PointerInv, PointerKept, ServerInv, PendingInv, Offering, CallShape,
        ShapeOf, LibraryShape, CallFacts, CallbackFacts, TableTypes, CApiTypeOK, Known, Recorded,
        Ids, Idle
<1>8. ASSUME NEW t \in Threads, InheritPointer(t) PROVE PointerInv'
  <2>2. StepsTo(t, "release")
    BY <1>8, InheritPointerMoves
  <2>. QED BY <1>8, <2>2, CApiAssumption, CallIds, CallbackIds
    DEF InheritPointer, Step, tables, messages, media, history, objects, Moves, StepsTo,
        PointerInv, PointerKept, ServerInv, PendingInv, Offering, CallShape, ShapeOf,
        LibraryShape, CallFacts, CallbackFacts, TableTypes, CApiTypeOK, Known, Recorded, Ids, Idle
<1>9. ASSUME NEW t \in Threads, CloseChannel(t) PROVE PointerInv'
  <2>2. \/ call[t].op = "delete" /\ StepsTo(t, "closed")
        \/ call[t].op # "delete" /\ StepsTo(t, "release")
    BY <1>9, CloseChannelMoves
  <2>5. UNCHANGED <<table, userPointerMap, kind, ownSet, reported, cleaned>>
    BY <1>9 DEF CloseChannel, Step, Quiet, tables, messages, media, history, objects
  <2>. QED BY <2>5, PointerFrame
<1>10. ASSUME NEW t \in Threads, NEW force \in BOOLEAN, CloseWebSocket(t, force) PROVE PointerInv'
  <2>2. \/ call[t].op = "delete" /\ StepsTo(t, "closed")
        \/ call[t].op # "delete" /\ StepsTo(t, "release")
    BY <1>10, CloseWebSocketMoves
  <2>5. UNCHANGED <<table, userPointerMap, kind, ownSet, reported, cleaned>>
    BY <1>10 DEF CloseWebSocket, Step, Quiet, tables, messages, media, history, objects
  <2>. QED BY <2>5, PointerFrame
<1>11. ASSUME NEW t \in Threads, ClosePeerConnection(t) PROVE PointerInv'
  <2>2. \/ call[t].op = "delete" /\ StepsTo(t, "closed")
        \/ call[t].op # "delete" /\ StepsTo(t, "release")
        \/ Moves(t, call[t].op, "resetting", call[t].id, 1)
    BY <1>11, ClosePeerConnectionMoves
  <2>5. UNCHANGED <<table, userPointerMap, kind, ownSet, reported, cleaned>>
    BY <1>11 DEF ClosePeerConnection, Step, tables, messages, media, history, objects
  <2>. QED BY <2>5, PointerFrame
<1>12. ASSUME NEW t \in Threads, ResetCallbacks(t) PROVE PointerInv'
  <2>2. \/ call[t].x = 1 /\ call[t].op = "delete" /\ StepsTo(t, "closed")
        \/ call[t].x = 1 /\ call[t].op # "delete" /\ StepsTo(t, "release")
        \/ call[t].x # 1 /\ Moves(t, "none", "none", 0, 0)
    BY <1>12, ResetCallbacksMoves
  <2>5. UNCHANGED <<table, userPointerMap, kind, ownSet, reported, cleaned>>
    BY <1>12 DEF ResetCallbacks, Step, Quiet, tables, messages, media, history, objects
  <2>. QED BY <2>5, PointerFrame
<1>13. ASSUME NEW t \in Threads, StopServer(t) PROVE PointerInv'
  <2>2. \/ t = Lib /\ StepsTo(t, "release")
        \/ t # Lib /\ StepsTo(t, "closed")
    BY <1>13, StopServerMoves
  <2>5. UNCHANGED <<table, userPointerMap, kind, ownSet, reported, cleaned>>
    BY <1>13 DEF StopServer, In, Step, Quiet, tables, messages, media, history, objects
  <2>. QED BY <2>5, PointerFrame
<1>14. ASSUME NEW t \in Threads, Erase(t) PROVE PointerInv'
  <2>2. \/ call[t].id \in table /\ StepsTo(t, "erased")
        \/ call[t].id \notin table /\ StepsTo(t, "release")
    BY <1>14, EraseMoves
  <2>3. \A i \in table : i \in Ids
    BY CApiAssumption DEF TableTypes, CApiTypeOK, Ids
  <2>4. table' = table \ {call[t].id} /\ UNCHANGED <<kind, ownSet, reported, cleaned>>
    BY <1>14 DEF Erase, history
  <2>5. CASE call[t].id \in table
    <3>1. \A i \in Ids : userPointerMap'[i] = IF i = call[t].id THEN "absent" ELSE userPointerMap[i]
      BY <1>14, <2>5 DEF Erase, TableTypes, CApiTypeOK
    <3>. QED BY <2>3, <2>4, <2>5, <3>1 DEF PointerInv, PointerKept
  <2>6. CASE call[t].id \notin table
    <3>1. userPointerMap' = userPointerMap
      BY <1>14, <2>6 DEF Erase
    <3>. QED BY <2>3, <2>4, <2>6, <3>1 DEF PointerInv, PointerKept
  <2>. QED BY <2>5, <2>6
<1>15. ASSUME NEW t \in Threads, ReleaseRef(t) PROVE PointerInv'
  <2>2. \/ call[t].id \notin table /\ LastRef(t, call[t].id) /\ kind[call[t].id] = "pc" /\ closer[call[t].id] = "open" /\ Moves(t, IF call[t].step = "erased" THEN "delete" ELSE "use", "resetting", call[t].id, 0)
        \/ Moves(t, "none", "none", 0, 0)
    BY <1>15, ReleaseRefMoves
  <2>5. UNCHANGED <<table, userPointerMap, kind, ownSet, reported, cleaned>>
    BY <1>15 DEF ReleaseRef, LastRef, Quiet, Unwaited, tables, messages, media, history, objects
  <2>. QED BY <2>5, PointerFrame
<1>16. ASSUME NEW t \in Threads, EraseAll(t) PROVE PointerInv'
  <2>2. Moves(t, "none", "none", 0, 0)
    BY <1>16, EraseAllMoves
  <2>. QED BY <1>16, <2>2, CApiAssumption, CallIds, CallbackIds
    DEF EraseAll, LastRef, Quiet, Unwaited, tables, messages, media, history, objects, Moves,
        StepsTo, PointerInv, PointerKept, ServerInv, PendingInv, Offering, CallShape, ShapeOf,
        LibraryShape, CallFacts, CallbackFacts, TableTypes, CApiTypeOK, Known, Recorded, Ids, Idle
<1>17. CASE CallbackEmplace
  <2>0. PICK k \in {"ws", "dc", "tr"} : Emplace(k, inCallback.id)
    BY <1>17 DEF CallbackEmplace
  <2>1. EmplaceFacts(k, inCallback.id)
    BY <1>17, <2>0, NewIdentifier, CApiAssumption DEF Channels, TableTypes, CApiTypeOK,
        CallbackEmplace, CallTypes, CallbackOK, CallbackRecord
  <2>3. CallbackMoves("locked", inCallback.id, lastId', inCallback.ptr)
    BY <1>17, <2>0, CallbackEmplaceMoves DEF Channels
  <2>. QED BY <1>17, <2>1, <2>3, CApiAssumption, CallIds, CallbackIds
    DEF CallbackEmplace, tables, messages, media, history, objects, EmplaceFacts, CallbackMoves,
        PointerInv, PointerKept, ServerInv, PendingInv, Offering, CallShape, ShapeOf,
        LibraryShape, CallFacts, CallbackFacts, TableTypes, CApiTypeOK, Known, Recorded, Ids, Idle
<1>18. CASE CallbackCheck
  <2>3. \/ userPointerMap[inCallback.id] = "absent" /\ CallbackMoves("idle", 0, 0, "absent")
       \/ /\ userPointerMap[inCallback.id] # "absent"
          /\ CallbackMoves(IF inCallback.new = 0 THEN "running" ELSE "inherit", inCallback.id,
                           inCallback.new, userPointerMap[inCallback.id])
    BY <1>18, CallbackCheckMoves
  <2>5. UNCHANGED <<table, userPointerMap, kind, ownSet, reported, cleaned>>
    BY <1>18 DEF CallbackCheck, tables, messages, media, history, objects
  <2>. QED BY <2>5, PointerFrame
<1>19. CASE CallbackInherit
  <2>3. CallbackMoves("running", inCallback.id, inCallback.new, inCallback.ptr)
    BY <1>19, CallbackInheritMoves
  <2>4. UNCHANGED <<table, kind, ownSet, cleaned>> /\ reported' = reported \cup {inCallback.new}
    BY <1>19 DEF CallbackInherit
  <2>5. inCallback.id \in Ids /\ inCallback.new \in Ids /\ inCallback.ptr # "absent" /\ Offering
    BY <1>19, CallbackIds, CApiAssumption DEF CallbackInherit, CallbackFacts, CallbackShape, Offering
  <2>6. inCallback.new \notin reported /\ (inCallback.new \in table \/ cleaned)
    BY <2>5 DEF PendingInv
  <2>7. kind[inCallback.id] = "srv" => inCallback.id \in table \/ cleaned
    BY <1>19 DEF CallbackInherit, ServerInv
  <2>8. \A i \in Ids : userPointerMap'[i] = IF i = (IF kind[inCallback.id] = "srv" THEN inCallback.id ELSE inCallback.new)
                                            THEN inCallback.ptr ELSE userPointerMap[i]
    BY <1>19 DEF CallbackInherit, TableTypes, CApiTypeOK
  <2>9. \A i \in table : i \in Ids
    BY CApiAssumption DEF TableTypes, CApiTypeOK, Ids
  <2>. QED BY <2>4, <2>5, <2>6, <2>7, <2>8, <2>9 DEF PointerInv, PointerKept
<1>20. CASE CallbackReturn
  <2>3. CallbackMoves("idle", 0, 0, "absent")
    BY <1>20, CallbackReturnMoves
  <2>5. UNCHANGED <<table, userPointerMap, kind, ownSet, reported, cleaned>>
    BY <1>20 DEF CallbackReturn, tables, messages, media, history, objects
  <2>. QED BY <2>5, PointerFrame
<1>21. ASSUME NEW id \in Ids, Arrive(id) PROVE PointerInv'
  <2>5. UNCHANGED <<table, userPointerMap, kind, ownSet, reported, cleaned>>
    BY <1>21 DEF Arrive, tables, messages, media, history, objects
  <2>. QED BY <2>5, PointerFrame
<1>22. ASSUME NEW id \in Ids, RemoteShut(id) PROVE PointerInv'
  <2>5. UNCHANGED <<table, userPointerMap, kind, ownSet, reported, cleaned>>
    BY <1>22 DEF RemoteShut, tables, messages, media, history, objects
  <2>. QED BY <2>5, PointerFrame
<1>23. ASSUME NEW id \in Ids, RemoteReset(id) PROVE PointerInv'
  <2>5. UNCHANGED <<table, userPointerMap, kind, ownSet, reported, cleaned>>
    BY <1>23 DEF RemoteReset, tables, messages, media, history, objects
  <2>. QED BY <2>5, PointerFrame
<1>24. ASSUME NEW id \in Ids, NEW offer \in BOOLEAN, CallbackStart(id, offer) PROVE PointerInv'
  <2>3. CallbackMoves(IF offer THEN "offer" ELSE "locked", id, 0, "absent")
    BY <1>24, CallbackStartMoves
  <2>5. UNCHANGED <<table, userPointerMap, kind, ownSet, reported, cleaned>>
    BY <1>24 DEF CallbackStart, tables, messages, media, history, objects
  <2>. QED BY <2>5, PointerFrame
<1>25. CASE UNCHANGED cVars
  BY <1>25
  DEF cVars, tables, messages, media, history, objects, PointerInv, PointerKept, ServerInv,
      PendingInv, Offering, CallShape, ShapeOf, LibraryShape, CallFacts, CallbackFacts,
      TableTypes, CApiTypeOK, Known, Recorded, Ids, Idle
<1>. QED BY <1>1, <1>2, <1>3, <1>4, <1>5, <1>6, <1>7, <1>8, <1>9, <1>10, <1>11, <1>12, <1>13,
    <1>14, <1>15, <1>16, <1>17, <1>18, <1>19, <1>20, <1>21, <1>22, <1>23, <1>24, <1>25 DEF CBigStep

(* Calls that reset no callback of a server and erase none.                    *)
LEMMA ServerFrame ==
    ASSUME ServerInv, \A u \in Threads : call'[u].step = "closed" => call[u].step = "closed" /\ call'[u].id = call[u].id,
           UNCHANGED <<table, kind, installed, cleaned, inCallback>>
    PROVE  ServerInv'
BY DEF ServerInv

(* A server is erased without a callback in progress.                          *)
LEMMA ServerStep == CBase /\ ServerInv /\ [CNext]_cVars => ServerInv'
<1>. SUFFICES ASSUME TableTypes, CallTypes, MessageTypes, MediaTypes, CallShape, CallbackShape,
    PendingInv, ServerInv, CBigStep PROVE ServerInv'
  BY CBigSteps DEF CBase
<1>1. ASSUME NEW t \in Threads, NEW op \in OpsOf(topic), NEW id \in Ids, Get(t, op, id) PROVE
    ServerInv'
  <2>2. Moves(t, op, "got", id, 0)
    BY <1>1, GetMoves
  <2>4. \A u \in Threads : call'[u].step = "closed" => call[u].step = "closed" /\ call'[u].id = call[u].id
    BY <1>1, <2>2 DEF Get, Moves, StepsTo
  <2>5. UNCHANGED <<table, kind, installed, cleaned, inCallback>>
    BY <1>1 DEF Get, tables, messages, media, history, objects
  <2>. QED BY <2>4, <2>5, ServerFrame
<1>2. ASSUME NEW t \in Threads, NEW k \in {"pc", "ws", "srv"}, installed' \in {installed,
    installed \cup {lastId'}}, CreateObject(t, k) PROVE ServerInv'
  <2>1. EmplaceFacts(k, 0)
    BY <1>2, NewIdentifier, CApiAssumption DEF Channels, TableTypes, CApiTypeOK, CreateObject
  <2>7. \A i \in 1 .. lastId : i \in Ids /\ kind'[i] = kind[i] /\ (i \in table' <=> i \in table)
    BY <2>1, CApiAssumption DEF EmplaceFacts, TableTypes, CApiTypeOK, Ids
  <2>2. UNCHANGED <<call, inCallback, cleaned>> /\ installed' \subseteq installed \cup {lastId'} /\ installed \subseteq installed'
    BY <1>2 DEF CreateObject, history
  <2>3. \A u \in Threads : call[u].step = "closed" => call[u].id \in 1 .. lastId
    BY CallIds DEF CallFacts
  <2>4. inCallback.step # "idle" => inCallback.id \in 1 .. lastId
    BY CallbackIds DEF CallbackFacts
  <2>5. \A i \in installed : i \in 1 .. lastId
    BY DEF TableTypes, Known
  <2>. QED BY <2>1, <2>2, <2>3, <2>4, <2>5, <2>7 DEF EmplaceFacts, ServerInv
<1>3. ASSUME NEW t \in Threads, NEW id \in Ids, SetUserPointer(t, id, "p") PROVE ServerInv'
  <2>4. \A u \in Threads : call'[u].step = "closed" => call[u].step = "closed" /\ call'[u].id = call[u].id
    BY <1>3 DEF SetUserPointer, Moves, StepsTo
  <2>5. UNCHANGED <<table, kind, installed, cleaned, inCallback>>
    BY <1>3 DEF SetUserPointer, tables, messages, media, history, objects
  <2>. QED BY <2>4, <2>5, ServerFrame
<1>4. ASSUME NEW t \in Threads, CleanupStart(t) PROVE ServerInv'
  <2>2. Moves(t, "cleanup", "clearing", 0, 0)
    BY <1>4, CleanupStartMoves
  <2>4. \A u \in Threads : call'[u].step = "closed" => call[u].step = "closed" /\ call'[u].id = call[u].id
    BY <1>4, <2>2 DEF CleanupStart, Moves, StepsTo
  <2>5. UNCHANGED <<table, kind, installed, cleaned, inCallback>>
    BY <1>4 DEF CleanupStart, tables, messages, media, history, objects
  <2>. QED BY <2>4, <2>5, ServerFrame
<1>5. ASSUME NEW t \in Threads, Works(t) PROVE ServerInv'
  <2>4. \A u \in Threads : call'[u].step = "closed" => call[u].step = "closed" /\ call'[u].id = call[u].id
    BY <1>5 DEF Works, Moves, StepsTo
  <2>5. UNCHANGED <<table, kind, installed, cleaned, inCallback>>
    BY <1>5 DEF Works, Moves, tables, messages, media, history, objects
  <2>. QED BY <2>4, <2>5, ServerFrame
<1>6. ASSUME NEW t \in Threads, NEW kinds \in SUBSET {"pc", "dc", "ws", "tr"}, Install(t, kinds)
    PROVE ServerInv'
  <2>2. StepsTo(t, "release")
    BY <1>6, InstallMoves
  <2>3. UNCHANGED <<table, kind, inCallback, cleaned>> /\ installed' = installed \cup {call[t].id} /\ kind[call[t].id] # "srv"
    BY <1>6 DEF Install, tables, history
  <2>4. call'[t].step = "release" /\ \A u \in Threads : u # t => call'[u] = call[u]
    BY <2>2 DEF Moves, StepsTo
  <2>. QED BY <2>3, <2>4 DEF ServerInv
<1>7. ASSUME NEW t \in Threads, NEW op \in {"channel", "track"}, NEW k \in {"dc", "tr"},
    NewChannel(t, op, k) PROVE ServerInv'
  <2>1. EmplaceFacts(k, 0)
    BY <1>7, NewIdentifier, CApiAssumption DEF Channels, TableTypes, CApiTypeOK, NewChannel
  <2>2. Moves(t, call[t].op, "inherit", call[t].id, lastId')
    BY <1>7, NewChannelMoves
  <2>7. \A i \in 1 .. lastId : i \in Ids /\ kind'[i] = kind[i] /\ (i \in table' <=> i \in table)
    BY <2>1, CApiAssumption DEF EmplaceFacts, TableTypes, CApiTypeOK, Ids
  <2>4. UNCHANGED <<inCallback, cleaned, installed>>
    BY <1>7 DEF NewChannel, history, objects
  <2>3. \A u \in Threads : call'[u].step = "closed" => call[u].step = "closed" /\ call'[u].id = call[u].id /\ call[u].id \in 1 .. lastId
    BY <2>2, CallIds DEF CallFacts, Moves
  <2>5. inCallback.step # "idle" => inCallback.id \in 1 .. lastId
    BY CallbackIds DEF CallbackFacts
  <2>6. \A i \in installed : i \in 1 .. lastId
    BY DEF TableTypes, Known
  <2>. QED BY <2>3, <2>4, <2>5, <2>6, <2>7 DEF ServerInv
<1>8. ASSUME NEW t \in Threads, InheritPointer(t) PROVE ServerInv'
  <2>2. StepsTo(t, "release")
    BY <1>8, InheritPointerMoves
  <2>4. \A u \in Threads : call'[u].step = "closed" => call[u].step = "closed" /\ call'[u].id = call[u].id
    BY <1>8, <2>2 DEF InheritPointer, Moves, StepsTo
  <2>5. UNCHANGED <<table, kind, installed, cleaned, inCallback>>
    BY <1>8 DEF InheritPointer, Step, tables, messages, media, history, objects
  <2>. QED BY <2>4, <2>5, ServerFrame
<1>9. ASSUME NEW t \in Threads, CloseChannel(t) PROVE ServerInv'
  <2>2. \/ call[t].op = "delete" /\ StepsTo(t, "closed")
        \/ call[t].op # "delete" /\ StepsTo(t, "release")
    BY <1>9, CloseChannelMoves
  <2>3. UNCHANGED <<table, kind, inCallback, cleaned>> /\ installed' = installed \ {call[t].id} /\ kind[call[t].id] # "srv"
    BY <1>9 DEF CloseChannel, tables, history
  <2>4. call'[t].id = call[t].id /\ \A u \in Threads : u # t => call'[u] = call[u]
    BY <2>2 DEF Moves, StepsTo
  <2>. QED BY <2>3, <2>4 DEF ServerInv
<1>10. ASSUME NEW t \in Threads, NEW force \in BOOLEAN, CloseWebSocket(t, force) PROVE ServerInv'
  <2>2. \/ call[t].op = "delete" /\ StepsTo(t, "closed")
        \/ call[t].op # "delete" /\ StepsTo(t, "release")
    BY <1>10, CloseWebSocketMoves
  <2>. QED BY <1>10, <2>2, CApiAssumption, CallIds, CallbackIds
    DEF CloseWebSocket, Step, Quiet, tables, messages, media, history, objects, Moves, StepsTo,
        ServerInv, CallShape, ShapeOf, LibraryShape, CallFacts, CallbackFacts, TableTypes,
        CApiTypeOK, Known, Recorded, Ids, Idle
<1>11. ASSUME NEW t \in Threads, ClosePeerConnection(t) PROVE ServerInv'
  <2>2. \/ call[t].op = "delete" /\ StepsTo(t, "closed")
        \/ call[t].op # "delete" /\ StepsTo(t, "release")
        \/ Moves(t, call[t].op, "resetting", call[t].id, 1)
    BY <1>11, ClosePeerConnectionMoves
  <2>4. kind[call[t].id] = "pc" /\ UNCHANGED <<table, kind, installed, cleaned, inCallback>>
    BY <1>11 DEF ClosePeerConnection, tables, history
  <2>5. \A u \in Threads : u # t => call'[u] = call[u]
    BY <2>2 DEF Moves, StepsTo
  <2>6. call'[t].id = call[t].id
    BY <2>2 DEF Moves, StepsTo
  <2>. QED BY <2>4, <2>5, <2>6 DEF ServerInv
<1>12. ASSUME NEW t \in Threads, ResetCallbacks(t) PROVE ServerInv'
  <2>2. \/ call[t].x = 1 /\ call[t].op = "delete" /\ StepsTo(t, "closed")
        \/ call[t].x = 1 /\ call[t].op # "delete" /\ StepsTo(t, "release")
        \/ call[t].x # 1 /\ Moves(t, "none", "none", 0, 0)
    BY <1>12, ResetCallbacksMoves
  <2>3. UNCHANGED <<table, kind, inCallback, cleaned>> /\ installed' = installed \ {call[t].id}
    BY <1>12 DEF ResetCallbacks, tables
  <2>4. \A u \in Threads : u # t => call'[u] = call[u]
    BY <2>2 DEF Moves, StepsTo
  <2>5. call'[t].step = "closed" => call'[t].id = call[t].id
    BY <2>2 DEF Moves, StepsTo
  <2>6. inCallback.step \in {"offer", "locked", "inherit"} => inCallback.id # call[t].id
    BY <1>12 DEF ResetCallbacks, Quiet, CallShape, ShapeOf, LibraryShape
  <2>. QED BY <2>3, <2>4, <2>5, <2>6 DEF ServerInv
<1>13. ASSUME NEW t \in Threads, StopServer(t) PROVE ServerInv'
  <2>2. \/ t = Lib /\ StepsTo(t, "release")
        \/ t # Lib /\ StepsTo(t, "closed")
    BY <1>13, StopServerMoves
  <2>. QED BY <1>13, <2>2, CApiAssumption, CallIds, CallbackIds
    DEF StopServer, In, Step, Quiet, tables, messages, media, history, objects, Moves, StepsTo,
        ServerInv, CallShape, ShapeOf, LibraryShape, CallFacts, CallbackFacts, TableTypes,
        CApiTypeOK, Known, Recorded, Ids, Idle
<1>14. ASSUME NEW t \in Threads, Erase(t) PROVE ServerInv'
  <2>2. \/ call[t].id \in table /\ StepsTo(t, "erased")
        \/ call[t].id \notin table /\ StepsTo(t, "release")
    BY <1>14, EraseMoves
  <2>. QED BY <1>14, <2>2, CApiAssumption, CallIds, CallbackIds
    DEF Erase, In, Step, tables, messages, media, history, objects, Moves, StepsTo, ServerInv,
        CallShape, ShapeOf, LibraryShape, CallFacts, CallbackFacts, TableTypes, CApiTypeOK, Known,
        Recorded, Ids, Idle
<1>15. ASSUME NEW t \in Threads, ReleaseRef(t) PROVE ServerInv'
  <2>2. \/ call[t].id \notin table /\ LastRef(t, call[t].id) /\ kind[call[t].id] = "pc" /\ closer[call[t].id] = "open" /\ Moves(t, IF call[t].step = "erased" THEN "delete" ELSE "use", "resetting", call[t].id, 0)
        \/ Moves(t, "none", "none", 0, 0)
    BY <1>15, ReleaseRefMoves
  <2>3. UNCHANGED <<table, kind, cleaned, inCallback>> /\ installed' \subseteq installed
    BY <1>15 DEF ReleaseRef, tables
  <2>4. \A u \in Threads : call'[u].step = "closed" => call'[u] = call[u]
    BY <2>2 DEF Moves
  <2>5. inCallback.step \in {"offer", "locked", "inherit"} /\ kind[inCallback.id] = "srv" /\ ~cleaned => inCallback.id \in installed'
    <3>. SUFFICES ASSUME inCallback.step \in {"offer", "locked", "inherit"}, kind[inCallback.id] = "srv", ~cleaned PROVE inCallback.id \in installed'
      OBVIOUS
    <3>1. inCallback.id \in installed
      BY DEF ServerInv
    <3>2. t # Lib
      BY <1>15 DEF ReleaseRef, CallShape, ShapeOf, LibraryShape
    <3>. QED BY <1>15, <3>1, <3>2 DEF ReleaseRef, Quiet
  <2>. QED BY <2>3, <2>4, <2>5 DEF ServerInv
<1>16. ASSUME NEW t \in Threads, EraseAll(t) PROVE ServerInv'
  <2>2. Moves(t, "none", "none", 0, 0)
    BY <1>16, EraseAllMoves
  <2>3. UNCHANGED <<kind, inCallback>> /\ installed' \subseteq installed /\ table' = {}
    BY <1>16 DEF EraseAll
  <2>4. \A u \in Threads : call'[u].step = "closed" => call'[u] = call[u]
    BY <2>2 DEF Moves
  <2>5. inCallback.step # "idle" => cleaned'
    BY <1>16 DEF EraseAll
  <2>6. \A id \in installed' : kind[id] = "srv" => cleaned'
    <3>. SUFFICES ASSUME NEW id \in installed', kind[id] = "srv" PROVE cleaned'
      OBVIOUS
    <3>1. PICK u \in Threads \ {t} : call[u].id = id
      BY <1>16 DEF EraseAll, LastRef
    <3>2. id # 0
      BY <2>3, CApiAssumption DEF TableTypes, CApiTypeOK, Ids
    <3>3. call[u] # Idle
      BY <3>1, <3>2 DEF Idle
    <3>. QED BY <1>16, <3>3 DEF EraseAll
  <2>. QED BY <2>3, <2>4, <2>5, <2>6 DEF ServerInv
<1>17. CASE CallbackEmplace
  <2>0. PICK k \in {"ws", "dc", "tr"} : Emplace(k, inCallback.id)
    BY <1>17 DEF CallbackEmplace
  <2>1. EmplaceFacts(k, inCallback.id)
    BY <1>17, <2>0, NewIdentifier, CApiAssumption DEF Channels, TableTypes, CApiTypeOK,
        CallbackEmplace, CallTypes, CallbackOK, CallbackRecord
  <2>3. CallbackMoves("locked", inCallback.id, lastId', inCallback.ptr)
    BY <1>17, <2>0, CallbackEmplaceMoves DEF Channels
  <2>7. \A i \in 1 .. lastId : i \in Ids /\ kind'[i] = kind[i] /\ (i \in table' <=> i \in table)
    BY <2>1, CApiAssumption DEF EmplaceFacts, TableTypes, CApiTypeOK, Ids
  <2>4. UNCHANGED <<call, cleaned, installed>> /\ inCallback.step = "offer"
    BY <1>17 DEF CallbackEmplace, history, objects
  <2>5. \A u \in Threads : call[u].step = "closed" => call[u].id \in 1 .. lastId
    BY CallIds DEF CallFacts
  <2>6. inCallback.id \in 1 .. lastId /\ inCallback'.id = inCallback.id
    BY <2>3, <2>4, CallbackIds DEF CallbackFacts, CallbackMoves
  <2>8. \A i \in installed : i \in 1 .. lastId
    BY DEF TableTypes, Known
  <2>. QED BY <2>4, <2>5, <2>6, <2>7, <2>8 DEF ServerInv
<1>18. CASE CallbackCheck
  <2>3. \/ userPointerMap[inCallback.id] = "absent" /\ CallbackMoves("idle", 0, 0, "absent")
       \/ /\ userPointerMap[inCallback.id] # "absent"
          /\ CallbackMoves(IF inCallback.new = 0 THEN "running" ELSE "inherit", inCallback.id,
                           inCallback.new, userPointerMap[inCallback.id])
    BY <1>18, CallbackCheckMoves
  <2>. QED BY <1>18, <2>3, CApiAssumption, CallIds, CallbackIds
    DEF CallbackCheck, tables, messages, media, history, objects, CallbackMoves, ServerInv,
        CallShape, ShapeOf, LibraryShape, CallFacts, CallbackFacts, TableTypes, CApiTypeOK, Known,
        Recorded, Ids, Idle
<1>19. CASE CallbackInherit
  <2>3. CallbackMoves("running", inCallback.id, inCallback.new, inCallback.ptr)
    BY <1>19, CallbackInheritMoves
  <2>. QED BY <1>19, <2>3, CApiAssumption, CallIds, CallbackIds
    DEF CallbackInherit, tables, messages, media, history, objects, CallbackMoves, ServerInv,
        CallShape, ShapeOf, LibraryShape, CallFacts, CallbackFacts, TableTypes, CApiTypeOK, Known,
        Recorded, Ids, Idle
<1>20. CASE CallbackReturn
  <2>3. CallbackMoves("idle", 0, 0, "absent")
    BY <1>20, CallbackReturnMoves
  <2>. QED BY <1>20, <2>3, CApiAssumption, CallIds, CallbackIds
    DEF CallbackReturn, tables, messages, media, history, objects, CallbackMoves, ServerInv,
        CallShape, ShapeOf, LibraryShape, CallFacts, CallbackFacts, TableTypes, CApiTypeOK, Known,
        Recorded, Ids, Idle
<1>21. ASSUME NEW id \in Ids, Arrive(id) PROVE ServerInv'
  <2>4. \A u \in Threads : call'[u].step = "closed" => call[u].step = "closed" /\ call'[u].id = call[u].id
    BY <1>21 DEF Arrive, Moves, StepsTo
  <2>5. UNCHANGED <<table, kind, installed, cleaned, inCallback>>
    BY <1>21 DEF Arrive, tables, messages, media, history, objects
  <2>. QED BY <2>4, <2>5, ServerFrame
<1>22. ASSUME NEW id \in Ids, RemoteShut(id) PROVE ServerInv'
  <2>4. \A u \in Threads : call'[u].step = "closed" => call[u].step = "closed" /\ call'[u].id = call[u].id
    BY <1>22 DEF RemoteShut, Moves, StepsTo
  <2>5. UNCHANGED <<table, kind, installed, cleaned, inCallback>>
    BY <1>22 DEF RemoteShut, tables, messages, media, history, objects
  <2>. QED BY <2>4, <2>5, ServerFrame
<1>23. ASSUME NEW id \in Ids, RemoteReset(id) PROVE ServerInv'
  BY <1>23, CApiAssumption, CallIds, CallbackIds
  DEF RemoteReset, tables, messages, media, history, objects, ServerInv, CallShape, ShapeOf,
      LibraryShape, CallFacts, CallbackFacts, TableTypes, CApiTypeOK, Known, Recorded, Ids, Idle
<1>24. ASSUME NEW id \in Ids, NEW offer \in BOOLEAN, CallbackStart(id, offer) PROVE ServerInv'
  <2>3. CallbackMoves(IF offer THEN "offer" ELSE "locked", id, 0, "absent")
    BY <1>24, CallbackStartMoves
  <2>. QED BY <1>24, <2>3, CApiAssumption, CallIds, CallbackIds
    DEF CallbackStart, tables, messages, media, history, objects, CallbackMoves, ServerInv,
        CallShape, ShapeOf, LibraryShape, CallFacts, CallbackFacts, TableTypes, CApiTypeOK, Known,
        Recorded, Ids, Idle
<1>25. CASE UNCHANGED cVars
  BY <1>25
  DEF cVars, tables, messages, media, history, objects, ServerInv, CallShape, ShapeOf,
      LibraryShape, CallFacts, CallbackFacts, TableTypes, CApiTypeOK, Known, Recorded, Ids, Idle
<1>. QED BY <1>1, <1>2, <1>3, <1>4, <1>5, <1>6, <1>7, <1>8, <1>9, <1>10, <1>11, <1>12, <1>13,
    <1>14, <1>15, <1>16, <1>17, <1>18, <1>19, <1>20, <1>21, <1>22, <1>23, <1>24, <1>25 DEF CBigStep

(* A call that goes on with its object shares it with whom it did, ...         *)
LEMMA RaceGoesOn ==
    ASSUME RaceInv, NEW t \in Threads, NEW s, NEW n, Moves(t, call[t].op, s, call[t].id, n),
           s # "erased", ~(s = "resetting" /\ n = 0), UNCHANGED <<table, raced>>
    PROVE  RaceInv'
<1>1. \A u \in Threads : call'[u].op = call[u].op /\ call'[u].id = call[u].id
  BY DEF Moves
<1>2. \A u \in Threads : call'[u].step = "erased" => call[u].step = "erased"
  BY DEF Moves
<1>3. \A u \in Threads : call'[u].step = "resetting" /\ call'[u].x = 0 => call[u].step = "resetting" /\ call[u].x = 0
  BY DEF Moves
<1>. QED BY <1>1, <1>2, <1>3 DEF RaceInv

(* ... and one that ends with nobody.                                          *)
LEMMA RaceEnds ==
    ASSUME RaceInv, CallTypes, CallShape, NEW t \in Threads, Moves(t, "none", "none", 0, 0), table' \subseteq table,
           \A i \in Ids : raced[i] # "no" => raced'[i] # "no", \A u \in Threads : call[u].id # 0 => call[u].id \in Ids
    PROVE  RaceInv'
<1>1. \A u \in Threads : u = t \/ call'[u] = call[u]
  BY DEF Moves
<1>2. call'[t].id = 0 /\ call'[t].step = "none" /\ call'[t].op = "none"
  BY DEF Moves
<1>. QED BY <1>1, <1>2 DEF RaceInv

(* A call that shares its object with a deletion is on record.                 *)
LEMMA RaceStep == CBase /\ RaceInv /\ [CNext]_cVars => RaceInv'
<1>. SUFFICES ASSUME TableTypes, CallTypes, MessageTypes, MediaTypes, CallShape, CallbackShape,
    PendingInv, RaceInv, CBigStep PROVE RaceInv'
  BY CBigSteps DEF CBase
<1>1. ASSUME NEW t \in Threads, NEW op \in OpsOf(topic), NEW id \in Ids, Get(t, op, id) PROVE
    RaceInv'
  <2>2. Moves(t, op, "got", id, 0)
    BY <1>1, GetMoves
  <2>9. \A u \in Threads : call[u].id # 0 => call[u].id \in Ids
    BY CallIds DEF CallFacts, CallShape, ShapeOf
  <2>4. id \in table /\ id # 0 /\ table' = table
    BY <1>1, CApiAssumption DEF Get, tables, Ids
  <2>5. \A i \in Ids : raced[i] # "no" => raced'[i] # "no"
    BY <1>1 DEF Get, TableTypes, Recorded
  <2>6. \A u \in Threads : u # t /\ call[u].id = id /\ (op = "delete" \/ call[u].op = "delete") => raced'[id] # "no"
    BY <1>1 DEF Get, TableTypes, Recorded
  <2>7. call'[t].op = op /\ call'[t].id = id /\ call'[t].step = "got" /\ \A u \in Threads : u # t => call'[u] = call[u]
    BY <2>2 DEF Moves
  <2>. QED BY <2>4, <2>5, <2>6, <2>7, <2>9 DEF RaceInv
<1>2. ASSUME NEW t \in Threads, NEW k \in {"pc", "ws", "srv"}, installed' \in {installed,
    installed \cup {lastId'}}, CreateObject(t, k) PROVE RaceInv'
  <2>1. EmplaceFacts(k, 0)
    BY <1>2, NewIdentifier, CApiAssumption DEF Channels, TableTypes, CApiTypeOK, CreateObject
  <2>. QED BY <1>2, <2>1, CApiAssumption, CallIds, CallbackIds
    DEF CreateObject, tables, messages, media, history, objects, EmplaceFacts, RaceInv, CallShape,
        ShapeOf, LibraryShape, CallFacts, CallbackFacts, TableTypes, CApiTypeOK, Known, Recorded,
        Ids, Idle
<1>3. ASSUME NEW t \in Threads, NEW id \in Ids, SetUserPointer(t, id, "p") PROVE RaceInv'
  <2>4. UNCHANGED <<table, raced, call>>
    BY <1>3 DEF SetUserPointer, tables, history
  <2>. QED BY <2>4 DEF RaceInv
<1>4. ASSUME NEW t \in Threads, CleanupStart(t) PROVE RaceInv'
  <2>2. Moves(t, "cleanup", "clearing", 0, 0)
    BY <1>4, CleanupStartMoves
  <2>. QED BY <1>4, <2>2, CApiAssumption, CallIds, CallbackIds
    DEF CleanupStart, tables, messages, media, history, objects, Moves, StepsTo, RaceInv,
        CallShape, ShapeOf, LibraryShape, CallFacts, CallbackFacts, TableTypes, CApiTypeOK, Known,
        Recorded, Ids, Idle
<1>5. ASSUME NEW t \in Threads, Works(t) PROVE RaceInv'
  <2>1. PICK s \in {"release", "peeked", "empty", "stored", "found"}, n \in Nat : Moves(t, call[t].op, s, call[t].id, n)
    BY <1>5 DEF Works
  <2>. QED BY <1>5, <2>1, RaceGoesOn DEF Works
<1>6. ASSUME NEW t \in Threads, NEW kinds \in SUBSET {"pc", "dc", "ws", "tr"}, Install(t, kinds)
    PROVE RaceInv'
  <2>2. StepsTo(t, "release")
    BY <1>6, InstallMoves
  <2>4. UNCHANGED <<table, raced>>
    BY <1>6 DEF Install, tables, history
  <2>. QED BY <2>2, <2>4, RaceGoesOn DEF StepsTo
<1>7. ASSUME NEW t \in Threads, NEW op \in {"channel", "track"}, NEW k \in {"dc", "tr"},
    NewChannel(t, op, k) PROVE RaceInv'
  <2>1. EmplaceFacts(k, 0)
    BY <1>7, NewIdentifier, CApiAssumption DEF Channels, TableTypes, CApiTypeOK, NewChannel
  <2>2. Moves(t, call[t].op, "inherit", call[t].id, lastId')
    BY <1>7, NewChannelMoves
  <2>4. raced' = raced /\ table' = table \cup {lastId'}
    BY <1>7, <2>1 DEF NewChannel, history, EmplaceFacts
  <2>5. \A u \in Threads : call[u].id # lastId'
    BY <2>1, CallIds, CApiAssumption DEF CallFacts, EmplaceFacts
  <2>6. \A u \in Threads : call'[u].op = call[u].op /\ call'[u].id = call[u].id
    BY <2>2 DEF Moves
  <2>7. \A u \in Threads : call'[u].step \in {"erased", "resetting"} => call'[u] = call[u]
    BY <2>2 DEF Moves
  <2>. QED BY <2>4, <2>5, <2>6, <2>7 DEF RaceInv
<1>8. ASSUME NEW t \in Threads, InheritPointer(t) PROVE RaceInv'
  <2>2. StepsTo(t, "release")
    BY <1>8, InheritPointerMoves
  <2>4. UNCHANGED <<table, raced>>
    BY <1>8 DEF InheritPointer, tables, history
  <2>. QED BY <2>2, <2>4, RaceGoesOn DEF StepsTo
<1>9. ASSUME NEW t \in Threads, CloseChannel(t) PROVE RaceInv'
  <2>2. \/ call[t].op = "delete" /\ StepsTo(t, "closed")
        \/ call[t].op # "delete" /\ StepsTo(t, "release")
    BY <1>9, CloseChannelMoves
  <2>4. UNCHANGED <<table, raced>>
    BY <1>9 DEF CloseChannel, tables, history
  <2>. QED BY <2>2, <2>4, RaceGoesOn DEF StepsTo
<1>10. ASSUME NEW t \in Threads, NEW force \in BOOLEAN, CloseWebSocket(t, force) PROVE RaceInv'
  <2>2. \/ call[t].op = "delete" /\ StepsTo(t, "closed")
        \/ call[t].op # "delete" /\ StepsTo(t, "release")
    BY <1>10, CloseWebSocketMoves
  <2>4. UNCHANGED <<table, raced>>
    BY <1>10 DEF CloseWebSocket, tables, history
  <2>. QED BY <2>2, <2>4, RaceGoesOn DEF StepsTo
<1>11. ASSUME NEW t \in Threads, ClosePeerConnection(t) PROVE RaceInv'
  <2>2. \/ call[t].op = "delete" /\ StepsTo(t, "closed")
        \/ call[t].op # "delete" /\ StepsTo(t, "release")
        \/ Moves(t, call[t].op, "resetting", call[t].id, 1)
    BY <1>11, ClosePeerConnectionMoves
  <2>4. UNCHANGED <<table, raced>>
    BY <1>11 DEF ClosePeerConnection, tables, history
  <2>. QED BY <2>2, <2>4, RaceGoesOn DEF StepsTo
<1>12. ASSUME NEW t \in Threads, ResetCallbacks(t) PROVE RaceInv'
  <2>2. \/ call[t].x = 1 /\ call[t].op = "delete" /\ StepsTo(t, "closed")
        \/ call[t].x = 1 /\ call[t].op # "delete" /\ StepsTo(t, "release")
        \/ call[t].x # 1 /\ Moves(t, "none", "none", 0, 0)
    BY <1>12, ResetCallbacksMoves
  <2>9. \A u \in Threads : call[u].id # 0 => call[u].id \in Ids
    BY CallIds DEF CallFacts, CallShape, ShapeOf
  <2>4. UNCHANGED <<table, raced>>
    BY <1>12 DEF ResetCallbacks, tables
  <2>5. CASE call[t].x = 1
    BY <2>2, <2>4, <2>5, RaceGoesOn DEF StepsTo
  <2>6. CASE call[t].x # 1
    BY <2>2, <2>4, <2>6, <2>9, RaceEnds
  <2>. QED BY <2>5, <2>6
<1>13. ASSUME NEW t \in Threads, StopServer(t) PROVE RaceInv'
  <2>2. \/ t = Lib /\ StepsTo(t, "release")
        \/ t # Lib /\ StepsTo(t, "closed")
    BY <1>13, StopServerMoves
  <2>4. UNCHANGED <<table, raced>>
    BY <1>13 DEF StopServer, tables, history
  <2>. QED BY <2>2, <2>4, RaceGoesOn DEF StepsTo
<1>14. ASSUME NEW t \in Threads, Erase(t) PROVE RaceInv'
  <2>2. \/ call[t].id \in table /\ StepsTo(t, "erased")
        \/ call[t].id \notin table /\ StepsTo(t, "release")
    BY <1>14, EraseMoves
  <2>. QED BY <1>14, <2>2, CApiAssumption, CallIds, CallbackIds
    DEF Erase, In, Step, tables, messages, media, history, objects, Moves, StepsTo, RaceInv,
        CallShape, ShapeOf, LibraryShape, CallFacts, CallbackFacts, TableTypes, CApiTypeOK, Known,
        Recorded, Ids, Idle
<1>15. ASSUME NEW t \in Threads, ReleaseRef(t) PROVE RaceInv'
  <2>2. \/ call[t].id \notin table /\ LastRef(t, call[t].id) /\ kind[call[t].id] = "pc" /\ closer[call[t].id] = "open" /\ Moves(t, IF call[t].step = "erased" THEN "delete" ELSE "use", "resetting", call[t].id, 0)
        \/ Moves(t, "none", "none", 0, 0)
    BY <1>15, ReleaseRefMoves
  <2>9. \A u \in Threads : call[u].id # 0 => call[u].id \in Ids
    BY CallIds DEF CallFacts, CallShape, ShapeOf
  <2>4. table' = table /\ \A i \in Ids : raced[i] # "no" => raced'[i] # "no"
    BY <1>15 DEF ReleaseRef, tables, TableTypes, Recorded
  <2>5. CASE Moves(t, "none", "none", 0, 0)
    BY <2>4, <2>5, <2>9, RaceEnds
  <2>6. CASE ~Moves(t, "none", "none", 0, 0)
    <3>1. call[t].id \notin table /\ (\A u \in Threads : u # t => call[u].id # call[t].id)
      BY <2>2, <2>6 DEF LastRef
    <3>2. call'[t].step = "resetting" /\ call'[t].id = call[t].id /\ \A u \in Threads : u # t => call'[u] = call[u]
      BY <2>2, <2>6 DEF Moves
    <3>3. call[t].id # 0
      BY <1>15, CApiAssumption, CallIds DEF ReleaseRef, CallFacts, Ids
    <3>. QED BY <2>4, <2>9, <3>1, <3>2, <3>3 DEF RaceInv
  <2>. QED BY <2>5, <2>6
<1>16. ASSUME NEW t \in Threads, EraseAll(t) PROVE RaceInv'
  <2>2. Moves(t, "none", "none", 0, 0)
    BY <1>16, EraseAllMoves
  <2>9. \A u \in Threads : call[u].id # 0 => call[u].id \in Ids
    BY CallIds DEF CallFacts, CallShape, ShapeOf
  <2>4. table' \subseteq table /\ \A i \in Ids : raced[i] # "no" => raced'[i] # "no"
    BY <1>16 DEF EraseAll
  <2>. QED BY <2>2, <2>4, <2>9, RaceEnds
<1>17. CASE CallbackEmplace
  <2>0. PICK k \in {"ws", "dc", "tr"} : Emplace(k, inCallback.id)
    BY <1>17 DEF CallbackEmplace
  <2>1. EmplaceFacts(k, inCallback.id)
    BY <1>17, <2>0, NewIdentifier, CApiAssumption DEF Channels, TableTypes, CApiTypeOK,
        CallbackEmplace, CallTypes, CallbackOK, CallbackRecord
  <2>3. CallbackMoves("locked", inCallback.id, lastId', inCallback.ptr)
    BY <1>17, <2>0, CallbackEmplaceMoves DEF Channels
  <2>. QED BY <1>17, <2>1, <2>3, CApiAssumption, CallIds, CallbackIds
    DEF CallbackEmplace, tables, messages, media, history, objects, EmplaceFacts, CallbackMoves,
        RaceInv, CallShape, ShapeOf, LibraryShape, CallFacts, CallbackFacts, TableTypes,
        CApiTypeOK, Known, Recorded, Ids, Idle
<1>18. CASE CallbackCheck
  <2>3. \/ userPointerMap[inCallback.id] = "absent" /\ CallbackMoves("idle", 0, 0, "absent")
       \/ /\ userPointerMap[inCallback.id] # "absent"
          /\ CallbackMoves(IF inCallback.new = 0 THEN "running" ELSE "inherit", inCallback.id,
                           inCallback.new, userPointerMap[inCallback.id])
    BY <1>18, CallbackCheckMoves
  <2>4. UNCHANGED <<table, raced, call>>
    BY <1>18 DEF CallbackCheck, tables, history
  <2>. QED BY <2>4 DEF RaceInv
<1>19. CASE CallbackInherit
  <2>3. CallbackMoves("running", inCallback.id, inCallback.new, inCallback.ptr)
    BY <1>19, CallbackInheritMoves
  <2>4. UNCHANGED <<table, raced, call>>
    BY <1>19 DEF CallbackInherit, tables, history
  <2>. QED BY <2>4 DEF RaceInv
<1>20. CASE CallbackReturn
  <2>3. CallbackMoves("idle", 0, 0, "absent")
    BY <1>20, CallbackReturnMoves
  <2>4. UNCHANGED <<table, raced, call>>
    BY <1>20 DEF CallbackReturn, tables, history
  <2>. QED BY <2>4 DEF RaceInv
<1>21. ASSUME NEW id \in Ids, Arrive(id) PROVE RaceInv'
  <2>4. UNCHANGED <<table, raced, call>>
    BY <1>21 DEF Arrive, tables, history
  <2>. QED BY <2>4 DEF RaceInv
<1>22. ASSUME NEW id \in Ids, RemoteShut(id) PROVE RaceInv'
  <2>4. UNCHANGED <<table, raced, call>>
    BY <1>22 DEF RemoteShut, tables, history
  <2>. QED BY <2>4 DEF RaceInv
<1>23. ASSUME NEW id \in Ids, RemoteReset(id) PROVE RaceInv'
  <2>4. UNCHANGED <<table, raced, call>>
    BY <1>23 DEF RemoteReset, tables, history
  <2>. QED BY <2>4 DEF RaceInv
<1>24. ASSUME NEW id \in Ids, NEW offer \in BOOLEAN, CallbackStart(id, offer) PROVE RaceInv'
  <2>3. CallbackMoves(IF offer THEN "offer" ELSE "locked", id, 0, "absent")
    BY <1>24, CallbackStartMoves
  <2>4. UNCHANGED <<table, raced, call>>
    BY <1>24 DEF CallbackStart, tables, history
  <2>. QED BY <2>4 DEF RaceInv
<1>25. CASE UNCHANGED cVars
  BY <1>25
  DEF cVars, tables, messages, media, history, objects, RaceInv, CallShape, ShapeOf, LibraryShape,
      CallFacts, CallbackFacts, TableTypes, CApiTypeOK, Known, Recorded, Ids, Idle
<1>. QED BY <1>1, <1>2, <1>3, <1>4, <1>5, <1>6, <1>7, <1>8, <1>9, <1>10, <1>11, <1>12, <1>13,
    <1>14, <1>15, <1>16, <1>17, <1>18, <1>19, <1>20, <1>21, <1>22, <1>23, <1>24, <1>25 DEF CBigStep
(* A callback in progress is installed, unless there was a race.               *)
LEMMA CallbackInvStep == CBase /\ CallbackInv /\ OrphanInv /\ [CNext]_cVars => CallbackInv'
<1>. SUFFICES ASSUME TableTypes, CallTypes, MessageTypes, MediaTypes, CallShape, CallbackShape,
    PendingInv, CallbackInv, OrphanInv, CBigStep PROVE CallbackInv'
  BY CBigSteps DEF CBase
<1>1. ASSUME NEW t \in Threads, NEW op \in OpsOf(topic), NEW id \in Ids, Get(t, op, id) PROVE
    CallbackInv'
  <2>2. Moves(t, op, "got", id, 0)
    BY <1>1, GetMoves
  <2>4. inCallback' = inCallback /\ installed' = installed /\ \A i \in Ids : raced'[i] = "no" => raced[i] = "no"
    BY <1>1 DEF Get, objects, TableTypes, Recorded
  <2>5. inCallback.step # "idle" => inCallback.id \in Ids
    BY CallbackIds DEF CallbackFacts
  <2>. QED BY <2>4, <2>5 DEF CallbackInv
<1>2. ASSUME NEW t \in Threads, NEW k \in {"pc", "ws", "srv"}, installed' \in {installed,
    installed \cup {lastId'}}, CreateObject(t, k) PROVE CallbackInv'
  <2>1. EmplaceFacts(k, 0)
    BY <1>2, NewIdentifier, CApiAssumption DEF Channels, TableTypes, CApiTypeOK, CreateObject
  <2>. QED BY <1>2, <2>1, CApiAssumption, CallIds, CallbackIds
    DEF CreateObject, tables, messages, media, history, objects, EmplaceFacts, CallbackInv,
        OrphanInv, CallShape, ShapeOf, LibraryShape, CallFacts, CallbackFacts, TableTypes,
        CApiTypeOK, Known, Recorded, Ids, Idle
<1>3. ASSUME NEW t \in Threads, NEW id \in Ids, SetUserPointer(t, id, "p") PROVE CallbackInv'
  BY <1>3, CApiAssumption, CallIds, CallbackIds
  DEF SetUserPointer, tables, messages, media, history, objects, CallbackInv, OrphanInv,
      CallShape, ShapeOf, LibraryShape, CallFacts, CallbackFacts, TableTypes, CApiTypeOK, Known,
      Recorded, Ids, Idle
<1>4. ASSUME NEW t \in Threads, CleanupStart(t) PROVE CallbackInv'
  <2>2. Moves(t, "cleanup", "clearing", 0, 0)
    BY <1>4, CleanupStartMoves
  <2>. QED BY <1>4, <2>2, CApiAssumption, CallIds, CallbackIds
    DEF CleanupStart, tables, messages, media, history, objects, Moves, StepsTo, CallbackInv,
        OrphanInv, CallShape, ShapeOf, LibraryShape, CallFacts, CallbackFacts, TableTypes,
        CApiTypeOK, Known, Recorded, Ids, Idle
<1>5. ASSUME NEW t \in Threads, Works(t) PROVE CallbackInv'
  BY <1>5, CApiAssumption, CallIds, CallbackIds
  DEF Works, Moves, tables, messages, media, history, objects, CallbackInv, OrphanInv, CallShape,
      ShapeOf, LibraryShape, CallFacts, CallbackFacts, TableTypes, CApiTypeOK, Known, Recorded,
      Ids, Idle
<1>6. ASSUME NEW t \in Threads, NEW kinds \in SUBSET {"pc", "dc", "ws", "tr"}, Install(t, kinds)
    PROVE CallbackInv'
  <2>2. StepsTo(t, "release")
    BY <1>6, InstallMoves
  <2>. QED BY <1>6, <2>2, CApiAssumption, CallIds, CallbackIds
    DEF Install, In, Step, Quiet, tables, messages, media, history, objects, Moves, StepsTo,
        CallbackInv, OrphanInv, CallShape, ShapeOf, LibraryShape, CallFacts, CallbackFacts,
        TableTypes, CApiTypeOK, Known, Recorded, Ids, Idle
<1>7. ASSUME NEW t \in Threads, NEW op \in {"channel", "track"}, NEW k \in {"dc", "tr"},
    NewChannel(t, op, k) PROVE CallbackInv'
  <2>1. EmplaceFacts(k, 0)
    BY <1>7, NewIdentifier, CApiAssumption DEF Channels, TableTypes, CApiTypeOK, NewChannel
  <2>2. Moves(t, call[t].op, "inherit", call[t].id, lastId')
    BY <1>7, NewChannelMoves
  <2>. QED BY <1>7, <2>1, <2>2, CApiAssumption, CallIds, CallbackIds
    DEF NewChannel, In, Step, tables, messages, media, history, objects, Moves, StepsTo,
        EmplaceFacts, CallbackInv, OrphanInv, CallShape, ShapeOf, LibraryShape, CallFacts,
        CallbackFacts, TableTypes, CApiTypeOK, Known, Recorded, Ids, Idle
<1>8. ASSUME NEW t \in Threads, InheritPointer(t) PROVE CallbackInv'
  <2>2. StepsTo(t, "release")
    BY <1>8, InheritPointerMoves
  <2>. QED BY <1>8, <2>2, CApiAssumption, CallIds, CallbackIds
    DEF InheritPointer, Step, tables, messages, media, history, objects, Moves, StepsTo,
        CallbackInv, OrphanInv, CallShape, ShapeOf, LibraryShape, CallFacts, CallbackFacts,
        TableTypes, CApiTypeOK, Known, Recorded, Ids, Idle
<1>9. ASSUME NEW t \in Threads, CloseChannel(t) PROVE CallbackInv'
  <2>2. \/ call[t].op = "delete" /\ StepsTo(t, "closed")
        \/ call[t].op # "delete" /\ StepsTo(t, "release")
    BY <1>9, CloseChannelMoves
  <2>. QED BY <1>9, <2>2, CApiAssumption, CallIds, CallbackIds
    DEF CloseChannel, Step, Quiet, tables, messages, media, history, objects, Moves, StepsTo,
        CallbackInv, OrphanInv, CallShape, ShapeOf, LibraryShape, CallFacts, CallbackFacts,
        TableTypes, CApiTypeOK, Known, Recorded, Ids, Idle
<1>10. ASSUME NEW t \in Threads, NEW force \in BOOLEAN, CloseWebSocket(t, force) PROVE
    CallbackInv'
  <2>2. \/ call[t].op = "delete" /\ StepsTo(t, "closed")
        \/ call[t].op # "delete" /\ StepsTo(t, "release")
    BY <1>10, CloseWebSocketMoves
  <2>4. UNCHANGED <<inCallback, raced>> /\ installed' \in {installed, installed \ {call[t].id}}
    BY <1>10 DEF CloseWebSocket, history
  <2>5. call[t].id \in Ids /\ call[t].id # 0
    BY <1>10, CallIds, CApiAssumption DEF CloseWebSocket, CallFacts, Ids
  <2>6. t = Lib => raced[call[t].id] # "no"
    BY <2>5 DEF CallShape, LibraryShape
  <2>7. installed' # installed => Quiet(t, call[t].id)
    BY <1>10 DEF CloseWebSocket
  <2>. QED BY <2>4, <2>6, <2>7 DEF CallbackInv, Quiet
<1>11. ASSUME NEW t \in Threads, ClosePeerConnection(t) PROVE CallbackInv'
  <2>2. \/ call[t].op = "delete" /\ StepsTo(t, "closed")
        \/ call[t].op # "delete" /\ StepsTo(t, "release")
        \/ Moves(t, call[t].op, "resetting", call[t].id, 1)
    BY <1>11, ClosePeerConnectionMoves
  <2>. QED BY <1>11, <2>2, CApiAssumption, CallIds, CallbackIds
    DEF ClosePeerConnection, Step, tables, messages, media, history, objects, Moves, StepsTo,
        CallbackInv, OrphanInv, CallShape, ShapeOf, LibraryShape, CallFacts, CallbackFacts,
        TableTypes, CApiTypeOK, Known, Recorded, Ids, Idle
<1>12. ASSUME NEW t \in Threads, ResetCallbacks(t) PROVE CallbackInv'
  <2>2. \/ call[t].x = 1 /\ call[t].op = "delete" /\ StepsTo(t, "closed")
        \/ call[t].x = 1 /\ call[t].op # "delete" /\ StepsTo(t, "release")
        \/ call[t].x # 1 /\ Moves(t, "none", "none", 0, 0)
    BY <1>12, ResetCallbacksMoves
  <2>. QED BY <1>12, <2>2, CApiAssumption, CallIds, CallbackIds
    DEF ResetCallbacks, Step, Quiet, tables, messages, media, history, objects, Moves, StepsTo,
        CallbackInv, OrphanInv, CallShape, ShapeOf, LibraryShape, CallFacts, CallbackFacts,
        TableTypes, CApiTypeOK, Known, Recorded, Ids, Idle
<1>13. ASSUME NEW t \in Threads, StopServer(t) PROVE CallbackInv'
  <2>2. \/ t = Lib /\ StepsTo(t, "release")
        \/ t # Lib /\ StepsTo(t, "closed")
    BY <1>13, StopServerMoves
  <2>. QED BY <1>13, <2>2, CApiAssumption, CallIds, CallbackIds
    DEF StopServer, In, Step, Quiet, tables, messages, media, history, objects, Moves, StepsTo,
        CallbackInv, OrphanInv, CallShape, ShapeOf, LibraryShape, CallFacts, CallbackFacts,
        TableTypes, CApiTypeOK, Known, Recorded, Ids, Idle
<1>14. ASSUME NEW t \in Threads, Erase(t) PROVE CallbackInv'
  <2>2. \/ call[t].id \in table /\ StepsTo(t, "erased")
        \/ call[t].id \notin table /\ StepsTo(t, "release")
    BY <1>14, EraseMoves
  <2>. QED BY <1>14, <2>2, CApiAssumption, CallIds, CallbackIds
    DEF Erase, In, Step, tables, messages, media, history, objects, Moves, StepsTo, CallbackInv,
        OrphanInv, CallShape, ShapeOf, LibraryShape, CallFacts, CallbackFacts, TableTypes,
        CApiTypeOK, Known, Recorded, Ids, Idle
<1>15. ASSUME NEW t \in Threads, ReleaseRef(t) PROVE CallbackInv'
  <2>2. \/ call[t].id \notin table /\ LastRef(t, call[t].id) /\ kind[call[t].id] = "pc" /\ closer[call[t].id] = "open" /\ Moves(t, IF call[t].step = "erased" THEN "delete" ELSE "use", "resetting", call[t].id, 0)
        \/ Moves(t, "none", "none", 0, 0)
    BY <1>15, ReleaseRefMoves
  <2>3. inCallback' = inCallback /\ installed' \subseteq installed /\ \A i \in Ids : raced'[i] = "no" => raced[i] = "no"
    BY <1>15 DEF ReleaseRef, TableTypes, Recorded
  <2>4. inCallback.step # "idle" => inCallback.id \in Ids
    BY CallbackIds DEF CallbackFacts
  <2>5. t = Lib => raced[call[t].id] # "no" /\ call[t].id \in Ids
    BY <1>15, CallIds DEF ReleaseRef, CallShape, ShapeOf, LibraryShape, CallFacts
  <2>6. \A i \in installed : i \notin installed' => i = call[t].id /\ (t = Lib \/ inCallback.step = "idle" \/ inCallback.id # i)
    BY <1>15 DEF ReleaseRef, Quiet
  <2>. QED BY <2>3, <2>4, <2>5, <2>6 DEF CallbackInv
<1>16. ASSUME NEW t \in Threads, EraseAll(t) PROVE CallbackInv'
  <2>2. Moves(t, "none", "none", 0, 0)
    BY <1>16, EraseAllMoves
  <2>3. inCallback' = inCallback /\ \A i \in Ids : raced'[i] = "no" => raced[i] = "no"
    BY <1>16 DEF EraseAll
  <2>4. inCallback.step # "idle" => inCallback.id \in Ids
    BY CallbackIds DEF CallbackFacts
  <2>5. t # Lib
    BY <1>16, CApiAssumption DEF EraseAll, CallShape, ShapeOf
  <2>6. ASSUME inCallback.step # "idle", raced'[inCallback.id] = "no" PROVE inCallback.id \in installed'
    <3>. DEFINE i == inCallback.id
    <3>1. i \in installed /\ raced[i] = "no"
      BY <2>3, <2>4, <2>6 DEF CallbackInv
    <3>2. ~Quiet(t, i)
      BY <2>5, <2>6 DEF Quiet
    <3>3. CASE i \in table
      BY <1>16, <3>1, <3>2, <3>3 DEF EraseAll
    <3>4. CASE i \notin table
      <4>1. PICK u \in Threads : call[u].id = i
        BY <3>1, <3>4 DEF OrphanInv
      <4>2. i # 0
        BY <2>4, <2>6, CApiAssumption DEF Ids
      <4>3. u # t
        BY <1>16, <4>1, <4>2 DEF EraseAll, CallShape, ShapeOf
      <4>4. ~LastRef(t, i)
        BY <4>1, <4>3 DEF LastRef
      <4>. QED BY <1>16, <3>1, <4>4 DEF EraseAll
    <3>. QED BY <3>3, <3>4
  <2>. QED BY <2>3, <2>6 DEF CallbackInv
<1>17. CASE CallbackEmplace
  <2>0. PICK k \in {"ws", "dc", "tr"} : Emplace(k, inCallback.id)
    BY <1>17 DEF CallbackEmplace
  <2>1. EmplaceFacts(k, inCallback.id)
    BY <1>17, <2>0, NewIdentifier, CApiAssumption DEF Channels, TableTypes, CApiTypeOK,
        CallbackEmplace, CallTypes, CallbackOK, CallbackRecord
  <2>3. CallbackMoves("locked", inCallback.id, lastId', inCallback.ptr)
    BY <1>17, <2>0, CallbackEmplaceMoves DEF Channels
  <2>. QED BY <1>17, <2>1, <2>3, CApiAssumption, CallIds, CallbackIds
    DEF CallbackEmplace, tables, messages, media, history, objects, EmplaceFacts, CallbackMoves,
        CallbackInv, OrphanInv, CallShape, ShapeOf, LibraryShape, CallFacts, CallbackFacts,
        TableTypes, CApiTypeOK, Known, Recorded, Ids, Idle
<1>18. CASE CallbackCheck
  <2>3. \/ userPointerMap[inCallback.id] = "absent" /\ CallbackMoves("idle", 0, 0, "absent")
       \/ /\ userPointerMap[inCallback.id] # "absent"
          /\ CallbackMoves(IF inCallback.new = 0 THEN "running" ELSE "inherit", inCallback.id,
                           inCallback.new, userPointerMap[inCallback.id])
    BY <1>18, CallbackCheckMoves
  <2>. QED BY <1>18, <2>3, CApiAssumption, CallIds, CallbackIds
    DEF CallbackCheck, tables, messages, media, history, objects, CallbackMoves, CallbackInv,
        OrphanInv, CallShape, ShapeOf, LibraryShape, CallFacts, CallbackFacts, TableTypes,
        CApiTypeOK, Known, Recorded, Ids, Idle
<1>19. CASE CallbackInherit
  <2>3. CallbackMoves("running", inCallback.id, inCallback.new, inCallback.ptr)
    BY <1>19, CallbackInheritMoves
  <2>. QED BY <1>19, <2>3, CApiAssumption, CallIds, CallbackIds
    DEF CallbackInherit, tables, messages, media, history, objects, CallbackMoves, CallbackInv,
        OrphanInv, CallShape, ShapeOf, LibraryShape, CallFacts, CallbackFacts, TableTypes,
        CApiTypeOK, Known, Recorded, Ids, Idle
<1>20. CASE CallbackReturn
  <2>3. CallbackMoves("idle", 0, 0, "absent")
    BY <1>20, CallbackReturnMoves
  <2>. QED BY <1>20, <2>3, CApiAssumption, CallIds, CallbackIds
    DEF CallbackReturn, tables, messages, media, history, objects, CallbackMoves, CallbackInv,
        OrphanInv, CallShape, ShapeOf, LibraryShape, CallFacts, CallbackFacts, TableTypes,
        CApiTypeOK, Known, Recorded, Ids, Idle
<1>21. ASSUME NEW id \in Ids, Arrive(id) PROVE CallbackInv'
  BY <1>21, CApiAssumption, CallIds, CallbackIds
  DEF Arrive, tables, messages, media, history, objects, CallbackInv, OrphanInv, CallShape,
      ShapeOf, LibraryShape, CallFacts, CallbackFacts, TableTypes, CApiTypeOK, Known, Recorded,
      Ids, Idle
<1>22. ASSUME NEW id \in Ids, RemoteShut(id) PROVE CallbackInv'
  BY <1>22, CApiAssumption, CallIds, CallbackIds
  DEF RemoteShut, tables, messages, media, history, objects, CallbackInv, OrphanInv, CallShape,
      ShapeOf, LibraryShape, CallFacts, CallbackFacts, TableTypes, CApiTypeOK, Known, Recorded,
      Ids, Idle
<1>23. ASSUME NEW id \in Ids, RemoteReset(id) PROVE CallbackInv'
  BY <1>23, CApiAssumption, CallIds, CallbackIds
  DEF RemoteReset, tables, messages, media, history, objects, CallbackInv, OrphanInv, CallShape,
      ShapeOf, LibraryShape, CallFacts, CallbackFacts, TableTypes, CApiTypeOK, Known, Recorded,
      Ids, Idle
<1>24. ASSUME NEW id \in Ids, NEW offer \in BOOLEAN, CallbackStart(id, offer) PROVE CallbackInv'
  <2>3. CallbackMoves(IF offer THEN "offer" ELSE "locked", id, 0, "absent")
    BY <1>24, CallbackStartMoves
  <2>. QED BY <1>24, <2>3, CApiAssumption, CallIds, CallbackIds
    DEF CallbackStart, tables, messages, media, history, objects, CallbackMoves, CallbackInv,
        OrphanInv, CallShape, ShapeOf, LibraryShape, CallFacts, CallbackFacts, TableTypes,
        CApiTypeOK, Known, Recorded, Ids, Idle
<1>25. CASE UNCHANGED cVars
  BY <1>25
  DEF cVars, tables, messages, media, history, objects, CallbackInv, OrphanInv, CallShape,
      ShapeOf, LibraryShape, CallFacts, CallbackFacts, TableTypes, CApiTypeOK, Known, Recorded,
      Ids, Idle
<1>. QED BY <1>1, <1>2, <1>3, <1>4, <1>5, <1>6, <1>7, <1>8, <1>9, <1>10, <1>11, <1>12, <1>13,
    <1>14, <1>15, <1>16, <1>17, <1>18, <1>19, <1>20, <1>21, <1>22, <1>23, <1>24, <1>25 DEF CBigStep

(* Calls that go on with their objects do not bring back a deleted one, ...    *)
LEMMA GoneKept ==
    ASSUME GoneInv, gone' \subseteq gone, installed' \subseteq installed, table' \subseteq table,
           \A i \in Ids : raced'[i] = "no" => raced[i] = "no", gone \subseteq Ids,
           \A u \in Threads : call'[u].id \in {0, call[u].id}
    PROVE  GoneInv'
<1>1. \A i \in Ids : i # 0
  BY CApiAssumption DEF Ids
<1>. QED BY <1>1 DEF GoneInv

(* ... and leave a callback with a user or an entry.                           *)
LEMMA OrphanKept ==
    ASSUME OrphanInv, installed' \subseteq installed, table \subseteq table', installed \subseteq Ids,
           \A i \in Ids : raced[i] # "no" => raced'[i] # "no", \A u \in Threads : call[u].id \in {0, call'[u].id}
    PROVE  OrphanInv'
<1>1. \A i \in Ids : i # 0
  BY CApiAssumption DEF Ids
<1>. QED BY <1>1 DEF OrphanInv

(* A deleted object has no callback and no user left, unless there was a race. *)
LEMMA GoneStep == CBase /\ GoneInv /\ RaceInv /\ [CNext]_cVars => GoneInv'
<1>. SUFFICES ASSUME TableTypes, CallTypes, MessageTypes, MediaTypes, CallShape, CallbackShape,
    PendingInv, GoneInv, RaceInv, CBigStep PROVE GoneInv'
  BY CBigSteps DEF CBase
<1>1. ASSUME NEW t \in Threads, NEW op \in OpsOf(topic), NEW id \in Ids, Get(t, op, id) PROVE
    GoneInv'
  <2>2. Moves(t, op, "got", id, 0)
    BY <1>1, GetMoves
  <2>. QED BY <1>1, <2>2, CApiAssumption, CallIds, CallbackIds
    DEF Get, tables, messages, media, history, objects, Moves, StepsTo, GoneInv, RaceInv,
        CallShape, ShapeOf, LibraryShape, CallFacts, CallbackFacts, TableTypes, CApiTypeOK, Known,
        Recorded, Ids, Idle
<1>2. ASSUME NEW t \in Threads, NEW k \in {"pc", "ws", "srv"}, installed' \in {installed,
    installed \cup {lastId'}}, CreateObject(t, k) PROVE GoneInv'
  <2>1. EmplaceFacts(k, 0)
    BY <1>2, NewIdentifier, CApiAssumption DEF Channels, TableTypes, CApiTypeOK, CreateObject
  <2>8. gone \subseteq Ids /\ installed \subseteq Ids
    BY CApiAssumption DEF TableTypes, CApiTypeOK, Known, Ids
  <2>5. \A i \in gone : i \in Ids /\ i # lastId' /\ lastId' # 0
    BY <2>1, <2>8, CApiAssumption DEF EmplaceFacts, TableTypes, Known
  <2>6. table' = table \cup {lastId'}
    BY <2>1 DEF EmplaceFacts
  <2>4. UNCHANGED <<gone, raced, call>> /\ installed' \subseteq installed \cup {lastId'}
    BY <1>2 DEF CreateObject
  <2>. QED BY <2>4, <2>5, <2>6 DEF GoneInv
<1>3. ASSUME NEW t \in Threads, NEW id \in Ids, SetUserPointer(t, id, "p") PROVE GoneInv'
  BY <1>3, CApiAssumption, CallIds, CallbackIds
  DEF SetUserPointer, tables, messages, media, history, objects, GoneInv, RaceInv, CallShape,
      ShapeOf, LibraryShape, CallFacts, CallbackFacts, TableTypes, CApiTypeOK, Known, Recorded,
      Ids, Idle
<1>4. ASSUME NEW t \in Threads, CleanupStart(t) PROVE GoneInv'
  <2>2. Moves(t, "cleanup", "clearing", 0, 0)
    BY <1>4, CleanupStartMoves
  <2>8. gone \subseteq Ids /\ installed \subseteq Ids
    BY CApiAssumption DEF TableTypes, CApiTypeOK, Known, Ids
  <2>4. gone' = gone /\ installed' \subseteq installed /\ table' \subseteq table /\ raced' = raced
    BY <1>4 DEF CleanupStart, tables, history, objects
  <2>5. \A u \in Threads : call'[u].id \in {0, call[u].id}
    BY <2>2 DEF Moves, StepsTo
  <2>. QED BY <2>4, <2>5, <2>8, GoneKept
<1>5. ASSUME NEW t \in Threads, Works(t) PROVE GoneInv'
  <2>8. gone \subseteq Ids /\ installed \subseteq Ids
    BY CApiAssumption DEF TableTypes, CApiTypeOK, Known, Ids
  <2>5. \A u \in Threads : call'[u].id \in {0, call[u].id}
    BY <1>5 DEF Works, Moves
  <2>. QED BY <1>5, <2>5, <2>8, GoneKept DEF Works
<1>6. ASSUME NEW t \in Threads, NEW kinds \in SUBSET {"pc", "dc", "ws", "tr"}, Install(t, kinds)
    PROVE GoneInv'
  <2>2. StepsTo(t, "release")
    BY <1>6, InstallMoves
  <2>. QED BY <1>6, <2>2, CApiAssumption, CallIds, CallbackIds
    DEF Install, In, Step, Quiet, tables, messages, media, history, objects, Moves, StepsTo,
        GoneInv, RaceInv, CallShape, ShapeOf, LibraryShape, CallFacts, CallbackFacts, TableTypes,
        CApiTypeOK, Known, Recorded, Ids, Idle
<1>7. ASSUME NEW t \in Threads, NEW op \in {"channel", "track"}, NEW k \in {"dc", "tr"},
    NewChannel(t, op, k) PROVE GoneInv'
  <2>1. EmplaceFacts(k, 0)
    BY <1>7, NewIdentifier, CApiAssumption DEF Channels, TableTypes, CApiTypeOK, NewChannel
  <2>2. Moves(t, call[t].op, "inherit", call[t].id, lastId')
    BY <1>7, NewChannelMoves
  <2>8. gone \subseteq Ids /\ installed \subseteq Ids
    BY CApiAssumption DEF TableTypes, CApiTypeOK, Known, Ids
  <2>5. \A i \in gone : i \in Ids /\ i # lastId' /\ lastId' # 0
    BY <2>1, <2>8, CApiAssumption DEF EmplaceFacts, TableTypes, Known
  <2>6. table' = table \cup {lastId'}
    BY <2>1 DEF EmplaceFacts
  <2>4. UNCHANGED <<gone, raced, installed>>
    BY <1>7 DEF NewChannel, history, objects
  <2>7. \A u \in Threads : call'[u].id = call[u].id
    BY <2>2 DEF Moves
  <2>. QED BY <2>4, <2>5, <2>6, <2>7 DEF GoneInv
<1>8. ASSUME NEW t \in Threads, InheritPointer(t) PROVE GoneInv'
  <2>2. StepsTo(t, "release")
    BY <1>8, InheritPointerMoves
  <2>8. gone \subseteq Ids /\ installed \subseteq Ids
    BY CApiAssumption DEF TableTypes, CApiTypeOK, Known, Ids
  <2>4. gone' = gone /\ installed' \subseteq installed /\ table' \subseteq table /\ raced' = raced
    BY <1>8 DEF InheritPointer, Step, tables, history, objects
  <2>5. \A u \in Threads : call'[u].id \in {0, call[u].id}
    BY <2>2 DEF Moves, StepsTo
  <2>. QED BY <2>4, <2>5, <2>8, GoneKept
<1>9. ASSUME NEW t \in Threads, CloseChannel(t) PROVE GoneInv'
  <2>2. \/ call[t].op = "delete" /\ StepsTo(t, "closed")
        \/ call[t].op # "delete" /\ StepsTo(t, "release")
    BY <1>9, CloseChannelMoves
  <2>8. gone \subseteq Ids /\ installed \subseteq Ids
    BY CApiAssumption DEF TableTypes, CApiTypeOK, Known, Ids
  <2>4. gone' = gone /\ installed' \subseteq installed /\ table' \subseteq table /\ raced' = raced
    BY <1>9 DEF CloseChannel, Step, Quiet, tables, history, objects
  <2>5. \A u \in Threads : call'[u].id \in {0, call[u].id}
    BY <2>2 DEF Moves, StepsTo
  <2>. QED BY <2>4, <2>5, <2>8, GoneKept
<1>10. ASSUME NEW t \in Threads, NEW force \in BOOLEAN, CloseWebSocket(t, force) PROVE GoneInv'
  <2>2. \/ call[t].op = "delete" /\ StepsTo(t, "closed")
        \/ call[t].op # "delete" /\ StepsTo(t, "release")
    BY <1>10, CloseWebSocketMoves
  <2>8. gone \subseteq Ids /\ installed \subseteq Ids
    BY CApiAssumption DEF TableTypes, CApiTypeOK, Known, Ids
  <2>4. gone' = gone /\ installed' \subseteq installed /\ table' \subseteq table /\ raced' = raced
    BY <1>10 DEF CloseWebSocket, Step, Quiet, tables, history, objects
  <2>5. \A u \in Threads : call'[u].id \in {0, call[u].id}
    BY <2>2 DEF Moves, StepsTo
  <2>. QED BY <2>4, <2>5, <2>8, GoneKept
<1>11. ASSUME NEW t \in Threads, ClosePeerConnection(t) PROVE GoneInv'
  <2>2. \/ call[t].op = "delete" /\ StepsTo(t, "closed")
        \/ call[t].op # "delete" /\ StepsTo(t, "release")
        \/ Moves(t, call[t].op, "resetting", call[t].id, 1)
    BY <1>11, ClosePeerConnectionMoves
  <2>8. gone \subseteq Ids /\ installed \subseteq Ids
    BY CApiAssumption DEF TableTypes, CApiTypeOK, Known, Ids
  <2>4. gone' = gone /\ installed' \subseteq installed /\ table' \subseteq table /\ raced' = raced
    BY <1>11 DEF ClosePeerConnection, Step, tables, history, objects
  <2>5. \A u \in Threads : call'[u].id \in {0, call[u].id}
    BY <2>2 DEF Moves, StepsTo
  <2>. QED BY <2>4, <2>5, <2>8, GoneKept
<1>12. ASSUME NEW t \in Threads, ResetCallbacks(t) PROVE GoneInv'
  <2>2. \/ call[t].x = 1 /\ call[t].op = "delete" /\ StepsTo(t, "closed")
        \/ call[t].x = 1 /\ call[t].op # "delete" /\ StepsTo(t, "release")
        \/ call[t].x # 1 /\ Moves(t, "none", "none", 0, 0)
    BY <1>12, ResetCallbacksMoves
  <2>8. gone \subseteq Ids /\ installed \subseteq Ids
    BY CApiAssumption DEF TableTypes, CApiTypeOK, Known, Ids
  <2>4. installed' = installed \ {call[t].id} /\ table' = table /\ raced' = raced
    BY <1>12 DEF ResetCallbacks, tables
  <2>5. \A u \in Threads : call'[u].id \in {0, call[u].id}
    BY <2>2 DEF Moves, StepsTo
  <2>6. CASE gone' = gone
    BY <2>4, <2>5, <2>6, <2>8, GoneKept
  <2>7. CASE gone' # gone
    <3>1. gone' = gone \cup {call[t].id} /\ call[t].x # 1 /\ call[t].op = "delete" /\ call[t].step = "resetting"
      BY <1>12, <2>7 DEF ResetCallbacks
    <3>2. call[t].x = 0
      BY <3>1 DEF CallShape, ShapeOf
    <3>3. call[t].id # 0 /\ call[t].id \notin table /\ \A u \in Threads : u # t => call[u].id # call[t].id
      BY <3>1, <3>2 DEF RaceInv
    <3>4. \A i \in Ids : i # 0
      BY CApiAssumption DEF Ids
    <3>5. call'[t].id = 0 /\ \A u \in Threads : u # t => call'[u].id = call[u].id
      BY <2>2, <3>1 DEF Moves
    <3>. QED BY <2>4, <2>5, <2>8, <3>1, <3>3, <3>4, <3>5 DEF GoneInv
  <2>. QED BY <2>6, <2>7
<1>13. ASSUME NEW t \in Threads, StopServer(t) PROVE GoneInv'
  <2>2. \/ t = Lib /\ StepsTo(t, "release")
        \/ t # Lib /\ StepsTo(t, "closed")
    BY <1>13, StopServerMoves
  <2>8. gone \subseteq Ids /\ installed \subseteq Ids
    BY CApiAssumption DEF TableTypes, CApiTypeOK, Known, Ids
  <2>4. gone' = gone /\ installed' \subseteq installed /\ table' \subseteq table /\ raced' = raced
    BY <1>13 DEF StopServer, In, Step, Quiet, tables, history, objects
  <2>5. \A u \in Threads : call'[u].id \in {0, call[u].id}
    BY <2>2 DEF Moves, StepsTo
  <2>. QED BY <2>4, <2>5, <2>8, GoneKept
<1>14. ASSUME NEW t \in Threads, Erase(t) PROVE GoneInv'
  <2>2. \/ call[t].id \in table /\ StepsTo(t, "erased")
        \/ call[t].id \notin table /\ StepsTo(t, "release")
    BY <1>14, EraseMoves
  <2>8. gone \subseteq Ids /\ installed \subseteq Ids
    BY CApiAssumption DEF TableTypes, CApiTypeOK, Known, Ids
  <2>4. gone' = gone /\ installed' \subseteq installed /\ table' \subseteq table /\ raced' = raced
    BY <1>14 DEF Erase, In, Step, tables, history, objects
  <2>5. \A u \in Threads : call'[u].id \in {0, call[u].id}
    BY <2>2 DEF Moves, StepsTo
  <2>. QED BY <2>4, <2>5, <2>8, GoneKept
<1>15. ASSUME NEW t \in Threads, ReleaseRef(t) PROVE GoneInv'
  <2>2. \/ call[t].id \notin table /\ LastRef(t, call[t].id) /\ kind[call[t].id] = "pc" /\ closer[call[t].id] = "open" /\ Moves(t, IF call[t].step = "erased" THEN "delete" ELSE "use", "resetting", call[t].id, 0)
        \/ Moves(t, "none", "none", 0, 0)
    BY <1>15, ReleaseRefMoves
  <2>8. gone \subseteq Ids /\ installed \subseteq Ids
    BY CApiAssumption DEF TableTypes, CApiTypeOK, Known, Ids
  <2>3. table' = table /\ installed' \subseteq installed /\ \A i \in Ids : raced'[i] = "no" => raced[i] = "no"
    BY <1>15 DEF ReleaseRef, tables, TableTypes, Recorded
  <2>5. \A u \in Threads : call'[u].id \in {0, call[u].id}
    BY <2>2 DEF Moves
  <2>6. CASE gone' = gone
    BY <2>3, <2>5, <2>6, <2>8, GoneKept
  <2>7. CASE gone' # gone
    <3>. DEFINE i == call[t].id
    <3>1. gone' = gone \cup {i} /\ call[t].step = "erased"
      BY <1>15, <2>7 DEF ReleaseRef
    <3>2. i # 0 /\ i \in Ids /\ i \notin table /\ call[t].op = "delete"
      BY <3>1, CallIds, CApiAssumption DEF RaceInv, CallShape, ShapeOf, CallFacts, Ids
    <3>3. call' = [call EXCEPT ![t] = Idle] /\ ~(LastRef(t, i) /\ kind[i] = "pc" /\ closer[i] = "open")
      BY <1>15, <2>7, <3>2 DEF ReleaseRef
    <3>4. Moves(t, "none", "none", 0, 0)
      BY <3>3, IdleMoves
    <3>5. call'[t].id = 0 /\ \A u \in Threads : u # t => call'[u].id = call[u].id
      BY <3>4 DEF Moves
    <3>6. ~LastRef(t, i) => raced[i] # "no"
      BY <3>2 DEF RaceInv, LastRef
    <3>7. ASSUME raced'[i] = "no" PROVE i \notin installed' /\ \A u \in Threads : call'[u].id # i
      <4>1. LastRef(t, i) /\ raced[i] = "no"
        BY <2>3, <3>2, <3>6, <3>7
      <4>2. CASE kind[i] # "pc"
        BY <1>15, <2>7, <3>2, <3>5, <4>1, <4>2 DEF ReleaseRef, LastRef
      <4>3. CASE kind[i] = "pc"
        <5>1. closer[i] \in {"shut", "reset"}
          BY <3>2, <3>3, <4>1, <4>3 DEF TableTypes, CApiTypeOK
        <5>2. ~Unwaited(i)
          BY <1>15, <2>7, <3>2, <3>7, <4>1, <4>3, <5>1 DEF ReleaseRef, TableTypes, Recorded
        <5>3. i \notin installed
          BY <5>1, <5>2 DEF Unwaited
        <5>. QED BY <2>3, <3>2, <3>5, <4>1, <5>3 DEF LastRef
      <4>. QED BY <4>2, <4>3
    <3>8. \A j \in Ids : j # 0
      BY CApiAssumption DEF Ids
    <3>. QED BY <2>3, <2>5, <2>8, <3>1, <3>2, <3>7, <3>8 DEF GoneInv
  <2>. QED BY <2>6, <2>7
<1>16. ASSUME NEW t \in Threads, EraseAll(t) PROVE GoneInv'
  <2>2. Moves(t, "none", "none", 0, 0)
    BY <1>16, EraseAllMoves
  <2>8. gone \subseteq Ids /\ installed \subseteq Ids
    BY CApiAssumption DEF TableTypes, CApiTypeOK, Known, Ids
  <2>3. table' = {} /\ installed' \subseteq installed /\ \A i \in Ids : raced'[i] = "no" => raced[i] = "no"
    BY <1>16 DEF EraseAll
  <2>4. gone' = gone \cup {i \in table : LastRef(t, i)}
    BY <1>16 DEF EraseAll
  <2>5. call'[t].id = 0 /\ \A u \in Threads : u # t => call'[u].id = call[u].id
    BY <2>2 DEF Moves
  <2>6. \A i \in Ids : i # 0
    BY CApiAssumption DEF Ids
  <2>7. \A i \in gone : raced'[i] = "no" => i \notin installed' /\ \A u \in Threads : call'[u].id # i
    BY <2>3, <2>5, <2>6, <2>8 DEF GoneInv
  <2>9. ASSUME NEW i \in table, LastRef(t, i), raced'[i] = "no" PROVE i \notin installed' /\ \A u \in Threads : call'[u].id # i
    <3>1. i \in Ids
      BY CApiAssumption DEF TableTypes, CApiTypeOK, Ids
    <3>2. ~Unwaited(i)
      BY <1>16, <2>9, <3>1 DEF EraseAll
    <3>3. i \notin installed'
      <4>1. CASE kind[i] = "pc" /\ closer[i] # "open"
        BY <2>3, <3>1, <3>2, <4>1 DEF Unwaited, TableTypes, CApiTypeOK
      <4>2. CASE ~(kind[i] = "pc" /\ closer[i] # "open")
        BY <1>16, <2>9, <4>2 DEF EraseAll
      <4>. QED BY <4>1, <4>2
    <3>. QED BY <2>5, <2>6, <2>9, <3>1, <3>3 DEF LastRef
  <2>. QED BY <2>3, <2>4, <2>7, <2>9 DEF GoneInv
<1>17. CASE CallbackEmplace
  <2>0. PICK k \in {"ws", "dc", "tr"} : Emplace(k, inCallback.id)
    BY <1>17 DEF CallbackEmplace
  <2>1. EmplaceFacts(k, inCallback.id)
    BY <1>17, <2>0, NewIdentifier, CApiAssumption DEF Channels, TableTypes, CApiTypeOK,
        CallbackEmplace, CallTypes, CallbackOK, CallbackRecord
  <2>3. CallbackMoves("locked", inCallback.id, lastId', inCallback.ptr)
    BY <1>17, <2>0, CallbackEmplaceMoves DEF Channels
  <2>8. gone \subseteq Ids /\ installed \subseteq Ids
    BY CApiAssumption DEF TableTypes, CApiTypeOK, Known, Ids
  <2>5. \A i \in gone : i \in Ids /\ i # lastId' /\ lastId' # 0
    BY <2>1, <2>8, CApiAssumption DEF EmplaceFacts, TableTypes, Known
  <2>6. table' = table \cup {lastId'}
    BY <2>1 DEF EmplaceFacts
  <2>4. UNCHANGED <<gone, raced, installed, call>>
    BY <1>17 DEF CallbackEmplace, history, objects
  <2>. QED BY <2>4, <2>5, <2>6 DEF GoneInv
<1>18. CASE CallbackCheck
  <2>3. \/ userPointerMap[inCallback.id] = "absent" /\ CallbackMoves("idle", 0, 0, "absent")
       \/ /\ userPointerMap[inCallback.id] # "absent"
          /\ CallbackMoves(IF inCallback.new = 0 THEN "running" ELSE "inherit", inCallback.id,
                           inCallback.new, userPointerMap[inCallback.id])
    BY <1>18, CallbackCheckMoves
  <2>. QED BY <1>18, <2>3, CApiAssumption, CallIds, CallbackIds
    DEF CallbackCheck, tables, messages, media, history, objects, CallbackMoves, GoneInv, RaceInv,
        CallShape, ShapeOf, LibraryShape, CallFacts, CallbackFacts, TableTypes, CApiTypeOK, Known,
        Recorded, Ids, Idle
<1>19. CASE CallbackInherit
  <2>3. CallbackMoves("running", inCallback.id, inCallback.new, inCallback.ptr)
    BY <1>19, CallbackInheritMoves
  <2>. QED BY <1>19, <2>3, CApiAssumption, CallIds, CallbackIds
    DEF CallbackInherit, tables, messages, media, history, objects, CallbackMoves, GoneInv,
        RaceInv, CallShape, ShapeOf, LibraryShape, CallFacts, CallbackFacts, TableTypes,
        CApiTypeOK, Known, Recorded, Ids, Idle
<1>20. CASE CallbackReturn
  <2>3. CallbackMoves("idle", 0, 0, "absent")
    BY <1>20, CallbackReturnMoves
  <2>8. gone \subseteq Ids /\ installed \subseteq Ids
    BY CApiAssumption DEF TableTypes, CApiTypeOK, Known, Ids
  <2>. QED BY <1>20, <2>8, GoneKept DEF CallbackReturn, tables, history, objects
<1>21. ASSUME NEW id \in Ids, Arrive(id) PROVE GoneInv'
  BY <1>21, CApiAssumption, CallIds, CallbackIds
  DEF Arrive, tables, messages, media, history, objects, GoneInv, RaceInv, CallShape, ShapeOf,
      LibraryShape, CallFacts, CallbackFacts, TableTypes, CApiTypeOK, Known, Recorded, Ids, Idle
<1>22. ASSUME NEW id \in Ids, RemoteShut(id) PROVE GoneInv'
  BY <1>22, CApiAssumption, CallIds, CallbackIds
  DEF RemoteShut, tables, messages, media, history, objects, GoneInv, RaceInv, CallShape, ShapeOf,
      LibraryShape, CallFacts, CallbackFacts, TableTypes, CApiTypeOK, Known, Recorded, Ids, Idle
<1>23. ASSUME NEW id \in Ids, RemoteReset(id) PROVE GoneInv'
  BY <1>23, CApiAssumption, CallIds, CallbackIds
  DEF RemoteReset, tables, messages, media, history, objects, GoneInv, RaceInv, CallShape,
      ShapeOf, LibraryShape, CallFacts, CallbackFacts, TableTypes, CApiTypeOK, Known, Recorded,
      Ids, Idle
<1>24. ASSUME NEW id \in Ids, NEW offer \in BOOLEAN, CallbackStart(id, offer) PROVE GoneInv'
  <2>3. CallbackMoves(IF offer THEN "offer" ELSE "locked", id, 0, "absent")
    BY <1>24, CallbackStartMoves
  <2>. QED BY <1>24, <2>3, CApiAssumption, CallIds, CallbackIds
    DEF CallbackStart, tables, messages, media, history, objects, CallbackMoves, GoneInv, RaceInv,
        CallShape, ShapeOf, LibraryShape, CallFacts, CallbackFacts, TableTypes, CApiTypeOK, Known,
        Recorded, Ids, Idle
<1>25. CASE UNCHANGED cVars
  BY <1>25
  DEF cVars, tables, messages, media, history, objects, GoneInv, RaceInv, CallShape, ShapeOf,
      LibraryShape, CallFacts, CallbackFacts, TableTypes, CApiTypeOK, Known, Recorded, Ids, Idle
<1>. QED BY <1>1, <1>2, <1>3, <1>4, <1>5, <1>6, <1>7, <1>8, <1>9, <1>10, <1>11, <1>12, <1>13,
    <1>14, <1>15, <1>16, <1>17, <1>18, <1>19, <1>20, <1>21, <1>22, <1>23, <1>24, <1>25 DEF CBigStep
(* A callback outlives entry and users only where a connection was being closed *)
(* by the library.                                                             *)
LEMMA OrphanStep == CBase /\ OrphanInv /\ [CNext]_cVars => OrphanInv'
<1>. SUFFICES ASSUME TableTypes, CallTypes, MessageTypes, MediaTypes, CallShape, CallbackShape,
    PendingInv, OrphanInv, CBigStep PROVE OrphanInv'
  BY CBigSteps DEF CBase
<1>1. ASSUME NEW t \in Threads, NEW op \in OpsOf(topic), NEW id \in Ids, Get(t, op, id) PROVE
    OrphanInv'
  <2>2. Moves(t, op, "got", id, 0)
    BY <1>1, GetMoves
  <2>8. gone \subseteq Ids /\ installed \subseteq Ids
    BY CApiAssumption DEF TableTypes, CApiTypeOK, Known, Ids
  <2>4. installed' \subseteq installed /\ table' = table /\ \A i \in Ids : raced[i] # "no" => raced'[i] # "no"
    BY <1>1 DEF Get, tables, history, objects, TableTypes, Recorded
  <2>5. \A u \in Threads : call[u].id \in {0, call'[u].id}
    BY <1>1, <2>2 DEF Get, Moves, StepsTo, Idle
  <2>. QED BY <2>4, <2>5, <2>8, OrphanKept
<1>2. ASSUME NEW t \in Threads, NEW k \in {"pc", "ws", "srv"}, installed' \in {installed,
    installed \cup {lastId'}}, CreateObject(t, k) PROVE OrphanInv'
  <2>1. EmplaceFacts(k, 0)
    BY <1>2, NewIdentifier, CApiAssumption DEF Channels, TableTypes, CApiTypeOK, CreateObject
  <2>4. UNCHANGED <<raced, call>> /\ installed' \subseteq installed \cup {lastId'} /\ table' = table \cup {lastId'}
    BY <1>2, <2>1 DEF CreateObject, EmplaceFacts
  <2>. QED BY <2>4 DEF OrphanInv
<1>3. ASSUME NEW t \in Threads, NEW id \in Ids, SetUserPointer(t, id, "p") PROVE OrphanInv'
  <2>8. gone \subseteq Ids /\ installed \subseteq Ids
    BY CApiAssumption DEF TableTypes, CApiTypeOK, Known, Ids
  <2>4. installed' \subseteq installed /\ UNCHANGED <<table, raced, call>>
    BY <1>3 DEF SetUserPointer, tables, history, objects
  <2>. QED BY <2>4, <2>8, OrphanKept
<1>4. ASSUME NEW t \in Threads, CleanupStart(t) PROVE OrphanInv'
  <2>2. Moves(t, "cleanup", "clearing", 0, 0)
    BY <1>4, CleanupStartMoves
  <2>8. gone \subseteq Ids /\ installed \subseteq Ids
    BY CApiAssumption DEF TableTypes, CApiTypeOK, Known, Ids
  <2>4. installed' \subseteq installed /\ table' = table /\ \A i \in Ids : raced[i] # "no" => raced'[i] # "no"
    BY <1>4 DEF CleanupStart, tables, history, objects, TableTypes, Recorded
  <2>5. \A u \in Threads : call[u].id \in {0, call'[u].id}
    BY <1>4, <2>2 DEF CleanupStart, Moves, StepsTo, Idle
  <2>. QED BY <2>4, <2>5, <2>8, OrphanKept
<1>5. ASSUME NEW t \in Threads, Works(t) PROVE OrphanInv'
  <2>8. gone \subseteq Ids /\ installed \subseteq Ids
    BY CApiAssumption DEF TableTypes, CApiTypeOK, Known, Ids
  <2>5. \A u \in Threads : call[u].id \in {0, call'[u].id}
    BY <1>5 DEF Works, Moves
  <2>. QED BY <1>5, <2>5, <2>8, OrphanKept DEF Works
<1>6. ASSUME NEW t \in Threads, NEW kinds \in SUBSET {"pc", "dc", "ws", "tr"}, Install(t, kinds)
    PROVE OrphanInv'
  <2>2. StepsTo(t, "release")
    BY <1>6, InstallMoves
  <2>4. UNCHANGED <<raced, table>> /\ installed' = installed \cup {call[t].id}
    BY <1>6 DEF Install, tables, history
  <2>5. \A u \in Threads : call'[u].id = call[u].id
    BY <2>2 DEF Moves, StepsTo
  <2>. QED BY <2>4, <2>5 DEF OrphanInv
<1>7. ASSUME NEW t \in Threads, NEW op \in {"channel", "track"}, NEW k \in {"dc", "tr"},
    NewChannel(t, op, k) PROVE OrphanInv'
  <2>1. EmplaceFacts(k, 0)
    BY <1>7, NewIdentifier, CApiAssumption DEF Channels, TableTypes, CApiTypeOK, NewChannel
  <2>2. Moves(t, call[t].op, "inherit", call[t].id, lastId')
    BY <1>7, NewChannelMoves
  <2>4. UNCHANGED <<raced, installed>> /\ table' = table \cup {lastId'}
    BY <1>7, <2>1 DEF NewChannel, EmplaceFacts, history, objects
  <2>5. \A u \in Threads : call'[u].id = call[u].id
    BY <2>2 DEF Moves
  <2>. QED BY <2>4, <2>5 DEF OrphanInv
<1>8. ASSUME NEW t \in Threads, InheritPointer(t) PROVE OrphanInv'
  <2>2. StepsTo(t, "release")
    BY <1>8, InheritPointerMoves
  <2>8. gone \subseteq Ids /\ installed \subseteq Ids
    BY CApiAssumption DEF TableTypes, CApiTypeOK, Known, Ids
  <2>4. installed' \subseteq installed /\ table' = table /\ \A i \in Ids : raced[i] # "no" => raced'[i] # "no"
    BY <1>8 DEF InheritPointer, Step, tables, history, objects, TableTypes, Recorded
  <2>5. \A u \in Threads : call[u].id \in {0, call'[u].id}
    BY <1>8, <2>2 DEF InheritPointer, Moves, StepsTo, Idle
  <2>. QED BY <2>4, <2>5, <2>8, OrphanKept
<1>9. ASSUME NEW t \in Threads, CloseChannel(t) PROVE OrphanInv'
  <2>2. \/ call[t].op = "delete" /\ StepsTo(t, "closed")
        \/ call[t].op # "delete" /\ StepsTo(t, "release")
    BY <1>9, CloseChannelMoves
  <2>8. gone \subseteq Ids /\ installed \subseteq Ids
    BY CApiAssumption DEF TableTypes, CApiTypeOK, Known, Ids
  <2>4. installed' \subseteq installed /\ table' = table /\ \A i \in Ids : raced[i] # "no" => raced'[i] # "no"
    BY <1>9 DEF CloseChannel, Step, Quiet, tables, history, objects, TableTypes, Recorded
  <2>5. \A u \in Threads : call[u].id \in {0, call'[u].id}
    BY <1>9, <2>2 DEF CloseChannel, Moves, StepsTo, Idle
  <2>. QED BY <2>4, <2>5, <2>8, OrphanKept
<1>10. ASSUME NEW t \in Threads, NEW force \in BOOLEAN, CloseWebSocket(t, force) PROVE OrphanInv'
  <2>2. \/ call[t].op = "delete" /\ StepsTo(t, "closed")
        \/ call[t].op # "delete" /\ StepsTo(t, "release")
    BY <1>10, CloseWebSocketMoves
  <2>8. gone \subseteq Ids /\ installed \subseteq Ids
    BY CApiAssumption DEF TableTypes, CApiTypeOK, Known, Ids
  <2>4. installed' \subseteq installed /\ table' = table /\ \A i \in Ids : raced[i] # "no" => raced'[i] # "no"
    BY <1>10 DEF CloseWebSocket, Step, Quiet, tables, history, objects, TableTypes, Recorded
  <2>5. \A u \in Threads : call[u].id \in {0, call'[u].id}
    BY <1>10, <2>2 DEF CloseWebSocket, Moves, StepsTo, Idle
  <2>. QED BY <2>4, <2>5, <2>8, OrphanKept
<1>11. ASSUME NEW t \in Threads, ClosePeerConnection(t) PROVE OrphanInv'
  <2>2. \/ call[t].op = "delete" /\ StepsTo(t, "closed")
        \/ call[t].op # "delete" /\ StepsTo(t, "release")
        \/ Moves(t, call[t].op, "resetting", call[t].id, 1)
    BY <1>11, ClosePeerConnectionMoves
  <2>8. gone \subseteq Ids /\ installed \subseteq Ids
    BY CApiAssumption DEF TableTypes, CApiTypeOK, Known, Ids
  <2>4. installed' \subseteq installed /\ table' = table /\ \A i \in Ids : raced[i] # "no" => raced'[i] # "no"
    BY <1>11 DEF ClosePeerConnection, Step, tables, history, objects, TableTypes, Recorded
  <2>5. \A u \in Threads : call[u].id \in {0, call'[u].id}
    BY <1>11, <2>2 DEF ClosePeerConnection, Moves, StepsTo, Idle
  <2>. QED BY <2>4, <2>5, <2>8, OrphanKept
<1>12. ASSUME NEW t \in Threads, ResetCallbacks(t) PROVE OrphanInv'
  <2>2. \/ call[t].x = 1 /\ call[t].op = "delete" /\ StepsTo(t, "closed")
        \/ call[t].x = 1 /\ call[t].op # "delete" /\ StepsTo(t, "release")
        \/ call[t].x # 1 /\ Moves(t, "none", "none", 0, 0)
    BY <1>12, ResetCallbacksMoves
  <2>4. UNCHANGED <<raced, table>> /\ installed' = installed \ {call[t].id}
    BY <1>12 DEF ResetCallbacks, tables
  <2>5. \A u \in Threads : u # t => call'[u].id = call[u].id
    BY <2>2 DEF Moves, StepsTo
  <2>. QED BY <2>4, <2>5 DEF OrphanInv
<1>13. ASSUME NEW t \in Threads, StopServer(t) PROVE OrphanInv'
  <2>2. \/ t = Lib /\ StepsTo(t, "release")
        \/ t # Lib /\ StepsTo(t, "closed")
    BY <1>13, StopServerMoves
  <2>8. gone \subseteq Ids /\ installed \subseteq Ids
    BY CApiAssumption DEF TableTypes, CApiTypeOK, Known, Ids
  <2>4. installed' \subseteq installed /\ table' = table /\ \A i \in Ids : raced[i] # "no" => raced'[i] # "no"
    BY <1>13 DEF StopServer, In, Step, Quiet, tables, history, objects, TableTypes, Recorded
  <2>5. \A u \in Threads : call[u].id \in {0, call'[u].id}
    BY <1>13, <2>2 DEF StopServer, Moves, StepsTo, Idle
  <2>. QED BY <2>4, <2>5, <2>8, OrphanKept
<1>14. ASSUME NEW t \in Threads, Erase(t) PROVE OrphanInv'
  <2>2. \/ call[t].id \in table /\ StepsTo(t, "erased")
        \/ call[t].id \notin table /\ StepsTo(t, "release")
    BY <1>14, EraseMoves
  <2>4. UNCHANGED <<raced, installed>> /\ table' = table \ {call[t].id}
    BY <1>14 DEF Erase, history, objects
  <2>5. \A u \in Threads : call'[u].id = call[u].id
    BY <2>2 DEF Moves, StepsTo
  <2>. QED BY <2>4, <2>5 DEF OrphanInv
<1>15. ASSUME NEW t \in Threads, ReleaseRef(t) PROVE OrphanInv'
  <2>2. \/ call[t].id \notin table /\ LastRef(t, call[t].id) /\ kind[call[t].id] = "pc" /\ closer[call[t].id] = "open" /\ Moves(t, IF call[t].step = "erased" THEN "delete" ELSE "use", "resetting", call[t].id, 0)
        \/ Moves(t, "none", "none", 0, 0)
    BY <1>15, ReleaseRefMoves
  <2>8. gone \subseteq Ids /\ installed \subseteq Ids
    BY CApiAssumption DEF TableTypes, CApiTypeOK, Known, Ids
  <2>3. table' = table /\ installed' \subseteq installed /\ \A i \in Ids : raced[i] # "no" => raced'[i] # "no"
    BY <1>15 DEF ReleaseRef, tables, TableTypes, Recorded
  <2>5. CASE \A u \in Threads : call'[u].id = call[u].id
    BY <2>3, <2>5, <2>8, OrphanKept
  <2>6. CASE ~\A u \in Threads : call'[u].id = call[u].id
    <3>. DEFINE i == call[t].id
    <3>1. Moves(t, "none", "none", 0, 0)
      BY <2>2, <2>6 DEF Moves
    <3>2. \A u \in Threads : u # t => call'[u].id = call[u].id
      BY <3>1 DEF Moves
    <3>3. call'[t].id = 0 /\ i # 0 /\ i \in Ids
      BY <1>15, <3>1, CallIds, CApiAssumption DEF ReleaseRef, CallFacts, Moves, Ids
    <3>4. ~(i \notin table /\ LastRef(t, i) /\ kind[i] = "pc" /\ closer[i] = "open")
      <4>1. SUFFICES ASSUME i \notin table /\ LastRef(t, i) /\ kind[i] = "pc" /\ closer[i] = "open" PROVE FALSE
        OBVIOUS
      <4>2. call' = [call EXCEPT ![t].step = "resetting", ![t].x = 0, ![t].op = IF call[t].step = "erased" THEN "delete" ELSE "use"]
        BY <1>15, <4>1 DEF ReleaseRef
      <4>3. call'[t].id = i
        BY <4>2 DEF CallTypes, CallsOK, CallRecord
      <4>. QED BY <3>3, <4>3
    <3>5. ASSUME i \in installed', i \notin table PROVE raced'[i] # "no" \/ \E u \in Threads \ {t} : call[u].id = i
      <4>1. SUFFICES ASSUME LastRef(t, i) PROVE raced'[i] # "no"
        BY DEF LastRef
      <4>2. installed' = IF kind[i] # "pc" THEN installed \ {i} ELSE installed
        BY <1>15, <3>4, <3>5, <4>1 DEF ReleaseRef
      <4>3. kind[i] = "pc" /\ closer[i] \in {"shut", "reset"} /\ i \in installed
        BY <3>3, <3>4, <3>5, <4>1, <4>2 DEF TableTypes, CApiTypeOK
      <4>4. Unwaited(i)
        BY <4>3 DEF Unwaited
      <4>5. raced' = [raced EXCEPT ![i] = "closing"]
        BY <1>15, <3>4, <3>5, <4>1, <4>4 DEF ReleaseRef
      <4>. QED BY <3>3, <4>5 DEF TableTypes, Recorded
    <3>6. SUFFICES ASSUME NEW j \in installed' PROVE j \in table' \/ raced'[j] # "no" \/ \E u \in Threads : call'[u].id = j
      BY DEF OrphanInv
    <3>7. j \in installed /\ j \in Ids
      BY <2>3, <2>8, <3>6
    <3>8. CASE j = i
      BY <2>3, <3>2, <3>5, <3>6, <3>8
    <3>9. CASE j # i
      BY <2>3, <3>2, <3>7, <3>9 DEF OrphanInv
    <3>. QED BY <3>8, <3>9
  <2>. QED BY <2>5, <2>6
<1>16. ASSUME NEW t \in Threads, EraseAll(t) PROVE OrphanInv'
  <2>2. Moves(t, "none", "none", 0, 0)
    BY <1>16, EraseAllMoves
  <2>8. gone \subseteq Ids /\ installed \subseteq Ids
    BY CApiAssumption DEF TableTypes, CApiTypeOK, Known, Ids
  <2>3. \A i \in Ids : raced[i] # "no" => raced'[i] # "no"
    BY <1>16 DEF EraseAll
  <2>4. \A u \in Threads : u # t => call'[u].id = call[u].id
    BY <2>2 DEF Moves
  <2>5. call[t].id = 0
    BY <1>16 DEF EraseAll, CallShape, ShapeOf
  <2>6. SUFFICES ASSUME NEW j \in installed' PROVE raced'[j] # "no" \/ \E u \in Threads : call'[u].id = j
    BY DEF OrphanInv
  <2>7. j \in installed /\ j \in Ids /\ (~LastRef(t, j) \/ (kind[j] = "pc" /\ closer[j] # "open"))
    BY <1>16, <2>6, <2>8 DEF EraseAll
  <2>9. CASE ~LastRef(t, j)
    BY <2>4, <2>9 DEF LastRef
  <2>10. CASE LastRef(t, j)
    <3>1. kind[j] = "pc" /\ closer[j] \in {"shut", "reset"}
      BY <2>7, <2>10 DEF TableTypes, CApiTypeOK
    <3>2. Unwaited(j)
      BY <2>7, <3>1 DEF Unwaited
    <3>3. CASE j \in table
      BY <1>16, <2>7, <3>2, <3>3 DEF EraseAll
    <3>4. CASE j \notin table
      <4>1. ~\E u \in Threads : call[u].id = j
        BY <2>5, <2>7, <2>10, CApiAssumption DEF LastRef, Ids
      <4>. QED BY <2>3, <2>7, <3>4, <4>1 DEF OrphanInv
    <3>. QED BY <3>3, <3>4
  <2>. QED BY <2>9, <2>10
<1>17. CASE CallbackEmplace
  <2>0. PICK k \in {"ws", "dc", "tr"} : Emplace(k, inCallback.id)
    BY <1>17 DEF CallbackEmplace
  <2>1. EmplaceFacts(k, inCallback.id)
    BY <1>17, <2>0, NewIdentifier, CApiAssumption DEF Channels, TableTypes, CApiTypeOK,
        CallbackEmplace, CallTypes, CallbackOK, CallbackRecord
  <2>3. CallbackMoves("locked", inCallback.id, lastId', inCallback.ptr)
    BY <1>17, <2>0, CallbackEmplaceMoves DEF Channels
  <2>4. UNCHANGED <<raced, call, installed>> /\ table' = table \cup {lastId'}
    BY <1>17, <2>1 DEF CallbackEmplace, EmplaceFacts, history, objects
  <2>. QED BY <2>4 DEF OrphanInv
<1>18. CASE CallbackCheck
  <2>3. \/ userPointerMap[inCallback.id] = "absent" /\ CallbackMoves("idle", 0, 0, "absent")
       \/ /\ userPointerMap[inCallback.id] # "absent"
          /\ CallbackMoves(IF inCallback.new = 0 THEN "running" ELSE "inherit", inCallback.id,
                           inCallback.new, userPointerMap[inCallback.id])
    BY <1>18, CallbackCheckMoves
  <2>8. gone \subseteq Ids /\ installed \subseteq Ids
    BY CApiAssumption DEF TableTypes, CApiTypeOK, Known, Ids
  <2>4. installed' \subseteq installed /\ UNCHANGED <<table, raced, call>>
    BY <1>18 DEF CallbackCheck, tables, history, objects
  <2>. QED BY <2>4, <2>8, OrphanKept
<1>19. CASE CallbackInherit
  <2>3. CallbackMoves("running", inCallback.id, inCallback.new, inCallback.ptr)
    BY <1>19, CallbackInheritMoves
  <2>8. gone \subseteq Ids /\ installed \subseteq Ids
    BY CApiAssumption DEF TableTypes, CApiTypeOK, Known, Ids
  <2>4. installed' \subseteq installed /\ UNCHANGED <<table, raced, call>>
    BY <1>19 DEF CallbackInherit, tables, history, objects
  <2>. QED BY <2>4, <2>8, OrphanKept
<1>20. CASE CallbackReturn
  <2>3. CallbackMoves("idle", 0, 0, "absent")
    BY <1>20, CallbackReturnMoves
  <2>8. gone \subseteq Ids /\ installed \subseteq Ids
    BY CApiAssumption DEF TableTypes, CApiTypeOK, Known, Ids
  <2>4. installed' \subseteq installed /\ UNCHANGED <<table, raced, call>>
    BY <1>20 DEF CallbackReturn, tables, history, objects
  <2>. QED BY <2>4, <2>8, OrphanKept
<1>21. ASSUME NEW id \in Ids, Arrive(id) PROVE OrphanInv'
  <2>8. gone \subseteq Ids /\ installed \subseteq Ids
    BY CApiAssumption DEF TableTypes, CApiTypeOK, Known, Ids
  <2>4. installed' \subseteq installed /\ UNCHANGED <<table, raced, call>>
    BY <1>21 DEF Arrive, tables, history, objects
  <2>. QED BY <2>4, <2>8, OrphanKept
<1>22. ASSUME NEW id \in Ids, RemoteShut(id) PROVE OrphanInv'
  <2>8. gone \subseteq Ids /\ installed \subseteq Ids
    BY CApiAssumption DEF TableTypes, CApiTypeOK, Known, Ids
  <2>4. installed' \subseteq installed /\ UNCHANGED <<table, raced, call>>
    BY <1>22 DEF RemoteShut, tables, history, objects
  <2>. QED BY <2>4, <2>8, OrphanKept
<1>23. ASSUME NEW id \in Ids, RemoteReset(id) PROVE OrphanInv'
  <2>8. gone \subseteq Ids /\ installed \subseteq Ids
    BY CApiAssumption DEF TableTypes, CApiTypeOK, Known, Ids
  <2>4. installed' \subseteq installed /\ UNCHANGED <<table, raced, call>>
    BY <1>23 DEF RemoteReset, tables, history, objects
  <2>. QED BY <2>4, <2>8, OrphanKept
<1>24. ASSUME NEW id \in Ids, NEW offer \in BOOLEAN, CallbackStart(id, offer) PROVE OrphanInv'
  <2>3. CallbackMoves(IF offer THEN "offer" ELSE "locked", id, 0, "absent")
    BY <1>24, CallbackStartMoves
  <2>8. gone \subseteq Ids /\ installed \subseteq Ids
    BY CApiAssumption DEF TableTypes, CApiTypeOK, Known, Ids
  <2>4. installed' \subseteq installed /\ UNCHANGED <<table, raced, call>>
    BY <1>24 DEF CallbackStart, tables, history, objects
  <2>. QED BY <2>4, <2>8, OrphanKept
<1>25. CASE UNCHANGED cVars
  BY <1>25
  DEF cVars, tables, messages, media, history, objects, OrphanInv, CallShape, ShapeOf,
      LibraryShape, CallFacts, CallbackFacts, TableTypes, CApiTypeOK, Known, Recorded, Ids, Idle
<1>. QED BY <1>1, <1>2, <1>3, <1>4, <1>5, <1>6, <1>7, <1>8, <1>9, <1>10, <1>11, <1>12, <1>13,
    <1>14, <1>15, <1>16, <1>17, <1>18, <1>19, <1>20, <1>21, <1>22, <1>23, <1>24, <1>25 DEF CBigStep

(* A call that goes on with its object still finds it, or deletes it, ...      *)
LEMMA EntryGoesOn ==
    ASSUME EntryInv, NEW t \in Threads, NEW s, NEW n, Moves(t, call[t].op, s, call[t].id, n),
           ~(call[t].step = "resetting" /\ call[t].x = 0 /\ call[t].op # "delete"),
           UNCHANGED <<table, raced, cleaned, rtpConfigMap, rtcpSrReporterMap>>
    PROVE  EntryInv'
<1>1. \A u \in Threads : call'[u].op = call[u].op /\ call'[u].id = call[u].id
  BY DEF Moves
<1>2. \A u \in Threads : Deleting(u) => Deleting(u)'
  BY DEF Moves, Deleting
<1>. QED BY <1>1, <1>2 DEF EntryInv

(* ... and one that ends leaves the others to theirs.                          *)
LEMMA EntryEnds ==
    ASSUME EntryInv, NEW t \in Threads, call'[t].id = 0, \A u \in Threads : u # t => call'[u] = call[u],
           \A u \in Threads : call[u].id # 0 => call[u].id \in Ids,
           \A i \in Ids : raced[i] # "no" => raced'[i] # "no",
           UNCHANGED <<table, cleaned, rtpConfigMap, rtcpSrReporterMap>>
    PROVE  EntryInv'
<1>1. \A u \in Threads : u # t /\ Deleting(u) => Deleting(u)'
  BY DEF Deleting
<1>. QED BY <1>1 DEF EntryInv

(* An entry or a call belongs to an object of the table, unless there was a    *)
(* race.                                                                       *)
LEMMA EntryStep == CBase /\ EntryInv /\ RaceInv /\ [CNext]_cVars => EntryInv'
<1>. SUFFICES ASSUME TableTypes, CallTypes, MessageTypes, MediaTypes, CallShape, CallbackShape,
    PendingInv, EntryInv, RaceInv, CStep PROVE EntryInv'
  BY CSteps DEF CBase
<1>1. ASSUME NEW t \in Threads, NEW op \in OpsOf(topic), NEW id \in Ids, Get(t, op, id) PROVE
    EntryInv'
  <2>2. Moves(t, op, "got", id, 0)
    BY <1>1, GetMoves
  <2>9. \A u \in Threads : call[u].id # 0 => call[u].id \in Ids
    BY CallIds DEF CallFacts, CallShape, ShapeOf
  <2>4. id \in table /\ UNCHANGED <<table, cleaned, rtpConfigMap, rtcpSrReporterMap>>
    BY <1>1 DEF Get, tables, media
  <2>5. \A i \in Ids : raced[i] # "no" => raced'[i] # "no"
    BY <1>1 DEF Get, TableTypes, Recorded
  <2>6. call'[t].id = id /\ \A u \in Threads : u # t => call'[u] = call[u]
    BY <2>2 DEF Moves
  <2>7. \A u \in Threads : u # t /\ Deleting(u) => Deleting(u)'
    BY <2>6 DEF Deleting
  <2>. QED BY <2>4, <2>5, <2>6, <2>7, <2>9 DEF EntryInv
<1>2. ASSUME NEW t \in Threads, NEW k \in {"pc", "ws", "srv"}, installed' \in {installed,
    installed \cup {lastId'}}, CreateObject(t, k) PROVE EntryInv'
  <2>1. EmplaceFacts(k, 0)
    BY <1>2, NewIdentifier, CApiAssumption DEF Channels, TableTypes, CApiTypeOK, CreateObject
  <2>4. UNCHANGED <<raced, cleaned, rtpConfigMap, rtcpSrReporterMap, call>> /\ table' = table \cup {lastId'}
    BY <1>2, <2>1 DEF CreateObject, EmplaceFacts, history, media
  <2>. QED BY <2>4 DEF EntryInv, Deleting
<1>3. ASSUME NEW t \in Threads, NEW id \in Ids, SetUserPointer(t, id, "p") PROVE EntryInv'
  <2>4. UNCHANGED <<table, raced, cleaned, rtpConfigMap, rtcpSrReporterMap, call>>
    BY <1>3 DEF SetUserPointer, tables, history, media
  <2>. QED BY <2>4 DEF EntryInv, Deleting
<1>4. ASSUME NEW t \in Threads, CleanupStart(t) PROVE EntryInv'
  <2>2. Moves(t, "cleanup", "clearing", 0, 0)
    BY <1>4, CleanupStartMoves
  <2>9. \A u \in Threads : call[u].id # 0 => call[u].id \in Ids
    BY CallIds DEF CallFacts, CallShape, ShapeOf
  <2>4. UNCHANGED <<table, raced, cleaned, rtpConfigMap, rtcpSrReporterMap>>
    BY <1>4 DEF CleanupStart, history, media
  <2>5. call'[t].id = 0 /\ \A u \in Threads : u # t => call'[u] = call[u]
    BY <2>2 DEF Moves
  <2>. QED BY <2>4, <2>5, <2>9, EntryEnds
<1>5. ASSUME NEW t \in Threads, NEW k \in {"pc", "dc", "tr"}, Use(t, k) PROVE EntryInv'
  <2>2. StepsTo(t, "release")
    BY <1>5, UseMoves
  <2>4. UNCHANGED <<table, raced, cleaned, rtpConfigMap, rtcpSrReporterMap>>
    BY <1>5 DEF Use, In, Step, tables, history, media
  <2>5. ~(call[t].step = "resetting" /\ call[t].x = 0 /\ call[t].op # "delete")
    BY <1>5 DEF Use, In, Step, In
  <2>. QED BY <2>2, <2>4, <2>5, EntryGoesOn DEF StepsTo
<1>6. ASSUME NEW t \in Threads, NEW kinds \in SUBSET {"pc", "dc", "ws", "tr"}, Install(t, kinds)
    PROVE EntryInv'
  <2>2. StepsTo(t, "release")
    BY <1>6, InstallMoves
  <2>4. UNCHANGED <<table, raced, cleaned, rtpConfigMap, rtcpSrReporterMap>>
    BY <1>6 DEF Install, In, Step, Quiet, tables, history, media
  <2>5. ~(call[t].step = "resetting" /\ call[t].x = 0 /\ call[t].op # "delete")
    BY <1>6 DEF Install, In, Step, Quiet, In
  <2>. QED BY <2>2, <2>4, <2>5, EntryGoesOn DEF StepsTo
<1>7. ASSUME NEW t \in Threads, NEW op \in {"channel", "track"}, NEW k \in {"dc", "tr"},
    NewChannel(t, op, k) PROVE EntryInv'
  <2>1. EmplaceFacts(k, 0)
    BY <1>7, NewIdentifier, CApiAssumption DEF Channels, TableTypes, CApiTypeOK, NewChannel
  <2>2. Moves(t, call[t].op, "inherit", call[t].id, lastId')
    BY <1>7, NewChannelMoves
  <2>4. UNCHANGED <<raced, cleaned, rtpConfigMap, rtcpSrReporterMap>> /\ table' = table \cup {lastId'}
    BY <1>7, <2>1 DEF NewChannel, EmplaceFacts, history, media
  <2>5. \A u \in Threads : call'[u].id = call[u].id /\ call'[u].op = call[u].op
    BY <2>2 DEF Moves
  <2>6. \A u \in Threads : Deleting(u) => Deleting(u)'
    BY <1>7, <2>2 DEF NewChannel, In, Moves, Deleting
  <2>. QED BY <2>4, <2>5, <2>6 DEF EntryInv
<1>8. ASSUME NEW t \in Threads, InheritPointer(t) PROVE EntryInv'
  <2>2. StepsTo(t, "release")
    BY <1>8, InheritPointerMoves
  <2>4. UNCHANGED <<table, raced, cleaned, rtpConfigMap, rtcpSrReporterMap>>
    BY <1>8 DEF InheritPointer, Step, tables, history, media
  <2>5. ~(call[t].step = "resetting" /\ call[t].x = 0 /\ call[t].op # "delete")
    BY <1>8 DEF InheritPointer, Step, In
  <2>. QED BY <2>2, <2>4, <2>5, EntryGoesOn DEF StepsTo
<1>9. ASSUME NEW t \in Threads, Peek(t) PROVE EntryInv'
  <2>2. \/ queue[call[t].id] = <<>> /\ StepsTo(t, "release")
        \/ queue[call[t].id] # <<>> /\ Moves(t, "receive", IF Head(queue[call[t].id]) \in emptied THEN "empty" ELSE "peeked", call[t].id, Head(queue[call[t].id]))
    BY <1>9, PeekMoves
  <2>4. UNCHANGED <<table, raced, cleaned, rtpConfigMap, rtcpSrReporterMap>>
    BY <1>9 DEF Peek, tables, history, media
  <2>5. call[t].step = "got" /\ call[t].op = "receive"
    BY <1>9 DEF Peek, In
  <2>. QED BY <2>2, <2>4, <2>5, EntryGoesOn DEF StepsTo
<1>10. ASSUME NEW t \in Threads, Keep(t) PROVE EntryInv'
  <2>2. StepsTo(t, "release")
    BY <1>10, KeepMoves
  <2>4. UNCHANGED <<table, raced, cleaned, rtpConfigMap, rtcpSrReporterMap>>
    BY <1>10 DEF Keep, Step, tables, history, media
  <2>5. ~(call[t].step = "resetting" /\ call[t].x = 0 /\ call[t].op # "delete")
    BY <1>10 DEF Keep, Step, In
  <2>. QED BY <2>2, <2>4, <2>5, EntryGoesOn DEF StepsTo
<1>11. ASSUME NEW t \in Threads, Take(t) PROVE EntryInv'
  <2>2. StepsTo(t, "release")
    BY <1>11, TakeMoves
  <2>4. UNCHANGED <<table, raced, cleaned, rtpConfigMap, rtcpSrReporterMap>>
    BY <1>11 DEF Take, Step, tables, history, media
  <2>5. ~(call[t].step = "resetting" /\ call[t].x = 0 /\ call[t].op # "delete")
    BY <1>11 DEF Take, Step, In
  <2>. QED BY <2>2, <2>4, <2>5, EntryGoesOn DEF StepsTo
<1>12. ASSUME NEW t \in Threads, StoreConfig(t) PROVE EntryInv'
  <2>2. Moves(t, call[t].op, "stored", call[t].id, made'[call[t].id])
    BY <1>12, StoreConfigMoves
  <2>9. \A u \in Threads : call[u].id # 0 => call[u].id \in Ids
    BY CallIds DEF CallFacts, CallShape, ShapeOf
  <2>4. UNCHANGED <<table, raced, cleaned, rtcpSrReporterMap>>
    BY <1>12 DEF StoreConfig, NewConfig, tables, history
  <2>5. call[t].step = "got" /\ call[t].op = "packetizer"
    BY <1>12 DEF StoreConfig, NewConfig, In
  <2>6. call[t].id \in Ids
    BY <2>5, CallIds DEF CallFacts
  <2>7. \A i \in Ids : i # call[t].id => rtpConfigMap'[i] = rtpConfigMap[i]
    BY <1>12 DEF StoreConfig, MediaTypes
  <2>8. call[t].id \in table \/ raced[call[t].id] # "no" \/ cleaned
    BY <2>5, <2>6, CApiAssumption DEF EntryInv, Deleting, Ids
  <2>10. \A u \in Threads : call'[u].id = call[u].id
    BY <2>2 DEF Moves
  <2>11. \A u \in Threads : Deleting(u) => Deleting(u)'
    BY <2>2, <2>5 DEF Moves, Deleting
  <2>. QED BY <2>4, <2>7, <2>8, <2>10, <2>11 DEF EntryInv
<1>13. ASSUME NEW t \in Threads, OmitConfig(t) PROVE EntryInv'
  <2>2. Moves(t, call[t].op, "stored", call[t].id, made'[call[t].id])
    BY <1>13, OmitConfigMoves
  <2>4. UNCHANGED <<table, raced, cleaned, rtpConfigMap, rtcpSrReporterMap>>
    BY <1>13 DEF OmitConfig, NewConfig, In, tables, history, media
  <2>5. ~(call[t].step = "resetting" /\ call[t].x = 0 /\ call[t].op # "delete")
    BY <1>13 DEF OmitConfig, NewConfig, In, In
  <2>. QED BY <2>2, <2>4, <2>5, EntryGoesOn DEF StepsTo
<1>14. ASSUME NEW t \in Threads, SetPacketizer(t) PROVE EntryInv'
  <2>2. StepsTo(t, "release")
    BY <1>14, SetPacketizerMoves
  <2>4. UNCHANGED <<table, raced, cleaned, rtpConfigMap, rtcpSrReporterMap>>
    BY <1>14 DEF SetPacketizer, Step, tables, history, media
  <2>5. ~(call[t].step = "resetting" /\ call[t].x = 0 /\ call[t].op # "delete")
    BY <1>14 DEF SetPacketizer, Step, In
  <2>. QED BY <2>2, <2>4, <2>5, EntryGoesOn DEF StepsTo
<1>15. ASSUME NEW t \in Threads, FindConfig(t) PROVE EntryInv'
  <2>2. \/ rtpConfigMap[call[t].id] = 0 /\ Moves(t, call[t].op, "release", call[t].id, 0)
        \/ rtpConfigMap[call[t].id] # 0 /\ Moves(t, call[t].op, "found", call[t].id, rtpConfigMap[call[t].id])
    BY <1>15, FindConfigMoves
  <2>4. UNCHANGED <<table, raced, cleaned, rtpConfigMap, rtcpSrReporterMap>>
    BY <1>15 DEF FindConfig, In, tables, history, media
  <2>5. ~(call[t].step = "resetting" /\ call[t].x = 0 /\ call[t].op # "delete")
    BY <1>15 DEF FindConfig, In, In
  <2>. QED BY <2>2, <2>4, <2>5, EntryGoesOn DEF StepsTo
<1>16. ASSUME NEW t \in Threads, ChainReporter(t) PROVE EntryInv'
  <2>2. StepsTo(t, "release")
    BY <1>16, ChainReporterMoves
  <2>9. \A u \in Threads : call[u].id # 0 => call[u].id \in Ids
    BY CallIds DEF CallFacts, CallShape, ShapeOf
  <2>4. UNCHANGED <<table, raced, cleaned, rtpConfigMap>>
    BY <1>16 DEF ChainReporter, tables, history
  <2>5. call[t].step = "found" /\ call[t].op = "reporter"
    BY <1>16 DEF ChainReporter, CallShape, ShapeOf
  <2>6. call[t].id \in Ids
    BY <2>5, CallIds DEF CallFacts
  <2>7. \A i \in Ids : i # call[t].id => rtcpSrReporterMap'[i] = rtcpSrReporterMap[i]
    BY <1>16 DEF ChainReporter, MediaTypes
  <2>8. call[t].id \in table \/ raced[call[t].id] # "no" \/ cleaned
    BY <2>5, <2>6, CApiAssumption DEF EntryInv, Deleting, Ids
  <2>10. \A u \in Threads : call'[u].id = call[u].id
    BY <2>2 DEF Moves, StepsTo
  <2>11. \A u \in Threads : Deleting(u) => Deleting(u)'
    BY <2>2, <2>5 DEF Moves, StepsTo, Deleting
  <2>. QED BY <2>4, <2>7, <2>8, <2>10, <2>11 DEF EntryInv
<1>17. ASSUME NEW t \in Threads, CloseChannel(t) PROVE EntryInv'
  <2>2. \/ call[t].op = "delete" /\ StepsTo(t, "closed")
        \/ call[t].op # "delete" /\ StepsTo(t, "release")
    BY <1>17, CloseChannelMoves
  <2>4. UNCHANGED <<table, raced, cleaned, rtpConfigMap, rtcpSrReporterMap>>
    BY <1>17 DEF CloseChannel, Step, Quiet, tables, history, media
  <2>5. ~(call[t].step = "resetting" /\ call[t].x = 0 /\ call[t].op # "delete")
    BY <1>17 DEF CloseChannel, Step, Quiet, In
  <2>. QED BY <2>2, <2>4, <2>5, EntryGoesOn DEF StepsTo
<1>18. ASSUME NEW t \in Threads, NEW force \in BOOLEAN, CloseWebSocket(t, force) PROVE EntryInv'
  <2>2. \/ call[t].op = "delete" /\ StepsTo(t, "closed")
        \/ call[t].op # "delete" /\ StepsTo(t, "release")
    BY <1>18, CloseWebSocketMoves
  <2>4. UNCHANGED <<table, raced, cleaned, rtpConfigMap, rtcpSrReporterMap>>
    BY <1>18 DEF CloseWebSocket, Step, Quiet, tables, history, media
  <2>5. ~(call[t].step = "resetting" /\ call[t].x = 0 /\ call[t].op # "delete")
    BY <1>18 DEF CloseWebSocket, Step, Quiet, In
  <2>. QED BY <2>2, <2>4, <2>5, EntryGoesOn DEF StepsTo
<1>19. ASSUME NEW t \in Threads, ClosePeerConnection(t) PROVE EntryInv'
  <2>2. \/ call[t].op = "delete" /\ StepsTo(t, "closed")
        \/ call[t].op # "delete" /\ StepsTo(t, "release")
        \/ Moves(t, call[t].op, "resetting", call[t].id, 1)
    BY <1>19, ClosePeerConnectionMoves
  <2>4. UNCHANGED <<table, raced, cleaned, rtpConfigMap, rtcpSrReporterMap>>
    BY <1>19 DEF ClosePeerConnection, Step, tables, history, media
  <2>5. ~(call[t].step = "resetting" /\ call[t].x = 0 /\ call[t].op # "delete")
    BY <1>19 DEF ClosePeerConnection, Step, In
  <2>. QED BY <2>2, <2>4, <2>5, EntryGoesOn DEF StepsTo
<1>20. ASSUME NEW t \in Threads, ResetCallbacks(t) PROVE EntryInv'
  <2>2. \/ call[t].x = 1 /\ call[t].op = "delete" /\ StepsTo(t, "closed")
        \/ call[t].x = 1 /\ call[t].op # "delete" /\ StepsTo(t, "release")
        \/ call[t].x # 1 /\ Moves(t, "none", "none", 0, 0)
    BY <1>20, ResetCallbacksMoves
  <2>9. \A u \in Threads : call[u].id # 0 => call[u].id \in Ids
    BY CallIds DEF CallFacts, CallShape, ShapeOf
  <2>4. UNCHANGED <<table, raced, cleaned, rtpConfigMap, rtcpSrReporterMap>>
    BY <1>20 DEF ResetCallbacks, tables, media
  <2>5. CASE call[t].x = 1
    BY <2>2, <2>4, <2>5, EntryGoesOn DEF StepsTo
  <2>6. CASE call[t].x # 1
    <3>1. call'[t].id = 0 /\ \A u \in Threads : u # t => call'[u] = call[u]
      BY <2>2, <2>6 DEF Moves
    <3>. QED BY <2>4, <2>9, <3>1, EntryEnds
  <2>. QED BY <2>5, <2>6
<1>21. ASSUME NEW t \in Threads, StopServer(t) PROVE EntryInv'
  <2>2. \/ t = Lib /\ StepsTo(t, "release")
        \/ t # Lib /\ StepsTo(t, "closed")
    BY <1>21, StopServerMoves
  <2>4. UNCHANGED <<table, raced, cleaned, rtpConfigMap, rtcpSrReporterMap>>
    BY <1>21 DEF StopServer, In, Step, Quiet, tables, history, media
  <2>5. ~(call[t].step = "resetting" /\ call[t].x = 0 /\ call[t].op # "delete")
    BY <1>21 DEF StopServer, In, Step, Quiet, In
  <2>. QED BY <2>2, <2>4, <2>5, EntryGoesOn DEF StepsTo
<1>22. ASSUME NEW t \in Threads, Erase(t) PROVE EntryInv'
  <2>2. \/ call[t].id \in table /\ StepsTo(t, "erased")
        \/ call[t].id \notin table /\ StepsTo(t, "release")
    BY <1>22, EraseMoves
  <2>9. \A u \in Threads : call[u].id # 0 => call[u].id \in Ids
    BY CallIds DEF CallFacts, CallShape, ShapeOf
  <2>4. UNCHANGED <<raced, cleaned>> /\ table' = table \ {call[t].id} /\ call[t].op = "delete"
    BY <1>22 DEF Erase, In, history
  <2>5. call[t].id \in Ids /\ call[t].id # 0
    BY <1>22, CallIds, CApiAssumption DEF Erase, In, CallFacts, Ids
  <2>6. \A i \in Ids : i # call[t].id => rtpConfigMap'[i] = rtpConfigMap[i] /\ rtcpSrReporterMap'[i] = rtcpSrReporterMap[i]
    BY <1>22 DEF Erase, MediaTypes
  <2>7. call[t].id \in table => rtpConfigMap'[call[t].id] = 0 /\ rtcpSrReporterMap'[call[t].id] = 0
    BY <1>22, <2>5 DEF Erase, MediaTypes
  <2>8. call[t].id \notin table => UNCHANGED <<rtpConfigMap, rtcpSrReporterMap>>
    BY <1>22 DEF Erase
  <2>10. \A u \in Threads : call'[u].id = call[u].id /\ call'[u].op = call[u].op
    BY <2>2 DEF Moves, StepsTo
  <2>11. \A u \in Threads : Deleting(u) => Deleting(u)'
    BY <2>2, <2>4 DEF Moves, StepsTo, Deleting
  <2>12. \A u \in Threads : u # t /\ call[u].id = call[t].id => raced[call[t].id] # "no"
    BY <2>4, <2>5 DEF RaceInv
  <2>13. Deleting(t)'
    BY <2>4, <2>10 DEF Deleting
  <2>14. \A u \in Threads : call'[u].id # 0 => call'[u].id \in table' \/ raced'[call'[u].id] # "no" \/ cleaned' \/ Deleting(u)'
    BY <2>4, <2>10, <2>11, <2>12, <2>13 DEF EntryInv
  <2>15. \A i \in Ids : rtpConfigMap'[i] # 0 \/ rtcpSrReporterMap'[i] # 0 => i \in table' \/ raced'[i] # "no" \/ cleaned'
    BY <2>4, <2>5, <2>6, <2>7, <2>8 DEF EntryInv
  <2>. QED BY <2>14, <2>15 DEF EntryInv
<1>23. ASSUME NEW t \in Threads, ReleaseRef(t) PROVE EntryInv'
  <2>2. \/ call[t].id \notin table /\ LastRef(t, call[t].id) /\ kind[call[t].id] = "pc" /\ closer[call[t].id] = "open" /\ Moves(t, IF call[t].step = "erased" THEN "delete" ELSE "use", "resetting", call[t].id, 0)
        \/ Moves(t, "none", "none", 0, 0)
    BY <1>23, ReleaseRefMoves
  <2>9. \A u \in Threads : call[u].id # 0 => call[u].id \in Ids
    BY CallIds DEF CallFacts, CallShape, ShapeOf
  <2>4. \A i \in Ids : raced[i] # "no" => raced'[i] # "no"
    BY <1>23 DEF ReleaseRef, TableTypes, Recorded
  <2>5. UNCHANGED <<table, cleaned, rtpConfigMap, rtcpSrReporterMap>>
    BY <1>23 DEF ReleaseRef, tables, media
  <2>6. CASE Moves(t, "none", "none", 0, 0)
    <3>1. call'[t].id = 0 /\ \A u \in Threads : u # t => call'[u] = call[u]
      BY <2>6 DEF Moves
    <3>. QED BY <2>4, <2>5, <2>9, <3>1, EntryEnds
  <2>7. CASE ~Moves(t, "none", "none", 0, 0)
    <3>1. call'[t].step = "resetting" /\ call'[t].x = 0 /\ call'[t].id = call[t].id /\ \A u \in Threads : u # t => call'[u] = call[u]
      BY <2>2, <2>7 DEF Moves
    <3>2. Deleting(t)' /\ \A u \in Threads : u # t /\ Deleting(u) => Deleting(u)'
      BY <3>1 DEF Deleting
    <3>. QED BY <2>4, <2>5, <2>9, <3>1, <3>2 DEF EntryInv
  <2>. QED BY <2>6, <2>7
<1>24. ASSUME NEW t \in Threads, EraseAll(t) PROVE EntryInv'
  <2>2. Moves(t, "none", "none", 0, 0)
    BY <1>24, EraseAllMoves
  <2>3. \A i \in Ids : rtpConfigMap'[i] = 0 /\ rtcpSrReporterMap'[i] = 0
    BY <1>24 DEF EraseAll
  <2>4. \A u \in Threads : u # t /\ call[u].id # 0 => cleaned'
    <3>. SUFFICES ASSUME NEW u \in Threads, u # t, call[u].id # 0 PROVE cleaned'
      OBVIOUS
    <3>1. call[u] # Idle
      BY DEF Idle
    <3>. QED BY <1>24, <3>1 DEF EraseAll
  <2>5. call'[t].id = 0 /\ \A u \in Threads : u # t => call'[u] = call[u]
    BY <2>2 DEF Moves
  <2>. QED BY <2>3, <2>4, <2>5 DEF EntryInv
<1>25. CASE CallbackEmplace
  <2>0. PICK k \in {"ws", "dc", "tr"} : Emplace(k, inCallback.id)
    BY <1>25 DEF CallbackEmplace
  <2>1. EmplaceFacts(k, inCallback.id)
    BY <1>25, <2>0, NewIdentifier, CApiAssumption DEF Channels, TableTypes, CApiTypeOK,
        CallbackEmplace, CallTypes, CallbackOK, CallbackRecord
  <2>3. CallbackMoves("locked", inCallback.id, lastId', inCallback.ptr)
    BY <1>25, <2>0, CallbackEmplaceMoves DEF Channels
  <2>4. UNCHANGED <<raced, cleaned, rtpConfigMap, rtcpSrReporterMap, call>> /\ table' = table \cup {lastId'}
    BY <1>25, <2>1 DEF CallbackEmplace, EmplaceFacts, history, media
  <2>. QED BY <2>4 DEF EntryInv, Deleting
<1>26. CASE CallbackCheck
  <2>3. \/ userPointerMap[inCallback.id] = "absent" /\ CallbackMoves("idle", 0, 0, "absent")
       \/ /\ userPointerMap[inCallback.id] # "absent"
          /\ CallbackMoves(IF inCallback.new = 0 THEN "running" ELSE "inherit", inCallback.id,
                           inCallback.new, userPointerMap[inCallback.id])
    BY <1>26, CallbackCheckMoves
  <2>4. UNCHANGED <<table, raced, cleaned, rtpConfigMap, rtcpSrReporterMap, call>>
    BY <1>26 DEF CallbackCheck, tables, history, media
  <2>. QED BY <2>4 DEF EntryInv, Deleting
<1>27. CASE CallbackInherit
  <2>3. CallbackMoves("running", inCallback.id, inCallback.new, inCallback.ptr)
    BY <1>27, CallbackInheritMoves
  <2>4. UNCHANGED <<table, raced, cleaned, rtpConfigMap, rtcpSrReporterMap, call>>
    BY <1>27 DEF CallbackInherit, tables, history, media
  <2>. QED BY <2>4 DEF EntryInv, Deleting
<1>28. CASE CallbackReturn
  <2>3. CallbackMoves("idle", 0, 0, "absent")
    BY <1>28, CallbackReturnMoves
  <2>4. UNCHANGED <<table, raced, cleaned, rtpConfigMap, rtcpSrReporterMap, call>>
    BY <1>28 DEF CallbackReturn, tables, history, media
  <2>. QED BY <2>4 DEF EntryInv, Deleting
<1>29. ASSUME NEW id \in Ids, Arrive(id) PROVE EntryInv'
  <2>4. UNCHANGED <<table, raced, cleaned, rtpConfigMap, rtcpSrReporterMap, call>>
    BY <1>29 DEF Arrive, tables, history, media
  <2>. QED BY <2>4 DEF EntryInv, Deleting
<1>30. ASSUME NEW id \in Ids, RemoteShut(id) PROVE EntryInv'
  <2>4. UNCHANGED <<table, raced, cleaned, rtpConfigMap, rtcpSrReporterMap, call>>
    BY <1>30 DEF RemoteShut, tables, history, media
  <2>. QED BY <2>4 DEF EntryInv, Deleting
<1>31. ASSUME NEW id \in Ids, RemoteReset(id) PROVE EntryInv'
  <2>4. UNCHANGED <<table, raced, cleaned, rtpConfigMap, rtcpSrReporterMap, call>>
    BY <1>31 DEF RemoteReset, tables, history, media
  <2>. QED BY <2>4 DEF EntryInv, Deleting
<1>32. ASSUME NEW id \in Ids, NEW offer \in BOOLEAN, CallbackStart(id, offer) PROVE EntryInv'
  <2>3. CallbackMoves(IF offer THEN "offer" ELSE "locked", id, 0, "absent")
    BY <1>32, CallbackStartMoves
  <2>4. UNCHANGED <<table, raced, cleaned, rtpConfigMap, rtcpSrReporterMap, call>>
    BY <1>32 DEF CallbackStart, tables, history, media
  <2>. QED BY <2>4 DEF EntryInv, Deleting
<1>33. CASE UNCHANGED cVars
  BY <1>33
  DEF cVars, tables, messages, media, history, objects, EntryInv, Deleting, RaceInv, CallShape,
      ShapeOf, LibraryShape, CallFacts, CallbackFacts, TableTypes, CApiTypeOK, Known, Recorded,
      Ids, Idle
<1>. QED BY <1>1, <1>2, <1>3, <1>4, <1>5, <1>6, <1>7, <1>8, <1>9, <1>10, <1>11, <1>12, <1>13,
    <1>14, <1>15, <1>16, <1>17, <1>18, <1>19, <1>20, <1>21, <1>22, <1>23, <1>24, <1>25, <1>26,
    <1>27, <1>28, <1>29, <1>30, <1>31, <1>32, <1>33 DEF CStep

(* Calls that neither store nor find a configuration.                          *)
LEMMA ConfigFrame ==
    ASSUME ConfigInv, UNCHANGED media,
           \A u \in Threads : call[u].step = "stored" \/ call'[u].step \in {"stored", "found"} => call'[u] = call[u]
    PROVE  ConfigInv'
<1>1. UNCHANGED <<rtpConfigMap, packetizer, rtcpSrReporterMap, made>>
  BY DEF media
<1>. QED BY <1>1 DEF ConfigInv

(* The first configuration of a track is the one its packetizer works with.    *)
LEMMA ConfigStep == CBase /\ ConfigInv /\ [CNext]_cVars => ConfigInv'
<1>. SUFFICES ASSUME TableTypes, CallTypes, MessageTypes, MediaTypes, CallShape, CallbackShape,
    PendingInv, ConfigInv, CStep PROVE ConfigInv'
  BY CSteps DEF CBase
<1>1. ASSUME NEW t \in Threads, NEW op \in OpsOf(topic), NEW id \in Ids, Get(t, op, id) PROVE
    ConfigInv'
  <2>2. Moves(t, op, "got", id, 0)
    BY <1>1, GetMoves
  <2>4. \A u \in Threads : call[u].step = "stored" \/ call'[u].step \in {"stored", "found"} => call'[u] = call[u]
    BY <1>1, <2>2 DEF Get, Moves, StepsTo, Idle, In
  <2>5. UNCHANGED media
    BY <1>1 DEF Get
  <2>. QED BY <2>4, <2>5, ConfigFrame
<1>2. ASSUME NEW t \in Threads, NEW k \in {"pc", "ws", "srv"}, installed' \in {installed,
    installed \cup {lastId'}}, CreateObject(t, k) PROVE ConfigInv'
  <2>1. EmplaceFacts(k, 0)
    BY <1>2, NewIdentifier, CApiAssumption DEF Channels, TableTypes, CApiTypeOK, CreateObject
  <2>4. \A u \in Threads : call[u].step = "stored" \/ call'[u].step \in {"stored", "found"} => call'[u] = call[u]
    BY <1>2 DEF CreateObject, Moves, StepsTo, Idle, In
  <2>5. UNCHANGED media
    BY <1>2 DEF CreateObject
  <2>. QED BY <2>4, <2>5, ConfigFrame
<1>3. ASSUME NEW t \in Threads, NEW id \in Ids, SetUserPointer(t, id, "p") PROVE ConfigInv'
  <2>4. \A u \in Threads : call[u].step = "stored" \/ call'[u].step \in {"stored", "found"} => call'[u] = call[u]
    BY <1>3 DEF SetUserPointer, Moves, StepsTo, Idle, In
  <2>5. UNCHANGED media
    BY <1>3 DEF SetUserPointer
  <2>. QED BY <2>4, <2>5, ConfigFrame
<1>4. ASSUME NEW t \in Threads, CleanupStart(t) PROVE ConfigInv'
  <2>2. Moves(t, "cleanup", "clearing", 0, 0)
    BY <1>4, CleanupStartMoves
  <2>4. \A u \in Threads : call[u].step = "stored" \/ call'[u].step \in {"stored", "found"} => call'[u] = call[u]
    BY <1>4, <2>2 DEF CleanupStart, Moves, StepsTo, Idle, In
  <2>5. UNCHANGED media
    BY <1>4 DEF CleanupStart
  <2>. QED BY <2>4, <2>5, ConfigFrame
<1>5. ASSUME NEW t \in Threads, NEW k \in {"pc", "dc", "tr"}, Use(t, k) PROVE ConfigInv'
  <2>2. StepsTo(t, "release")
    BY <1>5, UseMoves
  <2>4. \A u \in Threads : call[u].step = "stored" \/ call'[u].step \in {"stored", "found"} => call'[u] = call[u]
    BY <1>5, <2>2 DEF Use, In, Step, Moves, StepsTo, Idle, In
  <2>5. UNCHANGED media
    BY <1>5 DEF Use
  <2>. QED BY <2>4, <2>5, ConfigFrame
<1>6. ASSUME NEW t \in Threads, NEW kinds \in SUBSET {"pc", "dc", "ws", "tr"}, Install(t, kinds)
    PROVE ConfigInv'
  <2>2. StepsTo(t, "release")
    BY <1>6, InstallMoves
  <2>4. \A u \in Threads : call[u].step = "stored" \/ call'[u].step \in {"stored", "found"} => call'[u] = call[u]
    BY <1>6, <2>2 DEF Install, In, Step, Quiet, Moves, StepsTo, Idle, In
  <2>5. UNCHANGED media
    BY <1>6 DEF Install
  <2>. QED BY <2>4, <2>5, ConfigFrame
<1>7. ASSUME NEW t \in Threads, NEW op \in {"channel", "track"}, NEW k \in {"dc", "tr"},
    NewChannel(t, op, k) PROVE ConfigInv'
  <2>1. EmplaceFacts(k, 0)
    BY <1>7, NewIdentifier, CApiAssumption DEF Channels, TableTypes, CApiTypeOK, NewChannel
  <2>2. Moves(t, call[t].op, "inherit", call[t].id, lastId')
    BY <1>7, NewChannelMoves
  <2>4. \A u \in Threads : call[u].step = "stored" \/ call'[u].step \in {"stored", "found"} => call'[u] = call[u]
    BY <1>7, <2>2 DEF NewChannel, In, Step, Moves, StepsTo, Idle, In
  <2>5. UNCHANGED media
    BY <1>7 DEF NewChannel
  <2>. QED BY <2>4, <2>5, ConfigFrame
<1>8. ASSUME NEW t \in Threads, InheritPointer(t) PROVE ConfigInv'
  <2>2. StepsTo(t, "release")
    BY <1>8, InheritPointerMoves
  <2>4. \A u \in Threads : call[u].step = "stored" \/ call'[u].step \in {"stored", "found"} => call'[u] = call[u]
    BY <1>8, <2>2 DEF InheritPointer, Step, Moves, StepsTo, Idle, In
  <2>5. UNCHANGED media
    BY <1>8 DEF InheritPointer
  <2>. QED BY <2>4, <2>5, ConfigFrame
<1>9. ASSUME NEW t \in Threads, Peek(t) PROVE ConfigInv'
  <2>2. \/ queue[call[t].id] = <<>> /\ StepsTo(t, "release")
        \/ queue[call[t].id] # <<>> /\ Moves(t, "receive", IF Head(queue[call[t].id]) \in emptied THEN "empty" ELSE "peeked", call[t].id, Head(queue[call[t].id]))
    BY <1>9, PeekMoves
  <2>4. \A u \in Threads : call[u].step = "stored" \/ call'[u].step \in {"stored", "found"} => call'[u] = call[u]
    BY <1>9, <2>2 DEF Peek, In, Step, Moves, StepsTo, Idle, In
  <2>5. UNCHANGED media
    BY <1>9 DEF Peek
  <2>. QED BY <2>4, <2>5, ConfigFrame
<1>10. ASSUME NEW t \in Threads, Keep(t) PROVE ConfigInv'
  <2>2. StepsTo(t, "release")
    BY <1>10, KeepMoves
  <2>4. \A u \in Threads : call[u].step = "stored" \/ call'[u].step \in {"stored", "found"} => call'[u] = call[u]
    BY <1>10, <2>2 DEF Keep, Step, Moves, StepsTo, Idle, In
  <2>5. UNCHANGED media
    BY <1>10 DEF Keep
  <2>. QED BY <2>4, <2>5, ConfigFrame
<1>11. ASSUME NEW t \in Threads, Take(t) PROVE ConfigInv'
  <2>2. StepsTo(t, "release")
    BY <1>11, TakeMoves
  <2>4. \A u \in Threads : call[u].step = "stored" \/ call'[u].step \in {"stored", "found"} => call'[u] = call[u]
    BY <1>11, <2>2 DEF Take, Step, Moves, StepsTo, Idle, In
  <2>5. UNCHANGED media
    BY <1>11 DEF Take
  <2>. QED BY <2>4, <2>5, ConfigFrame
<1>12. ASSUME NEW t \in Threads, StoreConfig(t) PROVE ConfigInv'
  <2>2. Moves(t, call[t].op, "stored", call[t].id, made'[call[t].id])
    BY <1>12, StoreConfigMoves
  <2>9. \A u \in Threads : call[u].id # 0 => call[u].id \in Ids
    BY CallIds DEF CallFacts, CallShape, ShapeOf
  <2>4. call[t].step = "got" /\ UNCHANGED <<packetizer, rtcpSrReporterMap>>
    BY <1>12 DEF StoreConfig, NewConfig, In
  <2>5. call[t].id \in Ids
    BY <2>4, CallIds DEF CallFacts
  <2>6. \A i \in Ids : made[i] \in Nat /\ rtpConfigMap[i] \in Nat /\ rtcpSrReporterMap[i] \in Nat
    BY DEF MediaTypes
  <2>7. \A i \in Ids : made'[i] = IF i = call[t].id THEN made[i] + 1 ELSE made[i]
    BY <1>12 DEF StoreConfig, NewConfig, MediaTypes
  <2>8. \A i \in Ids : rtpConfigMap'[i] \in {rtpConfigMap[i], made'[i]}
    BY <1>12, <2>5 DEF StoreConfig, NewConfig, MediaTypes
  <2>10. \A u \in Threads : u # t => call'[u] = call[u] /\ (call[u].step \in {"stored", "found"} => call[u].id \in Ids /\ call[u].x \in Nat)
    BY <2>2, CallIds DEF Moves, CallFacts
  <2>11. call'[t].step = "stored" /\ call'[t].id = call[t].id /\ call'[t].x = made'[call[t].id]
    BY <2>2 DEF Moves
  <2>12. \A i \in Ids : made[i] <= made'[i] /\ made'[i] \in Nat
    BY <2>6, <2>7
  <2>13. \A i \in Ids : rtpConfigMap'[i] <= made'[i] /\ rtcpSrReporterMap'[i] <= made'[i]
    BY <2>4, <2>6, <2>8, <2>12 DEF ConfigInv
  <2>14. \A u \in Threads : call'[u].step = "stored" => call'[u].x \in 1 .. made'[call'[u].id]
    <3>1. made'[call[t].id] \in 1 .. made'[call[t].id]
      BY <2>5, <2>6, <2>7
    <3>2. ASSUME NEW u \in Threads, u # t, call[u].step = "stored" PROVE call[u].x \in 1 .. made'[call[u].id]
      <4>1. call[u].id \in Ids /\ call[u].x \in 1 .. made[call[u].id]
        BY <2>10, <3>2 DEF ConfigInv
      <4>. QED BY <2>6, <2>12, <4>1
    <3>. QED BY <2>10, <2>11, <3>1, <3>2
  <2>15. \A u \in Threads : call'[u].step = "found" => call'[u].x <= made'[call'[u].id]
    <3>1. ASSUME NEW u \in Threads, u # t, call[u].step = "found" PROVE call[u].x <= made'[call[u].id]
      <4>1. call[u].id \in Ids /\ call[u].x <= made[call[u].id] /\ call[u].x \in Nat
        BY <2>10, <3>1 DEF ConfigInv
      <4>. QED BY <2>6, <2>12, <4>1
    <3>. QED BY <2>10, <2>11, <3>1
  <2>16. \A i \in Ids : made'[i] = 1 => packetizer'[i] = 1 \/ \E u \in Threads : call'[u].step = "stored" /\ call'[u].id = i
    <3>. SUFFICES ASSUME NEW i \in Ids, made'[i] = 1 PROVE packetizer[i] = 1 \/ \E u \in Threads : call'[u].step = "stored" /\ call'[u].id = i
      BY <2>4
    <3>1. CASE i = call[t].id
      BY <2>11, <3>1
    <3>2. CASE i # call[t].id
      <4>1. made[i] = 1
        BY <2>7, <3>2
      <4>. QED BY <2>4, <2>10, <4>1 DEF ConfigInv
    <3>. QED BY <3>1, <3>2
  <2>. QED BY <2>13, <2>14, <2>15, <2>16 DEF ConfigInv
<1>13. ASSUME NEW t \in Threads, OmitConfig(t) PROVE ConfigInv'
  <2>2. Moves(t, call[t].op, "stored", call[t].id, made'[call[t].id])
    BY <1>13, OmitConfigMoves
  <2>9. \A u \in Threads : call[u].id # 0 => call[u].id \in Ids
    BY CallIds DEF CallFacts, CallShape, ShapeOf
  <2>4. call[t].step = "got" /\ UNCHANGED <<packetizer, rtcpSrReporterMap>>
    BY <1>13 DEF OmitConfig, NewConfig, In
  <2>5. call[t].id \in Ids
    BY <2>4, CallIds DEF CallFacts
  <2>6. \A i \in Ids : made[i] \in Nat /\ rtpConfigMap[i] \in Nat /\ rtcpSrReporterMap[i] \in Nat
    BY DEF MediaTypes
  <2>7. \A i \in Ids : made'[i] = IF i = call[t].id THEN made[i] + 1 ELSE made[i]
    BY <1>13 DEF OmitConfig, NewConfig, MediaTypes
  <2>8. \A i \in Ids : rtpConfigMap'[i] = rtpConfigMap[i]
    BY <1>13, <2>5 DEF OmitConfig, NewConfig, MediaTypes
  <2>10. \A u \in Threads : u # t => call'[u] = call[u] /\ (call[u].step \in {"stored", "found"} => call[u].id \in Ids /\ call[u].x \in Nat)
    BY <2>2, CallIds DEF Moves, CallFacts
  <2>11. call'[t].step = "stored" /\ call'[t].id = call[t].id /\ call'[t].x = made'[call[t].id]
    BY <2>2 DEF Moves
  <2>12. \A i \in Ids : made[i] <= made'[i] /\ made'[i] \in Nat
    BY <2>6, <2>7
  <2>13. \A i \in Ids : rtpConfigMap'[i] <= made'[i] /\ rtcpSrReporterMap'[i] <= made'[i]
    BY <2>4, <2>6, <2>8, <2>12 DEF ConfigInv
  <2>14. \A u \in Threads : call'[u].step = "stored" => call'[u].x \in 1 .. made'[call'[u].id]
    <3>1. made'[call[t].id] \in 1 .. made'[call[t].id]
      BY <2>5, <2>6, <2>7
    <3>2. ASSUME NEW u \in Threads, u # t, call[u].step = "stored" PROVE call[u].x \in 1 .. made'[call[u].id]
      <4>1. call[u].id \in Ids /\ call[u].x \in 1 .. made[call[u].id]
        BY <2>10, <3>2 DEF ConfigInv
      <4>. QED BY <2>6, <2>12, <4>1
    <3>. QED BY <2>10, <2>11, <3>1, <3>2
  <2>15. \A u \in Threads : call'[u].step = "found" => call'[u].x <= made'[call'[u].id]
    <3>1. ASSUME NEW u \in Threads, u # t, call[u].step = "found" PROVE call[u].x <= made'[call[u].id]
      <4>1. call[u].id \in Ids /\ call[u].x <= made[call[u].id] /\ call[u].x \in Nat
        BY <2>10, <3>1 DEF ConfigInv
      <4>. QED BY <2>6, <2>12, <4>1
    <3>. QED BY <2>10, <2>11, <3>1
  <2>16. \A i \in Ids : made'[i] = 1 => packetizer'[i] = 1 \/ \E u \in Threads : call'[u].step = "stored" /\ call'[u].id = i
    <3>. SUFFICES ASSUME NEW i \in Ids, made'[i] = 1 PROVE packetizer[i] = 1 \/ \E u \in Threads : call'[u].step = "stored" /\ call'[u].id = i
      BY <2>4
    <3>1. CASE i = call[t].id
      BY <2>11, <3>1
    <3>2. CASE i # call[t].id
      <4>1. made[i] = 1
        BY <2>7, <3>2
      <4>. QED BY <2>4, <2>10, <4>1 DEF ConfigInv
    <3>. QED BY <3>1, <3>2
  <2>. QED BY <2>13, <2>14, <2>15, <2>16 DEF ConfigInv
<1>14. ASSUME NEW t \in Threads, SetPacketizer(t) PROVE ConfigInv'
  <2>2. StepsTo(t, "release")
    BY <1>14, SetPacketizerMoves
  <2>4. call[t].step = "stored" /\ UNCHANGED <<rtpConfigMap, rtcpSrReporterMap, made>>
    BY <1>14 DEF SetPacketizer
  <2>5. call[t].id \in Ids /\ call[t].x \in 1 .. made[call[t].id]
    BY <2>4, CallIds DEF CallFacts, ConfigInv
  <2>6. \A i \in Ids : packetizer'[i] = IF i = call[t].id THEN call[t].x ELSE packetizer[i]
    BY <1>14 DEF SetPacketizer, MediaTypes
  <2>7. call'[t].step = "release" /\ \A u \in Threads : u # t => call'[u] = call[u]
    BY <2>2 DEF StepsTo, Moves
  <2>8. made[call[t].id] = 1 => call[t].x = 1
    BY <2>5
  <2>. QED BY <2>4, <2>5, <2>6, <2>7, <2>8 DEF ConfigInv
<1>15. ASSUME NEW t \in Threads, FindConfig(t) PROVE ConfigInv'
  <2>2. \/ rtpConfigMap[call[t].id] = 0 /\ Moves(t, call[t].op, "release", call[t].id, 0)
        \/ rtpConfigMap[call[t].id] # 0 /\ Moves(t, call[t].op, "found", call[t].id, rtpConfigMap[call[t].id])
    BY <1>15, FindConfigMoves
  <2>4. UNCHANGED <<rtpConfigMap, packetizer, rtcpSrReporterMap, made>> /\ call[t].step = "got"
    BY <1>15 DEF FindConfig, In, media
  <2>5. call[t].id \in Ids
    BY <2>4, CallIds DEF CallFacts
  <2>6. call'[t].step \in {"release", "found"} /\ call'[t].id = call[t].id /\ call'[t].x = rtpConfigMap[call[t].id]
    BY <2>2 DEF Moves
  <2>7. \A u \in Threads : u # t => call'[u] = call[u]
    BY <2>2 DEF Moves
  <2>. QED BY <2>4, <2>5, <2>6, <2>7 DEF ConfigInv
<1>16. ASSUME NEW t \in Threads, ChainReporter(t) PROVE ConfigInv'
  <2>2. StepsTo(t, "release")
    BY <1>16, ChainReporterMoves
  <2>4. UNCHANGED <<rtpConfigMap, packetizer, made>> /\ call[t].step = "found"
    BY <1>16 DEF ChainReporter
  <2>5. call[t].id \in Ids /\ call[t].x <= made[call[t].id]
    BY <2>4, CallIds DEF CallFacts, ConfigInv
  <2>6. \A i \in Ids : rtcpSrReporterMap'[i] = rtcpSrReporterMap[i] \/ (i = call[t].id /\ rtcpSrReporterMap'[i] = call[t].x)
    BY <1>16 DEF ChainReporter, MediaTypes
  <2>7. call'[t].step = "release" /\ \A u \in Threads : u # t => call'[u] = call[u]
    BY <2>2 DEF StepsTo, Moves
  <2>. QED BY <2>4, <2>5, <2>6, <2>7 DEF ConfigInv
<1>17. ASSUME NEW t \in Threads, CloseChannel(t) PROVE ConfigInv'
  <2>2. \/ call[t].op = "delete" /\ StepsTo(t, "closed")
        \/ call[t].op # "delete" /\ StepsTo(t, "release")
    BY <1>17, CloseChannelMoves
  <2>4. \A u \in Threads : call[u].step = "stored" \/ call'[u].step \in {"stored", "found"} => call'[u] = call[u]
    BY <1>17, <2>2 DEF CloseChannel, Step, Quiet, Moves, StepsTo, Idle, In
  <2>5. UNCHANGED media
    BY <1>17 DEF CloseChannel
  <2>. QED BY <2>4, <2>5, ConfigFrame
<1>18. ASSUME NEW t \in Threads, NEW force \in BOOLEAN, CloseWebSocket(t, force) PROVE ConfigInv'
  <2>2. \/ call[t].op = "delete" /\ StepsTo(t, "closed")
        \/ call[t].op # "delete" /\ StepsTo(t, "release")
    BY <1>18, CloseWebSocketMoves
  <2>4. \A u \in Threads : call[u].step = "stored" \/ call'[u].step \in {"stored", "found"} => call'[u] = call[u]
    BY <1>18, <2>2 DEF CloseWebSocket, Step, Quiet, Moves, StepsTo, Idle, In
  <2>5. UNCHANGED media
    BY <1>18 DEF CloseWebSocket
  <2>. QED BY <2>4, <2>5, ConfigFrame
<1>19. ASSUME NEW t \in Threads, ClosePeerConnection(t) PROVE ConfigInv'
  <2>2. \/ call[t].op = "delete" /\ StepsTo(t, "closed")
        \/ call[t].op # "delete" /\ StepsTo(t, "release")
        \/ Moves(t, call[t].op, "resetting", call[t].id, 1)
    BY <1>19, ClosePeerConnectionMoves
  <2>4. \A u \in Threads : call[u].step = "stored" \/ call'[u].step \in {"stored", "found"} => call'[u] = call[u]
    BY <1>19, <2>2 DEF ClosePeerConnection, Step, Moves, StepsTo, Idle, In
  <2>5. UNCHANGED media
    BY <1>19 DEF ClosePeerConnection
  <2>. QED BY <2>4, <2>5, ConfigFrame
<1>20. ASSUME NEW t \in Threads, ResetCallbacks(t) PROVE ConfigInv'
  <2>2. \/ call[t].x = 1 /\ call[t].op = "delete" /\ StepsTo(t, "closed")
        \/ call[t].x = 1 /\ call[t].op # "delete" /\ StepsTo(t, "release")
        \/ call[t].x # 1 /\ Moves(t, "none", "none", 0, 0)
    BY <1>20, ResetCallbacksMoves
  <2>4. \A u \in Threads : call[u].step = "stored" \/ call'[u].step \in {"stored", "found"} => call'[u] = call[u]
    BY <1>20, <2>2 DEF ResetCallbacks, Step, Quiet, Moves, StepsTo, Idle, In
  <2>5. UNCHANGED media
    BY <1>20 DEF ResetCallbacks
  <2>. QED BY <2>4, <2>5, ConfigFrame
<1>21. ASSUME NEW t \in Threads, StopServer(t) PROVE ConfigInv'
  <2>2. \/ t = Lib /\ StepsTo(t, "release")
        \/ t # Lib /\ StepsTo(t, "closed")
    BY <1>21, StopServerMoves
  <2>4. \A u \in Threads : call[u].step = "stored" \/ call'[u].step \in {"stored", "found"} => call'[u] = call[u]
    BY <1>21, <2>2 DEF StopServer, In, Step, Quiet, Moves, StepsTo, Idle, In
  <2>5. UNCHANGED media
    BY <1>21 DEF StopServer
  <2>. QED BY <2>4, <2>5, ConfigFrame
<1>22. ASSUME NEW t \in Threads, Erase(t) PROVE ConfigInv'
  <2>2. \/ call[t].id \in table /\ StepsTo(t, "erased")
        \/ call[t].id \notin table /\ StepsTo(t, "release")
    BY <1>22, EraseMoves
  <2>4. \A u \in Threads : call[u].step = "stored" \/ call'[u].step \in {"stored", "found"} => call'[u] = call[u]
    BY <1>22, <2>2 DEF Erase, In, Step, Moves, StepsTo, Idle, In
  <2>5. UNCHANGED <<packetizer, made>>
    BY <1>22 DEF Erase
  <2>6. \A i \in Ids : rtpConfigMap'[i] \in {0, rtpConfigMap[i]} /\ rtcpSrReporterMap'[i] \in {0, rtcpSrReporterMap[i]}
    BY <1>22 DEF Erase, MediaTypes
  <2>7. \A i \in Ids : 0 <= made[i]
    BY DEF MediaTypes
  <2>. QED BY <2>4, <2>5, <2>6, <2>7 DEF ConfigInv
<1>23. ASSUME NEW t \in Threads, ReleaseRef(t) PROVE ConfigInv'
  <2>2. \/ call[t].id \notin table /\ LastRef(t, call[t].id) /\ kind[call[t].id] = "pc" /\ closer[call[t].id] = "open" /\ Moves(t, IF call[t].step = "erased" THEN "delete" ELSE "use", "resetting", call[t].id, 0)
        \/ Moves(t, "none", "none", 0, 0)
    BY <1>23, ReleaseRefMoves
  <2>4. \A u \in Threads : call[u].step = "stored" \/ call'[u].step \in {"stored", "found"} => call'[u] = call[u]
    BY <1>23, <2>2 DEF ReleaseRef, LastRef, Quiet, Unwaited, Moves, StepsTo, Idle, In
  <2>5. UNCHANGED media
    BY <1>23 DEF ReleaseRef
  <2>. QED BY <2>4, <2>5, ConfigFrame
<1>24. ASSUME NEW t \in Threads, EraseAll(t) PROVE ConfigInv'
  <2>2. Moves(t, "none", "none", 0, 0)
    BY <1>24, EraseAllMoves
  <2>4. \A u \in Threads : call[u].step = "stored" \/ call'[u].step \in {"stored", "found"} => call'[u] = call[u]
    BY <1>24, <2>2 DEF EraseAll, LastRef, Quiet, Unwaited, Moves, StepsTo, Idle, In
  <2>5. UNCHANGED <<packetizer, made>>
    BY <1>24 DEF EraseAll
  <2>6. \A i \in Ids : rtpConfigMap'[i] = 0 /\ rtcpSrReporterMap'[i] = 0
    BY <1>24 DEF EraseAll
  <2>7. \A i \in Ids : 0 <= made[i]
    BY DEF MediaTypes
  <2>. QED BY <2>4, <2>5, <2>6, <2>7 DEF ConfigInv
<1>25. CASE CallbackEmplace
  <2>0. PICK k \in {"ws", "dc", "tr"} : Emplace(k, inCallback.id)
    BY <1>25 DEF CallbackEmplace
  <2>1. EmplaceFacts(k, inCallback.id)
    BY <1>25, <2>0, NewIdentifier, CApiAssumption DEF Channels, TableTypes, CApiTypeOK,
        CallbackEmplace, CallTypes, CallbackOK, CallbackRecord
  <2>3. CallbackMoves("locked", inCallback.id, lastId', inCallback.ptr)
    BY <1>25, <2>0, CallbackEmplaceMoves DEF Channels
  <2>4. \A u \in Threads : call[u].step = "stored" \/ call'[u].step \in {"stored", "found"} => call'[u] = call[u]
    BY <1>25 DEF CallbackEmplace, Moves, StepsTo, Idle, In
  <2>5. UNCHANGED media
    BY <1>25 DEF CallbackEmplace
  <2>. QED BY <2>4, <2>5, ConfigFrame
<1>26. CASE CallbackCheck
  <2>3. \/ userPointerMap[inCallback.id] = "absent" /\ CallbackMoves("idle", 0, 0, "absent")
       \/ /\ userPointerMap[inCallback.id] # "absent"
          /\ CallbackMoves(IF inCallback.new = 0 THEN "running" ELSE "inherit", inCallback.id,
                           inCallback.new, userPointerMap[inCallback.id])
    BY <1>26, CallbackCheckMoves
  <2>4. \A u \in Threads : call[u].step = "stored" \/ call'[u].step \in {"stored", "found"} => call'[u] = call[u]
    BY <1>26 DEF CallbackCheck, Moves, StepsTo, Idle, In
  <2>5. UNCHANGED media
    BY <1>26 DEF CallbackCheck
  <2>. QED BY <2>4, <2>5, ConfigFrame
<1>27. CASE CallbackInherit
  <2>3. CallbackMoves("running", inCallback.id, inCallback.new, inCallback.ptr)
    BY <1>27, CallbackInheritMoves
  <2>4. \A u \in Threads : call[u].step = "stored" \/ call'[u].step \in {"stored", "found"} => call'[u] = call[u]
    BY <1>27 DEF CallbackInherit, Moves, StepsTo, Idle, In
  <2>5. UNCHANGED media
    BY <1>27 DEF CallbackInherit
  <2>. QED BY <2>4, <2>5, ConfigFrame
<1>28. CASE CallbackReturn
  <2>3. CallbackMoves("idle", 0, 0, "absent")
    BY <1>28, CallbackReturnMoves
  <2>4. \A u \in Threads : call[u].step = "stored" \/ call'[u].step \in {"stored", "found"} => call'[u] = call[u]
    BY <1>28 DEF CallbackReturn, Moves, StepsTo, Idle, In
  <2>5. UNCHANGED media
    BY <1>28 DEF CallbackReturn
  <2>. QED BY <2>4, <2>5, ConfigFrame
<1>29. ASSUME NEW id \in Ids, Arrive(id) PROVE ConfigInv'
  <2>4. \A u \in Threads : call[u].step = "stored" \/ call'[u].step \in {"stored", "found"} => call'[u] = call[u]
    BY <1>29 DEF Arrive, Moves, StepsTo, Idle, In
  <2>5. UNCHANGED media
    BY <1>29 DEF Arrive
  <2>. QED BY <2>4, <2>5, ConfigFrame
<1>30. ASSUME NEW id \in Ids, RemoteShut(id) PROVE ConfigInv'
  <2>4. \A u \in Threads : call[u].step = "stored" \/ call'[u].step \in {"stored", "found"} => call'[u] = call[u]
    BY <1>30 DEF RemoteShut, Moves, StepsTo, Idle, In
  <2>5. UNCHANGED media
    BY <1>30 DEF RemoteShut
  <2>. QED BY <2>4, <2>5, ConfigFrame
<1>31. ASSUME NEW id \in Ids, RemoteReset(id) PROVE ConfigInv'
  <2>4. \A u \in Threads : call[u].step = "stored" \/ call'[u].step \in {"stored", "found"} => call'[u] = call[u]
    BY <1>31 DEF RemoteReset, Moves, StepsTo, Idle, In
  <2>5. UNCHANGED media
    BY <1>31 DEF RemoteReset
  <2>. QED BY <2>4, <2>5, ConfigFrame
<1>32. ASSUME NEW id \in Ids, NEW offer \in BOOLEAN, CallbackStart(id, offer) PROVE ConfigInv'
  <2>3. CallbackMoves(IF offer THEN "offer" ELSE "locked", id, 0, "absent")
    BY <1>32, CallbackStartMoves
  <2>4. \A u \in Threads : call[u].step = "stored" \/ call'[u].step \in {"stored", "found"} => call'[u] = call[u]
    BY <1>32 DEF CallbackStart, Moves, StepsTo, Idle, In
  <2>5. UNCHANGED media
    BY <1>32 DEF CallbackStart
  <2>. QED BY <2>4, <2>5, ConfigFrame
<1>33. CASE UNCHANGED cVars
  BY <1>33
  DEF cVars, tables, messages, media, history, objects, ConfigInv, CallShape, ShapeOf,
      LibraryShape, CallFacts, CallbackFacts, TableTypes, CApiTypeOK, Known, Recorded, Ids, Idle
<1>. QED BY <1>1, <1>2, <1>3, <1>4, <1>5, <1>6, <1>7, <1>8, <1>9, <1>10, <1>11, <1>12, <1>13,
    <1>14, <1>15, <1>16, <1>17, <1>18, <1>19, <1>20, <1>21, <1>22, <1>23, <1>24, <1>25, <1>26,
    <1>27, <1>28, <1>29, <1>30, <1>31, <1>32, <1>33 DEF CStep

-----------------------------------------------------------------------------

(* Calls that do not receive leave queues and receivers alone.                 *)
LEMMA ReceiveFrame ==
    ASSUME ReceiveInv, UNCHANGED <<queue, arrived, got, emptied, probed, twice>>,
           \A u \in Threads : call'[u].op = "receive" => call[u].op = "receive" /\ call'[u].id = call[u].id,
           \A u \in Threads : Looking(u) \/ Looking(u)' => call'[u] = call[u] /\ kind'[call[u].id] = kind[call[u].id]
    PROVE  ReceiveInv'
<1>. SUFFICES ASSUME ~twice PROVE (PlaceInv /\ LookInv /\ WholeInv)'
  BY DEF ReceiveInv
<1>. USE DEF ReceiveInv
<1>1. PlaceInv'
  BY DEF PlaceInv
<1>2. LookInv'
  BY DEF LookInv, Looking
<1>3. WholeInv'
  <2>1. \A u \in Threads : call'[u].step = "empty" => call'[u].x \in probed
    BY DEF Looking, WholeInv
  <2>2. \A u \in Threads : call[u].step = "peeked" => call'[u] = call[u] /\ kind'[call[u].id] = kind[call[u].id]
    BY DEF Looking
  <2>. QED BY <2>1, <2>2 DEF WholeInv
<1>. QED BY <1>1, <1>2, <1>3

(* Two messages at the head of queues are two queues.                          *)
LEMMA HeadsDiffer ==
    ASSUME PlaceInv, MessageTypes, NEW i \in Ids, NEW j \in Ids, queue[i] # <<>>, queue[j] # <<>>,
           Head(queue[i]) = Head(queue[j])
    PROVE  i = j
<1>1. queue[i] \in Seq(Nat) /\ queue[j] \in Seq(Nat)
  BY DEF MessageTypes
<1>2. 1 \in DOMAIN queue[i] /\ 1 \in DOMAIN queue[j] /\ queue[i][1] = Head(queue[i]) /\ queue[j][1] = Head(queue[j])
  BY <1>1
<1>. QED BY <1>2 DEF PlaceInv

(* A message that arrives is new and goes to the end of its queue.             *)
LEMMA ArriveFacts ==
    ASSUME MessageTypes, NEW id \in Ids, Arrive(id)
    PROVE  /\ arrived' = arrived + 1 /\ arrived \in Nat /\ got' = got
           /\ Len(queue[id]) \in Nat /\ DOMAIN queue[id] = 1 .. Len(queue[id])
           /\ DOMAIN queue'[id] = 1 .. (Len(queue[id]) + 1)
           /\ \A i \in 1 .. Len(queue[id]) : queue'[id][i] = queue[id][i]
           /\ queue'[id][Len(queue[id]) + 1] = arrived + 1
           /\ \A j \in Ids : j # id => queue'[j] = queue[j]
<1>1. queue[id] \in Seq(Nat) /\ arrived \in Nat
  BY DEF MessageTypes
<1>2. arrived' = arrived + 1 /\ got' = got /\ queue' = [queue EXCEPT ![id] = Append(@, arrived')]
  BY DEF Arrive
<1>3. queue'[id] = Append(queue[id], arrived + 1) /\ \A j \in Ids : j # id => queue'[j] = queue[j]
  BY <1>2 DEF MessageTypes
<1>4. arrived + 1 \in Nat
  BY <1>1
<1>. QED BY <1>1, <1>2, <1>3, <1>4

LEMMA ArrivePlace == ASSUME MessageTypes, PlaceInv, NEW id \in Ids, Arrive(id) PROVE PlaceInv'
<1>. DEFINE n == Len(queue[id])
<1>1. /\ arrived' = arrived + 1 /\ arrived \in Nat /\ got' = got
      /\ n \in Nat /\ DOMAIN queue[id] = 1 .. n /\ DOMAIN queue'[id] = 1 .. (n + 1)
      /\ \A i \in 1 .. n : queue'[id][i] = queue[id][i]
      /\ queue'[id][n + 1] = arrived + 1
      /\ \A j \in Ids : j # id => queue'[j] = queue[j]
  BY ArriveFacts
<1>. HIDE DEF n
<1>2. \A j \in Ids : \A i \in DOMAIN queue'[j] :
        \/ i \in DOMAIN queue[j] /\ queue'[j][i] = queue[j][i]
        \/ j = id /\ i = n + 1 /\ queue'[j][i] = arrived + 1
  BY <1>1
<1>3. \A j \in Ids : \A i \in DOMAIN queue[j] : i \in DOMAIN queue'[j] /\ queue'[j][i] = queue[j][i] /\ queue[j][i] # arrived + 1
  BY <1>1 DEF PlaceInv
<1>4. n + 1 \in DOMAIN queue'[id] /\ queue'[id][n + 1] = arrived + 1
  BY <1>1
<1>5. \A i \in DOMAIN got : got[i][1] \in 1 .. arrived /\ got[i][1] # arrived + 1 /\ got[i][1] \in 1 .. arrived'
  BY <1>1 DEF PlaceInv
<1>6. \A j \in Ids : \A i \in DOMAIN queue'[j] : queue'[j][i] \in 1 .. arrived'
  <2>1. \A m \in 1 .. arrived : m \in 1 .. arrived'
    BY <1>1
  <2>2. arrived + 1 \in 1 .. arrived'
    BY <1>1
  <2>. QED BY <1>2, <2>1, <2>2 DEF PlaceInv
<1>7. \A i, j \in Ids : \A a \in DOMAIN queue'[i], b \in DOMAIN queue'[j] : queue'[i][a] = queue'[j][b] => i = j /\ a = b
  <2>. SUFFICES ASSUME NEW i \in Ids, NEW j \in Ids, NEW a \in DOMAIN queue'[i], NEW b \in DOMAIN queue'[j], queue'[i][a] = queue'[j][b]
       PROVE i = j /\ a = b
    OBVIOUS
  <2>1. CASE i = id /\ a = n + 1 /\ queue'[i][a] = arrived + 1
    BY <1>2, <1>3, <2>1
  <2>2. CASE j = id /\ b = n + 1 /\ queue'[j][b] = arrived + 1
    BY <1>2, <1>3, <2>2
  <2>3. CASE a \in DOMAIN queue[i] /\ queue'[i][a] = queue[i][a] /\ b \in DOMAIN queue[j] /\ queue'[j][b] = queue[j][b]
    <3>1. queue[i][a] = queue[j][b]
      BY <2>3
    <3>. QED BY <2>3, <3>1 DEF PlaceInv
  <2>. QED BY <1>2, <2>1, <2>2, <2>3
<1>8. \A i \in DOMAIN got, j \in Ids : \A b \in DOMAIN queue'[j] : got[i][1] # queue'[j][b]
  BY <1>2, <1>5 DEF PlaceInv
<1>9. ASSUME NEW m \in 1 .. arrived'
      PROVE  (\E a \in DOMAIN got : got[a][1] = m) \/ \E j \in Ids : \E i \in DOMAIN queue'[j] : queue'[j][i] = m
  <2>. SUFFICES ASSUME ~\E a \in DOMAIN got : got[a][1] = m PROVE \E j \in Ids : \E i \in DOMAIN queue'[j] : queue'[j][i] = m
    OBVIOUS
  <2>1. CASE m = arrived + 1
    BY <1>4, <2>1
  <2>2. CASE m # arrived + 1
    <3>1. m \in 1 .. arrived
      BY <1>1, <2>2
    <3>2. PICK j \in Ids : \E i \in DOMAIN queue[j] : queue[j][i] = m
      BY <3>1 DEF PlaceInv
    <3>. QED BY <1>3, <3>2
  <2>. QED BY <2>1, <2>2
<1>10. \A i, j \in DOMAIN got : got[i][1] = got[j][1] => i = j
  BY DEF PlaceInv
<1>. QED BY <1>1, <1>5, <1>6, <1>7, <1>8, <1>9, <1>10 DEF PlaceInv

(* The message a receiver took goes from the head of its queue to the caller.  *)
LEMMA TakeFacts ==
    ASSUME MessageTypes, LookInv, NEW t \in Threads, call[t].id \in Ids, call[t].x \in Nat, Take(t)
    PROVE  LET q == queue[call[t].id] IN
           /\ q # <<>> /\ 1 \in DOMAIN q /\ q[1] = call[t].x /\ Len(q) \in Nat \ {0}
           /\ DOMAIN q = 1 .. Len(q) /\ DOMAIN queue'[call[t].id] = 1 .. (Len(q) - 1)
           /\ \A i \in 1 .. (Len(q) - 1) : queue'[call[t].id][i] = q[i + 1]
           /\ \A j \in Ids : j # call[t].id => queue'[j] = queue[j]
           /\ DOMAIN got = 1 .. Len(got) /\ DOMAIN got' = 1 .. (Len(got) + 1) /\ Len(got) \in Nat
           /\ \A i \in 1 .. Len(got) : got'[i] = got[i]
           /\ got'[Len(got) + 1] = <<call[t].x, call[t].step = "peeked">>
           /\ arrived' = arrived
<1>. DEFINE q == queue[call[t].id]  e == <<call[t].x, call[t].step = "peeked">>
<1>1. Looking(t) /\ arrived' = arrived
  BY DEF Take, Looking
<1>2. q # <<>> /\ Head(q) = call[t].x /\ q \in Seq(Nat)
  BY <1>1 DEF LookInv, MessageTypes
<1>3. queue' = [queue EXCEPT ![call[t].id] = Tail(@)] /\ got' = Append(got, e)
  BY <1>2 DEF Take
<1>4. queue'[call[t].id] = Tail(q) /\ \A j \in Ids : j # call[t].id => queue'[j] = queue[j]
  BY <1>3 DEF MessageTypes
<1>5. got \in Seq(Nat \X BOOLEAN) /\ e \in Nat \X BOOLEAN
  BY DEF MessageTypes
<1>. HIDE DEF q, e
<1>6. 1 \in DOMAIN q /\ q[1] = call[t].x /\ Len(q) \in Nat \ {0} /\ DOMAIN q = 1 .. Len(q)
  BY <1>2
<1>7. DOMAIN Tail(q) = 1 .. (Len(q) - 1) /\ \A i \in 1 .. (Len(q) - 1) : Tail(q)[i] = q[i + 1]
  BY <1>2, <1>6
<1>8. /\ DOMAIN got = 1 .. Len(got) /\ DOMAIN got' = 1 .. (Len(got) + 1) /\ Len(got) \in Nat
      /\ (\A i \in 1 .. Len(got) : got'[i] = got[i]) /\ got'[Len(got) + 1] = e
  BY <1>3, <1>5
<1>. QED BY <1>1, <1>2, <1>4, <1>6, <1>7, <1>8 DEF q, e

LEMMA TakePlace ==
    ASSUME MessageTypes, PlaceInv, LookInv, NEW t \in Threads, call[t].id \in Ids, call[t].x \in Nat, Take(t)
    PROVE  PlaceInv'
<1>. DEFINE id == call[t].id  n == Len(queue[id])  g == Len(got)
<1>1. /\ 1 \in DOMAIN queue[id] /\ queue[id][1] = call[t].x /\ n \in Nat \ {0}
      /\ DOMAIN queue[id] = 1 .. n /\ DOMAIN queue'[id] = 1 .. (n - 1)
      /\ \A i \in 1 .. (n - 1) : queue'[id][i] = queue[id][i + 1]
      /\ \A j \in Ids : j # id => queue'[j] = queue[j]
  BY TakeFacts
<1>2. /\ DOMAIN got = 1 .. g /\ DOMAIN got' = 1 .. (g + 1) /\ g \in Nat /\ arrived' = arrived
      /\ (\A i \in 1 .. g : got'[i] = got[i]) /\ got'[g + 1][1] = call[t].x
  BY TakeFacts
<1>3. id \in Ids
  OBVIOUS
<1>. HIDE DEF id, n, g
<1>. DEFINE Back(j, i) == IF j = id THEN i + 1 ELSE i
<1>4. \A j \in Ids : \A i \in DOMAIN queue'[j] :
        Back(j, i) \in DOMAIN queue[j] /\ queue'[j][i] = queue[j][Back(j, i)] /\ (j = id => Back(j, i) # 1)
  BY <1>1
<1>5. \A j \in Ids : \A i \in DOMAIN queue'[j], k \in DOMAIN queue'[j] : Back(j, i) = Back(j, k) => i = k
  BY <1>1
<1>6. \A j \in Ids : \A i \in DOMAIN queue[j] :
        (j = id /\ i = 1) \/ \E k \in DOMAIN queue'[j] : queue'[j][k] = queue[j][i]
  <2>. SUFFICES ASSUME NEW j \in Ids, NEW i \in DOMAIN queue[j], ~(j = id /\ i = 1)
       PROVE  \E k \in DOMAIN queue'[j] : queue'[j][k] = queue[j][i]
    OBVIOUS
  <2>1. CASE j # id
    BY <1>1, <2>1
  <2>2. CASE j = id
    <3>1. i - 1 \in DOMAIN queue'[j] /\ queue'[j][i - 1] = queue[j][(i - 1) + 1] /\ (i - 1) + 1 = i
      BY <1>1, <2>2
    <3>. QED BY <3>1
  <2>. QED BY <2>1, <2>2
<1>. HIDE DEF Back
<1>7. \A j \in Ids : \A i \in DOMAIN queue'[j] : queue'[j][i] \in 1 .. arrived' /\ queue'[j][i] # call[t].x
  BY <1>1, <1>2, <1>3, <1>4 DEF PlaceInv
<1>8. \A i, j \in Ids : \A a \in DOMAIN queue'[i], b \in DOMAIN queue'[j] : queue'[i][a] = queue'[j][b] => i = j /\ a = b
  <2>. SUFFICES ASSUME NEW i \in Ids, NEW j \in Ids, NEW a \in DOMAIN queue'[i], NEW b \in DOMAIN queue'[j], queue'[i][a] = queue'[j][b]
       PROVE i = j /\ a = b
    OBVIOUS
  <2>1. i = j /\ Back(i, a) = Back(j, b)
    BY <1>4 DEF PlaceInv
  <2>. QED BY <1>5, <2>1
<1>9. \A i \in DOMAIN got' : (i \in DOMAIN got /\ got'[i] = got[i]) \/ (i = g + 1 /\ got'[i][1] = call[t].x)
  BY <1>2
<1>10. call[t].x \in 1 .. arrived /\ \A i \in DOMAIN got : got[i][1] # call[t].x
  BY <1>1, <1>3 DEF PlaceInv
<1>11. \A i \in DOMAIN got' : got'[i][1] \in 1 .. arrived'
  BY <1>2, <1>9, <1>10 DEF PlaceInv
<1>12. \A i, j \in DOMAIN got' : got'[i][1] = got'[j][1] => i = j
  BY <1>9, <1>10 DEF PlaceInv
<1>13. \A i \in DOMAIN got', j \in Ids : \A b \in DOMAIN queue'[j] : got'[i][1] # queue'[j][b]
  BY <1>4, <1>7, <1>9 DEF PlaceInv
<1>14. ASSUME NEW m \in 1 .. arrived'
       PROVE  (\E a \in DOMAIN got' : got'[a][1] = m) \/ \E j \in Ids : \E i \in DOMAIN queue'[j] : queue'[j][i] = m
  <2>. SUFFICES ASSUME ~\E a \in DOMAIN got' : got'[a][1] = m PROVE \E j \in Ids : \E i \in DOMAIN queue'[j] : queue'[j][i] = m
    OBVIOUS
  <2>1. g + 1 \in DOMAIN got' /\ \A i \in DOMAIN got : i \in DOMAIN got' /\ got'[i] = got[i]
    BY <1>2
  <2>2. m \in 1 .. arrived /\ m # call[t].x /\ ~\E i \in DOMAIN got : got[i][1] = m
    BY <1>2, <2>1
  <2>3. PICK j \in Ids : \E i \in DOMAIN queue[j] : queue[j][i] = m
    BY <2>2 DEF PlaceInv
  <2>. QED BY <1>1, <1>6, <2>2, <2>3
<1>. QED BY <1>7, <1>8, <1>11, <1>12, <1>13, <1>14 DEF PlaceInv

(* A receiver is still at the head of its queue.                               *)
LEMMA ArriveLook ==
    ASSUME MessageTypes, LookInv, \A u \in Threads : Looking(u) => call[u].id \in Ids, NEW id \in Ids, Arrive(id)
    PROVE  LookInv'
<1>1. call' = call /\ queue' = [queue EXCEPT ![id] = Append(@, arrived')] /\ arrived' \in Nat
  BY DEF Arrive, MessageTypes
<1>2. \A j \in Ids : queue[j] \in Seq(Nat)
  BY DEF MessageTypes
<1>3. \A j \in Ids : queue'[j] = IF j = id THEN Append(queue[j], arrived') ELSE queue[j]
  BY <1>1 DEF MessageTypes
<1>4. \A j \in Ids : queue[j] # <<>> => queue'[j] # <<>> /\ Head(queue'[j]) = Head(queue[j])
  <2>. SUFFICES ASSUME NEW j \in Ids, queue[j] # <<>> PROVE queue'[j] # <<>> /\ Head(queue'[j]) = Head(queue[j])
    OBVIOUS
  <2>1. CASE j # id
    BY <1>3, <2>1
  <2>2. CASE j = id
    <3>. DEFINE q == queue[j]  p == queue'[j]
    <3>1. q \in Seq(Nat) /\ q # <<>> /\ p = Append(q, arrived')
      BY <1>2, <1>3, <2>2
    <3>. HIDE DEF q, p
    <3>2. p # <<>> /\ p[1] = q[1] /\ Head(p) = p[1] /\ Head(q) = q[1]
      BY <1>1, <3>1
    <3>. QED BY <3>2 DEF p, q
  <2>. QED BY <2>1, <2>2
<1>. QED BY <1>1, <1>4 DEF LookInv, Looking

LEMMA TakeLook ==
    ASSUME MessageTypes, LookInv, CallShape, NEW t \in Threads, call[t].id \in Ids, call[t].x \in Nat,
           \A u \in Threads : Looking(u) => call[u].id \in Ids, Take(t), StepsTo(t, "release")
    PROVE  LookInv'
<1>1. \A j \in Ids : j # call[t].id => queue'[j] = queue[j]
  BY TakeFacts
<1>2. \A u \in Threads : call'[u].op = call[u].op /\ call'[u].id = call[u].id /\ (Looking(u)' => u # t /\ call'[u] = call[u])
  BY DEF StepsTo, Moves, Looking
<1>3. \A u \in Threads : Looking(u) => call[u].op = "receive"
  BY DEF CallShape, ShapeOf, Looking
<1>4. Looking(t)
  BY DEF Take, Looking
<1>5. \A u \in Threads : Looking(u)' => Looking(u) /\ call[u].id # call[t].id
  BY <1>2, <1>3, <1>4 DEF LookInv, Looking
<1>. QED BY <1>1, <1>2, <1>5 DEF LookInv

LEMMA TakeWhole ==
    ASSUME MessageTypes, LookInv, WholeInv, NEW t \in Threads, call[t].id \in Ids, call[t].x \in Nat,
           Take(t), StepsTo(t, "release")
    PROVE  WholeInv'
<1>. DEFINE g == Len(got)
<1>1. /\ DOMAIN got = 1 .. g /\ DOMAIN got' = 1 .. (g + 1) /\ g \in Nat
      /\ (\A i \in 1 .. g : got'[i] = got[i]) /\ got'[g + 1] = <<call[t].x, call[t].step = "peeked">>
  BY TakeFacts
<1>. HIDE DEF g
<1>2. g + 1 \in DOMAIN got' /\ got'[g + 1][1] = call[t].x
  BY <1>1
<1>10. call[t].step = "peeked" => got'[g + 1][2]
  <2>. SUFFICES ASSUME call[t].step = "peeked" PROVE got'[g + 1][2]
    OBVIOUS
  <2>1. (call[t].step = "peeked") = TRUE
    OBVIOUS
  <2>2. got'[g + 1] = <<call[t].x, TRUE>>
    BY <1>1, <2>1
  <2>. QED BY <2>2
<1>3. \A i \in DOMAIN got : i \in DOMAIN got' /\ got'[i] = got[i]
  BY <1>1
<1>4. \A i \in DOMAIN got' : i \in DOMAIN got \/ i = g + 1
  BY <1>1
<1>5. UNCHANGED <<kind, emptied, probed>> /\ call[t].step \in {"peeked", "empty"}
  BY DEF Take, tables
<1>6. call'[t].step = "release" /\ \A u \in Threads : u # t => call'[u] = call[u]
  BY DEF StepsTo, Moves
<1>7. \A u \in Threads : call'[u].step = "empty" => call'[u].x \in probed'
  BY <1>5, <1>6 DEF WholeInv
<1>8. \A i \in DOMAIN got' : got'[i][2] \/ got'[i][1] \in probed'
  BY <1>2, <1>3, <1>4, <1>5, <1>10 DEF WholeInv
<1>9. ASSUME NEW m \in emptied'
      PROVE  \/ m \in probed' \/ \E i \in DOMAIN got' : got'[i][1] = m
             \/ \E u \in Threads : call'[u].step = "peeked" /\ call'[u].x = m /\ kind'[call'[u].id] = "tr"
  <2>1. CASE m \in probed \/ \E i \in DOMAIN got : got[i][1] = m
    BY <1>3, <1>5, <2>1
  <2>2. ASSUME NEW u \in Threads, call[u].step = "peeked", call[u].x = m, kind[call[u].id] = "tr" PROVE (\E i \in DOMAIN got' : got'[i][1] = m) \/ \E v \in Threads : call'[v].step = "peeked" /\ call'[v].x = m /\ kind'[call'[v].id] = "tr"
    BY <1>2, <1>5, <1>6, <2>2
  <2>. QED BY <1>5, <1>9, <2>1, <2>2 DEF WholeInv
<1>. QED BY <1>7, <1>8, <1>9 DEF WholeInv

(* A message whose content is out was kept, or somebody is about to take it.   *)
LEMMA PeekWhole ==
    ASSUME MessageTypes, CallShape, PlaceInv, LookInv, WholeInv, NEW t \in Threads, call[t].id \in Ids,
           \A u \in Threads : Looking(u) => call[u].id \in Ids, Peek(t), queue[call[t].id] # <<>>,
           Moves(t, "receive", IF Head(queue[call[t].id]) \in emptied THEN "empty" ELSE "peeked", call[t].id,
                 Head(queue[call[t].id]))
    PROVE  WholeInv'
<1>. DEFINE h == Head(queue[call[t].id])
<1>1. UNCHANGED <<kind, got, probed>> /\ call[t].op = "receive" /\ call[t].step = "got"
  BY DEF Peek, In, tables
<1>2. emptied' = IF kind[call[t].id] = "tr" THEN emptied \cup {h} ELSE emptied
  BY DEF Peek
<1>3. /\ call'[t].step = (IF h \in emptied THEN "empty" ELSE "peeked") /\ call'[t].id = call[t].id /\ call'[t].x = h
      /\ \A u \in Threads : u # t => call'[u] = call[u]
  BY DEF Moves
<1>4. \A i \in DOMAIN got : got[i][1] # h
  <2>1. queue[call[t].id] \in Seq(Nat)
    BY DEF MessageTypes
  <2>2. 1 \in DOMAIN queue[call[t].id] /\ queue[call[t].id][1] = h
    BY <2>1
  <2>. QED BY <2>2 DEF PlaceInv
<1>5. \A u \in Threads : Looking(u) => call[u].x # h
  <2>. SUFFICES ASSUME NEW u \in Threads, Looking(u), call[u].x = h PROVE FALSE
    OBVIOUS
  <2>1. queue[call[u].id] # <<>> /\ Head(queue[call[u].id]) = h /\ call[u].id \in Ids
    BY DEF LookInv
  <2>2. call[u].id = call[t].id
    BY <2>1, HeadsDiffer
  <2>3. call[u].op = "receive" /\ u # t
    BY <1>1 DEF CallShape, ShapeOf, Looking
  <2>. QED BY <1>1, <2>2, <2>3 DEF LookInv
<1>. HIDE DEF h
<1>6. h \in emptied => h \in probed
  BY <1>4, <1>5 DEF WholeInv, Looking
<1>7. \A u \in Threads : call'[u].step = "empty" => call'[u].x \in probed'
  BY <1>1, <1>3, <1>6 DEF WholeInv
<1>8. \A u \in Threads : call[u].step = "peeked" => call'[u] = call[u]
  BY <1>1, <1>3
<1>9. ASSUME NEW m \in emptied'
      PROVE  \/ m \in probed' \/ \E i \in DOMAIN got' : got'[i][1] = m
             \/ \E u \in Threads : call'[u].step = "peeked" /\ call'[u].x = m /\ kind'[call'[u].id] = "tr"
  <2>1. CASE m \in emptied
    BY <1>1, <1>8, <2>1 DEF WholeInv
  <2>2. CASE m \notin emptied
    <3>1. m = h /\ kind[call[t].id] = "tr" /\ call'[t].step = "peeked"
      BY <1>2, <1>3, <1>9, <2>2
    <3>. QED BY <1>1, <1>3, <3>1
  <2>. QED BY <2>1, <2>2
<1>. QED BY <1>1, <1>7, <1>9 DEF WholeInv

LEMMA PeekLook ==
    ASSUME LookInv, NEW t \in Threads, Peek(t), queue[call[t].id] # <<>>,
           Moves(t, "receive", IF Head(queue[call[t].id]) \in emptied THEN "empty" ELSE "peeked", call[t].id,
                 Head(queue[call[t].id]))
    PROVE  LookInv'
<1>1. queue' = queue /\ call[t].op = "receive"
  BY DEF Peek, In
<1>2. \A u \in Threads : call'[u].op = call[u].op /\ call'[u].id = call[u].id
  BY <1>1 DEF Moves
<1>3. \A u \in Threads : u # t => call'[u] = call[u]
  BY DEF Moves
<1>4. call'[t].x = Head(queue[call[t].id])
  BY DEF Moves
<1>5. \A u \in Threads : Looking(u)' => queue[call'[u].id] # <<>> /\ Head(queue[call'[u].id]) = call'[u].x
  BY <1>2, <1>3, <1>4 DEF LookInv, Looking
<1>. QED BY <1>1, <1>2, <1>5 DEF LookInv

(* A message is in one place, and handed over with its content, unless two     *)
(* threads received at the same time.                                          *)
LEMMA ReceiveStep == CBase /\ ReceiveInv /\ [CNext]_cVars => ReceiveInv'
<1>. SUFFICES ASSUME TableTypes, CallTypes, MessageTypes, MediaTypes, CallShape, CallbackShape,
    PendingInv, ReceiveInv, CStep PROVE ReceiveInv'
  BY CSteps DEF CBase
<1>1. ASSUME NEW t \in Threads, NEW op \in OpsOf(topic), NEW id \in Ids, Get(t, op, id) PROVE
    ReceiveInv'
  <2>2. Moves(t, op, "got", id, 0)
    BY <1>1, GetMoves
  <2>9. \A u \in Threads : Looking(u) => call[u].id \in Ids /\ call[u].id \in 1 .. lastId
    BY CallIds DEF CallFacts, Looking
  <2>4. UNCHANGED <<kind, queue, arrived, got, emptied, probed>>
    BY <1>1 DEF Get, tables
  <2>5. call'[t].op = op /\ call'[t].id = id /\ call'[t].step = "got" /\ \A u \in Threads : u # t => call'[u] = call[u]
    BY <2>2 DEF Moves
  <2>6. call[t].op = "none" /\ call[t].step = "none"
    BY <1>1 DEF Get, Idle
  <2>7. \A u \in Threads : Looking(u) \/ Looking(u)' => call'[u] = call[u] /\ kind'[call[u].id] = kind[call[u].id]
    BY <2>4, <2>5, <2>6 DEF Looking
  <2>8. SUFFICES ASSUME ~twice' PROVE (PlaceInv /\ LookInv /\ WholeInv)'
    BY DEF ReceiveInv
  <2>10. ~twice /\ \A u \in Threads : ~(call[u].id = id /\ {op, call[u].op} = {"receive"})
    BY <1>1, <2>8 DEF Get
  <2>11. \A u \in Threads : op = "receive" /\ call[u].op = "receive" => call[u].id # id
    <3>. SUFFICES ASSUME NEW u \in Threads, op = "receive", call[u].op = "receive" PROVE call[u].id # id
      OBVIOUS
    <3>1. {op, call[u].op} = {"receive"}
      OBVIOUS
    <3>. QED BY <2>10, <3>1
  <2>12. PlaceInv /\ LookInv /\ WholeInv
    BY <2>10 DEF ReceiveInv
  <2>13. PlaceInv'
    BY <2>4, <2>12 DEF PlaceInv
  <2>14. LookInv'
    <3>1. \A u, v \in Threads : u # v /\ call'[u].op = "receive" /\ call'[v].op = "receive" => call'[u].id # call'[v].id
      BY <2>5, <2>11, <2>12 DEF LookInv
    <3>2. \A u \in Threads : Looking(u)' => queue'[call'[u].id] # <<>> /\ Head(queue'[call'[u].id]) = call'[u].x
      BY <2>4, <2>7, <2>12 DEF LookInv, Looking
    <3>. QED BY <3>1, <3>2 DEF LookInv
  <2>15. WholeInv'
    <3>1. \A u \in Threads : call'[u].step = "empty" => call'[u].x \in probed
      BY <2>7, <2>12 DEF Looking, WholeInv
    <3>2. \A u \in Threads : call[u].step = "peeked" => call'[u] = call[u] /\ kind'[call[u].id] = kind[call[u].id]
      BY <2>7 DEF Looking
    <3>. QED BY <2>4, <2>12, <3>1, <3>2 DEF WholeInv
  <2>. QED BY <2>13, <2>14, <2>15
<1>2. ASSUME NEW t \in Threads, NEW k \in {"pc", "ws", "srv"}, installed' \in {installed,
    installed \cup {lastId'}}, CreateObject(t, k) PROVE ReceiveInv'
  <2>1. EmplaceFacts(k, 0)
    BY <1>2, NewIdentifier, CApiAssumption DEF Channels, TableTypes, CApiTypeOK, CreateObject
  <2>9. \A u \in Threads : Looking(u) => call[u].id \in Ids /\ call[u].id \in 1 .. lastId
    BY CallIds DEF CallFacts, Looking
  <2>4. \A u \in Threads : /\ call'[u].op = "receive" => call[u].op = "receive" /\ call'[u].id = call[u].id
                           /\ Looking(u) \/ Looking(u)' => call'[u] = call[u]
    BY <1>2 DEF CreateObject, Moves, StepsTo, Idle, In, Looking
  <2>5. \A u \in Threads : Looking(u) => kind'[call[u].id] = kind[call[u].id]
    BY <2>1, <2>9 DEF EmplaceFacts
  <2>6. UNCHANGED <<queue, arrived, got, emptied, probed, twice>>
    BY <1>2 DEF CreateObject, messages
  <2>7. \A u \in Threads : Looking(u) \/ Looking(u)' => call'[u] = call[u] /\ kind'[call[u].id] = kind[call[u].id]
    BY <2>4, <2>5 DEF Looking
  <2>. QED BY <2>4, <2>6, <2>7, ReceiveFrame
<1>3. ASSUME NEW t \in Threads, NEW id \in Ids, SetUserPointer(t, id, "p") PROVE ReceiveInv'
  <2>9. \A u \in Threads : Looking(u) => call[u].id \in Ids /\ call[u].id \in 1 .. lastId
    BY CallIds DEF CallFacts, Looking
  <2>4. \A u \in Threads : /\ call'[u].op = "receive" => call[u].op = "receive" /\ call'[u].id = call[u].id
                           /\ Looking(u) \/ Looking(u)' => call'[u] = call[u]
    BY <1>3 DEF SetUserPointer, Moves, StepsTo, Idle, In, Looking
  <2>5. \A u \in Threads : Looking(u) => kind'[call[u].id] = kind[call[u].id]
    BY <1>3 DEF SetUserPointer, tables
  <2>6. UNCHANGED <<queue, arrived, got, emptied, probed, twice>>
    BY <1>3 DEF SetUserPointer, messages
  <2>7. \A u \in Threads : Looking(u) \/ Looking(u)' => call'[u] = call[u] /\ kind'[call[u].id] = kind[call[u].id]
    BY <2>4, <2>5 DEF Looking
  <2>. QED BY <2>4, <2>6, <2>7, ReceiveFrame
<1>4. ASSUME NEW t \in Threads, CleanupStart(t) PROVE ReceiveInv'
  <2>2. Moves(t, "cleanup", "clearing", 0, 0)
    BY <1>4, CleanupStartMoves
  <2>9. \A u \in Threads : Looking(u) => call[u].id \in Ids /\ call[u].id \in 1 .. lastId
    BY CallIds DEF CallFacts, Looking
  <2>4. \A u \in Threads : /\ call'[u].op = "receive" => call[u].op = "receive" /\ call'[u].id = call[u].id
                           /\ Looking(u) \/ Looking(u)' => call'[u] = call[u]
    BY <1>4, <2>2 DEF CleanupStart, Moves, StepsTo, Idle, In, Looking
  <2>5. \A u \in Threads : Looking(u) => kind'[call[u].id] = kind[call[u].id]
    BY <1>4 DEF CleanupStart, tables
  <2>6. UNCHANGED <<queue, arrived, got, emptied, probed, twice>>
    BY <1>4 DEF CleanupStart, messages
  <2>7. \A u \in Threads : Looking(u) \/ Looking(u)' => call'[u] = call[u] /\ kind'[call[u].id] = kind[call[u].id]
    BY <2>4, <2>5 DEF Looking
  <2>. QED BY <2>4, <2>6, <2>7, ReceiveFrame
<1>5. ASSUME NEW t \in Threads, NEW k \in {"pc", "dc", "tr"}, Use(t, k) PROVE ReceiveInv'
  <2>2. StepsTo(t, "release")
    BY <1>5, UseMoves
  <2>9. \A u \in Threads : Looking(u) => call[u].id \in Ids /\ call[u].id \in 1 .. lastId
    BY CallIds DEF CallFacts, Looking
  <2>4. \A u \in Threads : /\ call'[u].op = "receive" => call[u].op = "receive" /\ call'[u].id = call[u].id
                           /\ Looking(u) \/ Looking(u)' => call'[u] = call[u]
    BY <1>5, <2>2 DEF Use, In, Step, Moves, StepsTo, Idle, In, Looking
  <2>5. \A u \in Threads : Looking(u) => kind'[call[u].id] = kind[call[u].id]
    BY <1>5 DEF Use, In, Step, tables
  <2>6. UNCHANGED <<queue, arrived, got, emptied, probed, twice>>
    BY <1>5 DEF Use, In, Step, messages
  <2>7. \A u \in Threads : Looking(u) \/ Looking(u)' => call'[u] = call[u] /\ kind'[call[u].id] = kind[call[u].id]
    BY <2>4, <2>5 DEF Looking
  <2>. QED BY <2>4, <2>6, <2>7, ReceiveFrame
<1>6. ASSUME NEW t \in Threads, NEW kinds \in SUBSET {"pc", "dc", "ws", "tr"}, Install(t, kinds)
    PROVE ReceiveInv'
  <2>2. StepsTo(t, "release")
    BY <1>6, InstallMoves
  <2>9. \A u \in Threads : Looking(u) => call[u].id \in Ids /\ call[u].id \in 1 .. lastId
    BY CallIds DEF CallFacts, Looking
  <2>4. \A u \in Threads : /\ call'[u].op = "receive" => call[u].op = "receive" /\ call'[u].id = call[u].id
                           /\ Looking(u) \/ Looking(u)' => call'[u] = call[u]
    BY <1>6, <2>2 DEF Install, In, Step, Quiet, Moves, StepsTo, Idle, In, Looking
  <2>5. \A u \in Threads : Looking(u) => kind'[call[u].id] = kind[call[u].id]
    BY <1>6 DEF Install, In, Step, Quiet, tables
  <2>6. UNCHANGED <<queue, arrived, got, emptied, probed, twice>>
    BY <1>6 DEF Install, In, Step, Quiet, messages
  <2>7. \A u \in Threads : Looking(u) \/ Looking(u)' => call'[u] = call[u] /\ kind'[call[u].id] = kind[call[u].id]
    BY <2>4, <2>5 DEF Looking
  <2>. QED BY <2>4, <2>6, <2>7, ReceiveFrame
<1>7. ASSUME NEW t \in Threads, NEW op \in {"channel", "track"}, NEW k \in {"dc", "tr"},
    NewChannel(t, op, k) PROVE ReceiveInv'
  <2>1. EmplaceFacts(k, 0)
    BY <1>7, NewIdentifier, CApiAssumption DEF Channels, TableTypes, CApiTypeOK, NewChannel
  <2>2. Moves(t, call[t].op, "inherit", call[t].id, lastId')
    BY <1>7, NewChannelMoves
  <2>9. \A u \in Threads : Looking(u) => call[u].id \in Ids /\ call[u].id \in 1 .. lastId
    BY CallIds DEF CallFacts, Looking
  <2>4. \A u \in Threads : /\ call'[u].op = "receive" => call[u].op = "receive" /\ call'[u].id = call[u].id
                           /\ Looking(u) \/ Looking(u)' => call'[u] = call[u]
    BY <1>7, <2>2 DEF NewChannel, In, Step, Moves, StepsTo, Idle, In, Looking
  <2>5. \A u \in Threads : Looking(u) => kind'[call[u].id] = kind[call[u].id]
    BY <2>1, <2>9 DEF EmplaceFacts
  <2>6. UNCHANGED <<queue, arrived, got, emptied, probed, twice>>
    BY <1>7 DEF NewChannel, In, Step, messages
  <2>7. \A u \in Threads : Looking(u) \/ Looking(u)' => call'[u] = call[u] /\ kind'[call[u].id] = kind[call[u].id]
    BY <2>4, <2>5 DEF Looking
  <2>. QED BY <2>4, <2>6, <2>7, ReceiveFrame
<1>8. ASSUME NEW t \in Threads, InheritPointer(t) PROVE ReceiveInv'
  <2>2. StepsTo(t, "release")
    BY <1>8, InheritPointerMoves
  <2>9. \A u \in Threads : Looking(u) => call[u].id \in Ids /\ call[u].id \in 1 .. lastId
    BY CallIds DEF CallFacts, Looking
  <2>4. \A u \in Threads : /\ call'[u].op = "receive" => call[u].op = "receive" /\ call'[u].id = call[u].id
                           /\ Looking(u) \/ Looking(u)' => call'[u] = call[u]
    BY <1>8, <2>2 DEF InheritPointer, Step, Moves, StepsTo, Idle, In, Looking
  <2>5. \A u \in Threads : Looking(u) => kind'[call[u].id] = kind[call[u].id]
    BY <1>8 DEF InheritPointer, Step, tables
  <2>6. UNCHANGED <<queue, arrived, got, emptied, probed, twice>>
    BY <1>8 DEF InheritPointer, Step, messages
  <2>7. \A u \in Threads : Looking(u) \/ Looking(u)' => call'[u] = call[u] /\ kind'[call[u].id] = kind[call[u].id]
    BY <2>4, <2>5 DEF Looking
  <2>. QED BY <2>4, <2>6, <2>7, ReceiveFrame
<1>9. ASSUME NEW t \in Threads, Peek(t) PROVE ReceiveInv'
  <2>2. \/ queue[call[t].id] = <<>> /\ StepsTo(t, "release")
        \/ queue[call[t].id] # <<>> /\ Moves(t, "receive", IF Head(queue[call[t].id]) \in emptied THEN "empty" ELSE "peeked", call[t].id, Head(queue[call[t].id]))
    BY <1>9, PeekMoves
  <2>9. \A u \in Threads : Looking(u) => call[u].id \in Ids /\ call[u].id \in 1 .. lastId
    BY CallIds DEF CallFacts, Looking
  <2>4. CASE queue[call[t].id] = <<>>
    <3>1. StepsTo(t, "release") /\ call[t].step = "got"
      BY <1>9, <2>2, <2>4 DEF Peek, In
    <3>2. UNCHANGED <<queue, arrived, got, emptied, probed, twice, kind>>
      BY <1>9, <2>4 DEF Peek, tables
    <3>3. \A u \in Threads : call'[u].op = "receive" => call[u].op = "receive" /\ call'[u].id = call[u].id
      BY <3>1 DEF StepsTo, Moves
    <3>4. \A u \in Threads : Looking(u) \/ Looking(u)' => call'[u] = call[u] /\ kind'[call[u].id] = kind[call[u].id]
      BY <3>1, <3>2 DEF StepsTo, Moves, Looking
    <3>. QED BY <3>2, <3>3, <3>4, ReceiveFrame
  <2>5. CASE queue[call[t].id] # <<>>
    <3>1. Moves(t, "receive", IF Head(queue[call[t].id]) \in emptied THEN "empty" ELSE "peeked", call[t].id, Head(queue[call[t].id]))
      BY <2>2, <2>5
    <3>2. UNCHANGED <<queue, arrived, got, twice>>
      BY <1>9 DEF Peek
    <3>3. call[t].id \in Ids
      BY <1>9, CallIds DEF Peek, In, CallFacts
    <3>4. SUFFICES ASSUME PlaceInv, LookInv, WholeInv PROVE (PlaceInv /\ LookInv /\ WholeInv)'
      BY <3>2 DEF ReceiveInv
    <3>5. PlaceInv'
      BY <3>2, <3>4 DEF PlaceInv
    <3>6. LookInv'
      BY <1>9, <2>5, <3>1, <3>4, PeekLook
    <3>7. WholeInv'
      BY <1>9, <2>5, <2>9, <3>1, <3>3, <3>4, PeekWhole
    <3>. QED BY <3>5, <3>6, <3>7
  <2>. QED BY <2>4, <2>5
<1>10. ASSUME NEW t \in Threads, Keep(t) PROVE ReceiveInv'
  <2>2. StepsTo(t, "release")
    BY <1>10, KeepMoves
  <2>9. \A u \in Threads : Looking(u) => call[u].id \in Ids /\ call[u].id \in 1 .. lastId
    BY CallIds DEF CallFacts, Looking
  <2>4. UNCHANGED <<queue, arrived, got, emptied, twice, kind>> /\ call[t].step \in {"peeked", "empty"}
    BY <1>10 DEF Keep, tables
  <2>5. probed \subseteq probed' /\ (kind[call[t].id] = "tr" => call[t].x \in probed')
    BY <1>10 DEF Keep
  <2>6. call'[t].step = "release" /\ \A u \in Threads : u # t => call'[u] = call[u]
    BY <2>2 DEF StepsTo, Moves
  <2>7. call'[t].op = call[t].op /\ call'[t].id = call[t].id
    BY <2>2 DEF StepsTo, Moves
  <2>8. SUFFICES ASSUME PlaceInv, LookInv, WholeInv PROVE (PlaceInv /\ LookInv /\ WholeInv)'
    BY <2>4 DEF ReceiveInv
  <2>10. PlaceInv'
    BY <2>4, <2>8 DEF PlaceInv
  <2>11. LookInv'
    BY <2>4, <2>6, <2>7, <2>8 DEF LookInv, Looking
  <2>12. \A m \in emptied' : \/ m \in probed' \/ \E i \in DOMAIN got' : got'[i][1] = m
                             \/ \E u \in Threads : call'[u].step = "peeked" /\ call'[u].x = m /\ kind'[call'[u].id] = "tr"
    BY <2>4, <2>5, <2>6, <2>8 DEF WholeInv
  <2>13. WholeInv'
    BY <2>4, <2>5, <2>6, <2>8, <2>12 DEF WholeInv
  <2>. QED BY <2>10, <2>11, <2>13
<1>11. ASSUME NEW t \in Threads, Take(t) PROVE ReceiveInv'
  <2>2. StepsTo(t, "release")
    BY <1>11, TakeMoves
  <2>9. \A u \in Threads : Looking(u) => call[u].id \in Ids /\ call[u].id \in 1 .. lastId
    BY CallIds DEF CallFacts, Looking
  <2>4. twice' = twice
    BY <1>11 DEF Take
  <2>5. call[t].id \in Ids /\ call[t].x \in Nat
    BY <1>11, CallIds DEF Take, CallFacts
  <2>6. SUFFICES ASSUME PlaceInv, LookInv, WholeInv PROVE (PlaceInv /\ LookInv /\ WholeInv)'
    BY <2>4 DEF ReceiveInv
  <2>7. PlaceInv'
    BY <1>11, <2>5, <2>6, TakePlace
  <2>8. LookInv'
    BY <1>11, <2>2, <2>5, <2>6, <2>9, TakeLook
  <2>10. WholeInv'
    BY <1>11, <2>2, <2>5, <2>6, TakeWhole
  <2>. QED BY <2>7, <2>8, <2>10
<1>12. ASSUME NEW t \in Threads, StoreConfig(t) PROVE ReceiveInv'
  <2>2. Moves(t, call[t].op, "stored", call[t].id, made'[call[t].id])
    BY <1>12, StoreConfigMoves
  <2>9. \A u \in Threads : Looking(u) => call[u].id \in Ids /\ call[u].id \in 1 .. lastId
    BY CallIds DEF CallFacts, Looking
  <2>4. \A u \in Threads : /\ call'[u].op = "receive" => call[u].op = "receive" /\ call'[u].id = call[u].id
                           /\ Looking(u) \/ Looking(u)' => call'[u] = call[u]
    BY <1>12, <2>2 DEF StoreConfig, NewConfig, In, Moves, StepsTo, Idle, In, Looking
  <2>5. \A u \in Threads : Looking(u) => kind'[call[u].id] = kind[call[u].id]
    BY <1>12 DEF StoreConfig, NewConfig, In, tables
  <2>6. UNCHANGED <<queue, arrived, got, emptied, probed, twice>>
    BY <1>12 DEF StoreConfig, NewConfig, In, messages
  <2>7. \A u \in Threads : Looking(u) \/ Looking(u)' => call'[u] = call[u] /\ kind'[call[u].id] = kind[call[u].id]
    BY <2>4, <2>5 DEF Looking
  <2>. QED BY <2>4, <2>6, <2>7, ReceiveFrame
<1>13. ASSUME NEW t \in Threads, OmitConfig(t) PROVE ReceiveInv'
  <2>2. Moves(t, call[t].op, "stored", call[t].id, made'[call[t].id])
    BY <1>13, OmitConfigMoves
  <2>9. \A u \in Threads : Looking(u) => call[u].id \in Ids /\ call[u].id \in 1 .. lastId
    BY CallIds DEF CallFacts, Looking
  <2>4. \A u \in Threads : /\ call'[u].op = "receive" => call[u].op = "receive" /\ call'[u].id = call[u].id
                           /\ Looking(u) \/ Looking(u)' => call'[u] = call[u]
    BY <1>13, <2>2 DEF OmitConfig, NewConfig, In, Moves, StepsTo, Idle, In, Looking
  <2>5. \A u \in Threads : Looking(u) => kind'[call[u].id] = kind[call[u].id]
    BY <1>13 DEF OmitConfig, NewConfig, In, tables
  <2>6. UNCHANGED <<queue, arrived, got, emptied, probed, twice>>
    BY <1>13 DEF OmitConfig, NewConfig, In, messages
  <2>7. \A u \in Threads : Looking(u) \/ Looking(u)' => call'[u] = call[u] /\ kind'[call[u].id] = kind[call[u].id]
    BY <2>4, <2>5 DEF Looking
  <2>. QED BY <2>4, <2>6, <2>7, ReceiveFrame
<1>14. ASSUME NEW t \in Threads, SetPacketizer(t) PROVE ReceiveInv'
  <2>2. StepsTo(t, "release")
    BY <1>14, SetPacketizerMoves
  <2>9. \A u \in Threads : Looking(u) => call[u].id \in Ids /\ call[u].id \in 1 .. lastId
    BY CallIds DEF CallFacts, Looking
  <2>4. \A u \in Threads : /\ call'[u].op = "receive" => call[u].op = "receive" /\ call'[u].id = call[u].id
                           /\ Looking(u) \/ Looking(u)' => call'[u] = call[u]
    BY <1>14, <2>2 DEF SetPacketizer, Step, Moves, StepsTo, Idle, In, Looking
  <2>5. \A u \in Threads : Looking(u) => kind'[call[u].id] = kind[call[u].id]
    BY <1>14 DEF SetPacketizer, Step, tables
  <2>6. UNCHANGED <<queue, arrived, got, emptied, probed, twice>>
    BY <1>14 DEF SetPacketizer, Step, messages
  <2>7. \A u \in Threads : Looking(u) \/ Looking(u)' => call'[u] = call[u] /\ kind'[call[u].id] = kind[call[u].id]
    BY <2>4, <2>5 DEF Looking
  <2>. QED BY <2>4, <2>6, <2>7, ReceiveFrame
<1>15. ASSUME NEW t \in Threads, FindConfig(t) PROVE ReceiveInv'
  <2>2. \/ rtpConfigMap[call[t].id] = 0 /\ Moves(t, call[t].op, "release", call[t].id, 0)
        \/ rtpConfigMap[call[t].id] # 0 /\ Moves(t, call[t].op, "found", call[t].id, rtpConfigMap[call[t].id])
    BY <1>15, FindConfigMoves
  <2>9. \A u \in Threads : Looking(u) => call[u].id \in Ids /\ call[u].id \in 1 .. lastId
    BY CallIds DEF CallFacts, Looking
  <2>4. \A u \in Threads : /\ call'[u].op = "receive" => call[u].op = "receive" /\ call'[u].id = call[u].id
                           /\ Looking(u) \/ Looking(u)' => call'[u] = call[u]
    BY <1>15, <2>2 DEF FindConfig, In, Moves, StepsTo, Idle, In, Looking
  <2>5. \A u \in Threads : Looking(u) => kind'[call[u].id] = kind[call[u].id]
    BY <1>15 DEF FindConfig, In, tables
  <2>6. UNCHANGED <<queue, arrived, got, emptied, probed, twice>>
    BY <1>15 DEF FindConfig, In, messages
  <2>7. \A u \in Threads : Looking(u) \/ Looking(u)' => call'[u] = call[u] /\ kind'[call[u].id] = kind[call[u].id]
    BY <2>4, <2>5 DEF Looking
  <2>. QED BY <2>4, <2>6, <2>7, ReceiveFrame
<1>16. ASSUME NEW t \in Threads, ChainReporter(t) PROVE ReceiveInv'
  <2>2. StepsTo(t, "release")
    BY <1>16, ChainReporterMoves
  <2>9. \A u \in Threads : Looking(u) => call[u].id \in Ids /\ call[u].id \in 1 .. lastId
    BY CallIds DEF CallFacts, Looking
  <2>4. \A u \in Threads : /\ call'[u].op = "receive" => call[u].op = "receive" /\ call'[u].id = call[u].id
                           /\ Looking(u) \/ Looking(u)' => call'[u] = call[u]
    BY <1>16, <2>2 DEF ChainReporter, Step, Moves, StepsTo, Idle, In, Looking
  <2>5. \A u \in Threads : Looking(u) => kind'[call[u].id] = kind[call[u].id]
    BY <1>16 DEF ChainReporter, Step, tables
  <2>6. UNCHANGED <<queue, arrived, got, emptied, probed, twice>>
    BY <1>16 DEF ChainReporter, Step, messages
  <2>7. \A u \in Threads : Looking(u) \/ Looking(u)' => call'[u] = call[u] /\ kind'[call[u].id] = kind[call[u].id]
    BY <2>4, <2>5 DEF Looking
  <2>. QED BY <2>4, <2>6, <2>7, ReceiveFrame
<1>17. ASSUME NEW t \in Threads, CloseChannel(t) PROVE ReceiveInv'
  <2>2. \/ call[t].op = "delete" /\ StepsTo(t, "closed")
        \/ call[t].op # "delete" /\ StepsTo(t, "release")
    BY <1>17, CloseChannelMoves
  <2>9. \A u \in Threads : Looking(u) => call[u].id \in Ids /\ call[u].id \in 1 .. lastId
    BY CallIds DEF CallFacts, Looking
  <2>4. \A u \in Threads : /\ call'[u].op = "receive" => call[u].op = "receive" /\ call'[u].id = call[u].id
                           /\ Looking(u) \/ Looking(u)' => call'[u] = call[u]
    BY <1>17, <2>2 DEF CloseChannel, Step, Quiet, Moves, StepsTo, Idle, In, Looking
  <2>5. \A u \in Threads : Looking(u) => kind'[call[u].id] = kind[call[u].id]
    BY <1>17 DEF CloseChannel, Step, Quiet, tables
  <2>6. UNCHANGED <<queue, arrived, got, emptied, probed, twice>>
    BY <1>17 DEF CloseChannel, Step, Quiet, messages
  <2>7. \A u \in Threads : Looking(u) \/ Looking(u)' => call'[u] = call[u] /\ kind'[call[u].id] = kind[call[u].id]
    BY <2>4, <2>5 DEF Looking
  <2>. QED BY <2>4, <2>6, <2>7, ReceiveFrame
<1>18. ASSUME NEW t \in Threads, NEW force \in BOOLEAN, CloseWebSocket(t, force) PROVE ReceiveInv'
  <2>2. \/ call[t].op = "delete" /\ StepsTo(t, "closed")
        \/ call[t].op # "delete" /\ StepsTo(t, "release")
    BY <1>18, CloseWebSocketMoves
  <2>9. \A u \in Threads : Looking(u) => call[u].id \in Ids /\ call[u].id \in 1 .. lastId
    BY CallIds DEF CallFacts, Looking
  <2>4. \A u \in Threads : /\ call'[u].op = "receive" => call[u].op = "receive" /\ call'[u].id = call[u].id
                           /\ Looking(u) \/ Looking(u)' => call'[u] = call[u]
    BY <1>18, <2>2 DEF CloseWebSocket, Step, Quiet, Moves, StepsTo, Idle, In, Looking
  <2>5. \A u \in Threads : Looking(u) => kind'[call[u].id] = kind[call[u].id]
    BY <1>18 DEF CloseWebSocket, Step, Quiet, tables
  <2>6. UNCHANGED <<queue, arrived, got, emptied, probed, twice>>
    BY <1>18 DEF CloseWebSocket, Step, Quiet, messages
  <2>7. \A u \in Threads : Looking(u) \/ Looking(u)' => call'[u] = call[u] /\ kind'[call[u].id] = kind[call[u].id]
    BY <2>4, <2>5 DEF Looking
  <2>. QED BY <2>4, <2>6, <2>7, ReceiveFrame
<1>19. ASSUME NEW t \in Threads, ClosePeerConnection(t) PROVE ReceiveInv'
  <2>2. \/ call[t].op = "delete" /\ StepsTo(t, "closed")
        \/ call[t].op # "delete" /\ StepsTo(t, "release")
        \/ Moves(t, call[t].op, "resetting", call[t].id, 1)
    BY <1>19, ClosePeerConnectionMoves
  <2>9. \A u \in Threads : Looking(u) => call[u].id \in Ids /\ call[u].id \in 1 .. lastId
    BY CallIds DEF CallFacts, Looking
  <2>4. \A u \in Threads : /\ call'[u].op = "receive" => call[u].op = "receive" /\ call'[u].id = call[u].id
                           /\ Looking(u) \/ Looking(u)' => call'[u] = call[u]
    BY <1>19, <2>2 DEF ClosePeerConnection, Step, Moves, StepsTo, Idle, In, Looking
  <2>5. \A u \in Threads : Looking(u) => kind'[call[u].id] = kind[call[u].id]
    BY <1>19 DEF ClosePeerConnection, Step, tables
  <2>6. UNCHANGED <<queue, arrived, got, emptied, probed, twice>>
    BY <1>19 DEF ClosePeerConnection, Step, messages
  <2>7. \A u \in Threads : Looking(u) \/ Looking(u)' => call'[u] = call[u] /\ kind'[call[u].id] = kind[call[u].id]
    BY <2>4, <2>5 DEF Looking
  <2>. QED BY <2>4, <2>6, <2>7, ReceiveFrame
<1>20. ASSUME NEW t \in Threads, ResetCallbacks(t) PROVE ReceiveInv'
  <2>2. \/ call[t].x = 1 /\ call[t].op = "delete" /\ StepsTo(t, "closed")
        \/ call[t].x = 1 /\ call[t].op # "delete" /\ StepsTo(t, "release")
        \/ call[t].x # 1 /\ Moves(t, "none", "none", 0, 0)
    BY <1>20, ResetCallbacksMoves
  <2>9. \A u \in Threads : Looking(u) => call[u].id \in Ids /\ call[u].id \in 1 .. lastId
    BY CallIds DEF CallFacts, Looking
  <2>4. \A u \in Threads : /\ call'[u].op = "receive" => call[u].op = "receive" /\ call'[u].id = call[u].id
                           /\ Looking(u) \/ Looking(u)' => call'[u] = call[u]
    BY <1>20, <2>2 DEF ResetCallbacks, Step, Quiet, Moves, StepsTo, Idle, In, Looking
  <2>5. \A u \in Threads : Looking(u) => kind'[call[u].id] = kind[call[u].id]
    BY <1>20 DEF ResetCallbacks, Step, Quiet, tables
  <2>6. UNCHANGED <<queue, arrived, got, emptied, probed, twice>>
    BY <1>20 DEF ResetCallbacks, Step, Quiet, messages
  <2>7. \A u \in Threads : Looking(u) \/ Looking(u)' => call'[u] = call[u] /\ kind'[call[u].id] = kind[call[u].id]
    BY <2>4, <2>5 DEF Looking
  <2>. QED BY <2>4, <2>6, <2>7, ReceiveFrame
<1>21. ASSUME NEW t \in Threads, StopServer(t) PROVE ReceiveInv'
  <2>2. \/ t = Lib /\ StepsTo(t, "release")
        \/ t # Lib /\ StepsTo(t, "closed")
    BY <1>21, StopServerMoves
  <2>9. \A u \in Threads : Looking(u) => call[u].id \in Ids /\ call[u].id \in 1 .. lastId
    BY CallIds DEF CallFacts, Looking
  <2>4. \A u \in Threads : /\ call'[u].op = "receive" => call[u].op = "receive" /\ call'[u].id = call[u].id
                           /\ Looking(u) \/ Looking(u)' => call'[u] = call[u]
    BY <1>21, <2>2 DEF StopServer, In, Step, Quiet, Moves, StepsTo, Idle, In, Looking
  <2>5. \A u \in Threads : Looking(u) => kind'[call[u].id] = kind[call[u].id]
    BY <1>21 DEF StopServer, In, Step, Quiet, tables
  <2>6. UNCHANGED <<queue, arrived, got, emptied, probed, twice>>
    BY <1>21 DEF StopServer, In, Step, Quiet, messages
  <2>7. \A u \in Threads : Looking(u) \/ Looking(u)' => call'[u] = call[u] /\ kind'[call[u].id] = kind[call[u].id]
    BY <2>4, <2>5 DEF Looking
  <2>. QED BY <2>4, <2>6, <2>7, ReceiveFrame
<1>22. ASSUME NEW t \in Threads, Erase(t) PROVE ReceiveInv'
  <2>2. \/ call[t].id \in table /\ StepsTo(t, "erased")
        \/ call[t].id \notin table /\ StepsTo(t, "release")
    BY <1>22, EraseMoves
  <2>9. \A u \in Threads : Looking(u) => call[u].id \in Ids /\ call[u].id \in 1 .. lastId
    BY CallIds DEF CallFacts, Looking
  <2>4. \A u \in Threads : /\ call'[u].op = "receive" => call[u].op = "receive" /\ call'[u].id = call[u].id
                           /\ Looking(u) \/ Looking(u)' => call'[u] = call[u]
    BY <1>22, <2>2 DEF Erase, In, Step, Moves, StepsTo, Idle, In, Looking
  <2>5. \A u \in Threads : Looking(u) => kind'[call[u].id] = kind[call[u].id]
    BY <1>22 DEF Erase, In, Step, tables
  <2>6. UNCHANGED <<queue, arrived, got, emptied, probed, twice>>
    BY <1>22 DEF Erase, In, Step, messages
  <2>7. \A u \in Threads : Looking(u) \/ Looking(u)' => call'[u] = call[u] /\ kind'[call[u].id] = kind[call[u].id]
    BY <2>4, <2>5 DEF Looking
  <2>. QED BY <2>4, <2>6, <2>7, ReceiveFrame
<1>23. ASSUME NEW t \in Threads, ReleaseRef(t) PROVE ReceiveInv'
  <2>2. \/ call[t].id \notin table /\ LastRef(t, call[t].id) /\ kind[call[t].id] = "pc" /\ closer[call[t].id] = "open" /\ Moves(t, IF call[t].step = "erased" THEN "delete" ELSE "use", "resetting", call[t].id, 0)
        \/ Moves(t, "none", "none", 0, 0)
    BY <1>23, ReleaseRefMoves
  <2>9. \A u \in Threads : Looking(u) => call[u].id \in Ids /\ call[u].id \in 1 .. lastId
    BY CallIds DEF CallFacts, Looking
  <2>4. \A u \in Threads : /\ call'[u].op = "receive" => call[u].op = "receive" /\ call'[u].id = call[u].id
                           /\ Looking(u) \/ Looking(u)' => call'[u] = call[u]
    BY <1>23, <2>2 DEF ReleaseRef, LastRef, Quiet, Unwaited, Moves, StepsTo, Idle, In, Looking
  <2>5. \A u \in Threads : Looking(u) => kind'[call[u].id] = kind[call[u].id]
    BY <1>23 DEF ReleaseRef, LastRef, Quiet, Unwaited, tables
  <2>6. UNCHANGED <<queue, arrived, got, emptied, probed, twice>>
    BY <1>23 DEF ReleaseRef, LastRef, Quiet, Unwaited, messages
  <2>7. \A u \in Threads : Looking(u) \/ Looking(u)' => call'[u] = call[u] /\ kind'[call[u].id] = kind[call[u].id]
    BY <2>4, <2>5 DEF Looking
  <2>. QED BY <2>4, <2>6, <2>7, ReceiveFrame
<1>24. ASSUME NEW t \in Threads, EraseAll(t) PROVE ReceiveInv'
  <2>2. Moves(t, "none", "none", 0, 0)
    BY <1>24, EraseAllMoves
  <2>9. \A u \in Threads : Looking(u) => call[u].id \in Ids /\ call[u].id \in 1 .. lastId
    BY CallIds DEF CallFacts, Looking
  <2>4. \A u \in Threads : /\ call'[u].op = "receive" => call[u].op = "receive" /\ call'[u].id = call[u].id
                           /\ Looking(u) \/ Looking(u)' => call'[u] = call[u]
    BY <1>24, <2>2 DEF EraseAll, LastRef, Quiet, Unwaited, Moves, StepsTo, Idle, In, Looking
  <2>5. \A u \in Threads : Looking(u) => kind'[call[u].id] = kind[call[u].id]
    BY <1>24 DEF EraseAll, LastRef, Quiet, Unwaited, tables
  <2>6. UNCHANGED <<queue, arrived, got, emptied, probed, twice>>
    BY <1>24 DEF EraseAll, LastRef, Quiet, Unwaited, messages
  <2>7. \A u \in Threads : Looking(u) \/ Looking(u)' => call'[u] = call[u] /\ kind'[call[u].id] = kind[call[u].id]
    BY <2>4, <2>5 DEF Looking
  <2>. QED BY <2>4, <2>6, <2>7, ReceiveFrame
<1>25. CASE CallbackEmplace
  <2>0. PICK k \in {"ws", "dc", "tr"} : Emplace(k, inCallback.id)
    BY <1>25 DEF CallbackEmplace
  <2>1. EmplaceFacts(k, inCallback.id)
    BY <1>25, <2>0, NewIdentifier, CApiAssumption DEF Channels, TableTypes, CApiTypeOK,
        CallbackEmplace, CallTypes, CallbackOK, CallbackRecord
  <2>3. CallbackMoves("locked", inCallback.id, lastId', inCallback.ptr)
    BY <1>25, <2>0, CallbackEmplaceMoves DEF Channels
  <2>9. \A u \in Threads : Looking(u) => call[u].id \in Ids /\ call[u].id \in 1 .. lastId
    BY CallIds DEF CallFacts, Looking
  <2>4. \A u \in Threads : /\ call'[u].op = "receive" => call[u].op = "receive" /\ call'[u].id = call[u].id
                           /\ Looking(u) \/ Looking(u)' => call'[u] = call[u]
    BY <1>25 DEF CallbackEmplace, Moves, StepsTo, Idle, In, Looking
  <2>5. \A u \in Threads : Looking(u) => kind'[call[u].id] = kind[call[u].id]
    BY <2>1, <2>9 DEF EmplaceFacts
  <2>6. UNCHANGED <<queue, arrived, got, emptied, probed, twice>>
    BY <1>25 DEF CallbackEmplace, messages
  <2>7. \A u \in Threads : Looking(u) \/ Looking(u)' => call'[u] = call[u] /\ kind'[call[u].id] = kind[call[u].id]
    BY <2>4, <2>5 DEF Looking
  <2>. QED BY <2>4, <2>6, <2>7, ReceiveFrame
<1>26. CASE CallbackCheck
  <2>3. \/ userPointerMap[inCallback.id] = "absent" /\ CallbackMoves("idle", 0, 0, "absent")
       \/ /\ userPointerMap[inCallback.id] # "absent"
          /\ CallbackMoves(IF inCallback.new = 0 THEN "running" ELSE "inherit", inCallback.id,
                           inCallback.new, userPointerMap[inCallback.id])
    BY <1>26, CallbackCheckMoves
  <2>9. \A u \in Threads : Looking(u) => call[u].id \in Ids /\ call[u].id \in 1 .. lastId
    BY CallIds DEF CallFacts, Looking
  <2>4. \A u \in Threads : /\ call'[u].op = "receive" => call[u].op = "receive" /\ call'[u].id = call[u].id
                           /\ Looking(u) \/ Looking(u)' => call'[u] = call[u]
    BY <1>26 DEF CallbackCheck, Moves, StepsTo, Idle, In, Looking
  <2>5. \A u \in Threads : Looking(u) => kind'[call[u].id] = kind[call[u].id]
    BY <1>26 DEF CallbackCheck, tables
  <2>6. UNCHANGED <<queue, arrived, got, emptied, probed, twice>>
    BY <1>26 DEF CallbackCheck, messages
  <2>7. \A u \in Threads : Looking(u) \/ Looking(u)' => call'[u] = call[u] /\ kind'[call[u].id] = kind[call[u].id]
    BY <2>4, <2>5 DEF Looking
  <2>. QED BY <2>4, <2>6, <2>7, ReceiveFrame
<1>27. CASE CallbackInherit
  <2>3. CallbackMoves("running", inCallback.id, inCallback.new, inCallback.ptr)
    BY <1>27, CallbackInheritMoves
  <2>9. \A u \in Threads : Looking(u) => call[u].id \in Ids /\ call[u].id \in 1 .. lastId
    BY CallIds DEF CallFacts, Looking
  <2>4. \A u \in Threads : /\ call'[u].op = "receive" => call[u].op = "receive" /\ call'[u].id = call[u].id
                           /\ Looking(u) \/ Looking(u)' => call'[u] = call[u]
    BY <1>27 DEF CallbackInherit, Moves, StepsTo, Idle, In, Looking
  <2>5. \A u \in Threads : Looking(u) => kind'[call[u].id] = kind[call[u].id]
    BY <1>27 DEF CallbackInherit, tables
  <2>6. UNCHANGED <<queue, arrived, got, emptied, probed, twice>>
    BY <1>27 DEF CallbackInherit, messages
  <2>7. \A u \in Threads : Looking(u) \/ Looking(u)' => call'[u] = call[u] /\ kind'[call[u].id] = kind[call[u].id]
    BY <2>4, <2>5 DEF Looking
  <2>. QED BY <2>4, <2>6, <2>7, ReceiveFrame
<1>28. CASE CallbackReturn
  <2>3. CallbackMoves("idle", 0, 0, "absent")
    BY <1>28, CallbackReturnMoves
  <2>9. \A u \in Threads : Looking(u) => call[u].id \in Ids /\ call[u].id \in 1 .. lastId
    BY CallIds DEF CallFacts, Looking
  <2>4. \A u \in Threads : /\ call'[u].op = "receive" => call[u].op = "receive" /\ call'[u].id = call[u].id
                           /\ Looking(u) \/ Looking(u)' => call'[u] = call[u]
    BY <1>28 DEF CallbackReturn, Moves, StepsTo, Idle, In, Looking
  <2>5. \A u \in Threads : Looking(u) => kind'[call[u].id] = kind[call[u].id]
    BY <1>28 DEF CallbackReturn, tables
  <2>6. UNCHANGED <<queue, arrived, got, emptied, probed, twice>>
    BY <1>28 DEF CallbackReturn, messages
  <2>7. \A u \in Threads : Looking(u) \/ Looking(u)' => call'[u] = call[u] /\ kind'[call[u].id] = kind[call[u].id]
    BY <2>4, <2>5 DEF Looking
  <2>. QED BY <2>4, <2>6, <2>7, ReceiveFrame
<1>29. ASSUME NEW id \in Ids, Arrive(id) PROVE ReceiveInv'
  <2>9. \A u \in Threads : Looking(u) => call[u].id \in Ids /\ call[u].id \in 1 .. lastId
    BY CallIds DEF CallFacts, Looking
  <2>4. UNCHANGED <<twice, got, emptied, probed, call, kind>>
    BY <1>29 DEF Arrive, tables
  <2>6. SUFFICES ASSUME PlaceInv, LookInv, WholeInv PROVE (PlaceInv /\ LookInv /\ WholeInv)'
    BY <2>4 DEF ReceiveInv
  <2>7. PlaceInv'
    BY <1>29, <2>6, ArrivePlace
  <2>8. LookInv'
    BY <1>29, <2>6, <2>9, ArriveLook
  <2>10. WholeInv'
    BY <2>4, <2>6 DEF WholeInv
  <2>. QED BY <2>7, <2>8, <2>10
<1>30. ASSUME NEW id \in Ids, RemoteShut(id) PROVE ReceiveInv'
  <2>9. \A u \in Threads : Looking(u) => call[u].id \in Ids /\ call[u].id \in 1 .. lastId
    BY CallIds DEF CallFacts, Looking
  <2>4. \A u \in Threads : /\ call'[u].op = "receive" => call[u].op = "receive" /\ call'[u].id = call[u].id
                           /\ Looking(u) \/ Looking(u)' => call'[u] = call[u]
    BY <1>30 DEF RemoteShut, Moves, StepsTo, Idle, In, Looking
  <2>5. \A u \in Threads : Looking(u) => kind'[call[u].id] = kind[call[u].id]
    BY <1>30 DEF RemoteShut, tables
  <2>6. UNCHANGED <<queue, arrived, got, emptied, probed, twice>>
    BY <1>30 DEF RemoteShut, messages
  <2>7. \A u \in Threads : Looking(u) \/ Looking(u)' => call'[u] = call[u] /\ kind'[call[u].id] = kind[call[u].id]
    BY <2>4, <2>5 DEF Looking
  <2>. QED BY <2>4, <2>6, <2>7, ReceiveFrame
<1>31. ASSUME NEW id \in Ids, RemoteReset(id) PROVE ReceiveInv'
  <2>9. \A u \in Threads : Looking(u) => call[u].id \in Ids /\ call[u].id \in 1 .. lastId
    BY CallIds DEF CallFacts, Looking
  <2>4. \A u \in Threads : /\ call'[u].op = "receive" => call[u].op = "receive" /\ call'[u].id = call[u].id
                           /\ Looking(u) \/ Looking(u)' => call'[u] = call[u]
    BY <1>31 DEF RemoteReset, Moves, StepsTo, Idle, In, Looking
  <2>5. \A u \in Threads : Looking(u) => kind'[call[u].id] = kind[call[u].id]
    BY <1>31 DEF RemoteReset, tables
  <2>6. UNCHANGED <<queue, arrived, got, emptied, probed, twice>>
    BY <1>31 DEF RemoteReset, messages
  <2>7. \A u \in Threads : Looking(u) \/ Looking(u)' => call'[u] = call[u] /\ kind'[call[u].id] = kind[call[u].id]
    BY <2>4, <2>5 DEF Looking
  <2>. QED BY <2>4, <2>6, <2>7, ReceiveFrame
<1>32. ASSUME NEW id \in Ids, NEW offer \in BOOLEAN, CallbackStart(id, offer) PROVE ReceiveInv'
  <2>3. CallbackMoves(IF offer THEN "offer" ELSE "locked", id, 0, "absent")
    BY <1>32, CallbackStartMoves
  <2>9. \A u \in Threads : Looking(u) => call[u].id \in Ids /\ call[u].id \in 1 .. lastId
    BY CallIds DEF CallFacts, Looking
  <2>4. \A u \in Threads : /\ call'[u].op = "receive" => call[u].op = "receive" /\ call'[u].id = call[u].id
                           /\ Looking(u) \/ Looking(u)' => call'[u] = call[u]
    BY <1>32 DEF CallbackStart, Moves, StepsTo, Idle, In, Looking
  <2>5. \A u \in Threads : Looking(u) => kind'[call[u].id] = kind[call[u].id]
    BY <1>32 DEF CallbackStart, tables
  <2>6. UNCHANGED <<queue, arrived, got, emptied, probed, twice>>
    BY <1>32 DEF CallbackStart, messages
  <2>7. \A u \in Threads : Looking(u) \/ Looking(u)' => call'[u] = call[u] /\ kind'[call[u].id] = kind[call[u].id]
    BY <2>4, <2>5 DEF Looking
  <2>. QED BY <2>4, <2>6, <2>7, ReceiveFrame
<1>33. CASE UNCHANGED cVars
  BY <1>33
  DEF cVars, tables, messages, media, history, objects, ReceiveInv, PlaceInv, LookInv, WholeInv,
      Looking, CallShape, ShapeOf, LibraryShape, CallFacts, CallbackFacts, TableTypes, CApiTypeOK,
      Known, Recorded, Ids, Idle
<1>. QED BY <1>1, <1>2, <1>3, <1>4, <1>5, <1>6, <1>7, <1>8, <1>9, <1>10, <1>11, <1>12, <1>13,
    <1>14, <1>15, <1>16, <1>17, <1>18, <1>19, <1>20, <1>21, <1>22, <1>23, <1>24, <1>25, <1>26,
    <1>27, <1>28, <1>29, <1>30, <1>31, <1>32, <1>33 DEF CStep

-----------------------------------------------------------------------------

(* Everything that holds together.                                             *)
ApiIInv ==
    /\ CBase /\ ReportInv /\ PointerInv /\ ServerInv /\ DeleteInv /\ EntryInv /\ ReceiveInv /\ ConfigInv

(* The tables of an application that has one object, or none.                  *)
LEMMA InitTables ==
    CInit => /\ lastId \in 0 .. MaxId /\ table \subseteq 1 .. lastId /\ reported = table
             /\ kind \in [Ids -> {"none", "pc", "srv"} \cup Channels]
             /\ userPointerMap = [i \in Ids |-> IF i \in table THEN "null" ELSE "absent"]
             /\ installed \subseteq table /\ topic \in Topics
<1>. SUFFICES ASSUME CInit
     PROVE  /\ lastId \in 0 .. MaxId /\ table \subseteq 1 .. lastId /\ reported = table
            /\ kind \in [Ids -> {"none", "pc", "srv"} \cup Channels]
            /\ userPointerMap = [i \in Ids |-> IF i \in table THEN "null" ELSE "absent"]
            /\ installed \subseteq table /\ topic \in Topics
  OBVIOUS
<1>1. topic \in Topics /\ installed \subseteq table
  BY DEF CInit
<1>2. CASE topic \in {"life", "pointers"}
  <2>1. lastId = (IF topic = "life" THEN MaxId ELSE 1) /\ table = {lastId} /\ reported = {lastId}
    BY <1>2 DEF CInit
  <2>2. lastId \in 1 .. MaxId
    BY <2>1, CApiAssumption
  <2>3. PICK k \in KindsOf(topic) : kind = [i \in Ids |-> IF i = lastId THEN k ELSE "none"]
    BY <1>2 DEF CInit
  <2>4. k \in {"none", "pc", "srv"} \cup Channels
    BY <1>2, <2>3 DEF KindsOf, Channels
  <2>5. kind \in [Ids -> {"none", "pc", "srv"} \cup Channels]
    BY <2>3, <2>4
  <2>6. userPointerMap = [i \in Ids |-> IF i = lastId THEN "null" ELSE "absent"]
    BY <1>2 DEF CInit
  <2>7. userPointerMap = [i \in Ids |-> IF i \in table THEN "null" ELSE "absent"]
    BY <2>1, <2>6
  <2>8. lastId \in 0 .. MaxId /\ table \subseteq 1 .. lastId
    BY <2>1, <2>2, CApiAssumption
  <2>. QED BY <1>1, <2>1, <2>5, <2>7, <2>8
<1>3. CASE topic \notin {"life", "pointers"}
  <2>1. lastId = 0 /\ table = {} /\ reported = {} /\ kind = [i \in Ids |-> "none"] /\ userPointerMap = [i \in Ids |-> "absent"]
    BY <1>3 DEF CInit
  <2>. QED BY <1>1, <2>1, CApiAssumption
<1>. QED BY <1>2, <1>3

LEMMA InitBase == CInit => CBase
<1>. SUFFICES ASSUME CInit PROVE CBase
  OBVIOUS
<1>1. /\ lastId \in 0 .. MaxId /\ table \subseteq 1 .. lastId /\ reported = table
      /\ kind \in [Ids -> {"none", "pc", "srv"} \cup Channels]
      /\ userPointerMap = [i \in Ids |-> IF i \in table THEN "null" ELSE "absent"]
      /\ installed \subseteq table /\ topic \in Topics
  BY InitTables
<1>2. Ids \subseteq Nat /\ 1 .. lastId \subseteq Ids /\ 0 \in 0 .. MaxId
  BY <1>1, CApiAssumption DEF Ids
<1>3. CApiTypeOK
  <2>1. parent = [i \in Ids |-> 0] /\ mutexOwner = Lib /\ closer = [i \in Ids |-> "open"]
    BY DEF CInit
  <2>2. installed \subseteq Ids
    BY <1>1, <1>2
  <2>. QED BY <1>1, <1>2, <2>1, <2>2 DEF CApiTypeOK
<1>4. Known
  BY <1>1 DEF CInit, Known
<1>5. Recorded
  <2>1. /\ parent = [i \in Ids |-> 0] /\ raced = [i \in Ids |-> "no"] /\ ownSet = [i \in Ids |-> "unset"]
        /\ cleaned = FALSE
    BY DEF CInit
  <2>2. \A i \in Ids : parent[i] <= lastId
    BY <1>1, <2>1, CApiAssumption
  <2>3. raced \in [Ids -> {"no", "call", "self", "closing"}] /\ ownSet \in [Ids -> {"unset", "p"}] /\ cleaned \in BOOLEAN
    BY <2>1
  <2>. QED BY <1>1, <2>2, <2>3 DEF Recorded
<1>6. \A t \in Threads : call[t].op = "none" /\ call[t].step = "none" /\ call[t].id = 0 /\ call[t].x = 0
  BY DEF CInit, Idle
<1>7. CallsOK
  <2>1. Idle \in CallRecord
    BY <1>2 DEF Idle, CallRecord, Ops, Steps
  <2>2. call = [t \in Threads |-> Idle]
    BY DEF CInit
  <2>. QED BY <1>1, <1>6, <2>1, <2>2 DEF CallsOK
<1>8. inCallback.step = "idle" /\ inCallback.id = 0 /\ inCallback.new = 0 /\ inCallback \in CallbackRecord
  BY <1>2 DEF CInit, NoCallback, CallbackRecord, Pointers
<1>9. CallbackOK
  BY <1>1, <1>8 DEF CallbackOK
<1>10. MessageTypes
  <2>1. queue = [i \in Ids |-> <<>>] /\ arrived = 0 /\ got = <<>> /\ emptied = {} /\ probed = {} /\ twice = FALSE
    BY DEF CInit
  <2>2. queue \in [Ids -> Seq(Nat)] /\ got \in Seq(Nat \X BOOLEAN)
    BY <2>1
  <2>. QED BY <2>1, <2>2 DEF MessageTypes
<1>11. MediaTypes
  BY DEF CInit, MediaTypes
<1>12. CallShape
  BY <1>6, CApiAssumption DEF CallShape, ShapeOf, LibraryShape, Threads
<1>13. CallbackShape
  BY <1>8 DEF CallbackShape
<1>14. PendingInv
  BY <1>6, <1>8 DEF PendingInv, Offering
<1>. QED BY <1>3, <1>4, <1>5, <1>7, <1>9, <1>10, <1>11, <1>12, <1>13, <1>14 DEF CBase, TableTypes, CallTypes

LEMMA InitRest == CInit => ReportInv /\ PointerInv /\ ServerInv /\ DeleteInv /\ EntryInv /\ ReceiveInv /\ ConfigInv
<1>. SUFFICES ASSUME CInit PROVE ReportInv /\ PointerInv /\ ServerInv /\ DeleteInv /\ EntryInv /\ ReceiveInv /\ ConfigInv
  OBVIOUS
<1>1. /\ lastId \in 0 .. MaxId /\ table \subseteq 1 .. lastId /\ reported = table
      /\ userPointerMap = [i \in Ids |-> IF i \in table THEN "null" ELSE "absent"]
      /\ installed \subseteq table
  BY InitTables
<1>2. \A t \in Threads : call[t].op = "none" /\ call[t].step = "none" /\ call[t].id = 0 /\ call[t].x = 0
  BY DEF CInit, Idle
<1>3. inCallback.step = "idle" /\ inCallback.id = 0 /\ inCallback.new = 0
  BY DEF CInit, NoCallback
<1>4. table \subseteq Ids
  BY <1>1, CApiAssumption DEF Ids
<1>5. gone = {} /\ raced = [i \in Ids |-> "no"] /\ ownSet = [i \in Ids |-> "unset"]
  BY DEF CInit
<1>6. ReportInv
  BY <1>1 DEF ReportInv
<1>7. PointerInv
  BY <1>1, <1>4, <1>5 DEF PointerInv, PointerKept
<1>8. ServerInv
  BY <1>1, <1>2, <1>3 DEF ServerInv
<1>9. DeleteInv
  BY <1>1, <1>2, <1>3, <1>5 DEF DeleteInv, RaceInv, CallbackInv, GoneInv, OrphanInv
<1>10. rtpConfigMap = [i \in Ids |-> 0] /\ rtcpSrReporterMap = [i \in Ids |-> 0] /\ made = [i \in Ids |-> 0]
  BY DEF CInit
<1>11. EntryInv
  BY <1>2, <1>10 DEF EntryInv
<1>12. ConfigInv
  BY <1>2, <1>10 DEF ConfigInv
<1>13. queue = [i \in Ids |-> <<>>] /\ arrived = 0 /\ got = <<>> /\ emptied = {}
  BY DEF CInit
<1>14. (\A i \in Ids : DOMAIN queue[i] = {}) /\ DOMAIN got = {} /\ 1 .. arrived = {}
  BY <1>13
<1>15. PlaceInv
  BY <1>14 DEF PlaceInv
<1>16. LookInv /\ WholeInv
  BY <1>2, <1>13, <1>14 DEF LookInv, WholeInv, Looking
<1>. QED BY <1>6, <1>7, <1>8, <1>9, <1>11, <1>12, <1>15, <1>16 DEF ReceiveInv

(* Every step keeps it.                                                        *)
LEMMA ApiStep == ApiIInv /\ [CNext]_cVars => ApiIInv'
<1>. SUFFICES ASSUME CBase, ReportInv, PointerInv, ServerInv, RaceInv, CallbackInv, GoneInv, OrphanInv, EntryInv,
                     ReceiveInv, ConfigInv, [CNext]_cVars
     PROVE  ApiIInv'
  BY DEF ApiIInv, DeleteInv
<1>1. CBase'
  <2>1. TableTypes /\ CallTypes /\ CallShape /\ CallbackShape /\ PendingInv
    BY DEF CBase
  <2>2. CApiTypeOK' /\ Known' /\ Recorded'
    BY <2>1, TableStep, KnownStep, RecordedStep
  <2>3. CallsOK' /\ CallbackOK' /\ MessageTypes' /\ MediaTypes'
    BY CallsStep, CallbackStep, MessageStep, MediaStep
  <2>4. (\A z \in Threads : ShapeOf(z))' /\ LibraryShape' /\ CallbackShape' /\ PendingInv'
    BY ShapeStep, LibraryStep, CallbackShapeStep, PendingStep
  <2>. QED BY <2>2, <2>3, <2>4 DEF CBase, TableTypes, CallTypes, CallShape
<1>2. ReportInv' /\ PointerInv' /\ ServerInv'
  BY ReportStep, PointerStep, ServerStep
<1>3. DeleteInv'
  BY RaceStep, CallbackInvStep, GoneStep, OrphanStep DEF DeleteInv
<1>4. EntryInv' /\ ReceiveInv' /\ ConfigInv'
  BY EntryStep, ReceiveStep, ConfigStep
<1>. QED BY <1>1, <1>2, <1>3, <1>4 DEF ApiIInv

(* A message in one place counts once.                                         *)
LEMMA OncePlaced == ASSUME PlaceInv PROVE \A m \in 1 .. arrived :
        Cardinality(Handed(m)) + Cardinality({id \in Ids : \E i \in DOMAIN queue[id] : queue[id][i] = m}) = 1
<1>. SUFFICES ASSUME NEW m \in 1 .. arrived
     PROVE  Cardinality(Handed(m)) + Cardinality({id \in Ids : \E i \in DOMAIN queue[id] : queue[id][i] = m}) = 1
  OBVIOUS
<1>. DEFINE Q == {id \in Ids : \E i \in DOMAIN queue[id] : queue[id][i] = m}
<1>0. Cardinality({}) = 0
  BY FS_EmptySet
<1>1. CASE \E i \in DOMAIN got : got[i][1] = m
  <2>1. PICK i \in DOMAIN got : got[i][1] = m
    BY <1>1
  <2>2. Handed(m) = {i}
    BY <2>1 DEF Handed, PlaceInv
  <2>3. Q = {}
    BY <2>1 DEF PlaceInv
  <2>4. Cardinality({i}) = 1
    BY FS_Singleton
  <2>. QED BY <1>0, <2>2, <2>3, <2>4
<1>2. CASE ~\E i \in DOMAIN got : got[i][1] = m
  <2>1. PICK id \in Ids : \E i \in DOMAIN queue[id] : queue[id][i] = m
    BY <1>2 DEF PlaceInv
  <2>2. Handed(m) = {}
    BY <1>2 DEF Handed
  <2>3. Q = {id}
    BY <2>1 DEF PlaceInv
  <2>4. Cardinality({id}) = 1
    BY FS_Singleton
  <2>. QED BY <1>0, <2>2, <2>3, <2>4
<1>. QED BY <1>1, <1>2

LEMMA ApiIInvImplies == ApiIInv => ApiInv
<1>. SUFFICES ASSUME ApiIInv PROVE ApiInv
  OBVIOUS
<1>1. TableTypes /\ CallTypes /\ MediaTypes /\ CallShape /\ CallbackShape /\ PendingInv
  BY DEF ApiIInv, CBase
<1>2. NoCallbackAfterDelete
  BY DEF ApiIInv, DeleteInv, CallbackInv, GoneInv, NoCallbackAfterDelete
<1>3. Quiescent => \A t \in Threads : call[t].id = 0 /\ call[t].step = "none"
  BY DEF Quiescent, Idle
<1>4. Quiescent => inCallback.step = "idle"
  BY DEF Quiescent, NoCallback
<1>5. EveryObjectReported
  BY <1>3, <1>4 DEF ApiIInv, ReportInv, EveryObjectReported, Offering
<1>6. PointerKept
  BY DEF ApiIInv, PointerInv
<1>7. EntriesMatch
  BY DEF ApiIInv, PointerInv, EntryInv, EntriesMatch
<1>8. ReceivedOnce
  <2>. SUFFICES ASSUME ~twice PROVE \A m \in 1 .. arrived :
        Cardinality(Handed(m)) + Cardinality({id \in Ids : \E i \in DOMAIN queue[id] : queue[id][i] = m}) = 1
    BY DEF ReceivedOnce
  <2>1. PlaceInv
    BY DEF ApiIInv, ReceiveInv
  <2>. QED BY <2>1, OncePlaced
<1>9. ReceivedWhole
  BY DEF ApiIInv, ReceiveInv, WholeInv, ReceivedWhole
<1>10. ReporterCurrent
  <2>. SUFFICES ASSUME NEW id \in Ids, made[id] = 1, rtcpSrReporterMap[id] # 0, \A t \in Threads : call[t].id # id
       PROVE  rtcpSrReporterMap[id] = packetizer[id]
    BY DEF ReporterCurrent
  <2>1. rtcpSrReporterMap[id] \in Nat /\ rtcpSrReporterMap[id] <= 1
    BY <1>1 DEF ApiIInv, ConfigInv, MediaTypes
  <2>2. packetizer[id] = 1
    BY DEF ApiIInv, ConfigInv
  <2>. QED BY <2>1, <2>2
<1>. QED BY <1>2, <1>5, <1>6, <1>7, <1>8, <1>9, <1>10 DEF ApiInv

(* With any number of threads, identifiers, messages and configurations, and   *)
(* every interleaving of calls, callbacks, deletions and rtcCleanup of         *)
(* capi.cpp: no callback of an object runs after rtcDelete... returned unless  *)
(* two calls or the library raced for it, every object was reported, user      *)
(* pointers and entries are those of objects, messages are received once and   *)
(* whole, and a reporter reports on the configuration in use.                  *)
THEOREM ApiCorrect == CSpec => []ApiInv
<1>1. CInit => ApiIInv
  BY InitBase, InitRest DEF ApiIInv
<1>2. ApiIInv /\ [CNext]_cVars => ApiIInv'
  BY ApiStep
<1>3. ApiIInv => ApiInv
  BY ApiIInvImplies
<1>. QED BY <1>1, <1>2, <1>3, PTL DEF CSpec
=============================================================================
