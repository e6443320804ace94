------------------------ MODULE PeerConnectionProofs ------------------------
(* That a closed connection keeps no transport, and that an open one stops   *)
(* none, for any number of transports and descriptions.                      *)
EXTENDS PeerConnection, TLAPS

Inits == {"api", "ice", "dtls"}
Closers == {"app", "proc"}

(* The transports of a level are transports, and none of them is Null.       *)
LEMMA OfTransports == \A l \in Levels : Of(l) \subseteq Transports /\ Null \notin Of(l)
BY NullAssumption DEF Of, Levels, Transports

(* The invariant holds in the beginning.                                     *)
LEMMA InitNoTransport == Init => NoTransportLeft
<1>. SUFFICES ASSUME Init PROVE NoTransportLeft
  OBVIOUS
<1>1. TypeOK
  <2>1. at \in [Threads -> Labels]
    BY DEF Init, Labels
  <2>2. /\ slot \in [Levels -> Transports \union {Null}]
        /\ \A l \in Levels : slot[l] \in Of(l) \union {Null}
    BY DEF Init
  <2>3. tstate \in [Transports -> TStates]
    BY DEF Init, TStates
  <2>4. local \in [Threads -> Transports \union {Null}]
    BY DEF Init
  <2>5. state \in States /\ descriptions \in 0 .. MaxDescriptions
    BY MaxDescriptionsAssumption DEF Init, States
  <2>. QED BY <2>1, <2>2, <2>3, <2>4, <2>5 DEF Init, TypeOK
<1>2. LocalOfLevel /\ state # "Closed"
  BY DEF Init, LocalOfLevel, Threads
<1>. QED BY <1>1, <1>2 DEF NoTransportLeft, PointersGo

(* stop() keeps the types, and neither closes nor reopens the connection.    *)
LEMMA StopTypes ==
    ASSUME TypeOK, NEW x \in Transports, StopEffect(x)
    PROVE  /\ stopped' \subseteq Transports
           /\ tstate' \in [Transports -> TStates]
           /\ state' \in States /\ closeJob' \in BOOLEAN
           /\ state' = "Closed" <=> state = "Closed"
<1>1. stopped' \subseteq Transports
  BY DEF TypeOK, StopEffect
<1>2. tstate' \in [Transports -> TStates]
  BY DEF TypeOK, StopEffect, TStates
<1>3. state' \in States /\ closeJob' \in BOOLEAN /\ (state' = "Closed" <=> state = "Closed")
  BY DEF TypeOK, StopEffect, Changed, States
<1>. QED BY <1>1, <1>2, <1>3

(* Every step keeps the types.                                               *)
LEMMA TypeStep == NoTransportLeft /\ [Next]_vars => TypeOK'
<1>. SUFFICES ASSUME NoTransportLeft, [Next]_vars PROVE TypeOK'
  OBVIOUS
<1>1. CASE Describe
  BY <1>1, OfTransports, MaxDescriptionsAssumption
  DEF NoTransportLeft, TypeOK, Describe, Goto, Points, conn, objects, threads, teardown, calls,
      Levels, Labels, InitLabels, CloseLabels, States, TStates, Threads, Inits, Closers
<1>2. CASE LocalDescribed
  BY <1>2, OfTransports
  DEF NoTransportLeft, TypeOK, LocalDescribed, Goto, Points, conn, objects, threads, teardown,
      calls, Levels, Labels, InitLabels, CloseLabels, States, TStates, Threads, Inits, Closers
<1>3. CASE RemoteDescribed
  BY <1>3, OfTransports
  DEF NoTransportLeft, TypeOK, LocalOfLevel, RemoteDescribed, Goto, Points, conn, objects,
      threads, teardown, calls, Levels, Labels, InitLabels, CloseLabels, States, TStates,
      Threads, Inits, Closers
<1>4. CASE RemoteProcessed
  BY <1>4, OfTransports
  DEF NoTransportLeft, TypeOK, RemoteProcessed, SctpDue, Goto, Points, conn, objects, threads,
      teardown, calls, Levels, Labels, InitLabels, CloseLabels, States, TStates, Threads, Inits,
      Closers
<1>5. CASE AppCloses
  BY <1>5, OfTransports
  DEF NoTransportLeft, TypeOK, AppCloses, Goto, Points, conn, objects, threads, teardown, calls,
      Levels, Labels, InitLabels, CloseLabels, States, TStates, Threads, Inits, Closers
<1>6. CASE AppDestructs
  BY <1>6, OfTransports
  DEF NoTransportLeft, TypeOK, AppDestructs, Goto, Points, conn, objects, threads, teardown,
      calls, Levels, Labels, InitLabels, CloseLabels, States, TStates, Threads, Inits, Closers
<1>7. CASE JobBegins
  BY <1>7, OfTransports
  DEF NoTransportLeft, TypeOK, JobBegins, Goto, Points, conn, objects, threads, teardown, calls,
      Levels, Labels, InitLabels, CloseLabels, States, TStates, Threads, Inits, Closers
<1>8. CASE CloseChannels
  BY <1>8, OfTransports
  DEF NoTransportLeft, TypeOK, CloseChannels, Goto, Points, conn, objects, threads, teardown,
      calls, Levels, Labels, InitLabels, CloseLabels, States, TStates, Threads, Inits, Closers
<1>9. CASE TearDown
  BY <1>9, OfTransports, StopTypes
  DEF NoTransportLeft, TypeOK, TearDown, Goto, Points, conn, objects, threads, teardown, calls,
      Levels, Labels, InitLabels, CloseLabels, States, TStates, Threads, Inits, Closers
<1>10. ASSUME NEW t \in Inits, Existing(t) PROVE TypeOK'
  BY <1>10, OfTransports
  DEF NoTransportLeft, TypeOK, LocalOfLevel, Existing, Return, Goto, Points, conn, objects,
      threads, teardown, calls, Levels, Labels, InitLabels, CloseLabels, States, TStates,
      Threads, Inits, Closers, Level
<1>11. ASSUME NEW t \in Inits, MakeFails(t) PROVE TypeOK'
  <2>1. anomalies' \subseteq {"doubleInit", "initFailed"}
    BY <1>11 DEF NoTransportLeft, TypeOK, MakeFails, Anomaly
  <2>. QED
    BY <1>11, <2>1, OfTransports
    DEF NoTransportLeft, TypeOK, LocalOfLevel, MakeFails, Return, Changed, Goto, Points, conn,
        objects, threads, teardown, calls, Levels, Labels, InitLabels, CloseLabels, States,
        TStates, Threads, Inits, Closers, Level
<1>12. ASSUME NEW t \in Inits, Make(t) PROVE TypeOK'
  BY <1>12, OfTransports
  DEF NoTransportLeft, TypeOK, LocalOfLevel, Make, Fresh, Goto, Points, conn, objects, threads,
      teardown, calls, Levels, Labels, InitLabels, CloseLabels, States, TStates, Threads, Inits,
      Closers, Level
<1>13. ASSUME NEW t \in Inits, EmplaceStores(t) PROVE TypeOK'
  <2>1. anomalies' \subseteq {"doubleInit", "initFailed"}
    BY <1>13 DEF NoTransportLeft, TypeOK, EmplaceStores, Anomaly
  <2>. QED
    BY <1>13, <2>1, OfTransports
    DEF NoTransportLeft, TypeOK, LocalOfLevel, EmplaceStores, Goto, Points, conn, objects,
        threads, teardown, calls, Levels, Labels, InitLabels, CloseLabels, States, TStates,
        Threads, Inits, Closers, Level
<1>14. ASSUME NEW t \in Inits, EmplaceStarts(t) PROVE TypeOK'
  BY <1>14, OfTransports
  DEF NoTransportLeft, TypeOK, LocalOfLevel, EmplaceStarts, Goto, Points, conn, objects, threads,
      teardown, calls, Levels, Labels, InitLabels, CloseLabels, States, TStates, Threads, Inits,
      Closers, Level
<1>15. ASSUME NEW t \in Inits, EmplaceFails(t) PROVE TypeOK'
  <2>1. anomalies' \subseteq {"doubleInit", "initFailed"}
    BY <1>15 DEF NoTransportLeft, TypeOK, EmplaceFails, Anomaly
  <2>. QED
    BY <1>15, <2>1, OfTransports
    DEF NoTransportLeft, TypeOK, LocalOfLevel, EmplaceFails, Return, Changed, Goto, Points, conn,
        objects, threads, teardown, calls, Levels, Labels, InitLabels, CloseLabels, States,
        TStates, Threads, Inits, Closers, Level
<1>16. ASSUME NEW t \in Inits, EmplaceKeeps(t) PROVE TypeOK'
  BY <1>16, OfTransports
  DEF NoTransportLeft, TypeOK, LocalOfLevel, EmplaceKeeps, Return, Goto, Points, conn, objects,
      threads, teardown, calls, Levels, Labels, InitLabels, CloseLabels, States, TStates,
      Threads, Inits, Closers, Level
<1>17. ASSUME NEW t \in Inits, EmplaceDrops(t) PROVE TypeOK'
  BY <1>17, OfTransports, StopTypes
  DEF NoTransportLeft, TypeOK, LocalOfLevel, EmplaceDrops, Return, Goto, Points, conn, objects,
      threads, teardown, calls, Levels, Labels, InitLabels, CloseLabels, States, TStates,
      Threads, Inits, Closers, Level
<1>18. ASSUME NEW t \in Closers, CloseStop(t) PROVE TypeOK'
  BY <1>18, OfTransports, StopTypes
  DEF NoTransportLeft, TypeOK, CloseStop, Goto, Points, conn, objects, threads, teardown, calls,
      Levels, Labels, InitLabels, CloseLabels, States, TStates, Threads, Inits, Closers
<1>19. ASSUME NEW t \in Closers, RemoteClose(t) PROVE TypeOK'
  BY <1>19, OfTransports
  DEF NoTransportLeft, TypeOK, RemoteClose, Goto, Points, conn, objects, threads, teardown,
      calls, Levels, Labels, InitLabels, CloseLabels, States, TStates, Threads, Inits, Closers
<1>20. ASSUME NEW t \in Closers, CloseTransports(t) PROVE TypeOK'
  BY <1>20, OfTransports
  DEF NoTransportLeft, TypeOK, CloseTransports, Goto, Points, conn, objects, threads, teardown,
      calls, Levels, Labels, InitLabels, CloseLabels, States, TStates, Threads, Inits, Closers
<1>21. ASSUME NEW t \in Closers, TakePointer(t) PROVE TypeOK'
  BY <1>21, OfTransports
  DEF NoTransportLeft, TypeOK, TakePointer, Goto, Points, conn, objects, threads, teardown,
      calls, Levels, Labels, InitLabels, CloseLabels, States, TStates, Threads, Inits, Closers
<1>22. ASSUME NEW t \in Closers, TearDownEnqueued(t) PROVE TypeOK'
  BY <1>22, OfTransports
  DEF NoTransportLeft, TypeOK, TearDownEnqueued, Goto, Points, conn, objects, threads, teardown,
      calls, Levels, Labels, InitLabels, CloseLabels, States, TStates, Threads, Inits, Closers
<1>23. ASSUME NEW x \in Transports, IceConnecting(x) PROVE TypeOK'
  BY <1>23, OfTransports
  DEF NoTransportLeft, TypeOK, IceConnecting, Reaches, Changed, Goto, Points, conn, objects,
      threads, teardown, calls, Levels, Labels, InitLabels, CloseLabels, States, TStates,
      Threads, Inits, Closers
<1>24. ASSUME NEW x \in Transports, IceConnected(x) PROVE TypeOK'
  BY <1>24, OfTransports
  DEF NoTransportLeft, TypeOK, IceConnected, CallbackInits, Goto, Points, conn, objects, threads,
      teardown, calls, Levels, Labels, InitLabels, CloseLabels, States, TStates, Threads, Inits,
      Closers
<1>25. ASSUME NEW x \in Transports, DtlsConnected(x) PROVE TypeOK'
  <2>1. CASE remote = "yes"
    <3>1. CallbackInits(x, "dtls")
      BY <1>25, <2>1 DEF DtlsConnected
    <3>. QED
      BY <3>1, OfTransports
      DEF NoTransportLeft, TypeOK, CallbackInits, Goto, Points, conn, objects, threads, teardown,
          calls, Levels, Labels, InitLabels, CloseLabels, States, TStates, Threads, Inits,
          Closers
  <2>2. CASE remote = "no"
    BY <1>25, <2>2, OfTransports
    DEF NoTransportLeft, TypeOK, DtlsConnected, Reaches, Changed, Goto, Points, conn, objects,
        threads, teardown, calls, Levels, Labels, InitLabels, CloseLabels, States, TStates,
        Threads, Inits, Closers
  <2>. QED BY <1>25, <2>1, <2>2 DEF DtlsConnected
<1>26. ASSUME NEW x \in Transports, SctpConnected(x) PROVE TypeOK'
  BY <1>26, OfTransports
  DEF NoTransportLeft, TypeOK, SctpConnected, Reaches, Changed, Goto, Points, conn, objects,
      threads, teardown, calls, Levels, Labels, InitLabels, CloseLabels, States, TStates,
      Threads, Inits, Closers
<1>27. ASSUME NEW x \in Transports, Down(x) PROVE TypeOK'
  BY <1>27, OfTransports
  DEF NoTransportLeft, TypeOK, Down, Reaches, Changed, Goto, Points, conn, objects, threads,
      teardown, calls, Levels, Labels, InitLabels, CloseLabels, States, TStates, Threads, Inits,
      Closers
<1>28. ASSUME NEW x \in Transports, Destroy(x) PROVE TypeOK'
  <2>1. stopped' \subseteq Transports
    <3>1. Below(x) \subseteq Transports
      BY DEF Below, Transports
    <3>. QED BY <1>28, <3>1 DEF NoTransportLeft, TypeOK, Destroy
  <2>. QED
    BY <1>28, <2>1, OfTransports
    DEF NoTransportLeft, TypeOK, Destroy, Goto, Points, conn, objects, threads, teardown, calls,
        Levels, Labels, InitLabels, CloseLabels, States, TStates, Threads, Inits, Closers
<1>29. CASE UNCHANGED vars
  <2>1. UNCHANGED <<state, closing, closeJob, channels, slot, tstate, stopped, muted, at, apiLevel,
                    local, taken, tearing, remote, descriptions, destructed, anomalies>>
    BY <1>29 DEF vars, conn, objects, threads, teardown, calls
  <2>. QED BY <2>1 DEF NoTransportLeft, TypeOK
<1>. QED
  BY <1>1, <1>2, <1>3, <1>4, <1>5, <1>6, <1>7, <1>8, <1>9, <1>10, <1>11, <1>12, <1>13, <1>14,
     <1>15, <1>16, <1>17, <1>18, <1>19, <1>20, <1>21, <1>22, <1>23, <1>24, <1>25, <1>26, <1>27, <1>28, <1>29
  DEF Next, ApiStep, InitStep, CloseStep, Inits, Closers

(* Every step keeps the threads' pointers on their level.                    *)
LEMMA LocalStep == NoTransportLeft /\ [Next]_vars => LocalOfLevel'
<1>. SUFFICES ASSUME NoTransportLeft, [Next]_vars PROVE LocalOfLevel'
  OBVIOUS
<1>1. CASE Describe
  BY <1>1, OfTransports
  DEF NoTransportLeft, TypeOK, LocalOfLevel, Level, Describe, Goto, Points, conn, objects,
      threads, teardown, calls, Threads, Inits, Closers, Levels, Of
<1>2. CASE LocalDescribed
  BY <1>2, OfTransports
  DEF NoTransportLeft, TypeOK, LocalOfLevel, Level, LocalDescribed, Goto, Points, conn, objects,
      threads, teardown, calls, Threads, Inits, Closers, Levels, Of
<1>3. CASE RemoteDescribed
  BY <1>3, OfTransports
  DEF NoTransportLeft, TypeOK, LocalOfLevel, Level, RemoteDescribed, Goto, Points, conn, objects,
      threads, teardown, calls, Threads, Inits, Closers, Levels, Of
<1>4. CASE RemoteProcessed
  BY <1>4, OfTransports
  DEF NoTransportLeft, TypeOK, LocalOfLevel, Level, RemoteProcessed, Goto, Points, conn, objects,
      threads, teardown, calls, Threads, Inits, Closers, Levels, Of
<1>5. CASE AppCloses
  BY <1>5, OfTransports
  DEF NoTransportLeft, TypeOK, LocalOfLevel, Level, AppCloses, Goto, Points, conn, objects,
      threads, teardown, calls, Threads, Inits, Closers, Levels, Of
<1>6. CASE AppDestructs
  BY <1>6, OfTransports
  DEF NoTransportLeft, TypeOK, LocalOfLevel, Level, AppDestructs, Goto, Points, conn, objects,
      threads, teardown, calls, Threads, Inits, Closers, Levels, Of
<1>7. CASE JobBegins
  BY <1>7, OfTransports
  DEF NoTransportLeft, TypeOK, LocalOfLevel, Level, JobBegins, Goto, Points, conn, objects,
      threads, teardown, calls, Threads, Inits, Closers, Levels, Of
<1>8. CASE CloseChannels
  BY <1>8, OfTransports
  DEF NoTransportLeft, TypeOK, LocalOfLevel, Level, CloseChannels, Goto, Points, conn, objects,
      threads, teardown, calls, Threads, Inits, Closers, Levels, Of
<1>9. CASE TearDown
  BY <1>9, OfTransports
  DEF NoTransportLeft, TypeOK, LocalOfLevel, Level, TearDown, Goto, Points, conn, objects,
      threads, teardown, calls, Threads, Inits, Closers, Levels, Of
<1>10. ASSUME NEW t \in Inits, Existing(t) PROVE LocalOfLevel'
  BY <1>10, OfTransports
  DEF NoTransportLeft, TypeOK, LocalOfLevel, Level, Existing, Return, Goto, Points, conn,
      objects, threads, teardown, calls, Threads, Inits, Closers, Levels, Of
<1>11. ASSUME NEW t \in Inits, MakeFails(t) PROVE LocalOfLevel'
  BY <1>11, OfTransports
  DEF NoTransportLeft, TypeOK, LocalOfLevel, Level, MakeFails, Return, Goto, Points, conn,
      objects, threads, teardown, calls, Threads, Inits, Closers, Levels, Of
<1>12. ASSUME NEW t \in Inits, Make(t) PROVE LocalOfLevel'
  <2>. DEFINE new == CHOOSE y \in Fresh(Level(t)) : TRUE
  <2>1. new \in Of(Level(t))
    <3>1. new \in Fresh(Level(t))
      BY <1>12 DEF Make
    <3>. QED BY <3>1 DEF Fresh
  <2>2. /\ at' = [at EXCEPT ![t] = "store"]
        /\ local' = [local EXCEPT ![t] = new]
        /\ apiLevel' = apiLevel
    BY <1>12 DEF Make, Goto, Points
  <2>. HIDE DEF new
  <2>. QED
    BY <2>1, <2>2 DEF NoTransportLeft, TypeOK, LocalOfLevel, Level, Of, Threads, Inits
<1>13. ASSUME NEW t \in Inits, EmplaceStores(t) PROVE LocalOfLevel'
  BY <1>13, OfTransports
  DEF NoTransportLeft, TypeOK, LocalOfLevel, Level, EmplaceStores, Goto, Points, conn, objects,
      threads, teardown, calls, Threads, Inits, Closers, Levels, Of
<1>14. ASSUME NEW t \in Inits, EmplaceStarts(t) PROVE LocalOfLevel'
  BY <1>14, OfTransports
  DEF NoTransportLeft, TypeOK, LocalOfLevel, Level, EmplaceStarts, Goto, Points, conn, objects,
      threads, teardown, calls, Threads, Inits, Closers, Levels, Of
<1>15. ASSUME NEW t \in Inits, EmplaceFails(t) PROVE LocalOfLevel'
  BY <1>15, OfTransports
  DEF NoTransportLeft, TypeOK, LocalOfLevel, Level, EmplaceFails, Return, Goto, Points, conn,
      objects, threads, teardown, calls, Threads, Inits, Closers, Levels, Of
<1>16. ASSUME NEW t \in Inits, EmplaceKeeps(t) PROVE LocalOfLevel'
  BY <1>16, OfTransports
  DEF NoTransportLeft, TypeOK, LocalOfLevel, Level, EmplaceKeeps, Return, Goto, Points, conn,
      objects, threads, teardown, calls, Threads, Inits, Closers, Levels, Of
<1>17. ASSUME NEW t \in Inits, EmplaceDrops(t) PROVE LocalOfLevel'
  BY <1>17, OfTransports
  DEF NoTransportLeft, TypeOK, LocalOfLevel, Level, EmplaceDrops, Return, Goto, Points, conn,
      objects, threads, teardown, calls, Threads, Inits, Closers, Levels, Of
<1>18. ASSUME NEW t \in Closers, CloseStop(t) PROVE LocalOfLevel'
  BY <1>18, OfTransports
  DEF NoTransportLeft, TypeOK, LocalOfLevel, Level, CloseStop, Goto, Points, conn, objects,
      threads, teardown, calls, Threads, Inits, Closers, Levels, Of
<1>19. ASSUME NEW t \in Closers, RemoteClose(t) PROVE LocalOfLevel'
  BY <1>19, OfTransports
  DEF NoTransportLeft, TypeOK, LocalOfLevel, Level, RemoteClose, Goto, Points, conn, objects,
      threads, teardown, calls, Threads, Inits, Closers, Levels, Of
<1>20. ASSUME NEW t \in Closers, CloseTransports(t) PROVE LocalOfLevel'
  BY <1>20, OfTransports
  DEF NoTransportLeft, TypeOK, LocalOfLevel, Level, CloseTransports, Goto, Points, conn, objects,
      threads, teardown, calls, Threads, Inits, Closers, Levels, Of
<1>21. ASSUME NEW t \in Closers, TakePointer(t) PROVE LocalOfLevel'
  BY <1>21, OfTransports
  DEF NoTransportLeft, TypeOK, LocalOfLevel, Level, TakePointer, Goto, Points, conn, objects,
      threads, teardown, calls, Threads, Inits, Closers, Levels, Of
<1>22. ASSUME NEW t \in Closers, TearDownEnqueued(t) PROVE LocalOfLevel'
  BY <1>22, OfTransports
  DEF NoTransportLeft, TypeOK, LocalOfLevel, Level, TearDownEnqueued, Goto, Points, conn,
      objects, threads, teardown, calls, Threads, Inits, Closers, Levels, Of
<1>23. ASSUME NEW x \in Transports, IceConnecting(x) PROVE LocalOfLevel'
  BY <1>23, OfTransports
  DEF NoTransportLeft, TypeOK, LocalOfLevel, Level, IceConnecting, Reaches, Goto, Points, conn,
      objects, threads, teardown, calls, Threads, Inits, Closers, Levels, Of
<1>24. ASSUME NEW x \in Transports, IceConnected(x) PROVE LocalOfLevel'
  BY <1>24, OfTransports
  DEF NoTransportLeft, TypeOK, LocalOfLevel, Level, IceConnected, CallbackInits, Goto, Points,
      conn, objects, threads, teardown, calls, Threads, Inits, Closers, Levels, Of
<1>25. ASSUME NEW x \in Transports, DtlsConnected(x) PROVE LocalOfLevel'
  BY <1>25, OfTransports
  DEF NoTransportLeft, TypeOK, LocalOfLevel, Level, DtlsConnected, Reaches, CallbackInits, Goto,
      Points, conn, objects, threads, teardown, calls, Threads, Inits, Closers, Levels, Of
<1>26. ASSUME NEW x \in Transports, SctpConnected(x) PROVE LocalOfLevel'
  BY <1>26, OfTransports
  DEF NoTransportLeft, TypeOK, LocalOfLevel, Level, SctpConnected, Reaches, Goto, Points, conn,
      objects, threads, teardown, calls, Threads, Inits, Closers, Levels, Of
<1>27. ASSUME NEW x \in Transports, Down(x) PROVE LocalOfLevel'
  BY <1>27, OfTransports
  DEF NoTransportLeft, TypeOK, LocalOfLevel, Level, Down, Reaches, Goto, Points, conn, objects,
      threads, teardown, calls, Threads, Inits, Closers, Levels, Of
<1>28. ASSUME NEW x \in Transports, Destroy(x) PROVE LocalOfLevel'
  BY <1>28, OfTransports
  DEF NoTransportLeft, TypeOK, LocalOfLevel, Level, Destroy, Goto, Points, conn, objects,
      threads, teardown, calls, Threads, Inits, Closers, Levels, Of
<1>29. CASE UNCHANGED vars
  BY <1>29, OfTransports
  DEF NoTransportLeft, TypeOK, LocalOfLevel, Level, vars, Goto, Points, conn, objects, threads,
      teardown, calls, Threads, Inits, Closers, Levels, Of
<1>. QED
  BY <1>1, <1>2, <1>3, <1>4, <1>5, <1>6, <1>7, <1>8, <1>9, <1>10, <1>11, <1>12, <1>13, <1>14,
     <1>15, <1>16, <1>17, <1>18, <1>19, <1>20, <1>21, <1>22, <1>23, <1>24, <1>25, <1>26, <1>27, <1>28, <1>29
  DEF Next, ApiStep, InitStep, CloseStep, Inits, Closers

(* Every step leaves a pointer of a closed connection to somebody.           *)
LEMMA PointersStep == NoTransportLeft /\ [Next]_vars => PointersGo'
<1>. SUFFICES ASSUME NoTransportLeft, [Next]_vars PROVE PointersGo'
  OBVIOUS
<1>1. CASE Describe
  BY <1>1, OfTransports
  DEF NoTransportLeft, TypeOK, LocalOfLevel, PointersGo, WillBeTaken, WillBeReset, Level,
      Changed, Describe, Goto, Points, conn, objects, threads, teardown, calls, Threads, Inits,
      Closers, Levels
<1>2. CASE LocalDescribed
  BY <1>2, OfTransports
  DEF NoTransportLeft, TypeOK, LocalOfLevel, PointersGo, WillBeTaken, WillBeReset, Level,
      Changed, LocalDescribed, Goto, Points, conn, objects, threads, teardown, calls, Threads,
      Inits, Closers, Levels
<1>3. CASE RemoteDescribed
  BY <1>3, OfTransports
  DEF NoTransportLeft, TypeOK, LocalOfLevel, PointersGo, WillBeTaken, WillBeReset, Level,
      Changed, RemoteDescribed, Goto, Points, conn, objects, threads, teardown, calls, Threads,
      Inits, Closers, Levels
<1>4. CASE RemoteProcessed
  BY <1>4, OfTransports
  DEF NoTransportLeft, TypeOK, LocalOfLevel, PointersGo, WillBeTaken, WillBeReset, Level,
      Changed, RemoteProcessed, Goto, Points, conn, objects, threads, teardown, calls, Threads,
      Inits, Closers, Levels
<1>5. CASE AppCloses
  BY <1>5, OfTransports
  DEF NoTransportLeft, TypeOK, LocalOfLevel, PointersGo, WillBeTaken, WillBeReset, Level,
      Changed, AppCloses, Goto, Points, conn, objects, threads, teardown, calls, Threads, Inits,
      Closers, Levels
<1>6. CASE AppDestructs
  BY <1>6, OfTransports
  DEF NoTransportLeft, TypeOK, LocalOfLevel, PointersGo, WillBeTaken, WillBeReset, Level,
      Changed, AppDestructs, Goto, Points, conn, objects, threads, teardown, calls, Threads,
      Inits, Closers, Levels
<1>7. CASE JobBegins
  BY <1>7, OfTransports
  DEF NoTransportLeft, TypeOK, LocalOfLevel, PointersGo, WillBeTaken, WillBeReset, Level,
      Changed, JobBegins, Goto, Points, conn, objects, threads, teardown, calls, Threads, Inits,
      Closers, Levels
<1>8. CASE CloseChannels
  BY <1>8, OfTransports
  DEF NoTransportLeft, TypeOK, LocalOfLevel, PointersGo, WillBeTaken, WillBeReset, Level,
      Changed, CloseChannels, Goto, Points, conn, objects, threads, teardown, calls, Threads,
      Inits, Closers, Levels
<1>9. CASE TearDown
  BY <1>9, OfTransports, StopTypes
  DEF NoTransportLeft, TypeOK, LocalOfLevel, PointersGo, WillBeTaken, WillBeReset, Level,
      Changed, TearDown, Goto, Points, conn, objects, threads, teardown, calls, Threads, Inits,
      Closers, Levels
<1>10. ASSUME NEW t \in Inits, Existing(t) PROVE PointersGo'
  BY <1>10, OfTransports
  DEF NoTransportLeft, TypeOK, LocalOfLevel, PointersGo, WillBeTaken, WillBeReset, Level,
      Changed, Existing, Return, Goto, Points, conn, objects, threads, teardown, calls, Threads,
      Inits, Closers, Levels
<1>11. ASSUME NEW t \in Inits, MakeFails(t) PROVE PointersGo'
  BY <1>11, OfTransports
  DEF NoTransportLeft, TypeOK, LocalOfLevel, PointersGo, WillBeTaken, WillBeReset, Level,
      Changed, MakeFails, Return, Goto, Points, conn, objects, threads, teardown, calls, Threads,
      Inits, Closers, Levels
<1>12. ASSUME NEW t \in Inits, Make(t) PROVE PointersGo'
  BY <1>12, OfTransports
  DEF NoTransportLeft, TypeOK, LocalOfLevel, PointersGo, WillBeTaken, WillBeReset, Level,
      Changed, Make, Goto, Points, conn, objects, threads, teardown, calls, Threads, Inits,
      Closers, Levels
<1>13. ASSUME NEW t \in Inits, EmplaceStores(t) PROVE PointersGo'
  BY <1>13, OfTransports
  DEF NoTransportLeft, TypeOK, LocalOfLevel, PointersGo, WillBeTaken, WillBeReset, Level,
      Changed, EmplaceStores, Goto, Points, conn, objects, threads, teardown, calls, Threads,
      Inits, Closers, Levels
<1>14. ASSUME NEW t \in Inits, EmplaceStarts(t) PROVE PointersGo'
  BY <1>14, OfTransports
  DEF NoTransportLeft, TypeOK, LocalOfLevel, PointersGo, WillBeTaken, WillBeReset, Level,
      Changed, EmplaceStarts, Goto, Points, conn, objects, threads, teardown, calls, Threads,
      Inits, Closers, Levels
<1>15. ASSUME NEW t \in Inits, EmplaceFails(t) PROVE PointersGo'
  BY <1>15, OfTransports
  DEF NoTransportLeft, TypeOK, LocalOfLevel, PointersGo, WillBeTaken, WillBeReset, Level,
      Changed, EmplaceFails, Return, Goto, Points, conn, objects, threads, teardown, calls,
      Threads, Inits, Closers, Levels
<1>16. ASSUME NEW t \in Inits, EmplaceKeeps(t) PROVE PointersGo'
  BY <1>16, OfTransports
  DEF NoTransportLeft, TypeOK, LocalOfLevel, PointersGo, WillBeTaken, WillBeReset, Level,
      Changed, EmplaceKeeps, Return, Goto, Points, conn, objects, threads, teardown, calls,
      Threads, Inits, Closers, Levels
<1>17. ASSUME NEW t \in Inits, EmplaceDrops(t) PROVE PointersGo'
  BY <1>17, OfTransports, StopTypes
  DEF NoTransportLeft, TypeOK, LocalOfLevel, PointersGo, WillBeTaken, WillBeReset, Level,
      Changed, EmplaceDrops, Return, Goto, Points, conn, objects, threads, teardown, calls,
      Threads, Inits, Closers, Levels
<1>18. ASSUME NEW t \in Closers, CloseStop(t) PROVE PointersGo'
  BY <1>18, OfTransports, StopTypes
  DEF NoTransportLeft, TypeOK, LocalOfLevel, PointersGo, WillBeTaken, WillBeReset, Level,
      Changed, CloseStop, Goto, Points, conn, objects, threads, teardown, calls, Threads, Inits,
      Closers, Levels
<1>19. ASSUME NEW t \in Closers, RemoteClose(t) PROVE PointersGo'
  BY <1>19, OfTransports
  DEF NoTransportLeft, TypeOK, LocalOfLevel, PointersGo, WillBeTaken, WillBeReset, Level,
      Changed, RemoteClose, Goto, Points, conn, objects, threads, teardown, calls, Threads,
      Inits, Closers, Levels
<1>20. ASSUME NEW t \in Closers, CloseTransports(t) PROVE PointersGo'
  <2>1. CASE state # "Closed"
    <3>1. at'[t] = "sctp"
      BY <1>20, <2>1 DEF CloseTransports, Goto, NoTransportLeft, TypeOK, Threads, Closers
    <3>2. \E c \in Closers : at'[c] = "sctp"
      BY <3>1
    <3>. QED BY <3>2 DEF PointersGo, WillBeTaken, WillBeReset, Closers
  <2>2. CASE state = "Closed"
    BY <1>20, <2>2
    DEF NoTransportLeft, TypeOK, PointersGo, WillBeTaken, WillBeReset, Level, CloseTransports, Goto,
        Threads, Closers
  <2>. QED BY <2>1, <2>2
<1>21. ASSUME NEW t \in Closers, TakePointer(t) PROVE PointersGo'
  BY <1>21, OfTransports
  DEF NoTransportLeft, TypeOK, LocalOfLevel, PointersGo, WillBeTaken, WillBeReset, Level,
      Changed, TakePointer, Goto, Points, conn, objects, threads, teardown, calls, Threads,
      Inits, Closers, Levels
<1>22. ASSUME NEW t \in Closers, TearDownEnqueued(t) PROVE PointersGo'
  BY <1>22, OfTransports
  DEF NoTransportLeft, TypeOK, LocalOfLevel, PointersGo, WillBeTaken, WillBeReset, Level,
      Changed, TearDownEnqueued, Goto, Points, conn, objects, threads, teardown, calls, Threads,
      Inits, Closers, Levels
<1>23. ASSUME NEW x \in Transports, IceConnecting(x) PROVE PointersGo'
  BY <1>23, OfTransports
  DEF NoTransportLeft, TypeOK, LocalOfLevel, PointersGo, WillBeTaken, WillBeReset, Level,
      Changed, IceConnecting, Reaches, Goto, Points, conn, objects, threads, teardown, calls,
      Threads, Inits, Closers, Levels
<1>24. ASSUME NEW x \in Transports, IceConnected(x) PROVE PointersGo'
  BY <1>24, OfTransports
  DEF NoTransportLeft, TypeOK, LocalOfLevel, PointersGo, WillBeTaken, WillBeReset, Level,
      Changed, IceConnected, CallbackInits, Goto, Points, conn, objects, threads, teardown,
      calls, Threads, Inits, Closers, Levels
<1>25. ASSUME NEW x \in Transports, DtlsConnected(x) PROVE PointersGo'
  BY <1>25, OfTransports
  DEF NoTransportLeft, TypeOK, LocalOfLevel, PointersGo, WillBeTaken, WillBeReset, Level,
      Changed, DtlsConnected, Reaches, CallbackInits, Goto, Points, conn, objects, threads,
      teardown, calls, Threads, Inits, Closers, Levels
<1>26. ASSUME NEW x \in Transports, SctpConnected(x) PROVE PointersGo'
  BY <1>26, OfTransports
  DEF NoTransportLeft, TypeOK, LocalOfLevel, PointersGo, WillBeTaken, WillBeReset, Level,
      Changed, SctpConnected, Reaches, Goto, Points, conn, objects, threads, teardown, calls,
      Threads, Inits, Closers, Levels
<1>27. ASSUME NEW x \in Transports, Down(x) PROVE PointersGo'
  BY <1>27, OfTransports
  DEF NoTransportLeft, TypeOK, LocalOfLevel, PointersGo, WillBeTaken, WillBeReset, Level,
      Changed, Down, Reaches, Goto, Points, conn, objects, threads, teardown, calls, Threads,
      Inits, Closers, Levels
<1>28. ASSUME NEW x \in Transports, Destroy(x) PROVE PointersGo'
  BY <1>28, OfTransports
  DEF NoTransportLeft, TypeOK, LocalOfLevel, PointersGo, WillBeTaken, WillBeReset, Level,
      Changed, Destroy, Goto, Points, conn, objects, threads, teardown, calls, Threads, Inits,
      Closers, Levels
<1>29. CASE UNCHANGED vars
  BY <1>29, OfTransports
  DEF NoTransportLeft, TypeOK, LocalOfLevel, PointersGo, WillBeTaken, WillBeReset, Level,
      Changed, vars, Goto, Points, conn, objects, threads, teardown, calls, Threads, Inits,
      Closers, Levels
<1>. QED
  BY <1>1, <1>2, <1>3, <1>4, <1>5, <1>6, <1>7, <1>8, <1>9, <1>10, <1>11, <1>12, <1>13, <1>14,
     <1>15, <1>16, <1>17, <1>18, <1>19, <1>20, <1>21, <1>22, <1>23, <1>24, <1>25, <1>26, <1>27, <1>28, <1>29
  DEF Next, ApiStep, InitStep, CloseStep, Inits, Closers

(* closeTransports() and the threads that start transports leave none behind *)
(* in a closed connection: whatever pointer is still there will be taken or  *)
(* reset by a thread that is about to do it.                                 *)
THEOREM NoTransportLeftCorrect == Spec => []NoTransportLeft
<1>1. NoTransportLeft /\ [Next]_vars => NoTransportLeft'
  BY TypeStep, LocalStep, PointersStep DEF NoTransportLeft
<1>. QED
  BY <1>1, InitNoTransport, PTL DEF Spec

-----------------------------------------------------------------------------
(* Who closes has set closing, and so has who ends in Closed or leaves       *)
(* transports to the TearDownProcessor.                                      *)
ClosingInv ==
    /\ state = "Closed" => closing
    /\ \A t \in Closers : at[t] # "idle" => closing
    /\ taken \union tearing # {} => closing

(* Of a connection nobody closes, and in which every transport was started:  *)
Undisturbed == ~closing /\ anomalies = {}

(* a thread that works on no transport points to none, ...                   *)
LocalCleared ==
    Undisturbed => \A t \in Inits : at[t] \in {"idle", "load", "remote"} => local[t] = Null

(* ... the pointer stored by a thread stays what it has stored, ...          *)
StoredStays ==
    Undisturbed =>
        /\ \A t \in Inits : at[t] \in {"start", "emplaced"} => slot[Level(t)] = local[t]
        /\ at["api"] = "described" => slot["ice"] = local["api"]

(* ... and every transport is stored, or is about to be.                     *)
Held(x) == \/ \E l \in Levels : slot[l] = x
           \/ \E t \in Inits : at[t] = "store" /\ local[t] = x
AllHeld == Undisturbed => \A x \in Transports : Alive(x) => Held(x)

(* The inductive invariant of StoppedOnlyByClose.                            *)
StopIInv == NoTransportLeft /\ ClosingInv /\ LocalCleared /\ StoredStays /\ AllHeld /\ StoppedOnlyByClose

(* stop() neither closes nor reopens the connection.                         *)
LEMMA StopKeepsClosed == ASSUME NEW x, StopEffect(x) PROVE state' = "Closed" => state = "Closed"
BY DEF StopEffect, Changed

(* stop() neither makes nor destroys a transport.                            *)
LEMMA StopKeepsAlive ==
    ASSUME TypeOK, NEW x \in Transports, StopEffect(x)
    PROVE  \A y \in Transports : Alive(y)' <=> Alive(y)
BY DEF StopEffect, TypeOK, Alive

(* Every step keeps that only a closing connection closes.                   *)
LEMMA ClosingStep == TypeOK /\ ClosingInv /\ [Next]_vars => ClosingInv'
<1>. SUFFICES ASSUME TypeOK, ClosingInv, [Next]_vars PROVE ClosingInv'
  OBVIOUS
<1>1. CASE Describe
  BY <1>1
  DEF Describe, TypeOK, ClosingInv, Changed, Goto, Points, conn, objects, threads, teardown,
      calls, Threads, Inits, Closers
<1>2. CASE LocalDescribed
  BY <1>2
  DEF LocalDescribed, TypeOK, ClosingInv, Changed, Goto, Points, conn, objects, threads, teardown,
      calls, Threads, Inits, Closers
<1>3. CASE RemoteDescribed
  BY <1>3
  DEF RemoteDescribed, TypeOK, ClosingInv, Changed, Goto, Points, conn, objects, threads,
      teardown, calls, Threads, Inits, Closers
<1>4. CASE RemoteProcessed
  BY <1>4
  DEF RemoteProcessed, SctpDue, TypeOK, ClosingInv, Changed, Goto, Points, conn, objects, threads,
      teardown, calls, Threads, Inits, Closers
<1>5. CASE AppCloses
  BY <1>5
  DEF AppCloses, TypeOK, ClosingInv, Changed, Goto, Points, conn, objects, threads, teardown,
      calls, Threads, Inits, Closers
<1>6. CASE AppDestructs
  BY <1>6
  DEF AppDestructs, TypeOK, ClosingInv, Changed, Goto, Points, conn, objects, threads, teardown,
      calls, Threads, Inits, Closers
<1>7. CASE JobBegins
  BY <1>7
  DEF JobBegins, TypeOK, ClosingInv, Changed, Goto, Points, conn, objects, threads, teardown,
      calls, Threads, Inits, Closers
<1>8. CASE CloseChannels
  BY <1>8
  DEF CloseChannels, TypeOK, ClosingInv, Changed, Goto, Points, conn, objects, threads, teardown,
      calls, Threads, Inits, Closers
<1>9. CASE TearDown
  BY <1>9, StopKeepsClosed
  DEF TearDown, TypeOK, ClosingInv, Changed, Goto, Points, conn, objects, threads, teardown,
      calls, Threads, Inits, Closers
<1>10. ASSUME NEW t \in Inits, Existing(t) PROVE ClosingInv'
  BY <1>10
  DEF Existing, Return, TypeOK, ClosingInv, Changed, Goto, Points, conn, objects, threads,
      teardown, calls, Threads, Inits, Closers
<1>11. ASSUME NEW t \in Inits, MakeFails(t) PROVE ClosingInv'
  BY <1>11
  DEF MakeFails, Return, Anomaly, TypeOK, ClosingInv, Changed, Goto, Points, conn, objects,
      threads, teardown, calls, Threads, Inits, Closers
<1>12. ASSUME NEW t \in Inits, Make(t) PROVE ClosingInv'
  BY <1>12
  DEF Make, Fresh, TypeOK, ClosingInv, Changed, Goto, Points, conn, objects, threads, teardown,
      calls, Threads, Inits, Closers
<1>13. ASSUME NEW t \in Inits, EmplaceStores(t) PROVE ClosingInv'
  BY <1>13
  DEF EmplaceStores, Anomaly, TypeOK, ClosingInv, Changed, Goto, Points, conn, objects, threads,
      teardown, calls, Threads, Inits, Closers
<1>14. ASSUME NEW t \in Inits, EmplaceStarts(t) PROVE ClosingInv'
  BY <1>14
  DEF EmplaceStarts, TypeOK, ClosingInv, Changed, Goto, Points, conn, objects, threads, teardown,
      calls, Threads, Inits, Closers
<1>15. ASSUME NEW t \in Inits, EmplaceFails(t) PROVE ClosingInv'
  BY <1>15
  DEF EmplaceFails, Return, Anomaly, TypeOK, ClosingInv, Changed, Goto, Points, conn, objects,
      threads, teardown, calls, Threads, Inits, Closers
<1>16. ASSUME NEW t \in Inits, EmplaceKeeps(t) PROVE ClosingInv'
  BY <1>16
  DEF EmplaceKeeps, Return, TypeOK, ClosingInv, Changed, Goto, Points, conn, objects, threads,
      teardown, calls, Threads, Inits, Closers
<1>17. ASSUME NEW t \in Inits, EmplaceDrops(t) PROVE ClosingInv'
  BY <1>17, StopKeepsClosed
  DEF EmplaceDrops, Return, TypeOK, ClosingInv, Changed, Goto, Points, conn, objects, threads,
      teardown, calls, Threads, Inits, Closers
<1>18. ASSUME NEW t \in Closers, CloseStop(t) PROVE ClosingInv'
  BY <1>18, StopKeepsClosed
  DEF CloseStop, TypeOK, ClosingInv, Changed, Goto, Points, conn, objects, threads, teardown,
      calls, Threads, Inits, Closers
<1>19. ASSUME NEW t \in Closers, RemoteClose(t) PROVE ClosingInv'
  BY <1>19
  DEF RemoteClose, TypeOK, ClosingInv, Changed, Goto, Points, conn, objects, threads, teardown,
      calls, Threads, Inits, Closers
<1>20. ASSUME NEW t \in Closers, CloseTransports(t) PROVE ClosingInv'
  BY <1>20
  DEF CloseTransports, TypeOK, ClosingInv, Changed, Goto, Points, conn, objects, threads,
      teardown, calls, Threads, Inits, Closers
<1>21. ASSUME NEW t \in Closers, TakePointer(t) PROVE ClosingInv'
  <2>1. closing /\ closing' = closing
    <3>1. at[t] # "idle"
      BY <1>21 DEF TakePointer, Levels
    <3>. QED BY <1>21, <3>1 DEF TakePointer, ClosingInv, conn
  <2>. QED BY <2>1 DEF ClosingInv
<1>22. ASSUME NEW t \in Closers, TearDownEnqueued(t) PROVE ClosingInv'
  BY <1>22
  DEF TearDownEnqueued, TypeOK, ClosingInv, Changed, Goto, Points, conn, objects, threads,
      teardown, calls, Threads, Inits, Closers
<1>23. ASSUME NEW x \in Transports, IceConnecting(x) PROVE ClosingInv'
  BY <1>23
  DEF IceConnecting, Reaches, TypeOK, ClosingInv, Changed, Goto, Points, conn, objects, threads,
      teardown, calls, Threads, Inits, Closers
<1>24. ASSUME NEW x \in Transports, IceConnected(x) PROVE ClosingInv'
  BY <1>24
  DEF IceConnected, CallbackInits, TypeOK, ClosingInv, Changed, Goto, Points, conn, objects,
      threads, teardown, calls, Threads, Inits, Closers
<1>25. ASSUME NEW x \in Transports, DtlsConnected(x) PROVE ClosingInv'
  BY <1>25
  DEF DtlsConnected, Reaches, CallbackInits, TypeOK, ClosingInv, Changed, Goto, Points, conn,
      objects, threads, teardown, calls, Threads, Inits, Closers
<1>26. ASSUME NEW x \in Transports, SctpConnected(x) PROVE ClosingInv'
  BY <1>26
  DEF SctpConnected, Reaches, TypeOK, ClosingInv, Changed, Goto, Points, conn, objects, threads,
      teardown, calls, Threads, Inits, Closers
<1>27. ASSUME NEW x \in Transports, Down(x) PROVE ClosingInv'
  BY <1>27
  DEF Down, Reaches, TypeOK, ClosingInv, Changed, Goto, Points, conn, objects, threads, teardown,
      calls, Threads, Inits, Closers
<1>28. ASSUME NEW x \in Transports, Destroy(x) PROVE ClosingInv'
  BY <1>28
  DEF Destroy, TypeOK, ClosingInv, Changed, Goto, Points, conn, objects, threads, teardown, calls,
      Threads, Inits, Closers
<1>29. CASE UNCHANGED vars
  BY <1>29
  DEF vars, TypeOK, ClosingInv, Changed, Goto, Points, conn, objects, threads, teardown, calls,
      Threads, Inits, Closers
<1>. QED
  BY <1>1, <1>2, <1>3, <1>4, <1>5, <1>6, <1>7, <1>8, <1>9, <1>10, <1>11, <1>12, <1>13, <1>14,
      <1>15, <1>16, <1>17, <1>18, <1>19, <1>20, <1>21, <1>22, <1>23, <1>24, <1>25, <1>26, <1>27,
      <1>28, <1>29
  DEF Next, ApiStep, InitStep, CloseStep, Inits, Closers

(* Every step keeps the pointers of idle threads cleared.                    *)
LEMMA ClearedStep == TypeOK /\ LocalCleared /\ [Next]_vars => LocalCleared'
<1>. SUFFICES ASSUME TypeOK, LocalCleared, [Next]_vars PROVE LocalCleared'
  OBVIOUS
<1>1. CASE Describe
  BY <1>1
  DEF Describe, TypeOK, LocalCleared, Undisturbed, Goto, Points, conn, objects, threads, teardown,
      calls, Threads, Inits, Closers
<1>2. CASE LocalDescribed
  BY <1>2
  DEF LocalDescribed, TypeOK, LocalCleared, Undisturbed, Goto, Points, conn, objects, threads,
      teardown, calls, Threads, Inits, Closers
<1>3. CASE RemoteDescribed
  BY <1>3
  DEF RemoteDescribed, TypeOK, LocalCleared, Undisturbed, Goto, Points, conn, objects, threads,
      teardown, calls, Threads, Inits, Closers
<1>4. CASE RemoteProcessed
  BY <1>4
  DEF RemoteProcessed, SctpDue, TypeOK, LocalCleared, Undisturbed, Goto, Points, conn, objects,
      threads, teardown, calls, Threads, Inits, Closers
<1>5. CASE AppCloses
  BY <1>5
  DEF AppCloses, TypeOK, LocalCleared, Undisturbed, Goto, Points, conn, objects, threads,
      teardown, calls, Threads, Inits, Closers
<1>6. CASE AppDestructs
  BY <1>6
  DEF AppDestructs, TypeOK, LocalCleared, Undisturbed, Goto, Points, conn, objects, threads,
      teardown, calls, Threads, Inits, Closers
<1>7. CASE JobBegins
  BY <1>7
  DEF JobBegins, TypeOK, LocalCleared, Undisturbed, Goto, Points, conn, objects, threads,
      teardown, calls, Threads, Inits, Closers
<1>8. CASE CloseChannels
  BY <1>8
  DEF CloseChannels, TypeOK, LocalCleared, Undisturbed, Goto, Points, conn, objects, threads,
      teardown, calls, Threads, Inits, Closers
<1>9. CASE TearDown
  BY <1>9
  DEF TearDown, TypeOK, LocalCleared, Undisturbed, Goto, Points, conn, objects, threads, teardown,
      calls, Threads, Inits, Closers
<1>10. ASSUME NEW t \in Inits, Existing(t) PROVE LocalCleared'
  BY <1>10
  DEF Existing, Return, TypeOK, LocalCleared, Undisturbed, Goto, Points, conn, objects, threads,
      teardown, calls, Threads, Inits, Closers
<1>11. ASSUME NEW t \in Inits, MakeFails(t) PROVE LocalCleared'
  BY <1>11
  DEF MakeFails, Return, Anomaly, TypeOK, LocalCleared, Undisturbed, Goto, Points, conn, objects,
      threads, teardown, calls, Threads, Inits, Closers
<1>12. ASSUME NEW t \in Inits, Make(t) PROVE LocalCleared'
  BY <1>12
  DEF Make, Fresh, TypeOK, LocalCleared, Undisturbed, Goto, Points, conn, objects, threads,
      teardown, calls, Threads, Inits, Closers
<1>13. ASSUME NEW t \in Inits, EmplaceStores(t) PROVE LocalCleared'
  BY <1>13
  DEF EmplaceStores, Anomaly, TypeOK, LocalCleared, Undisturbed, Goto, Points, conn, objects,
      threads, teardown, calls, Threads, Inits, Closers
<1>14. ASSUME NEW t \in Inits, EmplaceStarts(t) PROVE LocalCleared'
  BY <1>14
  DEF EmplaceStarts, TypeOK, LocalCleared, Undisturbed, Goto, Points, conn, objects, threads,
      teardown, calls, Threads, Inits, Closers
<1>15. ASSUME NEW t \in Inits, EmplaceFails(t) PROVE LocalCleared'
  BY <1>15
  DEF EmplaceFails, Return, Anomaly, TypeOK, LocalCleared, Undisturbed, Goto, Points, conn,
      objects, threads, teardown, calls, Threads, Inits, Closers
<1>16. ASSUME NEW t \in Inits, EmplaceKeeps(t) PROVE LocalCleared'
  BY <1>16
  DEF EmplaceKeeps, Return, TypeOK, LocalCleared, Undisturbed, Goto, Points, conn, objects,
      threads, teardown, calls, Threads, Inits, Closers
<1>17. ASSUME NEW t \in Inits, EmplaceDrops(t) PROVE LocalCleared'
  BY <1>17
  DEF EmplaceDrops, Return, TypeOK, LocalCleared, Undisturbed, Goto, Points, conn, objects,
      threads, teardown, calls, Threads, Inits, Closers
<1>18. ASSUME NEW t \in Closers, CloseStop(t) PROVE LocalCleared'
  BY <1>18
  DEF CloseStop, TypeOK, LocalCleared, Undisturbed, Goto, Points, conn, objects, threads,
      teardown, calls, Threads, Inits, Closers
<1>19. ASSUME NEW t \in Closers, RemoteClose(t) PROVE LocalCleared'
  BY <1>19
  DEF RemoteClose, TypeOK, LocalCleared, Undisturbed, Goto, Points, conn, objects, threads,
      teardown, calls, Threads, Inits, Closers
<1>20. ASSUME NEW t \in Closers, CloseTransports(t) PROVE LocalCleared'
  BY <1>20
  DEF CloseTransports, TypeOK, LocalCleared, Undisturbed, Goto, Points, conn, objects, threads,
      teardown, calls, Threads, Inits, Closers
<1>21. ASSUME NEW t \in Closers, TakePointer(t) PROVE LocalCleared'
  BY <1>21
  DEF TakePointer, TypeOK, LocalCleared, Undisturbed, Goto, Points, conn, objects, threads,
      teardown, calls, Threads, Inits, Closers
<1>22. ASSUME NEW t \in Closers, TearDownEnqueued(t) PROVE LocalCleared'
  BY <1>22
  DEF TearDownEnqueued, TypeOK, LocalCleared, Undisturbed, Goto, Points, conn, objects, threads,
      teardown, calls, Threads, Inits, Closers
<1>23. ASSUME NEW x \in Transports, IceConnecting(x) PROVE LocalCleared'
  BY <1>23
  DEF IceConnecting, Reaches, TypeOK, LocalCleared, Undisturbed, Goto, Points, conn, objects,
      threads, teardown, calls, Threads, Inits, Closers
<1>24. ASSUME NEW x \in Transports, IceConnected(x) PROVE LocalCleared'
  BY <1>24
  DEF IceConnected, CallbackInits, TypeOK, LocalCleared, Undisturbed, Goto, Points, conn, objects,
      threads, teardown, calls, Threads, Inits, Closers
<1>25. ASSUME NEW x \in Transports, DtlsConnected(x) PROVE LocalCleared'
  BY <1>25
  DEF DtlsConnected, Reaches, CallbackInits, TypeOK, LocalCleared, Undisturbed, Goto, Points,
      conn, objects, threads, teardown, calls, Threads, Inits, Closers
<1>26. ASSUME NEW x \in Transports, SctpConnected(x) PROVE LocalCleared'
  BY <1>26
  DEF SctpConnected, Reaches, TypeOK, LocalCleared, Undisturbed, Goto, Points, conn, objects,
      threads, teardown, calls, Threads, Inits, Closers
<1>27. ASSUME NEW x \in Transports, Down(x) PROVE LocalCleared'
  BY <1>27
  DEF Down, Reaches, TypeOK, LocalCleared, Undisturbed, Goto, Points, conn, objects, threads,
      teardown, calls, Threads, Inits, Closers
<1>28. ASSUME NEW x \in Transports, Destroy(x) PROVE LocalCleared'
  BY <1>28
  DEF Destroy, TypeOK, LocalCleared, Undisturbed, Goto, Points, conn, objects, threads, teardown,
      calls, Threads, Inits, Closers
<1>29. CASE UNCHANGED vars
  BY <1>29
  DEF vars, TypeOK, LocalCleared, Undisturbed, Goto, Points, conn, objects, threads, teardown,
      calls, Threads, Inits, Closers
<1>. QED
  BY <1>1, <1>2, <1>3, <1>4, <1>5, <1>6, <1>7, <1>8, <1>9, <1>10, <1>11, <1>12, <1>13, <1>14,
      <1>15, <1>16, <1>17, <1>18, <1>19, <1>20, <1>21, <1>22, <1>23, <1>24, <1>25, <1>26, <1>27,
      <1>28, <1>29
  DEF Next, ApiStep, InitStep, CloseStep, Inits, Closers

(* Every step keeps the pointers that threads have just stored.              *)
LEMMA StoredStep == NoTransportLeft /\ ClosingInv /\ LocalCleared /\ StoredStays /\ [Next]_vars => StoredStays'
<1>. SUFFICES ASSUME NoTransportLeft, ClosingInv, LocalCleared, StoredStays, [Next]_vars PROVE StoredStays'
  OBVIOUS
<1>1. CASE Describe
  BY <1>1, OfTransports
  DEF Describe, NoTransportLeft, TypeOK, LocalOfLevel, ClosingInv, StoredStays, Undisturbed,
      Level, Levels, Goto, Points, conn, objects, threads, teardown, calls, Threads, Inits,
      Closers
<1>2. CASE LocalDescribed
  BY <1>2, OfTransports
  DEF LocalDescribed, NoTransportLeft, TypeOK, LocalOfLevel, ClosingInv, StoredStays, Undisturbed,
      Level, Levels, Goto, Points, conn, objects, threads, teardown, calls, Threads, Inits,
      Closers
<1>3. CASE RemoteDescribed
  BY <1>3, OfTransports
  DEF RemoteDescribed, NoTransportLeft, TypeOK, LocalOfLevel, ClosingInv, StoredStays,
      Undisturbed, Level, Levels, Goto, Points, conn, objects, threads, teardown, calls, Threads,
      Inits, Closers
<1>4. CASE RemoteProcessed
  BY <1>4, OfTransports
  DEF RemoteProcessed, SctpDue, NoTransportLeft, TypeOK, LocalOfLevel, ClosingInv, StoredStays,
      Undisturbed, Level, Levels, Goto, Points, conn, objects, threads, teardown, calls, Threads,
      Inits, Closers
<1>5. CASE AppCloses
  BY <1>5, OfTransports
  DEF AppCloses, NoTransportLeft, TypeOK, LocalOfLevel, ClosingInv, StoredStays, Undisturbed,
      Level, Levels, Goto, Points, conn, objects, threads, teardown, calls, Threads, Inits,
      Closers
<1>6. CASE AppDestructs
  BY <1>6, OfTransports
  DEF AppDestructs, NoTransportLeft, TypeOK, LocalOfLevel, ClosingInv, StoredStays, Undisturbed,
      Level, Levels, Goto, Points, conn, objects, threads, teardown, calls, Threads, Inits,
      Closers
<1>7. CASE JobBegins
  BY <1>7, OfTransports
  DEF JobBegins, NoTransportLeft, TypeOK, LocalOfLevel, ClosingInv, StoredStays, Undisturbed,
      Level, Levels, Goto, Points, conn, objects, threads, teardown, calls, Threads, Inits,
      Closers
<1>8. CASE CloseChannels
  BY <1>8, OfTransports
  DEF CloseChannels, NoTransportLeft, TypeOK, LocalOfLevel, ClosingInv, StoredStays, Undisturbed,
      Level, Levels, Goto, Points, conn, objects, threads, teardown, calls, Threads, Inits,
      Closers
<1>9. CASE TearDown
  BY <1>9, OfTransports
  DEF TearDown, NoTransportLeft, TypeOK, LocalOfLevel, ClosingInv, StoredStays, Undisturbed,
      Level, Levels, Goto, Points, conn, objects, threads, teardown, calls, Threads, Inits,
      Closers
<1>10. ASSUME NEW t \in Inits, Existing(t) PROVE StoredStays'
  BY <1>10, OfTransports
  DEF Existing, Return, NoTransportLeft, TypeOK, LocalOfLevel, ClosingInv, StoredStays,
      Undisturbed, Level, Levels, Goto, Points, conn, objects, threads, teardown, calls, Threads,
      Inits, Closers
<1>11. ASSUME NEW t \in Inits, MakeFails(t) PROVE StoredStays'
  BY <1>11, OfTransports
  DEF MakeFails, Return, Anomaly, NoTransportLeft, TypeOK, LocalOfLevel, ClosingInv, StoredStays,
      Undisturbed, Level, Levels, Goto, Points, conn, objects, threads, teardown, calls, Threads,
      Inits, Closers
<1>12. ASSUME NEW t \in Inits, Make(t) PROVE StoredStays'
  BY <1>12, OfTransports
  DEF Make, Fresh, NoTransportLeft, TypeOK, LocalOfLevel, ClosingInv, StoredStays, Undisturbed,
      Level, Levels, Goto, Points, conn, objects, threads, teardown, calls, Threads, Inits,
      Closers
<1>13. ASSUME NEW t \in Inits, EmplaceStores(t) PROVE StoredStays'
  BY <1>13, OfTransports
  DEF EmplaceStores, Anomaly, NoTransportLeft, TypeOK, LocalOfLevel, ClosingInv, StoredStays,
      Undisturbed, Level, Levels, Goto, Points, conn, objects, threads, teardown, calls, Threads,
      Inits, Closers
<1>14. ASSUME NEW t \in Inits, EmplaceStarts(t) PROVE StoredStays'
  BY <1>14, OfTransports
  DEF EmplaceStarts, NoTransportLeft, TypeOK, LocalOfLevel, ClosingInv, StoredStays, Undisturbed,
      Level, Levels, Goto, Points, conn, objects, threads, teardown, calls, Threads, Inits,
      Closers
<1>15. ASSUME NEW t \in Inits, EmplaceFails(t) PROVE StoredStays'
  BY <1>15, OfTransports
  DEF EmplaceFails, Return, Anomaly, NoTransportLeft, TypeOK, LocalOfLevel, ClosingInv,
      StoredStays, Undisturbed, Level, Levels, Goto, Points, conn, objects, threads, teardown,
      calls, Threads, Inits, Closers
<1>16. ASSUME NEW t \in Inits, EmplaceKeeps(t) PROVE StoredStays'
  BY <1>16, OfTransports
  DEF EmplaceKeeps, Return, NoTransportLeft, TypeOK, LocalOfLevel, ClosingInv, StoredStays,
      Undisturbed, Level, Levels, Goto, Points, conn, objects, threads, teardown, calls, Threads,
      Inits, Closers
<1>17. ASSUME NEW t \in Inits, EmplaceDrops(t) PROVE StoredStays'
  BY <1>17, OfTransports
  DEF EmplaceDrops, Return, NoTransportLeft, TypeOK, LocalOfLevel, ClosingInv, StoredStays,
      Undisturbed, Level, Levels, Goto, Points, conn, objects, threads, teardown, calls, Threads,
      Inits, Closers
<1>18. ASSUME NEW t \in Closers, CloseStop(t) PROVE StoredStays'
  BY <1>18, OfTransports
  DEF CloseStop, NoTransportLeft, TypeOK, LocalOfLevel, ClosingInv, StoredStays, Undisturbed,
      Level, Levels, Goto, Points, conn, objects, threads, teardown, calls, Threads, Inits,
      Closers
<1>19. ASSUME NEW t \in Closers, RemoteClose(t) PROVE StoredStays'
  BY <1>19, OfTransports
  DEF RemoteClose, NoTransportLeft, TypeOK, LocalOfLevel, ClosingInv, StoredStays, Undisturbed,
      Level, Levels, Goto, Points, conn, objects, threads, teardown, calls, Threads, Inits,
      Closers
<1>20. ASSUME NEW t \in Closers, CloseTransports(t) PROVE StoredStays'
  BY <1>20, OfTransports
  DEF CloseTransports, NoTransportLeft, TypeOK, LocalOfLevel, ClosingInv, StoredStays,
      Undisturbed, Level, Levels, Goto, Points, conn, objects, threads, teardown, calls, Threads,
      Inits, Closers
<1>21. ASSUME NEW t \in Closers, TakePointer(t) PROVE StoredStays'
  BY <1>21, OfTransports
  DEF TakePointer, NoTransportLeft, TypeOK, LocalOfLevel, ClosingInv, StoredStays, Undisturbed,
      Level, Levels, Goto, Points, conn, objects, threads, teardown, calls, Threads, Inits,
      Closers
<1>22. ASSUME NEW t \in Closers, TearDownEnqueued(t) PROVE StoredStays'
  BY <1>22, OfTransports
  DEF TearDownEnqueued, NoTransportLeft, TypeOK, LocalOfLevel, ClosingInv, StoredStays,
      Undisturbed, Level, Levels, Goto, Points, conn, objects, threads, teardown, calls, Threads,
      Inits, Closers
<1>23. ASSUME NEW x \in Transports, IceConnecting(x) PROVE StoredStays'
  BY <1>23, OfTransports
  DEF IceConnecting, Reaches, NoTransportLeft, TypeOK, LocalOfLevel, ClosingInv, StoredStays,
      Undisturbed, Level, Levels, Goto, Points, conn, objects, threads, teardown, calls, Threads,
      Inits, Closers
<1>24. ASSUME NEW x \in Transports, IceConnected(x) PROVE StoredStays'
  BY <1>24, OfTransports
  DEF IceConnected, CallbackInits, NoTransportLeft, TypeOK, LocalOfLevel, ClosingInv, StoredStays,
      Undisturbed, Level, Levels, Goto, Points, conn, objects, threads, teardown, calls, Threads,
      Inits, Closers
<1>25. ASSUME NEW x \in Transports, DtlsConnected(x) PROVE StoredStays'
  BY <1>25, OfTransports
  DEF DtlsConnected, Reaches, CallbackInits, NoTransportLeft, TypeOK, LocalOfLevel, ClosingInv,
      StoredStays, Undisturbed, Level, Levels, Goto, Points, conn, objects, threads, teardown,
      calls, Threads, Inits, Closers
<1>26. ASSUME NEW x \in Transports, SctpConnected(x) PROVE StoredStays'
  BY <1>26, OfTransports
  DEF SctpConnected, Reaches, NoTransportLeft, TypeOK, LocalOfLevel, ClosingInv, StoredStays,
      Undisturbed, Level, Levels, Goto, Points, conn, objects, threads, teardown, calls, Threads,
      Inits, Closers
<1>27. ASSUME NEW x \in Transports, Down(x) PROVE StoredStays'
  BY <1>27, OfTransports
  DEF Down, Reaches, NoTransportLeft, TypeOK, LocalOfLevel, ClosingInv, StoredStays, Undisturbed,
      Level, Levels, Goto, Points, conn, objects, threads, teardown, calls, Threads, Inits,
      Closers
<1>28. ASSUME NEW x \in Transports, Destroy(x) PROVE StoredStays'
  BY <1>28, OfTransports
  DEF Destroy, NoTransportLeft, TypeOK, LocalOfLevel, ClosingInv, StoredStays, Undisturbed, Level,
      Levels, Goto, Points, conn, objects, threads, teardown, calls, Threads, Inits, Closers
<1>29. CASE UNCHANGED vars
  BY <1>29
  DEF vars, NoTransportLeft, TypeOK, LocalOfLevel, ClosingInv, StoredStays, Undisturbed, Level,
      Levels, Goto, Points, conn, objects, threads, teardown, calls, Threads, Inits, Closers
<1>. QED
  BY <1>1, <1>2, <1>3, <1>4, <1>5, <1>6, <1>7, <1>8, <1>9, <1>10, <1>11, <1>12, <1>13, <1>14,
      <1>15, <1>16, <1>17, <1>18, <1>19, <1>20, <1>21, <1>22, <1>23, <1>24, <1>25, <1>26, <1>27,
      <1>28, <1>29
  DEF Next, ApiStep, InitStep, CloseStep, Inits, Closers

(* Every step keeps every transport of an undisturbed connection held.       *)
LEMMA HeldStep == NoTransportLeft /\ ClosingInv /\ LocalCleared /\ StoredStays /\ AllHeld /\ [Next]_vars => AllHeld'
<1>. SUFFICES ASSUME NoTransportLeft, ClosingInv, LocalCleared, StoredStays, AllHeld, [Next]_vars PROVE AllHeld'
  OBVIOUS
<1>1. CASE Describe
  BY <1>1, OfTransports
  DEF Describe, NoTransportLeft, TypeOK, LocalOfLevel, ClosingInv, LocalCleared, StoredStays,
      AllHeld, Held, Alive, Undisturbed, Level, Levels, Goto, Points, conn, objects, threads,
      teardown, calls, Threads, Inits, Closers
<1>2. CASE LocalDescribed
  BY <1>2, OfTransports
  DEF LocalDescribed, NoTransportLeft, TypeOK, LocalOfLevel, ClosingInv, LocalCleared,
      StoredStays, AllHeld, Held, Alive, Undisturbed, Level, Levels, Goto, Points, conn, objects,
      threads, teardown, calls, Threads, Inits, Closers
<1>3. CASE RemoteDescribed
  BY <1>3, OfTransports
  DEF RemoteDescribed, NoTransportLeft, TypeOK, LocalOfLevel, ClosingInv, LocalCleared,
      StoredStays, AllHeld, Held, Alive, Undisturbed, Level, Levels, Goto, Points, conn, objects,
      threads, teardown, calls, Threads, Inits, Closers
<1>4. CASE RemoteProcessed
  BY <1>4, OfTransports
  DEF RemoteProcessed, SctpDue, NoTransportLeft, TypeOK, LocalOfLevel, ClosingInv, LocalCleared,
      StoredStays, AllHeld, Held, Alive, Undisturbed, Level, Levels, Goto, Points, conn, objects,
      threads, teardown, calls, Threads, Inits, Closers
<1>5. CASE AppCloses
  BY <1>5, OfTransports
  DEF AppCloses, NoTransportLeft, TypeOK, LocalOfLevel, ClosingInv, LocalCleared, StoredStays,
      AllHeld, Held, Alive, Undisturbed, Level, Levels, Goto, Points, conn, objects, threads,
      teardown, calls, Threads, Inits, Closers
<1>6. CASE AppDestructs
  BY <1>6, OfTransports
  DEF AppDestructs, NoTransportLeft, TypeOK, LocalOfLevel, ClosingInv, LocalCleared, StoredStays,
      AllHeld, Held, Alive, Undisturbed, Level, Levels, Goto, Points, conn, objects, threads,
      teardown, calls, Threads, Inits, Closers
<1>7. CASE JobBegins
  BY <1>7, OfTransports
  DEF JobBegins, NoTransportLeft, TypeOK, LocalOfLevel, ClosingInv, LocalCleared, StoredStays,
      AllHeld, Held, Alive, Undisturbed, Level, Levels, Goto, Points, conn, objects, threads,
      teardown, calls, Threads, Inits, Closers
<1>8. CASE CloseChannels
  BY <1>8, OfTransports
  DEF CloseChannels, NoTransportLeft, TypeOK, LocalOfLevel, ClosingInv, LocalCleared, StoredStays,
      AllHeld, Held, Alive, Undisturbed, Level, Levels, Goto, Points, conn, objects, threads,
      teardown, calls, Threads, Inits, Closers
<1>9. CASE TearDown
  BY <1>9, OfTransports, StopKeepsAlive
  DEF TearDown, NoTransportLeft, TypeOK, LocalOfLevel, ClosingInv, LocalCleared, StoredStays,
      AllHeld, Held, Alive, Undisturbed, Level, Levels, Goto, Points, conn, objects, threads,
      teardown, calls, Threads, Inits, Closers
<1>10. ASSUME NEW t \in Inits, Existing(t) PROVE AllHeld'
  BY <1>10, OfTransports
  DEF Existing, Return, NoTransportLeft, TypeOK, LocalOfLevel, ClosingInv, LocalCleared,
      StoredStays, AllHeld, Held, Alive, Undisturbed, Level, Levels, Goto, Points, conn, objects,
      threads, teardown, calls, Threads, Inits, Closers
<1>11. ASSUME NEW t \in Inits, MakeFails(t) PROVE AllHeld'
  BY <1>11, OfTransports
  DEF MakeFails, Return, Anomaly, NoTransportLeft, TypeOK, LocalOfLevel, ClosingInv, LocalCleared,
      StoredStays, AllHeld, Held, Alive, Undisturbed, Level, Levels, Goto, Points, conn, objects,
      threads, teardown, calls, Threads, Inits, Closers
<1>12. ASSUME NEW t \in Inits, Make(t) PROVE AllHeld'
  BY <1>12, OfTransports
  DEF Make, Fresh, NoTransportLeft, TypeOK, LocalOfLevel, ClosingInv, LocalCleared, StoredStays,
      AllHeld, Held, Alive, Undisturbed, Level, Levels, Goto, Points, conn, objects, threads,
      teardown, calls, Threads, Inits, Closers
<1>13. ASSUME NEW t \in Inits, EmplaceStores(t) PROVE AllHeld'
  <2>. SUFFICES ASSUME Undisturbed', NEW x \in Transports, Alive(x)' PROVE Held(x)'
    BY DEF AllHeld
  <2>1. Undisturbed /\ slot[Level(t)] = Null /\ Alive(x)
    BY <1>13 DEF EmplaceStores, Anomaly, Undisturbed, Alive, conn, objects
  <2>2. Level(t) \in Levels
    BY DEF NoTransportLeft, TypeOK, Level, Levels, Inits
  <2>3. slot'[Level(t)] = local[t]
    BY <1>13, <2>2 DEF EmplaceStores, NoTransportLeft, TypeOK
  <2>4. CASE \E l \in Levels : slot[l] = x
    <3>1. PICK l \in Levels : slot[l] = x
      BY <2>4
    <3>2. l # Level(t)
      BY <2>1, <3>1, NullAssumption DEF Transports
    <3>3. slot'[l] = x
      BY <1>13, <3>1, <3>2 DEF EmplaceStores, NoTransportLeft, TypeOK
    <3>. QED BY <3>3 DEF Held
  <2>5. CASE \E u \in Inits : at[u] = "store" /\ local[u] = x
    <3>1. PICK u \in Inits : at[u] = "store" /\ local[u] = x
      BY <2>5
    <3>2. CASE u = t
      BY <2>2, <2>3, <3>1, <3>2 DEF Held
    <3>3. CASE u # t
      <4>1. at'[u] = "store" /\ local'[u] = x
        BY <1>13, <3>1, <3>3 DEF EmplaceStores, Goto, NoTransportLeft, TypeOK, Threads, Inits
      <4>. QED BY <4>1 DEF Held
    <3>. QED BY <3>2, <3>3
  <2>. QED BY <2>1, <2>4, <2>5 DEF AllHeld, Held
<1>14. ASSUME NEW t \in Inits, EmplaceStarts(t) PROVE AllHeld'
  BY <1>14, OfTransports
  DEF EmplaceStarts, NoTransportLeft, TypeOK, LocalOfLevel, ClosingInv, LocalCleared, StoredStays,
      AllHeld, Held, Alive, Undisturbed, Level, Levels, Goto, Points, conn, objects, threads,
      teardown, calls, Threads, Inits, Closers
<1>15. ASSUME NEW t \in Inits, EmplaceFails(t) PROVE AllHeld'
  BY <1>15, OfTransports
  DEF EmplaceFails, Return, Anomaly, NoTransportLeft, TypeOK, LocalOfLevel, ClosingInv,
      LocalCleared, StoredStays, AllHeld, Held, Alive, Undisturbed, Level, Levels, Goto, Points,
      conn, objects, threads, teardown, calls, Threads, Inits, Closers
<1>16. ASSUME NEW t \in Inits, EmplaceKeeps(t) PROVE AllHeld'
  BY <1>16, OfTransports
  DEF EmplaceKeeps, Return, NoTransportLeft, TypeOK, LocalOfLevel, ClosingInv, LocalCleared,
      StoredStays, AllHeld, Held, Alive, Undisturbed, Level, Levels, Goto, Points, conn, objects,
      threads, teardown, calls, Threads, Inits, Closers
<1>17. ASSUME NEW t \in Inits, EmplaceDrops(t) PROVE AllHeld'
  BY <1>17, OfTransports, StopKeepsAlive
  DEF EmplaceDrops, Return, NoTransportLeft, TypeOK, LocalOfLevel, ClosingInv, LocalCleared,
      StoredStays, AllHeld, Held, Alive, Undisturbed, Level, Levels, Goto, Points, conn, objects,
      threads, teardown, calls, Threads, Inits, Closers
<1>18. ASSUME NEW t \in Closers, CloseStop(t) PROVE AllHeld'
  BY <1>18, OfTransports, StopKeepsAlive
  DEF CloseStop, NoTransportLeft, TypeOK, LocalOfLevel, ClosingInv, LocalCleared, StoredStays,
      AllHeld, Held, Alive, Undisturbed, Level, Levels, Goto, Points, conn, objects, threads,
      teardown, calls, Threads, Inits, Closers
<1>19. ASSUME NEW t \in Closers, RemoteClose(t) PROVE AllHeld'
  BY <1>19, OfTransports
  DEF RemoteClose, NoTransportLeft, TypeOK, LocalOfLevel, ClosingInv, LocalCleared, StoredStays,
      AllHeld, Held, Alive, Undisturbed, Level, Levels, Goto, Points, conn, objects, threads,
      teardown, calls, Threads, Inits, Closers
<1>20. ASSUME NEW t \in Closers, CloseTransports(t) PROVE AllHeld'
  BY <1>20, OfTransports
  DEF CloseTransports, NoTransportLeft, TypeOK, LocalOfLevel, ClosingInv, LocalCleared,
      StoredStays, AllHeld, Held, Alive, Undisturbed, Level, Levels, Goto, Points, conn, objects,
      threads, teardown, calls, Threads, Inits, Closers
<1>21. ASSUME NEW t \in Closers, TakePointer(t) PROVE AllHeld'
  BY <1>21, OfTransports
  DEF TakePointer, NoTransportLeft, TypeOK, LocalOfLevel, ClosingInv, LocalCleared, StoredStays,
      AllHeld, Held, Alive, Undisturbed, Level, Levels, Goto, Points, conn, objects, threads,
      teardown, calls, Threads, Inits, Closers
<1>22. ASSUME NEW t \in Closers, TearDownEnqueued(t) PROVE AllHeld'
  BY <1>22, OfTransports
  DEF TearDownEnqueued, NoTransportLeft, TypeOK, LocalOfLevel, ClosingInv, LocalCleared,
      StoredStays, AllHeld, Held, Alive, Undisturbed, Level, Levels, Goto, Points, conn, objects,
      threads, teardown, calls, Threads, Inits, Closers
<1>23. ASSUME NEW x \in Transports, IceConnecting(x) PROVE AllHeld'
  BY <1>23, OfTransports
  DEF IceConnecting, Reaches, NoTransportLeft, TypeOK, LocalOfLevel, ClosingInv, LocalCleared,
      StoredStays, AllHeld, Held, Alive, Undisturbed, Level, Levels, Goto, Points, conn, objects,
      threads, teardown, calls, Threads, Inits, Closers
<1>24. ASSUME NEW x \in Transports, IceConnected(x) PROVE AllHeld'
  BY <1>24, OfTransports
  DEF IceConnected, CallbackInits, NoTransportLeft, TypeOK, LocalOfLevel, ClosingInv,
      LocalCleared, StoredStays, AllHeld, Held, Alive, Undisturbed, Level, Levels, Goto, Points,
      conn, objects, threads, teardown, calls, Threads, Inits, Closers
<1>25. ASSUME NEW x \in Transports, DtlsConnected(x) PROVE AllHeld'
  BY <1>25, OfTransports
  DEF DtlsConnected, Reaches, CallbackInits, NoTransportLeft, TypeOK, LocalOfLevel, ClosingInv,
      LocalCleared, StoredStays, AllHeld, Held, Alive, Undisturbed, Level, Levels, Goto, Points,
      conn, objects, threads, teardown, calls, Threads, Inits, Closers
<1>26. ASSUME NEW x \in Transports, SctpConnected(x) PROVE AllHeld'
  BY <1>26, OfTransports
  DEF SctpConnected, Reaches, NoTransportLeft, TypeOK, LocalOfLevel, ClosingInv, LocalCleared,
      StoredStays, AllHeld, Held, Alive, Undisturbed, Level, Levels, Goto, Points, conn, objects,
      threads, teardown, calls, Threads, Inits, Closers
<1>27. ASSUME NEW x \in Transports, Down(x) PROVE AllHeld'
  BY <1>27, OfTransports
  DEF Down, Reaches, NoTransportLeft, TypeOK, LocalOfLevel, ClosingInv, LocalCleared, StoredStays,
      AllHeld, Held, Alive, Undisturbed, Level, Levels, Goto, Points, conn, objects, threads,
      teardown, calls, Threads, Inits, Closers
<1>28. ASSUME NEW x \in Transports, Destroy(x) PROVE AllHeld'
  BY <1>28, OfTransports
  DEF Destroy, Referenced, NoTransportLeft, TypeOK, LocalOfLevel, ClosingInv, LocalCleared, StoredStays,
      AllHeld, Held, Alive, Undisturbed, Level, Levels, Goto, Points, conn, objects, threads,
      teardown, calls, Threads, Inits, Closers
<1>29. CASE UNCHANGED vars
  BY <1>29
  DEF vars, NoTransportLeft, TypeOK, LocalOfLevel, ClosingInv, LocalCleared, StoredStays, AllHeld,
      Held, Alive, Undisturbed, Level, Levels, Goto, Points, conn, objects, threads, teardown,
      calls, Threads, Inits, Closers
<1>. QED
  BY <1>1, <1>2, <1>3, <1>4, <1>5, <1>6, <1>7, <1>8, <1>9, <1>10, <1>11, <1>12, <1>13, <1>14,
      <1>15, <1>16, <1>17, <1>18, <1>19, <1>20, <1>21, <1>22, <1>23, <1>24, <1>25, <1>26, <1>27,
      <1>28, <1>29
  DEF Next, ApiStep, InitStep, CloseStep, Inits, Closers

(* Every step that stops a transport is one of a closing connection: nobody  *)
(* destroys what is held.                                                    *)
LEMMA StoppedStep == NoTransportLeft /\ ClosingInv /\ AllHeld /\ StoppedOnlyByClose /\ [Next]_vars => StoppedOnlyByClose'
<1>. SUFFICES ASSUME NoTransportLeft, ClosingInv, AllHeld, StoppedOnlyByClose, [Next]_vars PROVE StoppedOnlyByClose'
  OBVIOUS
<1>1. CASE Describe
  BY <1>1
  DEF Describe, TypeOK, NoTransportLeft, ClosingInv, AllHeld, Held, Undisturbed,
      StoppedOnlyByClose, Goto, Points, conn, objects, threads, teardown, calls, Threads, Inits,
      Closers
<1>2. CASE LocalDescribed
  BY <1>2
  DEF LocalDescribed, TypeOK, NoTransportLeft, ClosingInv, AllHeld, Held, Undisturbed,
      StoppedOnlyByClose, Goto, Points, conn, objects, threads, teardown, calls, Threads, Inits,
      Closers
<1>3. CASE RemoteDescribed
  BY <1>3
  DEF RemoteDescribed, TypeOK, NoTransportLeft, ClosingInv, AllHeld, Held, Undisturbed,
      StoppedOnlyByClose, Goto, Points, conn, objects, threads, teardown, calls, Threads, Inits,
      Closers
<1>4. CASE RemoteProcessed
  BY <1>4
  DEF RemoteProcessed, SctpDue, TypeOK, NoTransportLeft, ClosingInv, AllHeld, Held, Undisturbed,
      StoppedOnlyByClose, Goto, Points, conn, objects, threads, teardown, calls, Threads, Inits,
      Closers
<1>5. CASE AppCloses
  BY <1>5
  DEF AppCloses, TypeOK, NoTransportLeft, ClosingInv, AllHeld, Held, Undisturbed,
      StoppedOnlyByClose, Goto, Points, conn, objects, threads, teardown, calls, Threads, Inits,
      Closers
<1>6. CASE AppDestructs
  BY <1>6
  DEF AppDestructs, TypeOK, NoTransportLeft, ClosingInv, AllHeld, Held, Undisturbed,
      StoppedOnlyByClose, Goto, Points, conn, objects, threads, teardown, calls, Threads, Inits,
      Closers
<1>7. CASE JobBegins
  BY <1>7
  DEF JobBegins, TypeOK, NoTransportLeft, ClosingInv, AllHeld, Held, Undisturbed,
      StoppedOnlyByClose, Goto, Points, conn, objects, threads, teardown, calls, Threads, Inits,
      Closers
<1>8. CASE CloseChannels
  BY <1>8
  DEF CloseChannels, TypeOK, NoTransportLeft, ClosingInv, AllHeld, Held, Undisturbed,
      StoppedOnlyByClose, Goto, Points, conn, objects, threads, teardown, calls, Threads, Inits,
      Closers
<1>9. CASE TearDown
  BY <1>9
  DEF TearDown, TypeOK, NoTransportLeft, ClosingInv, AllHeld, Held, Undisturbed,
      StoppedOnlyByClose, Goto, Points, conn, objects, threads, teardown, calls, Threads, Inits,
      Closers
<1>10. ASSUME NEW t \in Inits, Existing(t) PROVE StoppedOnlyByClose'
  BY <1>10
  DEF Existing, Return, TypeOK, NoTransportLeft, ClosingInv, AllHeld, Held, Undisturbed,
      StoppedOnlyByClose, Goto, Points, conn, objects, threads, teardown, calls, Threads, Inits,
      Closers
<1>11. ASSUME NEW t \in Inits, MakeFails(t) PROVE StoppedOnlyByClose'
  BY <1>11
  DEF MakeFails, Return, Anomaly, TypeOK, NoTransportLeft, ClosingInv, AllHeld, Held, Undisturbed,
      StoppedOnlyByClose, Goto, Points, conn, objects, threads, teardown, calls, Threads, Inits,
      Closers
<1>12. ASSUME NEW t \in Inits, Make(t) PROVE StoppedOnlyByClose'
  BY <1>12
  DEF Make, Fresh, TypeOK, NoTransportLeft, ClosingInv, AllHeld, Held, Undisturbed,
      StoppedOnlyByClose, Goto, Points, conn, objects, threads, teardown, calls, Threads, Inits,
      Closers
<1>13. ASSUME NEW t \in Inits, EmplaceStores(t) PROVE StoppedOnlyByClose'
  BY <1>13
  DEF EmplaceStores, Anomaly, TypeOK, NoTransportLeft, ClosingInv, AllHeld, Held, Undisturbed,
      StoppedOnlyByClose, Goto, Points, conn, objects, threads, teardown, calls, Threads, Inits,
      Closers
<1>14. ASSUME NEW t \in Inits, EmplaceStarts(t) PROVE StoppedOnlyByClose'
  BY <1>14
  DEF EmplaceStarts, TypeOK, NoTransportLeft, ClosingInv, AllHeld, Held, Undisturbed,
      StoppedOnlyByClose, Goto, Points, conn, objects, threads, teardown, calls, Threads, Inits,
      Closers
<1>15. ASSUME NEW t \in Inits, EmplaceFails(t) PROVE StoppedOnlyByClose'
  BY <1>15
  DEF EmplaceFails, Return, Anomaly, TypeOK, NoTransportLeft, ClosingInv, AllHeld, Held,
      Undisturbed, StoppedOnlyByClose, Goto, Points, conn, objects, threads, teardown, calls,
      Threads, Inits, Closers
<1>16. ASSUME NEW t \in Inits, EmplaceKeeps(t) PROVE StoppedOnlyByClose'
  BY <1>16
  DEF EmplaceKeeps, Return, TypeOK, NoTransportLeft, ClosingInv, AllHeld, Held, Undisturbed,
      StoppedOnlyByClose, Goto, Points, conn, objects, threads, teardown, calls, Threads, Inits,
      Closers
<1>17. ASSUME NEW t \in Inits, EmplaceDrops(t) PROVE StoppedOnlyByClose'
  BY <1>17
  DEF EmplaceDrops, Return, TypeOK, NoTransportLeft, ClosingInv, AllHeld, Held, Undisturbed,
      StoppedOnlyByClose, Goto, Points, conn, objects, threads, teardown, calls, Threads, Inits,
      Closers
<1>18. ASSUME NEW t \in Closers, CloseStop(t) PROVE StoppedOnlyByClose'
  BY <1>18
  DEF CloseStop, TypeOK, NoTransportLeft, ClosingInv, AllHeld, Held, Undisturbed,
      StoppedOnlyByClose, Goto, Points, conn, objects, threads, teardown, calls, Threads, Inits,
      Closers
<1>19. ASSUME NEW t \in Closers, RemoteClose(t) PROVE StoppedOnlyByClose'
  BY <1>19
  DEF RemoteClose, TypeOK, NoTransportLeft, ClosingInv, AllHeld, Held, Undisturbed,
      StoppedOnlyByClose, Goto, Points, conn, objects, threads, teardown, calls, Threads, Inits,
      Closers
<1>20. ASSUME NEW t \in Closers, CloseTransports(t) PROVE StoppedOnlyByClose'
  BY <1>20
  DEF CloseTransports, TypeOK, NoTransportLeft, ClosingInv, AllHeld, Held, Undisturbed,
      StoppedOnlyByClose, Goto, Points, conn, objects, threads, teardown, calls, Threads, Inits,
      Closers
<1>21. ASSUME NEW t \in Closers, TakePointer(t) PROVE StoppedOnlyByClose'
  BY <1>21
  DEF TakePointer, TypeOK, NoTransportLeft, ClosingInv, AllHeld, Held, Undisturbed,
      StoppedOnlyByClose, Goto, Points, conn, objects, threads, teardown, calls, Threads, Inits,
      Closers
<1>22. ASSUME NEW t \in Closers, TearDownEnqueued(t) PROVE StoppedOnlyByClose'
  BY <1>22
  DEF TearDownEnqueued, TypeOK, NoTransportLeft, ClosingInv, AllHeld, Held, Undisturbed,
      StoppedOnlyByClose, Goto, Points, conn, objects, threads, teardown, calls, Threads, Inits,
      Closers
<1>23. ASSUME NEW x \in Transports, IceConnecting(x) PROVE StoppedOnlyByClose'
  BY <1>23
  DEF IceConnecting, Reaches, TypeOK, NoTransportLeft, ClosingInv, AllHeld, Held, Undisturbed,
      StoppedOnlyByClose, Goto, Points, conn, objects, threads, teardown, calls, Threads, Inits,
      Closers
<1>24. ASSUME NEW x \in Transports, IceConnected(x) PROVE StoppedOnlyByClose'
  BY <1>24
  DEF IceConnected, CallbackInits, TypeOK, NoTransportLeft, ClosingInv, AllHeld, Held,
      Undisturbed, StoppedOnlyByClose, Goto, Points, conn, objects, threads, teardown, calls,
      Threads, Inits, Closers
<1>25. ASSUME NEW x \in Transports, DtlsConnected(x) PROVE StoppedOnlyByClose'
  BY <1>25
  DEF DtlsConnected, Reaches, CallbackInits, TypeOK, NoTransportLeft, ClosingInv, AllHeld, Held,
      Undisturbed, StoppedOnlyByClose, Goto, Points, conn, objects, threads, teardown, calls,
      Threads, Inits, Closers
<1>26. ASSUME NEW x \in Transports, SctpConnected(x) PROVE StoppedOnlyByClose'
  BY <1>26
  DEF SctpConnected, Reaches, TypeOK, NoTransportLeft, ClosingInv, AllHeld, Held, Undisturbed,
      StoppedOnlyByClose, Goto, Points, conn, objects, threads, teardown, calls, Threads, Inits,
      Closers
<1>27. ASSUME NEW x \in Transports, Down(x) PROVE StoppedOnlyByClose'
  BY <1>27
  DEF Down, Reaches, TypeOK, NoTransportLeft, ClosingInv, AllHeld, Held, Undisturbed,
      StoppedOnlyByClose, Goto, Points, conn, objects, threads, teardown, calls, Threads, Inits,
      Closers
<1>28. ASSUME NEW x \in Transports, Destroy(x) PROVE StoppedOnlyByClose'
  BY <1>28
  DEF Destroy, Referenced, TypeOK, NoTransportLeft, ClosingInv, AllHeld, Held, Undisturbed,
      StoppedOnlyByClose, Goto, Points, conn, objects, threads, teardown, calls, Threads, Inits,
      Closers
<1>29. CASE UNCHANGED vars
  BY <1>29
  DEF vars, TypeOK, NoTransportLeft, ClosingInv, AllHeld, Held, Undisturbed, StoppedOnlyByClose,
      Goto, Points, conn, objects, threads, teardown, calls, Threads, Inits, Closers
<1>. QED
  BY <1>1, <1>2, <1>3, <1>4, <1>5, <1>6, <1>7, <1>8, <1>9, <1>10, <1>11, <1>12, <1>13, <1>14,
      <1>15, <1>16, <1>17, <1>18, <1>19, <1>20, <1>21, <1>22, <1>23, <1>24, <1>25, <1>26, <1>27,
      <1>28, <1>29
  DEF Next, ApiStep, InitStep, CloseStep, Inits, Closers

(* The invariant holds in the beginning.                                     *)
LEMMA InitStopInv == Init => StopIInv
<1>. SUFFICES ASSUME Init PROVE StopIInv
  OBVIOUS
<1>1. ClosingInv /\ StoppedOnlyByClose
  BY DEF Init, ClosingInv, StoppedOnlyByClose, Closers, Threads
<1>2. LocalCleared /\ StoredStays /\ AllHeld
  BY DEF Init, LocalCleared, StoredStays, AllHeld, Alive, Inits, Threads
<1>. QED BY <1>1, <1>2, InitNoTransport DEF StopIInv

(* Whatever the threads, the network and the application do, no transport is *)
(* stopped in a connection that nobody closes, unless one could not be       *)
(* started or two threads started one of the same level: the destructor of a *)
(* transport, which stops the one below it, never runs before.               *)
THEOREM StoppedOnlyByCloseCorrect == Spec => []StoppedOnlyByClose
<1>1. StopIInv /\ [Next]_vars => StopIInv'
  <2>1. NoTransportLeft /\ [Next]_vars => NoTransportLeft'
    BY TypeStep, LocalStep, PointersStep DEF NoTransportLeft
  <2>. QED
    BY <2>1, ClosingStep, ClearedStep, StoredStep, HeldStep, StoppedStep DEF StopIInv, NoTransportLeft
<1>2. StopIInv => StoppedOnlyByClose
  BY DEF StopIInv
<1>. QED BY <1>1, <1>2, InitStopInv, PTL DEF Spec
=============================================================================
