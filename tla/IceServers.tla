----------------------------- MODULE IceServers -----------------------------
(***************************************************************************)
(* Which of the configured STUN and TURN servers an ICE transport uses:     *)
(* IceServer reads URLs, the constructor of IceTransport picks one STUN     *)
(* server and adds TURN servers, and gatherLocalCandidates() adds those it  *)
(* is given, in random order each time.  Under libjuice TURN is UDP only    *)
(* and limited in number; under libnice names are resolved first.           *)
(***************************************************************************)
EXTENDS Naturals, Sequences, FiniteSets, SequencesExt, FiniteSetsExt

CONSTANTS
    MaxTurnServers,   \* MAX_TURN_SERVERS_COUNT
    MaxServers        \* bounds the servers of the configuration, and those added

ASSUME ServersAssumption == MaxTurnServers \in Nat /\ MaxServers \in Nat

VARIABLES
    iceLibrary,       \* "juice" or "nice"
    configured,       \* config.iceServers
    additional,       \* additionalIceServers
    stunServer,       \* the STUN server of the agent, or NoServer
    turnServers,      \* the TURN servers of the agent, in order
    serversPhase      \* "new", "constructed", "gathering"

serverVars == <<iceLibrary, configured, additional, stunServer, turnServers, serversPhase>>

Schemes == {"", "stun", "turn", "turns"}
Urls == [scheme : Schemes, transport : {"", "udp", "tcp", "tls"}, port : {0, 99}]

\* The port of an URL that has none is that of the relay type.
UrlPort(u, relay) == IF u.port # 0 THEN u.port ELSE IF relay = "tls" THEN 5349 ELSE 3478

\* IceServer::IceServer(url): the query overrides the scheme.
FromUrl(u) ==
    LET relay == IF u.transport # "" THEN u.transport ELSE IF u.scheme = "turns" THEN "tls" ELSE "udp"
    IN [type |-> IF u.scheme \in {"", "stun"} THEN "stun" ELSE "turn", relay |-> relay, port |-> UrlPort(u, relay),
        named |-> TRUE, resolves |-> TRUE, url |-> u]

NoUrl == [scheme |-> "none", transport |-> "", port |-> 0]

\* The other constructors: a server may lack a name or a port, and its name may
\* not resolve.
Given(type, relay, named, resolves) ==
    [type |-> type, relay |-> relay, port |-> 0, named |-> named, resolves |-> resolves, url |-> NoUrl]

NoServer == Given("none", "udp", FALSE, FALSE)

Servers ==
    {FromUrl(u) : u \in {x \in Urls : x.port = 0 /\ x.transport \in {"", "tls"}}}
    \cup {Given(t, r, TRUE, v) : t \in {"stun", "turn"}, r \in {"udp", "tls"}, v \in BOOLEAN}
    \cup {Given(t, "udp", FALSE, TRUE) : t \in {"stun", "turn"}}

\* Up to MaxServers of them.
ServerSets == UNION {kSubset(k, Servers) : k \in 0 .. MaxServers}
--------------------------------------------------------------------------
WithPort(s) == [s EXCEPT !.port = IF @ # 0 THEN @ ELSE IF s.type = "turn" /\ s.relay = "tls" THEN 5349 ELSE 3478]

\* A bug: a server that cannot be used counts.
Mut_AddIceServer(turns, s) ==
    IF ~s.named \/ s.type # "turn" \/ (iceLibrary = "juice" /\ Len(turns) >= MaxTurnServers) THEN turns
    ELSE IF iceLibrary = "juice" /\ s.relay # "udp" THEN Append(turns, NoServer)
    ELSE Append(turns, WithPort(s))

\* addIceServer(), which both builds have, after its checks.
AddIceServer(turns, s) ==
    IF ~s.named \/ s.type # "turn" THEN turns
    ELSE IF iceLibrary = "juice"
      THEN IF s.relay # "udp" \/ Len(turns) >= MaxTurnServers THEN turns ELSE Append(turns, WithPort(s))
      ELSE IF ~s.resolves THEN turns ELSE Append(turns, WithPort(s))

\* A STUN server that the constructor can take: under libnice the next is tried
\* when a name does not resolve.
StunUsable(s, servers) == s.named /\ s.type = "stun" /\ (iceLibrary = "nice" => s.resolves)

PickStun(servers) ==
    LET usable == SelectSeq(servers, LAMBDA s : StunUsable(s, servers)) IN
    IF usable = <<>> THEN NoServer ELSE WithPort(Head(usable))

\* The constructor: the servers in any order.
Construct ==
    /\ serversPhase = "new" /\ serversPhase' = "constructed"
    /\ \E order \in SetToSeqs(configured) :
        stunServer' = PickStun(order) /\ turnServers' = FoldLeft(AddIceServer, <<>>, order)
    /\ UNCHANGED <<iceLibrary, configured, additional>>

\* gatherLocalCandidates() with servers of its own.
GatherWith ==
    /\ serversPhase = "constructed" /\ serversPhase' = "gathering"
    /\ \E extra \in ServerSets :
        /\ \E order \in SetToSeqs(extra) : turnServers' = FoldLeft(AddIceServer, turnServers, order)
        /\ additional' = extra
    /\ UNCHANGED <<iceLibrary, configured, stunServer>>

ServersInit ==
    /\ iceLibrary \in {"juice", "nice"} /\ configured \in ServerSets
    /\ additional = {} /\ stunServer = NoServer /\ turnServers = <<>> /\ serversPhase = "new"

ServersNext == Construct \/ GatherWith
ServersSpec == ServersInit /\ [][ServersNext]_serverVars
--------------------------------------------------------------------------
TurnUsable(s) ==
    s.named /\ s.type = "turn" /\ IF iceLibrary = "juice" THEN s.relay = "udp" ELSE s.resolves

\* Whatever the order, the agent has every TURN server that it can use, up to
\* the limit: one that it cannot use takes nobody's place.
TurnServersUsed ==
    LET usable == Cardinality({s \in configured : TurnUsable(s)}) + Cardinality({s \in additional : TurnUsable(s)})
    IN serversPhase # "new" =>
         /\ Len(turnServers) = IF iceLibrary = "juice" /\ usable > MaxTurnServers THEN MaxTurnServers ELSE usable
         /\ \A i \in DOMAIN turnServers : TurnUsable(turnServers[i])

\* The agent has a STUN server whenever one of the configuration can be used.
StunServerUsed ==
    serversPhase # "new" =>
        (stunServer = NoServer <=> ~\E s \in configured : s.named /\ s.type = "stun" /\ (iceLibrary = "nice" => s.resolves))

\* A server without port gets the same one whether it was given as an URL or
\* not.  STUN servers with a transport of TLS in their URL are the exception.
DefaultPortsAgree ==
    \A s \in Range(turnServers) \cup {stunServer} :
        s # NoServer /\ (s.url = NoUrl \/ s.url.port = 0) /\ ~(s.type = "stun" /\ s.relay = "tls") =>
            s.port = WithPort([s EXCEPT !.port = 0]).port

\* Of the configured servers the agent has all that it can use, in any order, with
\* the port the rules give them.
ServersInv == TurnServersUsed /\ StunServerUsed /\ DefaultPortsAgree
=============================================================================
