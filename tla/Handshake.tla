----------------------------- MODULE Handshake -----------------------------
(***************************************************************************)
(* WsHandshake and the HTTP parser: the request and the response that open   *)
(* a WebSocket, read from a byte stream that TCP segments at will and in     *)
(* which frames may follow at once.  The other side may also be an HTTP      *)
(* client or server that is not one of this library.  A token of the stream  *)
(* is a line without its end, the end of a line, or a frame.                *)
(***************************************************************************)
EXTENDS Naturals, Sequences, FiniteSets, SequencesExt

CONSTANTS ClientFrames, ServerFrames   \* frames that each side sends behind its handshake

ASSUME HandshakeAssumption == ClientFrames \in Nat /\ ServerFrames \in Nat

VARIABLES
    hsClient,       \* the client's handshake: [state, key, protocols, buffer]
    hsServer,       \* the server's: [state, key, path, protocols, buffer]
    toServer,       \* tokens on their way
    toClient,
    request,        \* ghost: what the request says
    answered        \* ghost: the status of the response, 0 before it

handshakeVars == <<hsClient, hsServer, toServer, toClient, request, answered>>

Newline == [kind |-> "nl", name |-> "", value |-> 0]
Line(name, value) == [kind |-> "line", name |-> name, value |-> value]
Frame(n) == [kind |-> "frame", name |-> "", value |-> n]

\* Lines as they are sent, and the empty line that ends them.
HttpText(lines) == FlattenSeq([i \in DOMAIN lines |-> <<lines[i], Newline>>]) \o <<Newline>>
FramesOf(n) == [i \in 1 .. n |-> Frame(i)]
--------------------------------------------------------------------------
(* http.cpp                                                                 *)

\* Where the empty line is, or zero: an end of line at the beginning or behind
\* another.
EmptyLine(buffer) ==
    LET ends == {i \in DOMAIN buffer : buffer[i].kind = "nl" /\ (i = 1 \/ buffer[i - 1].kind = "nl")}
    IN IF ends = {} THEN 0 ELSE CHOOSE i \in ends : \A j \in ends : i <= j

\* A bug: all of the buffer belongs to the lines.
Mut_HttpLength(buffer) == IF EmptyLine(buffer) = 0 THEN 0 ELSE Len(buffer)

\* parseHttpLines(): zero as long as the empty line is not there, else the length
\* up to it.
HttpLength(buffer) == EmptyLine(buffer)

HttpLines(buffer) == SelectSeq(SubSeq(buffer, 1, EmptyLine(buffer)), LAMBDA t : t.kind = "line")

\* parseHttpHeaders() of the lines behind the first.
Headers(buffer) == LET lines == Tail(HttpLines(buffer)) IN [n \in {lines[i].name : i \in DOMAIN lines} |->
                       (CHOOSE l \in Range(lines) : l.name = n).value]

\* isHttpRequest(): what is there so far looks like a method.
IsHttpRequest(buffer) == buffer = <<>> \/ buffer[1].kind = "line"
--------------------------------------------------------------------------
(* WsHandshake                                                              *)

\* generateHttpRequest() with a key of its own for each connection.
HttpRequest(r) ==
    HttpText(<< Line(r.method, r.path) >>
             \o (IF r.host THEN << Line("host", 0) >> ELSE <<>>)
             \o (IF r.upgrade # 0 THEN << Line("upgrade", r.upgrade) >> ELSE <<>>)
             \o (IF r.key # 0 THEN << Line("sec-websocket-key", r.key) >> ELSE <<>>)
             \o (IF r.protocols # 0 THEN << Line("sec-websocket-protocol", r.protocols) >> ELSE <<>>))

WebSocketUpgrade == 1  \* the value "websocket", in any case

\* computeAcceptKey(): different for different keys.
AcceptKey(key) == 100 + key

\* generateHttpResponse() and generateHttpError(): an error has a body, which
\* follows the empty line.
HttpResponse(code, upgrade, accept) ==
    HttpText(<< Line("status", code) >>
             \o (IF upgrade # 0 THEN << Line("upgrade", upgrade) >> ELSE <<>>)
             \o (IF accept # 0 THEN << Line("sec-websocket-accept", accept) >> ELSE <<>>))
HttpError(code) == HttpResponse(code, 0, 0) \o << Line("body", code) >>

\* parseHttpRequest() of a complete request: the status it is answered with.
RequestStatus(buffer) ==
    LET h == Headers(buffer) IN
    IF HttpLines(buffer)[1].name # "GET" THEN 405
    ELSE IF "host" \notin DOMAIN h THEN 400
    ELSE IF "upgrade" \notin DOMAIN h THEN 426
    ELSE IF h["upgrade"] # WebSocketUpgrade THEN 426
    ELSE IF "sec-websocket-key" \notin DOMAIN h THEN 400
    ELSE 101

\* parseHttpResponse() of a complete response.  The protocol is not looked at.
ResponseFits(buffer, key) ==
    LET h == Headers(buffer) IN
    /\ HttpLines(buffer)[1].value = 101
    /\ "upgrade" \in DOMAIN h /\ h["upgrade"] = WebSocketUpgrade
    /\ "sec-websocket-accept" \in DOMAIN h /\ h["sec-websocket-accept"] = AcceptKey(key)
--------------------------------------------------------------------------
(* The two sides                                                            *)

\* The request of this library, and those of other clients, which may send what
\* is not HTTP at all.
Requests ==
    [method : {"GET", "POST"}, path : {1}, host : BOOLEAN, upgrade : {0, 1, 2}, key : {0, 5}, protocols : {0, 3},
     raw : BOOLEAN]

\* WsTransport::start() of a client; a client of another kind.
Connect ==
    /\ hsClient.state = "idle"
    /\ \E r \in Requests, own \in BOOLEAN :
        /\ own => r.method = "GET" /\ r.host /\ r.upgrade = WebSocketUpgrade /\ r.key # 0 /\ ~r.raw
        /\ hsClient' = [hsClient EXCEPT !.state = "connecting", !.key = r.key, !.protocols = r.protocols, !.own = own]
        /\ toServer' = (IF r.raw THEN <<>> ELSE HttpRequest(r)) \o FramesOf(ClientFrames)
        /\ request' = r
    /\ UNCHANGED <<hsServer, toClient, answered>>

\* incoming() of the server with the next n tokens.
ServerIncoming(n) ==
    /\ hsServer.state = "connecting" /\ n <= Len(toServer)
    /\ toServer' = SubSeq(toServer, n + 1, Len(toServer))
    /\ LET buffer == hsServer.buffer \o SubSeq(toServer, 1, n)
           len == HttpLength(buffer)
           refuse(code) == /\ hsServer' = [hsServer EXCEPT !.state = "failed", !.buffer = buffer]
                           /\ toClient' = toClient \o HttpError(code) /\ answered' = code
       IN IF ~IsHttpRequest(buffer) THEN refuse(400)
          ELSE IF len = 0 THEN hsServer' = [hsServer EXCEPT !.buffer = buffer] /\ UNCHANGED <<toClient, answered>>
          ELSE IF HttpLines(buffer) = <<>> THEN refuse(400)
          ELSE IF RequestStatus(buffer) # 101 THEN refuse(RequestStatus(buffer))
          ELSE LET h == Headers(buffer) IN
               /\ hsServer' = [hsServer EXCEPT !.state = "connected", !.path = HttpLines(buffer)[1].value,
                                 !.key = h["sec-websocket-key"],
                                 !.protocols = IF "sec-websocket-protocol" \in DOMAIN h THEN h["sec-websocket-protocol"] ELSE @,
                                 !.buffer = SubSeq(buffer, len + 1, Len(buffer))]
               /\ toClient' = toClient \o HttpResponse(101, WebSocketUpgrade, AcceptKey(h["sec-websocket-key"]))
                                       \o FramesOf(ServerFrames)
               /\ answered' = 101
    /\ UNCHANGED <<hsClient, request>>

\* Tokens that arrive later are frames; WsTransport cuts them out of the buffer.
MoreToServer ==
    /\ hsServer.state = "connected" /\ toServer # <<>>
    /\ hsServer' = [hsServer EXCEPT !.buffer = @ \o toServer] /\ toServer' = <<>>
    /\ UNCHANGED <<hsClient, toClient, request, answered>>

\* A server of another kind answers.
OtherServer ==
    /\ hsServer.state = "connecting" /\ hsServer.buffer = <<>> /\ hsClient.state = "connecting" /\ hsClient.own
    /\ \E code \in {101, 200}, upgrade \in {0, 1, 2}, accept \in {0, AcceptKey(hsClient.key), AcceptKey(9)} :
        /\ toClient' = HttpResponse(code, upgrade, accept) \o FramesOf(ServerFrames)
        /\ answered' = IF code = 101 /\ upgrade = 1 /\ accept = AcceptKey(hsClient.key) THEN 101 ELSE 200
    /\ hsServer' = [hsServer EXCEPT !.state = "other"] /\ toServer' = <<>>
    /\ UNCHANGED <<hsClient, request>>

\* incoming() of the client of this library.
ClientIncoming(n) ==
    /\ hsClient.state = "connecting" /\ hsClient.own /\ n <= Len(toClient)
    /\ toClient' = SubSeq(toClient, n + 1, Len(toClient))
    /\ LET buffer == hsClient.buffer \o SubSeq(toClient, 1, n)
           len == HttpLength(buffer)
       IN hsClient' =
            IF len = 0 THEN [hsClient EXCEPT !.buffer = buffer]
            ELSE IF HttpLines(buffer) # <<>> /\ ResponseFits(buffer, hsClient.key)
              THEN [hsClient EXCEPT !.state = "connected", !.buffer = SubSeq(buffer, len + 1, Len(buffer))]
            ELSE [hsClient EXCEPT !.state = "failed", !.buffer = buffer]
    /\ UNCHANGED <<hsServer, toServer, request, answered>>

HandshakeInit ==
    /\ hsClient = [state |-> "idle", own |-> FALSE, key |-> 0, protocols |-> 0, buffer |-> <<>>]
    /\ hsServer = [state |-> "connecting", key |-> 0, path |-> 0, protocols |-> 0, buffer |-> <<>>]
    /\ toServer = <<>> /\ toClient = <<>> /\ answered = 0
    /\ request = [method |-> "GET", path |-> 0, host |-> TRUE, upgrade |-> 0, key |-> 0, protocols |-> 0, raw |-> FALSE]

HandshakeNext ==
    \/ Connect \/ MoreToServer \/ OtherServer
    \/ \E n \in 1 .. 5 : ServerIncoming(n) \/ ClientIncoming(n)

HandshakeSpec == HandshakeInit /\ [][HandshakeNext]_handshakeVars
--------------------------------------------------------------------------
\* A client that is connected was answered with its own key, and if the server
\* is of this library then that is connected too and knows the path, the key and
\* the protocols of the request.
OpenMeansAgreed ==
    hsClient.state = "connected" =>
        /\ answered = 101
        /\ hsServer.state = "connected" =>
             hsServer.key = hsClient.key /\ hsServer.path = request.path /\ hsServer.protocols = hsClient.protocols

\* However the stream is segmented, what is in the buffer of a side that is
\* connected are the frames the other has sent, from the first on.
FramesKept ==
    /\ hsServer.state = "connected" => hsServer.buffer \o toServer = FramesOf(ClientFrames)
    /\ hsClient.state = "connected" => hsClient.buffer \o toClient = FramesOf(ServerFrames)

\* A request is refused with the status for what is wrong with it, the first in
\* the order of method, host, upgrade and key; and a request that has all of them
\* is never refused.
StatusFits ==
    hsServer.state = "failed" =>
        LET r == request IN
        answered = IF r.raw THEN 400 ELSE IF r.method # "GET" THEN 405 ELSE IF ~r.host THEN 400
                   ELSE IF r.upgrade # WebSocketUpgrade THEN 426 ELSE IF r.key = 0 THEN 400 ELSE 101

\* Both sides of the handshake, over segments of any size: who is open agrees with
\* the other, no byte behind the head is lost, and refusals say why.
HandshakeInv == OpenMeansAgreed /\ FramesKept /\ StatusFits
============================================================================
