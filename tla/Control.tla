------------------------------- MODULE Control -------------------------------
(***************************************************************************)
(* The control client: HTTP upgrade, Noise records and HTTP/2 nested in a  *)
(* TCP stream (core/src/transport.rs, noise.rs, h2.rs), the calls made     *)
(* over it (control/mod.rs of the dongle, ts_control.rs of the fetch       *)
(* firmware, register_inner of the browser node) and the loop of main()    *)
(* that makes them.  The sync and the async variants are the same code.    *)
(*                                                                         *)
(* The server is external.  It cuts its answers into DATA frames, the      *)
(* frames into Noise records and the records into TCP segments where it    *)
(* likes, and sends DATA only while both flow-control windows allow it.    *)
(* A controlbase header (3 bytes), an HTTP/2 header (9), the early-payload *)
(* header (9) and the end of the upgrade response are two atoms each, the  *)
(* length prefix of a body (4 bytes) is Prefix atoms, and a DATA byte is   *)
(* one atom.                                                               *)
(***************************************************************************)
EXTENDS Netmap

CONSTANTS
    StartOps,       \* the first call of the program
    Netmaps,        \* the netmaps the server may hold: acl and peers
    StreamWindow,   \* flow-control credit of a stream (16384) ...
    ConnWindow,     \* ... and of the connection (65535)
    MaxFrame,       \* DATA bytes in a frame (16384)
    Prefix,         \* length prefix of some response bodies (4)
    HeadMax,        \* bytes of an upgrade response (8192)
    ScanTries,      \* chunks stream_map() looks at (4)
    AccMax, AccKeep,\* ts_control: the scan buffer is cut when it exceeds AccMax (12288, 4096)
    Nonces,         \* record counters are kept modulo this (2^64)
    Ahead,          \* bound: atoms the server runs ahead of the client
    Extras          \* bound: frames without a meaning for the call, and errors

ASSUME ControlAssumption ==
    /\ {StreamWindow, ConnWindow, MaxFrame, Prefix, HeadMax, ScanTries, AccKeep, Nonces} \subseteq Nat \ {0}
    /\ AccMax \in Nat /\ AccKeep =< AccMax /\ Ahead \in Nat /\ Extras \in Nat
    /\ AccKeep >= 2        \* what a cut leaves has room for the start of an address
    /\ \A m \in Netmaps :
          /\ m.acl.present \in BOOLEAN
          /\ \A r \in Range(m.acl.rules) : r.src \subseteq Patterns /\ r.dst \subseteq Patterns

VARIABLES
    op,     \* the call being made
    net,    \* bytes sent by the server and not yet read from the socket
    rxc,    \* Conn.rx
    rxh,    \* H2.rx
    nonce,  \* Transport.rx_nonce
    cl,     \* the client: stage, call of the op, and what the call has so far
    srv     \* the server

vars == <<op, net, rxc, rxh, nonce, cl, srv>>
wire == <<net, rxc, rxh, nonce>>

-----------------------------------------------------------------------------
\* Frames on the wire.
UpgradeEnd == <<"u2">>
Response(code) == <<<<"u1", code>>, UpgradeEnd>>
BaseFrame(typ, payload) == <<<<"c1", typ>>, <<"c2", Len(payload)>>>> \o payload

\* seal_record: the ciphertext bytes belong to one nonce.
Record(n, plain) == BaseFrame("record", [k \in DOMAIN plain |-> <<"x", n, plain[k]>>])

\* frame: type, the one flag that is looked at (END_STREAM or ACK), stream.
H2Frame(typ, flag, sid, payload) ==
    <<<<"h1", Len(payload), typ>>, <<"h2", flag, sid>>>> \o payload
EarlyPayload(json) == <<<<"e1">>, <<"e2", Len(json)>>>> \o json

Drop(s, n) == SubSeq(s, n + 1, Len(s))

\* Conn::read_frame: header, then as many bytes as it says.
BaseReady == Len(rxc) >= 2 /\ Len(rxc) >= 2 + rxc[2][2]
BaseType == rxc[1][2]
BasePayload == SubSeq(rxc, 3, 2 + rxc[2][2])
AfterBase == Drop(rxc, 2 + rxc[2][2])

IsEarly == rxh[1][1] = "e1"
EarlyJson == SubSeq(rxh, 3, 2 + rxh[2][2])

\* H2::read_frame
ReadFrame ==
    [len |-> 2 + rxh[1][2], typ |-> rxh[1][3], flag |-> rxh[2][2], sid |-> rxh[2][3],
     payload |-> SubSeq(rxh, 3, 2 + rxh[1][2])]

\* read_exact of the header and of what it announces is satisfied.
PlainReady ==
    /\ Len(rxh) >= 2
    /\ IF cl.stage = "early" /\ IsEarly THEN Len(rxh) >= 2 + rxh[2][2]
       ELSE cl.stage # "early" => Len(rxh) >= 2 + rxh[1][2]

\* decode_status on a header block: the indexed 200 and a literal name are
\* understood, another index is skipped, anything else ends the search; 0 is
\* None.
DecodeStatus(block) ==
    LET known == {k \in DOMAIN block : block[k][2] # "other"}
        readable == {k \in known : 1 .. k \subseteq known}
        found == {k \in readable : block[k][2] \in {"index200", "literal"}}
    IN  IF found = {} THEN 0 ELSE block[Min(found)][3]

\* strip_wire_prefix, and the test in H2Body::read
HasPrefix(body) ==
    Len(body) > Prefix /\ body[1] # B("open") /\ body[Prefix + 1] = B("open")
StripUnchecked(body) == IF Len(body) > Prefix THEN Drop(body, Prefix) ELSE body
StripWirePrefix(body) == IF HasPrefix(body) THEN Drop(body, Prefix) ELSE body

-----------------------------------------------------------------------------
\* The calls.  A "json" request is read to its end, a "chunks" request feeds
\* the streaming JSON parser and a "data" request is a long poll.
Requests(o) ==
    CASE o = "fetch_peers"   -> <<"chunks">>
      [] o = "stream_map"    -> <<"data">>
      [] o = "session"       -> <<"json", "data">>
      [] o = "register_once" -> <<"json", "json">>
      [] OTHER               -> <<"json">>        \* register, fetch_map, update_endpoints
AsksMap(o, k) == o \in {"fetch_peers", "stream_map", "fetch_map", "update_endpoints"} \/ k = 2
Reader == Requests(op)[cl.call]

NoIp == <<>>
Fresh(stage) ==
    [stage |-> stage, call |-> 1, status |-> 0, body |-> <<>>, ip |-> NoIp,
     stripped |-> FALSE, chunks |-> 0, auth |-> FALSE,
     netmap |-> {}, peers |-> <<>>, allowed |-> NoFilter]
Ended == {"done", "failed", "timeout"}
InH2 == cl.stage \in {"early", "settings", "read", "hold"}

\* What the server answers, without its length prefix.
MapBody == <<B("open")>> \o AddressField \o <<B("close")>>
RegisterBody(auth) == <<B("open"), B(IF auth THEN "auth" ELSE "noauth"), B("close")>>
Answer(o, k, held) == IF AsksMap(o, k) THEN MapBody ELSE RegisterBody(held.auth)

\* The length prefix that some bodies have.
PrefixBytes(held) == IF held.prefixed THEN [k \in 1 .. Prefix |-> B("len")] ELSE <<>>

\* What the answer depends on.  A length prefix is tried with maps, header
\* blocks where the status is what the call returns.
Blocks == {<<<<"s", "index200", 200>>>>, <<<<"s", "index", 404>>>>,
           <<<<"s", "index", 404>>, <<"s", "literal", 404>>>>,
           <<<<"s", "other", 403>>, <<"s", "literal", 403>>>>}
NoHoldings == [auth |-> FALSE, prefixed |-> FALSE, block |-> <<>>]
Holdings(o, k) ==
    [auth : IF AsksMap(o, k) THEN {FALSE} ELSE BOOLEAN,
     prefixed : IF AsksMap(o, k) /\ o # "update_endpoints" THEN BOOLEAN ELSE {FALSE},
     block : IF o = "update_endpoints" THEN Blocks ELSE {CHOOSE b \in Blocks : TRUE}]
Styles == {"data", "empty", "trailers", "open"}

\* register() parses the answer, the async callers search it for the bytes.
Authorized(body) ==
    /\ B("auth") \in Range(body)
    /\ op = "register" => body[1] = B("open")

-----------------------------------------------------------------------------
\* The server's greeting on a new connection: the upgrade (the browser's
\* WebSocket has done that) and the Noise response, or what goes wrong.
Greetings(o) == IF o = "register_once" THEN {"ok", "error"} ELSE {"ok", "error", "refused", "big"}
GreetingBytes(o, g) ==
    LET up == IF o = "register_once" THEN <<>> ELSE Response(101)
    IN  CASE g = "ok"      -> up \o BaseFrame("response", <<B("noise")>>)
          [] g = "error"   -> up \o BaseFrame("error", <<B("text")>>)
          [] g = "refused" -> Response(403)
          [] OTHER         -> [k \in 1 .. HeadMax + 1 |-> <<"u1", 0>>]

NewServer(early, greeting) ==
    [held |-> NoHoldings, phase |-> "idle", todo |-> <<>>, style |-> "data",
     pend |-> IF greeting # "ok" THEN <<>>
              ELSE (IF early THEN EarlyPayload(<<B("open")>> \o AddressField) ELSE <<>>)
                   \o H2Frame("settings", FALSE, 0, <<>>),
     sealed |-> 0, swin |-> 0, cwin |-> ConnWindow, unacked |-> 1, extras |-> 0, split |-> {}]

\* A fresh TCP connection for the call o.
Connect(o, early, greeting) ==
    /\ op' = o
    /\ net' = GreetingBytes(o, greeting)
    /\ rxc' = <<>> /\ rxh' = <<>> /\ nonce' = 0
    /\ cl' = Fresh(IF o = "register_once" THEN "handshake" ELSE "upgrade")
    /\ srv' = NewServer(early, greeting)

Init ==
    /\ op \in StartOps
    /\ \E g \in Greetings(op), early \in BOOLEAN :
          net = GreetingBytes(op, g) /\ srv = NewServer(early, g)
    /\ rxc = <<>> /\ rxh = <<>> /\ nonce = 0
    /\ cl = Fresh(IF op = "register_once" THEN "handshake" ELSE "upgrade")

HeadEnds == {k \in DOMAIN rxc : rxc[k] = UpgradeEnd}

\* The client waits in a read of the socket.
Waiting ==
    \/ cl.stage = "upgrade" /\ HeadEnds = {} /\ Len(rxc) =< HeadMax
    \/ cl.stage = "handshake" /\ ~BaseReady
    \/ InH2 /\ ~PlainReady /\ ~BaseReady

-----------------------------------------------------------------------------
\* The server (external).  What it sends while the client computes is there at
\* the next read, so it is enough that it moves while the client waits.

Sid == 2 * cl.call - 1

\* The frame joins the plaintext that waits, and a record takes all of it, all
\* but a byte, or a single byte; what is left waits for the next record.
Send(frame, s) ==
    LET plain == srv.pend \o frame
        cuts == IF frame = <<>> THEN {Len(plain)} ELSE {1, Len(plain) - 1, Len(plain)}
    IN  /\ Waiting /\ Len(net) < Ahead
        /\ \E k \in cuts :
              /\ net' = net \o Record(srv.sealed, SubSeq(plain, 1, k))
              /\ srv' = [s EXCEPT !.pend = Drop(plain, k), !.sealed = (@ + 1) % Nonces]
        /\ UNCHANGED <<op, rxc, rxh, nonce, cl>>

Flush == srv.pend # <<>> /\ Send(<<>>, srv)

SendHeaders ==
    /\ srv.phase = "headers"
    /\ Send(H2Frame("headers", FALSE, Sid, srv.held.block), [srv EXCEPT !.phase = "data"])

\* split records where a DATA frame ends inside the prefix or the address.
SendData(n) ==
    LET last == n = Len(srv.todo)
        inAddress == \E k \in 1 .. 4 : IsPrefix(SubSeq(AddressField, k + 1, 6), Drop(srv.todo, n))
        inPrefix == srv.todo[1] = B("len") /\ n =< Prefix
    IN  /\ srv.phase = "data"
        /\ n \in 1 .. Min({Len(srv.todo), MaxFrame, srv.swin, srv.cwin})
        /\ Send(H2Frame("data", last /\ srv.style = "data", Sid, SubSeq(srv.todo, 1, n)),
                [srv EXCEPT
                   !.todo = Drop(@, n),
                   !.swin = @ - n, !.cwin = @ - n,
                   !.split = @ \cup (IF inAddress THEN {"address"} ELSE {})
                               \cup (IF inPrefix THEN {"prefix"} ELSE {}),
                   !.phase = IF ~last THEN "data"
                             ELSE IF srv.style \in {"data", "open"} THEN "over" ELSE "end"])

\* The end of the stream in a frame of its own.
SendEnd ==
    /\ srv.phase = "end"
    /\ Send(H2Frame(IF srv.style = "empty" THEN "data" ELSE "headers", TRUE, Sid, <<>>),
            [srv EXCEPT !.phase = "over"])

\* SETTINGS, PING and the like, GOAWAY, at any time.
SendExtra(typ) ==
    /\ srv.extras < Extras /\ srv.pend = <<>>
    /\ Send(H2Frame(typ, FALSE, 0, <<>>),
            [srv EXCEPT !.extras = @ + 1, !.unacked = IF typ = "settings" THEN @ + 1 ELSE @])

\* A controlbase error frame between two records.
SendError ==
    /\ srv.extras < Extras /\ srv.pend = <<>> /\ Waiting /\ Len(net) < Ahead
    /\ srv' = [srv EXCEPT !.extras = @ + 1]
    /\ net' = net \o BaseFrame("error", <<B("text")>>)
    /\ UNCHANGED <<op, rxc, rxh, nonce, cl>>

Server ==
    \/ Flush \/ SendHeaders \/ SendEnd \/ SendError
    \/ \E n \in 1 .. MaxFrame : SendData(n)
    \/ \E typ \in {"settings", "ping", "goaway"} : SendExtra(typ)

-----------------------------------------------------------------------------
\* Reading the socket.

\* What a frame still needs, once its header is there.
Enough(n) ==
    LET rx == rxc \o SubSeq(net, 1, n)
    IN  IF cl.stage = "upgrade" THEN n > 0 ELSE Len(rx) >= 2 /\ Len(rx) >= 2 + rx[2][2]

\* fill_to, and the read loop of connect_and_upgrade: reads until there is
\* enough; the last read may bring more than that.
Fill(n) ==
    /\ Waiting
    /\ Enough(n)
    /\ n = Len(net) \/ ~Enough(n - 1)
    /\ rxc' = rxc \o SubSeq(net, 1, n)
    /\ net' = Drop(net, n)
    /\ UNCHANGED <<op, rxh, nonce, cl, srv>>

\* A failed call; register_inner takes a failed map request for "no address".
Fails(how) == cl' = [cl EXCEPT !.stage = IF op = "register_once" /\ cl.call = 2 THEN "done" ELSE how]

\* The read timeout of the socket, with nothing more to come.
Timeout ==
    /\ Waiting /\ ~Enough(Len(net)) /\ srv.pend = <<>>
    /\ \/ srv.phase \in {"idle", "over"}
       \/ srv.phase = "data" /\ (srv.swin = 0 \/ srv.cwin = 0)
    /\ Fails("timeout")
    /\ UNCHANGED <<op, wire, srv>>

\* The connection breaks: read() returns 0 or an error.
Closed ==
    /\ Waiting /\ srv.extras < Extras /\ ~Enough(Len(net))
    /\ Fails("failed")
    /\ srv' = [srv EXCEPT !.extras = @ + 1]
    /\ UNCHANGED <<op, wire>>

\* connect_and_upgrade: the bytes past the header are kept.
Upgrade ==
    /\ cl.stage = "upgrade" /\ ~Waiting
    /\ IF HeadEnds # {} /\ rxc[1] = <<"u1", 101>>
       THEN /\ rxc' = Drop(rxc, Min(HeadEnds))
            /\ cl' = [cl EXCEPT !.stage = "handshake"]
       ELSE rxc' = rxc /\ Fails("failed")
    /\ UNCHANGED <<op, net, rxh, nonce, srv>>

\* handshake, Handshake::complete: both counters start at 0.
Handshake ==
    /\ cl.stage = "handshake" /\ BaseReady
    /\ rxc' = AfterBase
    /\ nonce' = 0
    /\ IF BaseType = "response" THEN cl' = [cl EXCEPT !.stage = "early"] ELSE Fails("failed")
    /\ UNCHANGED <<op, net, rxh, srv>>

\* pull, open_record: the counter moves whether or not the record opens.
Pull ==
    /\ InH2 /\ ~PlainReady /\ BaseReady
    /\ rxc' = AfterBase
    /\ IF BaseType # "record" THEN Fails("failed") /\ UNCHANGED <<rxh, nonce>>
       ELSE /\ nonce' = (nonce + 1) % Nonces
            /\ IF \A k \in DOMAIN BasePayload : BasePayload[k][2] = nonce
               THEN /\ rxh' = rxh \o [k \in DOMAIN BasePayload |-> BasePayload[k][3]]
                    /\ UNCHANGED cl
               ELSE Fails("failed") /\ UNCHANGED rxh
    /\ UNCHANGED <<op, net, srv>>

-----------------------------------------------------------------------------
\* HTTP/2.

\* consume_early_payload; the async callers look for an address in it.
ConsumeEarly ==
    /\ cl.stage = "early" /\ PlainReady
    /\ rxh' = IF IsEarly THEN Drop(rxh, 2 + rxh[2][2]) ELSE rxh
    /\ cl' = [cl EXCEPT !.stage = "settings",
                        !.ip = IF IsEarly /\ op \in {"session", "register_once"}
                               THEN ScanTailscaleIp(EarlyJson) ELSE @]
    /\ UNCHANGED <<op, net, rxc, nonce, srv>>

Acked(f) == IF f.typ = "settings" /\ ~f.flag THEN [srv EXCEPT !.unacked = @ - 1] ELSE srv

\* window_update, to the stream and to the connection
StreamUpdateOnly(n) == [srv EXCEPT !.swin = @ + n]
WindowUpdate(n) == [srv EXCEPT !.swin = @ + n, !.cwin = @ + n]

\* H2::start: the frames up to the server's SETTINGS.
StartSettings ==
    /\ cl.stage = "settings" /\ PlainReady
    /\ rxh' = Drop(rxh, ReadFrame.len)
    /\ CASE ReadFrame.typ = "settings" -> cl' = [cl EXCEPT !.stage = "post"]
         [] ReadFrame.typ = "goaway"   -> Fails("failed")
         [] OTHER                      -> UNCHANGED cl
    /\ srv' = Acked(ReadFrame)
    /\ UNCHANGED <<op, net, rxc, nonce>>

\* post_json, post_stream: a fresh stream; the server decides how its answer
\* ends.
Post(style, held) ==
    /\ cl.stage = "post"
    /\ style = "open" => Reader = "data"
    /\ cl' = [cl EXCEPT !.stage = "read", !.body = <<>>, !.status = 0]
    /\ srv' = [srv EXCEPT !.phase = "headers", !.style = style, !.held = held,
                          !.swin = StreamWindow, !.split = {},
                          !.todo = PrefixBytes(held) \o Answer(op, cl.call, held)]
    /\ UNCHANGED <<op, wire>>

\* What each call does with a whole answer.
Answered(c, body) ==
    CASE op = "register" -> [c EXCEPT !.stage = "done", !.body = body, !.auth = Authorized(body)]
      [] op = "session"  -> [c EXCEPT !.stage = "post", !.call = 2, !.auth = Authorized(body)]
      [] op = "register_once" /\ c.call = 1 ->
            [c EXCEPT !.auth = Authorized(body),
                      !.stage = IF Authorized(body) /\ c.ip = NoIp THEN "post" ELSE "done",
                      !.call = IF Authorized(body) /\ c.ip = NoIp THEN 2 ELSE 1,
                      !.body = body]
      [] op = "update_endpoints" -> [c EXCEPT !.stage = "done", !.body = body]
      [] OTHER -> [c EXCEPT !.stage = "done", !.body = body, !.ip = ScanTailscaleIp(body)]

Mine(f) == f.sid \in {Sid, 0}

\* read_response
ReadResponse ==
    /\ cl.stage = "read" /\ Reader = "json" /\ PlainReady
    /\ rxh' = Drop(rxh, ReadFrame.len)
    /\ LET f == ReadFrame
           body == IF f.typ = "data" THEN cl.body \o f.payload ELSE cl.body
           status == IF f.typ = "headers" /\ DecodeStatus(f.payload) # 0
                     THEN DecodeStatus(f.payload) ELSE cl.status
           next == [cl EXCEPT !.body = body, !.status = status]
       IN  /\ CASE ~Mine(f)          -> UNCHANGED cl
                [] f.typ = "goaway"  -> Fails("failed")
                [] f.typ \in {"headers", "data"} /\ f.flag ->
                       cl' = Answered(next, StripWirePrefix(body))
                [] OTHER             -> cl' = next
           /\ srv' = IF Mine(f) /\ f.typ = "data" THEN WindowUpdate(Len(f.payload)) ELSE Acked(f)
    /\ UNCHANGED <<op, net, rxc, nonce>>

\* The JSON parser has read everything, and this is the netmap: the result of
\* fetch_peers.
Parsed(c, m) ==
    IF c.body # <<>> /\ Last(c.body) = B("close")
    THEN [c EXCEPT !.stage = "done", !.netmap = {m},
                   !.allowed = AllowedSrcs(m.acl, c.ip),
                   !.peers = ParsePeers(m.peers)]
    ELSE [c EXCEPT !.stage = "failed"]

\* read_response_chunk and H2Body::read under the parser, which stops at the
\* first byte that is not JSON.
ReadChunk(m) ==
    /\ cl.stage = "read" /\ Reader = "chunks" /\ PlainReady
    /\ rxh' = Drop(rxh, ReadFrame.len)
    /\ LET f == ReadFrame
           chunk == IF cl.stripped THEN f.payload ELSE StripWirePrefix(f.payload)
           next == [cl EXCEPT !.body = @ \o chunk, !.stripped = TRUE,
                              !.ip = IF @ = NoIp THEN ScanTailscaleIp(f.payload) ELSE @]
       IN  /\ CASE ~Mine(f)         -> UNCHANGED cl
                [] f.typ = "goaway" -> Fails("failed")
                [] f.typ = "data" /\ f.payload # <<>> ->
                       cl' = IF next.body[1] # B("open") THEN [next EXCEPT !.stage = "failed"]
                             ELSE IF f.flag THEN Parsed(next, m) ELSE next
                [] f.typ \in {"headers", "data"} /\ f.payload = <<>> /\ f.flag -> cl' = Parsed(cl, m)
                [] OTHER            -> UNCHANGED cl
           /\ srv' = IF Mine(f) /\ f.typ = "data" THEN WindowUpdate(Len(f.payload)) ELSE Acked(f)
    /\ UNCHANGED <<op, net, rxc, nonce>>

\* stream_map on a chunk: after ScanTries chunks, or with the address, it
\* returns and main() posts the status.
MapChunk(c, chunk) ==
    [c EXCEPT !.chunks = @ + 1, !.ip = ScanTailscaleIp(chunk),
              !.stage = IF ScanTailscaleIp(chunk) # NoIp \/ c.chunks + 1 = ScanTries THEN "hold" ELSE "read"]

\* run_control_session on a chunk: the scan buffer is cut from the front.
SessionChunkDropsAll(c, chunk) ==
    LET acc == c.body \o chunk
    IN  IF c.ip # NoIp THEN c
        ELSE IF ScanTailscaleIp(acc) # NoIp
             THEN [c EXCEPT !.ip = ScanTailscaleIp(acc), !.body = <<>>]
             ELSE [c EXCEPT !.body = IF Len(acc) > AccMax THEN <<>> ELSE acc]
SessionChunk(c, chunk) ==
    LET acc == c.body \o chunk
        cut == IF Len(acc) > AccMax THEN Drop(acc, Len(acc) - AccKeep) ELSE acc
    IN  IF c.ip # NoIp THEN c
        ELSE IF ScanTailscaleIp(acc) # NoIp
             THEN [c EXCEPT !.ip = ScanTailscaleIp(acc), !.body = <<>>]
             ELSE [c EXCEPT !.body = cut]

Chunk(c, chunk) ==
    IF op = "session" THEN SessionChunk(c, chunk)
    ELSE IF c.stage = "hold" THEN c ELSE MapChunk(c, chunk)

\* read_data: the long poll.  With a payload the END_STREAM flag is not
\* looked at, and HEADERS count for every stream.
ReadData ==
    /\ cl.stage \in {"read", "hold"} /\ Reader = "data" /\ PlainReady
    /\ rxh' = Drop(rxh, ReadFrame.len)
    /\ LET f == ReadFrame
       IN  /\ CASE f.typ = "data" /\ f.sid = Sid /\ f.payload # <<>> -> cl' = Chunk(cl, f.payload)
                [] f.typ = "data" /\ f.sid = Sid /\ f.payload = <<>> /\ f.flag -> Fails("failed")
                [] f.typ = "headers" /\ f.flag                       -> Fails("failed")
                [] f.typ = "goaway"                                  -> Fails("failed")
                [] OTHER                                             -> UNCHANGED cl
           /\ srv' = IF f.typ = "data" /\ f.sid = Sid THEN WindowUpdate(Len(f.payload)) ELSE Acked(f)
    /\ UNCHANGED <<op, net, rxc, nonce>>

-----------------------------------------------------------------------------
\* main(): register until authorised, fetch the netmap once, then hold the map
\* stream open; the other programs start their call again.
NextOp ==
    CASE op = "register"    -> IF cl.auth THEN "fetch_peers" ELSE "register"
      [] op = "fetch_peers" -> "stream_map"
      [] OTHER              -> op

Return ==
    /\ cl.stage \in Ended
    /\ \E early \in BOOLEAN, g \in Greetings(NextOp) : Connect(NextOp, early, g)

Client ==
    \/ \E n \in 1 .. Len(net) : Fill(n)
    \/ Upgrade \/ Handshake \/ Pull \/ ConsumeEarly \/ StartSettings
    \/ \E style \in Styles, held \in Holdings(op, cl.call) : Post(style, held)
    \/ ReadResponse \/ ReadData
    \/ \E m \in Netmaps : ReadChunk(m)
    \/ Return

Next == Client \/ Server \/ Timeout \/ Closed

Spec == Init /\ [][Next]_vars

-----------------------------------------------------------------------------
\* Properties.

\* Whatever way the server cuts its answer into frames, records and segments,
\* a call has read a prefix of that answer, and the whole of it when it ends
\* well.  (H2Body strips the length prefix only when it is in one DATA frame
\* with the first byte of the JSON.)  A status that is reported is the one the
\* server sent.
BodyIsResponse ==
    LET whole == Answer(op, cl.call, srv.held)
        sent == PrefixBytes(srv.held) \o whole
    IN  /\ cl.stage = "read" /\ Reader = "json" => IsPrefix(cl.body, sent)
        /\ cl.stage = "read" /\ Reader = "chunks" => IsPrefix(cl.body, whole)
        /\ cl.stage = "done" /\ cl.call = 1 => cl.body = whole
        /\ cl.stage = "failed" /\ Reader = "chunks" /\ "prefix" \notin srv.split => IsPrefix(cl.body, whole)
        /\ cl.status # 0 => \E k \in DOMAIN srv.held.block : srv.held.block[k][3] = cl.status

\* The address a call takes is the node's own, from whatever chunk it is
\* found in, unless a DATA frame ends inside its text; a call that reads its
\* answer to the end has it, and so does the session once it has read
\* everything, however often its scan buffer was cut.
AddressIsOwn ==
    /\ cl.ip \in {NoIp, OwnText} \/ (Reader # "json" /\ "address" \in srv.split)
    /\ cl.stage = "done" /\ AsksMap(op, 1) /\ op # "update_endpoints" /\ "address" \notin srv.split
          => cl.ip = OwnText
    /\ op = "session" /\ Reader = "data" /\ cl.stage = "read" /\ srv.phase = "over"
          /\ srv.pend \o net \o rxc \o rxh = <<>>
          => cl.ip # NoIp

\* The filter fetch_peers hands to the data plane lets a source through
\* exactly when some rule of the netmap that covers the node names it, unless
\* a DATA frame ended inside the address.
FilterIsAcl ==
    cl.stage = "done" /\ op = "fetch_peers" /\ "address" \notin srv.split =>
        \A src \in Addrs : \A m \in cl.netmap : SrcAllowed(cl.allowed, src) <=> AclAllows(m.acl, src)

\* No call waits for a server that waits for the client: when a read times out
\* the server has said everything, and only the long poll is left waiting, with
\* every SETTINGS answered.
NoStall ==
    cl.stage = "timeout" => srv.phase = "over" /\ Reader = "data" /\ srv.unacked = 0

=============================================================================
