-------------------------------- MODULE Relay --------------------------------
(***************************************************************************)
(* Peers that reach a node over a DERP relay.  The node is the dongle      *)
(* (serve in src/derp.rs: a table of MAX_PEERS tunnels, each with its own  *)
(* TcpServer) or the browser node (derp_inner in tailscale-wasm: a list of *)
(* MAX_TUNS tunnels that share one TcpServer).                             *)
(*                                                                         *)
(* A key stands for the session of one WireGuard handshake and for the     *)
(* index the node gave it; <<p, n>> is the n-th key of peer p.  The        *)
(* TcpServer, which has a module of its own, is the client whose response  *)
(* is not acknowledged yet, or Nobody.                                     *)
(***************************************************************************)
EXTENDS DerpStream, FiniteSets, FiniteSetsExt

CONSTANTS
    Peers, Nobody,
    MAX_PEERS, MAX_UPGRADED,    \* of the dongle
    MAX_TUNS,                   \* of the browser node (6)
    Cases,                      \* the circumstances to consider
    KeyMax, QueueMax            \* bounds: keys of a peer in use, units unread

\* Circumstances: the node, the peers that want an answer, the peers in the
\* packet filter, the peers of the network map, the peers that start one more
\* handshake, and bounds on lost packets, closed connections, other frames and
\* connections that a TcpServer gives up.
Case == [node : {"dongle", "browser"}, users : SUBSET Peers,
         allowed : SUBSET Peers, known : SUBSET Peers,
         knockers : SUBSET Peers, losses : Nat, closes : Nat, noise : Nat,
         giveUps : Nat]

ASSUME RelayAssumption ==
    /\ {MAX_PEERS, MAX_UPGRADED, MAX_TUNS, KeyMax, QueueMax} \subseteq Nat \ {0}
    /\ Nobody \notin Peers /\ Cases \subseteq Case
    /\ \A c \in Cases : c.users \subseteq c.allowed

VARIABLES
    case,       \* the circumstances, with what is left of the bounds
    phase,      \* "down", "upgrade", "key", "serve"; "over" in the browser
    stream,     \* the connection to the relay
    peers,      \* dongle: peers of serve()
    upgraded,   \* dongle: peers a direct path was tried for
    targets,    \* data plane: endpoints handed over for each peer
    heard,      \* peers of the map whose packets serve() has read (history)
    tuns,       \* browser: NodeState.tuns
    tcp,        \* browser: NodeState.tcp
    active,     \* browser: NodeState.active (0 is None)
    hs, sess,   \* peer: key of its handshake and of its session (0 is none)
    want,       \* peer: whether it still wants its answer
    down        \* packets of the node that the relay holds for each peer

nodeVars == <<peers, upgraded, targets, heard, tuns, tcp, active>>
peerVars == <<hs, sess, want>>
vars == <<case, phase, stream, nodeVars, peerVars, down>>

Key == Peers \X (1 .. KeyMax)

Init ==
    /\ case \in Cases
    /\ phase = "down" /\ stream = NoStream
    /\ peers = <<>> /\ upgraded = {} /\ heard = {}
    /\ targets = [p \in Peers |-> {}]
    /\ tuns = <<>> /\ tcp = Nobody /\ active = 0
    /\ hs = [p \in Peers |-> 0] /\ sess = [p \in Peers |-> 0]
    /\ want = [p \in Peers |-> p \in case.users]
    /\ down = [p \in Peers |-> <<>>]

-----------------------------------------------------------------------------
\* Packets and frames; a payload takes one piece.

Control(type, len) == [type |-> type, len |-> len]
Recv(p, pkt) == [type |-> "recv", len |-> 1, src |-> p, pkt |-> pkt]

Initiation(k) == [msg |-> "init", key |-> k]
Response(k) == [msg |-> "resp", key |-> k]
Data(k, body) == [msg |-> "data", key |-> k, body |-> body, client |-> Nobody]
Segment(k, client) == [Data(k, "seg") EXCEPT !.client = client]
Disco(what) == [msg |-> "disco", what |-> what]

InStream(p) ==
    {u.frame.pkt : u \in {v \in ToSet(stream.units) :
                             v.frame.type = "recv" /\ v.frame.src = p}}

Quiet(p) == down[p] = <<>> /\ InStream(p) = {}

\* Keys of p somebody still has.
UsedKeys(p) ==
    {hs[p], sess[p]}
    \cup {m.key[2] : m \in {x \in InStream(p) \cup ToSet(down[p]) : x.msg # "disco"}}
    \cup {peers[q].key[2] : q \in DOMAIN peers \cap {p}}
    \cup {tuns[i].key[2] : i \in {j \in DOMAIN tuns : tuns[j].peer = p}}

FreshKey(p) == CHOOSE n \in 1 .. KeyMax : n \notin UsedKeys(p)

\* send_packet, derp_send_packet: the relay passes on what a node with a live
\* connection sends, and drops what does not fit its queue.
Sent(d, p, pkts) ==
    IF stream.eof \/ Len(d[p]) + Len(pkts) > QueueMax THEN d
    ELSE [d EXCEPT ![p] = @ \o pkts]

-----------------------------------------------------------------------------
\* Connecting.

\* Derp::connect, after TLS: the relay answers the HTTP upgrade and sends its
\* key; a refusal counts as a closed connection.  In the browser the WebSocket
\* has done the upgrade.
Connect ==
    /\ phase = "down"
    /\ IF case.node = "browser"
       THEN /\ phase' = "key" /\ UNCHANGED case
            /\ stream' = Write(NoStream, Control("key", 1))
       ELSE /\ phase' = "upgrade"
            /\ \/ /\ stream' = Write(Write(NoStream, Control("101", 0)), Control("key", 1))
                  /\ UNCHANGED case
               \/ /\ case.closes > 0 /\ case' = [case EXCEPT !.closes = @ - 1]
                  /\ stream' = Write(NoStream, Control("503", 0))
    /\ UNCHANGED <<nodeVars, peerVars, down>>

\* serve() returns, or connect() fails, and run() starts over with new tables;
\* derp_inner() returns for good, its tunnels are left to the timer task.
StartOver ==
    /\ IF case.node = "dongle"
       THEN phase' = "down" /\ stream' = NoStream /\ peers' = <<>> /\ upgraded' = {}
       ELSE phase' = "over" /\ stream' = Closed(NoStream)
            /\ UNCHANGED <<peers, upgraded>>
    /\ UNCHANGED <<targets, heard, tuns, tcp, active>>

\* http_upgrade takes the answer byte by byte up to its end.
UpgradeReadRecord(s) == TakeWholeRecords(s, 1)
UpgradeRead(s) == Take(s, 1)
HttpUpgrade ==
    /\ phase = "upgrade" /\ stream.arrived > 0
    /\ IF First(stream).type = "101"
       THEN phase' = "key" /\ stream' = UpgradeRead(stream) /\ UNCHANGED nodeVars
       ELSE StartOver
    /\ UNCHANGED <<case, peerVars, down>>

\* read_server_key, send_client_info: from here on the relay knows the node.
ReadServerKey ==
    /\ phase = "key" /\ Ready(stream)
    /\ IF First(stream).type = "key"
       THEN phase' = "serve" /\ stream' = TakeFrame(stream) /\ UNCHANGED nodeVars
       ELSE StartOver
    /\ UNCHANGED <<case, peerVars, down>>

ReadError ==
    /\ phase \in {"upgrade", "key", "serve"}
    /\ \/ stream.eof /\ ~Ready(stream)
       \/ phase # "upgrade" /\ TooLarge(stream)
    /\ StartOver
    /\ UNCHANGED <<case, peerVars, down>>

-----------------------------------------------------------------------------
\* The TcpServer: a request opens a connection in place of any other one and
\* its answer goes out at once.  "ack" is what ends it on the client's side: the
\* acknowledgement of all of it, a FIN or a reset.

TcpAfter(t, client, body) ==
    CASE body = "req" -> client
      [] body = "ack" /\ t = client -> Nobody
      [] OTHER -> t

SegmentsFor(k, client, body) == IF body = "req" THEN <<Segment(k, client)>> ELSE <<>>

\* Its timer has run out: it is longer than a round trip to the client.
Expired(t) == t # Nobody /\ Quiet(t)

-----------------------------------------------------------------------------
\* The dongle: serve().

\* last is the rank of DerpPeer.last_ms.  A packet read in the same
\* millisecond as the one before leaves its peer with the same time.
Newest(t) == Max({t[q].last : q \in DOMAIN t} \cup {0})
Now(t, sameMs) == IF sameMs THEN Newest(t) ELSE Newest(t) + 1
Ranked(t) ==
    [q \in DOMAIN t |->
        [t[q] EXCEPT !.last =
            Cardinality({t[r].last : r \in {x \in DOMAIN t : t[x].last < t[q].last}})]]

Oldest(t) == {q \in DOMAIN t : \A r \in DOMAIN t : t[q].last <= t[r].last}

\* The tables without the least recently used peer, if there is no room.
RoomFor(t, p) ==
    IF Cardinality(DOMAIN t) < MAX_PEERS \/ p \in DOMAIN t THEN {t}
    ELSE {[q \in DOMAIN t \ {old} |-> t[q]] : old \in Oldest(t)}

\* peers.insert: a new tunnel and a new TcpServer.
Insert(t, p, entry) == [q \in DOMAIN t \cup {p} |-> IF q = p THEN entry ELSE t[q]]

\* try_upgrade: "first time we hear from a peer over the relay".  The set is
\* cleared when it has grown beyond MAX_UPGRADED.
TriesUpgradeWhileRoom(p) == p \notin upgraded /\ Cardinality(upgraded) <= MAX_UPGRADED
TriesUpgrade(p) == p \notin upgraded \/ Cardinality(upgraded) > MAX_UPGRADED
Upgraded(p) == (IF Cardinality(upgraded) > MAX_UPGRADED THEN {} ELSE upgraded) \cup {p}

Upgrades(p) == IF TriesUpgrade(p) /\ p \in case.known THEN {"map"} ELSE {}
CallMeMaybe(p) == IF Upgrades(p) # {} THEN <<Disco("cmm")>> ELSE <<>>

\* handle_inner: an echo reply, or what the TcpServer of the peer sends.
InnerReplies(p, entry, body) ==
    IF body = "ping" THEN <<Data(entry.key, "pong")>>
    ELSE SegmentsFor(entry.key, p, body)

Opens(entry, pkt) == entry.key = pkt.key
Passes(p, pkt) == p \in case.allowed /\ pkt.body # "none"

\* Replies and tables after one packet of p.
ServePacket(p, pkt, sameMs) ==
    LET now == Now(peers, sameMs)
        greeting == CallMeMaybe(p)
    IN /\ upgraded' = Upgraded(p)
       /\ heard' = heard \cup ({p} \cap case.known)
       /\ targets' = [targets EXCEPT ![p] = @ \cup Upgrades(p)
                         \cup (IF pkt = Disco("cmm") THEN {"fresh"} ELSE {})]
       /\ \/ /\ pkt.msg = "disco"
             /\ down' = Sent(down, p, greeting \o
                          IF pkt.what = "ping" THEN <<Disco("pong")>> ELSE <<>>)
             /\ UNCHANGED peers
          \/ /\ pkt.msg = "init"
             /\ down' = Sent(down, p, greeting \o <<Response(pkt.key)>>)
             /\ \E t \in RoomFor(peers, p) :
                   peers' = Ranked(Insert(t, p, [key |-> pkt.key, tcp |-> Nobody, last |-> now]))
          \/ /\ pkt.msg = "data" /\ p \notin DOMAIN peers
             /\ down' = Sent(down, p, greeting)
             /\ UNCHANGED peers
          \/ /\ pkt.msg = "data" /\ p \in DOMAIN peers
             /\ LET entry == [peers[p] EXCEPT !.last = now]
                    inner == Opens(entry, pkt) /\ Passes(p, pkt)
                IN /\ peers' = Ranked([peers EXCEPT ![p] =
                                   IF inner THEN [entry EXCEPT !.tcp = TcpAfter(@, p, pkt.body)]
                                   ELSE entry])
                   /\ down' = Sent(down, p, greeting \o
                                IF inner THEN InnerReplies(p, entry, pkt.body) ELSE <<>>)

\* Keepalives, server information and empty packets are skipped.
Serve ==
    /\ case.node = "dongle" /\ phase = "serve"
    /\ Readable(stream) /\ Ready(stream)
    /\ stream' = TakeFrame(stream)
    /\ LET f == First(stream)
       IN IF f.type = "recv"
          THEN \E sameMs \in BOOLEAN : ServePacket(f.src, f.pkt, sameMs)
          ELSE UNCHANGED <<peers, upgraded, targets, heard, down>>
    /\ UNCHANGED <<case, phase, tuns, tcp, active, peerVars>>

\* Nothing to read for IDLE_MS: tick() of every TcpServer, of which those in
\* ps retransmit.
TickFirst(ps) ==
    LET first == CHOOSE q \in DOMAIN peers : TRUE
    IN [q \in Peers |->
           IF q \in ps \cap {first} THEN Sent(down, q, <<Segment(peers[q].key, peers[q].tcp)>>)[q]
           ELSE down[q]]
TickServers(ps) ==
    [q \in Peers |->
        IF q \in ps THEN Sent(down, q, <<Segment(peers[q].key, peers[q].tcp)>>)[q]
        ELSE down[q]]
Idle(ps) ==
    /\ case.node = "dongle" /\ phase = "serve" /\ ~Readable(stream)
    /\ ps # {} /\ ps \subseteq DOMAIN peers
    /\ ps \subseteq {q \in DOMAIN peers : Expired(peers[q].tcp)}
    /\ down' = TickServers(ps)
    /\ UNCHANGED <<case, phase, stream, nodeVars, peerVars>>

-----------------------------------------------------------------------------
\* The browser node: derp_inner().

\* A new tunnel goes to the end, the first one goes when there are too many;
\* active keeps its value.
Pushed(ts, t) ==
    LET all == Append(ts, t) IN IF Len(all) > MAX_TUNS THEN Tail(all) ELSE all

Position(k) == {i \in DOMAIN tuns : tuns[i].key = k}

BrowserPacket(p, pkt) ==
    \/ /\ pkt.msg = "init"
       /\ tuns' = Pushed(tuns, [key |-> pkt.key, peer |-> p])
       /\ down' = Sent(down, p, <<Response(pkt.key)>>)
       /\ UNCHANGED <<tcp, active>>
    \/ /\ pkt.msg = "data" /\ Position(pkt.key) # {} /\ pkt.body # "none"
       /\ LET pos == Min(Position(pkt.key))
          IN /\ active' = pos
             /\ tcp' = TcpAfter(tcp, p, pkt.body)
             /\ down' = Sent(down, tuns[pos].peer, SegmentsFor(tuns[pos].key, p, pkt.body))
       /\ UNCHANGED tuns
    \/ /\ \/ pkt.msg = "disco"
          \/ pkt.msg = "data" /\ (Position(pkt.key) = {} \/ pkt.body = "none")
       /\ UNCHANGED <<tuns, tcp, active, down>>

BrowserServe ==
    /\ case.node = "browser" /\ phase = "serve" /\ Ready(stream)
    /\ stream' = TakeFrame(stream)
    /\ LET f == First(stream)
       IN IF f.type = "recv" THEN BrowserPacket(f.src, f.pkt)
          ELSE UNCHANGED <<tuns, tcp, active, down>>
    /\ UNCHANGED <<case, phase, peers, upgraded, targets, heard, peerVars>>

\* The timer task, every 400 ms: what the TcpServer retransmits goes through
\* the tunnel at position active.
TickNewestTunnel == [key |-> tuns[Len(tuns)].key, peer |-> tuns[active].peer]
TickTunnel == tuns[active]
BrowserTick ==
    /\ case.node = "browser" /\ phase = "serve"
    /\ active \in DOMAIN tuns
    /\ Expired(tcp)
    /\ down' = Sent(down, TickTunnel.peer, <<Segment(TickTunnel.key, tcp)>>)
    /\ UNCHANGED <<case, phase, stream, nodeVars, peerVars>>

\* A pass of tick() in which a connection is too old or has used up its
\* attempts: the client gets a reset, and the response is dropped.
GiveUp ==
    /\ phase = "serve" /\ case.giveUps > 0
    /\ case' = [case EXCEPT !.giveUps = @ - 1]
    /\ \/ /\ case.node = "dongle" /\ ~Readable(stream)
          /\ \E q \in DOMAIN peers :
                /\ peers[q].tcp # Nobody
                /\ peers' = [peers EXCEPT ![q].tcp = Nobody]
                /\ down' = Sent(down, q, <<Data(peers[q].key, "rst")>>)
          /\ UNCHANGED tcp
       \/ /\ case.node = "browser" /\ active \in DOMAIN tuns
          /\ tcp # Nobody /\ tcp' = Nobody
          /\ down' = Sent(down, TickTunnel.peer, <<Data(TickTunnel.key, "rst")>>)
          /\ UNCHANGED peers
    /\ UNCHANGED <<phase, stream, upgraded, targets, heard, tuns, active, peerVars>>

-----------------------------------------------------------------------------
\* Peers, the relay and the network between them.

Room == Len(stream.units) < QueueMax
Online == phase = "serve" /\ ~stream.eof

\* A packet to a node the relay does not know is dropped, and one may be lost.
SendUp(p, pkt) ==
    \/ /\ stream' = IF Online THEN Write(stream, Recv(p, pkt)) ELSE stream
       /\ UNCHANGED case
    \/ /\ Online /\ case.losses > 0
       /\ case' = [case EXCEPT !.losses = @ - 1] /\ UNCHANGED stream

Initiate(p) ==
    /\ Online /\ Room
    /\ 1 .. KeyMax \ UsedKeys(p) # {}
    /\ hs' = [hs EXCEPT ![p] = FreshKey(p)]

\* A peer without an answer starts a new handshake when its timer runs out;
\* a knocker does so once at any time (to renew its keys, or just to knock).
Handshake(p) ==
    /\ p \in case.users /\ want[p] /\ Quiet(p)
    /\ Initiate(p) /\ SendUp(p, Initiation(<<p, FreshKey(p)>>))
    /\ UNCHANGED <<phase, nodeVars, sess, want, down>>

Knock(p) ==
    /\ p \in case.knockers /\ Initiate(p)
    /\ case' = [case EXCEPT !.knockers = @ \ {p}]
    /\ stream' = Write(stream, Recv(p, Initiation(<<p, FreshKey(p)>>)))
    /\ UNCHANGED <<phase, nodeVars, sess, want, down>>

\* A response completes the handshake it answers, and the request follows; a
\* segment under the key of the session is acknowledged.
PeerReceive(p) ==
    /\ down[p] # <<>>
    /\ down' = [down EXCEPT ![p] = Tail(@)]
    /\ LET m == Head(down[p])
       IN \/ /\ m.msg = "resp" /\ m.key = <<p, hs[p]>>
             /\ sess' = [sess EXCEPT ![p] = hs[p]] /\ hs' = [hs EXCEPT ![p] = 0]
             /\ IF want[p] THEN SendUp(p, Data(m.key, "req")) ELSE UNCHANGED <<case, stream>>
             /\ UNCHANGED want
          \/ /\ m.msg = "data" /\ m.key = <<p, sess[p]>> /\ m.body = "seg" /\ m.client = p
             /\ want' = [want EXCEPT ![p] = FALSE]
             /\ SendUp(p, Data(m.key, "ack"))
             /\ UNCHANGED <<hs, sess>>
          \/ /\ \/ m.msg = "resp" /\ m.key # <<p, hs[p]>>
                \/ m.msg = "data" /\ (m.key # <<p, sess[p]>> \/ m.body # "seg" \/ m.client # p)
                \/ m.msg = "disco"
             /\ UNCHANGED <<case, stream, peerVars>>
    /\ UNCHANGED <<phase, nodeVars>>

\* A keepalive, a short packet or one that is too large from the relay; a
\* disco message, an echo request or a keepalive from a peer.
OtherFrames(p) ==
    {Control("keepalive", 0), Control("huge", MAX_FRAME + 1)}
    \cup {Recv(p, Disco(w)) : w \in {"ping", "cmm"}}
    \cup {Recv(p, Data(<<p, sess[p]>>, b)) : b \in IF sess[p] = 0 THEN {} ELSE {"ping", "none"}}

Noise(p) ==
    /\ case.noise > 0 /\ Online /\ Room
    /\ \E f \in OtherFrames(p) : stream' = Write(stream, f)
    /\ case' = [case EXCEPT !.noise = @ - 1]
    /\ UNCHANGED <<phase, nodeVars, peerVars, down>>

Lose(p) ==
    /\ case.losses > 0 /\ down[p] # <<>>
    /\ down' = [down EXCEPT ![p] = Tail(@)]
    /\ case' = [case EXCEPT !.losses = @ - 1]
    /\ UNCHANGED <<phase, stream, nodeVars, peerVars>>

Deliver ==
    /\ \E n \in 1 .. Len(stream.units) - stream.arrived : stream' = Arrive(stream, n)
    /\ UNCHANGED <<case, phase, nodeVars, peerVars, down>>

Close ==
    /\ case.closes > 0 /\ phase \in {"upgrade", "key", "serve"} /\ ~stream.eof
    /\ stream' = Closed(stream)
    /\ case' = [case EXCEPT !.closes = @ - 1]
    /\ UNCHANGED <<phase, nodeVars, peerVars, down>>

-----------------------------------------------------------------------------
Reader == Connect \/ HttpUpgrade \/ ReadServerKey \/ ReadError \/ Serve \/ BrowserServe

Next ==
    \/ Reader \/ BrowserTick \/ GiveUp \/ Deliver \/ Close
    \/ \E ps \in SUBSET Peers : Idle(ps)
    \/ \E p \in Peers : Handshake(p) \/ Knock(p) \/ PeerReceive(p) \/ Noise(p) \/ Lose(p)

Spec == Init /\ [][Next]_vars

\* The thread of the node runs, the relay delivers, timers fire.  The timer of
\* a handshake is not stopped by packets that do not decrypt.
FairSpec ==
    /\ Spec
    /\ WF_vars(Reader) /\ WF_vars(BrowserTick) /\ WF_vars(Deliver)
    /\ \A p \in Peers :
          /\ WF_vars(PeerReceive(p)) /\ SF_vars(Handshake(p))
          /\ WF_vars(\E ps \in SUBSET Peers : p \in ps /\ Idle(ps))

-----------------------------------------------------------------------------
\* Properties.

\* Whatever records the relay cuts its frames into, and whatever the upgrade
\* and the frames before it took, each wait for a frame begins at a header.
StreamAligned == phase \in {"upgrade", "key", "serve"} => Aligned(stream)

\* What the node sends to a peer is under a key agreed with that peer, also
\* after tunnels were replaced, thrown out or have moved in the list.
KeyMatchesPeer ==
    \A p \in Peers : \A m \in ToSet(down[p]) : m.msg # "disco" => m.key[1] = p

\* A segment of the dongle goes to the peer whose connection it belongs to.
\* (Not so in the browser, where all peers share one TcpServer.)
SegmentForOwner ==
    case.node = "dongle" =>
        \A p \in Peers : \A m \in ToSet(down[p]) :
            m.msg = "data" => m.client \in {p, Nobody}

\* Each peer gets the packets of its own connection, under its own key, whatever
\* handshakes, evictions and reconnects there were.
RightPeer == KeyMatchesPeer /\ SegmentForOwner

\* Every peer of the map that was heard over the relay has been handed to the
\* data plane, however often the set of attempts was cleared.
KnownPeersProbed == \A p \in heard : targets[p] # {}

\* A peer that wants an answer gets it, although packets are lost, others
\* take its place in the table and the relay closes the connection.
RequestServed ==
    \A p \in Peers : p \in case.users ~> (~want[p] \/ phase = "over")

\* An answer that was lost is sent again, unless its connection goes away.
Unanswered(p) ==
    IF case.node = "dongle" THEN p \in DOMAIN peers /\ peers[p].tcp = p
    ELSE tcp = p /\ active \in DOMAIN tuns /\ tuns[active].peer = p /\ phase = "serve"
Resent ==
    \A p \in Peers : (Unanswered(p) /\ Quiet(p))
        ~> (~Unanswered(p) \/ \E m \in ToSet(down[p]) : m.msg = "data" /\ m.client = p)
=============================================================================
