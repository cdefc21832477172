------------------------------- MODULE Bridge -------------------------------
(***************************************************************************)
(* The firmware with feature lwip-bridge: the tunnels as a network         *)
(* interface of lwIP (src/lwip_bridge.rs), the boot guard in front of it,  *)
(* the routes of the data plane (src/dataplane.rs) and the HTTP server     *)
(* with one worker (src/local_server.rs).                                  *)
(*                                                                         *)
(* Threads: main (the guard), the 30 s timer, the data plane, lwIP's       *)
(* tcpip thread, the acceptor and the worker.  A peer has one address and  *)
(* at most one connection; a number stands for the tunnel of one handshake *)
(* of a peer (its index and keys).  lwIP and the peers are external.       *)
(***************************************************************************)
EXTENDS Naturals, Sequences, SequencesExt, FiniteSets, FiniteSetsExt

CONSTANTS
    Peers, None,
    MAX_TRIES, TX_QUEUE_MAX,
    USIZE_MAX,              \* the largest usize
    Circumstances,          \* the circumstances to consider
    Ptrs, TunMax            \* bounds: addresses of frames, tunnels of a peer

\* A Range header: none, "bytes=A-B", "bytes=A-", "bytes=-N", or malformed
\* (the numbers as they stand there, whether or not they fit a usize).
RangeHeader ==
    {[kind |-> k] : k \in {"none", "bad"}}
    \cup [kind : {"from"}, a : Nat] \cup [kind : {"suffix"}, n : Nat]
    \cup [kind : {"both"}, a : Nat, b : Nat]

\* What esp_netif does in create(); the peers that want an answer, that only
\* open a connection, and that renew their tunnel; bounds on lost packets,
\* power cuts and errors of the flash; the range that is asked for and the
\* length of what it is asked of.
Circumstance ==
    [create : {"ok", "err", "panic"}, users : SUBSET Peers, idlers : SUBSET Peers,
     renew : SUBSET Peers, losses : Nat, cuts : Nat, nvs : Nat,
     range : RangeHeader, total : Nat]

ASSUME BridgeAssumption ==
    /\ {MAX_TRIES, TX_QUEUE_MAX, USIZE_MAX, TunMax} \cup Ptrs \subseteq Nat \ {0}
    /\ None \notin Peers /\ Circumstances \subseteq Circumstance

VARIABLES
    case,       \* the circumstances, with what is left of the bounds
    phase,      \* "boot", "create", "running"; "off" without the bridge
    tries,      \* flash: the counter of the guard
    timer,      \* whether the 30 s timer is running
    failed,     \* boots in a row that were tried and ended before it; counting
                \* stops where there are too many (history)
    nvsErrors,  \* accesses to flash that failed (history)
    netif,      \* NETIF is set
    tunnel,     \* data plane: the tunnel of each peer (0 is none)
    routes,     \* data plane: ts_routes (0 is none)
    held,       \* data plane: the frame esp_inject is working on, if any
    rxbufs,     \* RX_BUFS
    tx,         \* TX_QUEUE
    lwip,       \* lwIP: mailbox, ARP table, packets waiting for it
    conns,      \* lwIP: the connection of each peer, with what is not read yet
    queue,      \* connections accepted and not served yet
    worker,     \* the connection being served, or None
    reply,      \* the reply that was written last, or None
    client,     \* peers: state of the connection and tunnel
    up, down    \* packets under way from and to each peer

bootVars == <<phase, tries, timer, failed, nvsErrors, netif>>
dpVars == <<tunnel, routes, held>>
lwipVars == <<rxbufs, tx, lwip, conns>>
srvVars == <<queue, worker, reply>>
netVars == <<client, up, down>>
vars == <<case, bootVars, dpVars, lwipVars, srvVars, netVars>>

NoConn == [st |-> "none", rcvd |-> 0, pbufs |-> <<>>]
NoLwip == [mbox |-> <<>>, arp |-> {}, waiting |-> [p \in Peers |-> "none"]]
NoWorker == [peer |-> None, got |-> 0]

\* "off" is a firmware without the bridge, which none of the actions concerns.
Start(c, ph) ==
    /\ case = c /\ phase = ph
    /\ tries = 0 /\ timer = FALSE /\ netif = FALSE /\ failed = 0 /\ nvsErrors = 0
    /\ tunnel = [p \in Peers |-> 0] /\ routes = tunnel /\ held = <<>>
    /\ rxbufs = {} /\ tx = <<>> /\ lwip = NoLwip
    /\ conns = [p \in Peers |-> NoConn]
    /\ queue = <<>> /\ worker = NoWorker /\ reply = None
    /\ client = [p \in Peers |->
                    [st |-> IF p \in case.users \cup case.idlers THEN "idle" ELSE "done", tun |-> 0]]
    /\ up = [p \in Peers |-> <<>>] /\ down = up

Init == \E c \in Circumstances : Start(c, "boot")

-----------------------------------------------------------------------------
\* bring_up_guarded().

NvsError ==
    /\ case.nvs > 0 /\ case' = [case EXCEPT !.nvs = @ - 1]
    /\ nvsErrors' = nvsErrors + 1

\* set_blob, whose errors are ignored.
NvsWrite(v) ==
    \/ tries' = v /\ UNCHANGED <<case, nvsErrors>>
    \/ NvsError /\ UNCHANGED tries

DisabledLate(t) == t > MAX_TRIES
Disabled(t) == t >= MAX_TRIES
Bumped(t) == t + 1

\* Too many tries: the counter is cleared and the bridge left out, as it is
\* when the flash cannot be opened.
Skip ==
    /\ phase = "boot" /\ phase' = "running"
    /\ \/ Disabled(tries) /\ NvsWrite(0) /\ failed' = 0
       \/ NvsError /\ UNCHANGED <<tries, failed>>
    /\ UNCHANGED <<timer, netif, dpVars, lwipVars, srvVars, netVars>>

\* "Bump BEFORE the risky FFI so a panic-reboot is counted"; a counter that
\* cannot be read is 0, and may not be written either.
Attempt ==
    /\ phase = "boot"
    /\ \/ ~Disabled(tries) /\ NvsWrite(Bumped(tries))
       \/ NvsError /\ tries' \in {Bumped(0), tries}
    /\ phase' = "create"
    /\ UNCHANGED <<timer, failed, netif, dpVars, lwipVars, srvVars, netVars>>

\* create(), then the server, then the timer, which is started after an error
\* too.
Create ==
    /\ phase = "create" /\ case.create # "panic"
    /\ phase' = "running" /\ netif' = (case.create = "ok") /\ timer' = TRUE
    /\ UNCHANGED <<case, tries, failed, nvsErrors, dpVars, lwipVars, srvVars, netVars>>

\* "stable 30s - safeguard counter reset"
Cleared(t) == 0
Stable ==
    /\ timer /\ NvsWrite(Cleared(tries))
    /\ timer' = FALSE /\ failed' = 0
    /\ UNCHANGED <<phase, netif, dpVars, lwipVars, srvVars, netVars>>

\* A panic or a power cut: all but the counter is gone.
Reset ==
    /\ phase' = "boot" /\ netif' = FALSE /\ timer' = FALSE
    /\ failed' = IF (phase = "create" \/ timer) /\ failed <= MAX_TRIES * (1 + nvsErrors)
                 THEN failed + 1 ELSE failed
    /\ tunnel' = [p \in Peers |-> 0] /\ routes' = tunnel' /\ held' = <<>>
    /\ rxbufs' = {} /\ tx' = <<>> /\ lwip' = NoLwip
    /\ conns' = [p \in Peers |-> NoConn]
    /\ queue' = <<>> /\ worker' = NoWorker /\ reply' = None
    /\ UNCHANGED <<tries, nvsErrors, netVars>>

Panic ==
    /\ phase = "create" /\ case.create = "panic"
    /\ Reset /\ UNCHANGED case

PowerCut ==
    /\ case.cuts > 0 /\ case' = [case EXCEPT !.cuts = @ - 1]
    /\ Reset

-----------------------------------------------------------------------------
\* Frames for lwIP.

Frame(kind, p, body) == [kind |-> kind, peer |-> p, body |-> body]

\* The address of a new frame; the bound is that there is one.
Spare == Ptrs \ (rxbufs \cup {f.ptr : f \in ToSet(held)})
Alloc == Min(Spare)

\* esp_inject: keep the frame in RX_BUFS, then hand it to lwIP.
ReceiveFirst == <<"receive", "keep">>
EspInject == <<"keep", "receive">>

\* wg_transmit for IP: what does not fit the queue is dropped.
Transmit(q, p, bodies) ==
    LET all == q \o [i \in DOMAIN bodies |-> [peer |-> p, body |-> bodies[i]]]
    IN SubSeq(all, 1, Min({Len(all), TX_QUEUE_MAX}))

\* lwIP sends packets to p; l and bufs are its state and RX_BUFS after what it
\* did before.  Without an ARP entry it keeps the last packet and asks;
\* handle_arp answers with a frame of its own.
Output(l, bufs, p, bodies) ==
    IF bodies = <<>> \/ p \in l.arp
    THEN lwip' = l /\ rxbufs' = bufs /\ tx' = Transmit(tx, p, bodies)
    ELSE LET asks == l.waiting[p] = "none"
             ptr == Alloc
         IN /\ asks => Spare # {}
            /\ lwip' = [l EXCEPT !.waiting[p] = Last(bodies),
                                 !.mbox = IF asks THEN Append(@, [ptr |-> ptr, frame |-> Frame("arp", p, "reply")])
                                          ELSE @]
            /\ rxbufs' = IF asks THEN bufs \cup {ptr} ELSE bufs
            /\ UNCHANGED tx

\* Nothing of p is under way: the timers of the peers and of the server are
\* longer than a round trip.
Quiet(p) ==
    /\ up[p] = <<>> /\ down[p] = <<>> /\ lwip.waiting[p] = "none"
    /\ \A i \in DOMAIN lwip.mbox : lwip.mbox[i].frame.peer # p
    /\ \A i \in DOMAIN tx : tx[i].peer # p
    /\ \A i \in DOMAIN held : held[i].frame.peer # p

-----------------------------------------------------------------------------
\* The data plane.

\* handle_decrypted: learn the route, inject_ip.
LearnOnce(p, t) == IF routes[p] = 0 THEN t ELSE routes[p]
Learn(p, t) == t

Receive(p) ==
    /\ phase = "running" /\ held = <<>> /\ up[p] # <<>> /\ Spare # {}
    /\ up' = [up EXCEPT ![p] = Tail(@)]
    /\ LET m == Head(up[p])
       IN IF m.tun = tunnel[p]
          THEN /\ routes' = [routes EXCEPT ![p] = Learn(p, m.tun)]
               /\ held' = IF netif THEN <<[ptr |-> Alloc, frame |-> Frame("ip", p, m.body), step |-> 1]>>
                          ELSE <<>>
          ELSE UNCHANGED <<routes, held>>
    /\ UNCHANGED <<case, bootVars, tunnel, lwipVars, srvVars, client, down>>

Inject ==
    /\ held # <<>>
    /\ LET h == Head(held)
           step == EspInject[h.step]
       IN /\ held' = IF h.step = 2 THEN <<>> ELSE <<[h EXCEPT !.step = 2]>>
          /\ \/ /\ step = "keep"
                /\ rxbufs' = rxbufs \cup {h.ptr} /\ UNCHANGED <<case, lwip>>
             \/ /\ step = "receive"
                /\ lwip' = [lwip EXCEPT !.mbox = Append(@, [ptr |-> h.ptr, frame |-> h.frame])]
                /\ UNCHANGED <<case, rxbufs>>
             \/ /\ step = "receive" /\ case.losses > 0     \* an error: freed at once
                /\ case' = [case EXCEPT !.losses = @ - 1]
                /\ rxbufs' = rxbufs \ {h.ptr} /\ UNCHANGED lwip
    /\ UNCHANGED <<bootVars, tunnel, routes, tx, conns, srvVars, netVars>>

\* lwip_drain_tx: a packet without a route, or whose route names a tunnel that
\* is gone, is dropped.
DrainTx ==
    /\ held = <<>> /\ tx # <<>>
    /\ tx' = <<>>
    /\ down' = [p \in Peers |->
                  LET sent == SelectSeq(tx, LAMBDA m : m.peer = p)
                  IN IF routes[p] # 0 /\ routes[p] = tunnel[p]
                     THEN down[p] \o [i \in DOMAIN sent |-> [tun |-> routes[p], body |-> sent[i].body]]
                     ELSE down[p]]
    /\ UNCHANGED <<case, bootVars, dpVars, rxbufs, lwip, conns, srvVars, client, up>>

-----------------------------------------------------------------------------
\* lwIP's thread: the next frame.  A frame with data is not freed before the
\* data has been read; wg_free_rx takes every other one out of RX_BUFS.

\* A request has two parts: the header and the body.
Part(body) == IF body = "head" THEN 1 ELSE 2

TcpInput(c, ptr, body) ==
    CASE body = "syn" /\ c.st \in {"none", "synrcvd"} ->
            [conn |-> [c EXCEPT !.st = "synrcvd"], out |-> <<"synack">>]
      [] body \in {"ack", "head"} /\ c.st = "synrcvd" ->
            [conn |-> IF body = "ack" THEN [c EXCEPT !.st = "est"]
                      ELSE [st |-> "est", rcvd |-> 1, pbufs |-> <<ptr>>], out |-> <<>>]
      [] body \in {"head", "body"} /\ c.st \in {"est", "accepted"} /\ c.rcvd = Part(body) - 1 ->
            [conn |-> [c EXCEPT !.rcvd = Part(body), !.pbufs = Append(@, ptr)], out |-> <<>>]
      [] body # "syn" /\ c.st = "none" -> [conn |-> c, out |-> <<"rst">>]
      [] OTHER -> [conn |-> c, out |-> <<>>]

Tcpip ==
    /\ lwip.mbox # <<>>
    /\ LET m == Head(lwip.mbox)
           p == m.frame.peer
           l == [lwip EXCEPT !.mbox = Tail(@)]
       IN \/ /\ m.frame.kind = "arp"
             /\ lwip' = [l EXCEPT !.arp = @ \cup {p}, !.waiting[p] = "none"]
             /\ tx' = Transmit(tx, p, IF l.waiting[p] = "none" THEN <<>> ELSE <<l.waiting[p]>>)
             /\ rxbufs' = rxbufs \ {m.ptr} /\ UNCHANGED conns
          \/ /\ m.frame.kind = "ip"
             /\ LET r == TcpInput(conns[p], m.ptr, m.frame.body)
                    kept == m.ptr \in ToSet(r.conn.pbufs)
                IN /\ conns' = [conns EXCEPT ![p] = r.conn]
                   /\ Output(l, IF kept THEN rxbufs ELSE rxbufs \ {m.ptr}, p, r.out)
    /\ UNCHANGED <<case, bootVars, dpVars, srvVars, netVars>>

-----------------------------------------------------------------------------
\* The server: run_port, worker_loop, handle.

\* parse_range: the first and the last position, or why there is none.  A
\* number that is no usize is refused like any other word.
Unsatisfiable == [kind |-> "416"]
Whole == [kind |-> "200"]
Part206(first, last) == [kind |-> "206", first |-> first, last |-> last]

LastPastEnd(b, total) == Min({b, total})
LastByte(b, total) == Min({b, total - 1})

Parses(r) ==
    CASE r.kind = "suffix" -> r.n <= USIZE_MAX
      [] r.kind = "from" -> r.a <= USIZE_MAX
      [] r.kind = "both" -> r.a <= USIZE_MAX /\ r.b <= USIZE_MAX
      [] OTHER -> r.kind = "none"

ParseRange(r, total) ==
    IF r.kind = "none" THEN Whole
    ELSE IF ~Parses(r) \/ total = 0 THEN Unsatisfiable
    ELSE CASE r.kind = "suffix" ->
                IF r.n = 0 THEN Unsatisfiable
                ELSE Part206(total - Min({r.n, total}), total - 1)
           [] r.kind = "from" ->
                IF r.a >= total THEN Unsatisfiable ELSE Part206(r.a, total - 1)
           [] r.kind = "both" ->
                IF r.a >= total \/ r.a > r.b THEN Unsatisfiable
                ELSE Part206(r.a, LastByte(r.b, total))

\* stream_reply: the status and the positions of the bytes that are written
\* (read_at gives none beyond the end).
StreamReply(r, total) ==
    LET range == ParseRange(r, total)
        base == IF range.kind = "206" THEN range.first ELSE 0
        len == IF range.kind = "206" THEN range.last - range.first + 1
               ELSE IF range.kind = "200" THEN total ELSE 0
    IN [status |-> range.kind, length |-> len,
        bytes |-> {i \in 0 .. total - 1 : base <= i /\ i < base + len}]

Accept(p) ==
    /\ conns[p].st = "est"
    /\ conns' = [conns EXCEPT ![p].st = "accepted"]
    /\ queue' = Append(queue, p)
    /\ UNCHANGED <<case, bootVars, dpVars, rxbufs, tx, lwip, worker, reply, netVars>>

TakeJob ==
    /\ worker = NoWorker /\ queue # <<>>
    /\ worker' = [peer |-> Head(queue), got |-> 0] /\ queue' = Tail(queue)
    /\ UNCHANGED <<case, reply, bootVars, dpVars, lwipVars, netVars>>

\* What was written goes out, then SO_LINGER = 0 makes close() send a reset;
\* what was not read is freed.  A reply that is still in lwIP's send buffer, or
\* that a failing read or write cuts short, is for the peer a reply that is
\* lost before the reset: one of case.losses.
CloseAfter(bodies, bufs) ==
    LET p == worker.peer
    IN /\ Output(lwip, bufs \ ToSet(conns[p].pbufs), p, Append(bodies, "rst"))
       /\ conns' = [conns EXCEPT ![p] = NoConn]
       /\ worker' = NoWorker
       /\ reply' = IF bodies = <<>> THEN reply ELSE StreamReply(case.range, case.total)

\* A read; with the last part of the request the reply is written.
Read ==
    /\ worker # NoWorker /\ conns[worker.peer].pbufs # <<>>
    /\ LET p == worker.peer
           rest == rxbufs \ {Head(conns[p].pbufs)}
       IN IF worker.got + 1 = Part("body")
          THEN CloseAfter(<<"resp">>, rest)
          ELSE /\ worker' = [worker EXCEPT !.got = @ + 1]
               /\ conns' = [conns EXCEPT ![p].pbufs = Tail(@)]
               /\ rxbufs' = rest /\ UNCHANGED <<tx, lwip, reply>>
    /\ UNCHANGED <<case, bootVars, dpVars, queue, netVars>>

\* Three seconds without data: without a whole header there is no reply, with
\* one the request is taken as it is.
ReadTimeout == worker # NoWorker /\ conns[worker.peer].pbufs = <<>> /\ Quiet(worker.peer)
GiveUp ==
    /\ ReadTimeout
    /\ CloseAfter(IF worker.got = 0 THEN <<>> ELSE <<"resp">>, rxbufs)
    /\ UNCHANGED <<case, bootVars, dpVars, queue, netVars>>

-----------------------------------------------------------------------------
\* The peers and the network.

Sends(p, bodies) ==
    up' = [up EXCEPT ![p] = @ \o [i \in DOMAIN bodies |-> [tun |-> client[p].tun, body |-> bodies[i]]]]

\* A handshake, which replaces the tunnel of the peer (insert_tunnel); the
\* index of a new tunnel is none that is still in use.
NewTunnel(p) ==
    LET used == {routes[p], client[p].tun} \cup {m.tun : m \in ToSet(up[p] \o down[p])}
        t == Min(1 .. TunMax \ used)
    IN /\ 1 .. TunMax \ used # {}
       /\ tunnel' = [tunnel EXCEPT ![p] = t] /\ client' = [client EXCEPT ![p].tun = t]

\* After a while without answers, or to renew the keys.
Handshake(p) ==
    /\ phase = "running" /\ client[p].st # "done"
    /\ \/ /\ client[p].tun # tunnel[p] \/ tunnel[p] = 0
          /\ Quiet(p) /\ UNCHANGED case
       \/ /\ p \in case.renew /\ tunnel[p] # 0
          /\ case' = [case EXCEPT !.renew = @ \ {p}]
    /\ NewTunnel(p)
    /\ UNCHANGED <<bootVars, routes, held, lwipVars, srvVars, up, down>>

\* What has not been answered is sent again, unless lwIP has all of it (its
\* acknowledgements are left out); a connection that is gone is probed.
Request(p) ==
    /\ phase = "running" /\ Quiet(p) /\ client[p].tun # 0
    /\ \/ /\ client[p].st \in {"idle", "syn"}
          /\ Sends(p, <<"syn">>) /\ client' = [client EXCEPT ![p].st = "syn"]
       \/ /\ client[p].st = "est" /\ conns[p].rcvd # Part("body")
          /\ Sends(p, <<"head", "body">>) /\ UNCHANGED client
    /\ UNCHANGED <<case, bootVars, dpVars, lwipVars, srvVars, down>>

ClientReceive(p) ==
    /\ down[p] # <<>>
    /\ down' = [down EXCEPT ![p] = Tail(@)]
    /\ LET m == Head(down[p])
           st == client[p].st
           to(s) == client' = [client EXCEPT ![p].st = s]
       IN \/ /\ m.tun = client[p].tun /\ m.body = "synack" /\ st = "syn"
             /\ IF p \in case.idlers THEN to("open") /\ Sends(p, <<"ack">>)
                ELSE to("est") /\ Sends(p, <<"head", "body">>)
          \/ /\ m.tun = client[p].tun /\ m.body = "resp" /\ st = "est"
             /\ to("done") /\ UNCHANGED up
          \/ /\ m.tun = client[p].tun /\ m.body = "rst" /\ st # "done"
             /\ to(IF p \in case.idlers THEN "done" ELSE "idle") /\ UNCHANGED up
          \/ /\ \/ m.tun # client[p].tun
                \/ m.body = "rst" /\ st = "done"
                \/ m.body = "synack" /\ st # "syn"
                \/ m.body = "resp" /\ st # "est"
             /\ UNCHANGED <<client, up>>
    /\ UNCHANGED <<case, bootVars, dpVars, lwipVars, srvVars>>

Lose(p) ==
    /\ case.losses > 0 /\ case' = [case EXCEPT !.losses = @ - 1]
    /\ \/ up[p] # <<>> /\ up' = [up EXCEPT ![p] = Tail(@)] /\ UNCHANGED down
       \/ down[p] # <<>> /\ down' = [down EXCEPT ![p] = Tail(@)] /\ UNCHANGED up
    /\ UNCHANGED <<bootVars, dpVars, lwipVars, srvVars, client>>

-----------------------------------------------------------------------------
Boot == Skip \/ Attempt \/ Create \/ Panic

Next ==
    \/ Boot \/ Stable \/ PowerCut
    \/ Inject \/ DrainTx \/ Tcpip
    \/ TakeJob \/ Read \/ GiveUp
    \/ \E p \in Peers : Receive(p) \/ Accept(p) \/ Handshake(p) \/ Request(p)
                        \/ ClientReceive(p) \/ Lose(p)

BridgeSpec == Init /\ [][Next]_vars

\* Threads run, the timeout of the worker and the timers of the peers fire; the
\* timer of a handshake is not stopped by packets that go unanswered, the
\* socket is a queue, and the loop of the data plane drains TX_QUEUE after each
\* packet it takes from it.
Fairness ==
    /\ WF_vars(Boot) /\ WF_vars(Inject) /\ SF_vars(DrainTx) /\ WF_vars(Tcpip)
    /\ WF_vars(TakeJob) /\ WF_vars(Read) /\ WF_vars(GiveUp)
    /\ \A p \in Peers :
          /\ SF_vars(Receive(p)) /\ WF_vars(Accept(p)) /\ SF_vars(Handshake(p))
          /\ WF_vars(Request(p)) /\ WF_vars(ClientReceive(p))

-----------------------------------------------------------------------------

\* Every frame lwIP refers to, in its mailbox or as unread data, is alive in
\* RX_BUFS, no two of them at the same address, and RX_BUFS keeps nothing that
\* neither lwIP nor the injecting thread has: neither use after free nor leak.
References ==
    ({None} \X DOMAIN lwip.mbox) \cup UNION {{p} \X DOMAIN conns[p].pbufs : p \in Peers}
Referenced ==
    [r \in References |-> IF r[1] = None THEN lwip.mbox[r[2]].ptr ELSE conns[r[1]].pbufs[r[2]]]
BuffersLive ==
    /\ Range(Referenced) \subseteq rxbufs /\ IsInjective(Referenced)
    /\ rxbufs \ Range(Referenced) \subseteq {f.ptr : f \in ToSet(held)}

\* The boot guard, whatever panics, power cuts and errors of the flash there
\* are: the device does not try the bridge more than MAX_TRIES times in a row
\* without running for 30 s (an error of the flash makes it start counting
\* again at most), and without such an error the bridge is left out only after
\* MAX_TRIES such boots.
BootGuard ==
    [][/\ failed' <= MAX_TRIES * (1 + nvsErrors')
       /\ phase = "boot" /\ phase' = "running" => failed >= MAX_TRIES \/ nvsErrors' > 0]_vars

\* A reply carries exactly the bytes the range names, announces as many, and
\* is a 416 where the range names none.
Named(r, total) ==
    {i \in 0 .. total - 1 : Parses(r) /\
        CASE r.kind = "none" -> TRUE
          [] r.kind = "from" -> i >= r.a
          [] r.kind = "both" -> i >= r.a /\ i <= r.b
          [] r.kind = "suffix" -> total - i <= r.n}
RangeHonoured ==
    reply # None =>
        /\ reply.bytes = Named(case.range, case.total)
        /\ reply.length = Cardinality(reply.bytes)
        /\ (reply.status = "416") = (reply.bytes = {} /\ case.range.kind # "none")

\* "the device always comes back green within a couple of boots": however
\* create() fails, in the end the device stays up.  Once the bridge does, every
\* peer that wants an answer gets it: over lost packets, a renewed tunnel, a
\* reboot and a silent connection before its own.
Answered ==
    /\ <>[](phase \notin {"boot", "create"})
    /\ <>[](phase = "running" /\ netif) =>
         \A p \in Peers : <>(p \in case.users => client[p].st = "done")
=============================================================================
