------------------------------ MODULE Dataplane ------------------------------
(***************************************************************************)
(* The UDP data plane of the dongle (src/dataplane.rs, with the handshake  *)
(* and tunnel of core/src/wg.rs): disco probing, the WireGuard handshake   *)
(* as initiator and as responder, handshake retries, keepalives and peer   *)
(* roaming.  Every node of the model runs this code, over a UDP network    *)
(* that loses, repeats, damages and reorders datagrams, while nodes change *)
(* address (NAT rebinding, a new Wi-Fi lease) and reboot.                  *)
(*                                                                         *)
(* A peer can be reached in several ways, over the LAN or through a NAT: a *)
(* path is one of them, and a node has an address for each.  What is sent  *)
(* to an address of a path comes from the sender's own address there.      *)
(*                                                                         *)
(* run() is a loop: run_periodic, then one recv_from that returns a packet *)
(* or times out, then tick + 1.  `loop' says which half comes next.  tick  *)
(* is only used as tick - sent_tick, which the model keeps as `age'.       *)
(*                                                                         *)
(* Cryptography is ideal: an index identifies the handshake it was drawn   *)
(* for, so the pair (idx, their) of a tunnel stands for its keys, and a    *)
(* transport packet decrypts iff both ends hold the same pair.  A new      *)
(* index (32 random bits) is one that nothing refers to any more.          *)
(*                                                                         *)
(* Left out: `confirmed' (written and never read), the birthday spray, the *)
(* STUN refresh, and what handle_decrypted does with the inner packet once *)
(* it has been accepted (TcpServer, TcpClient and the others have modules  *)
(* of their own).                                                          *)
(***************************************************************************)
EXTENDS Naturals, FiniteSets

CONSTANTS
    Nodes, Paths,
    MAX_TUNNELS, MAX_HS_RETRIES, PENDING_TIMEOUT_TICKS, MAX_STRIKES,
    MaxIndex,               \* the indexes are 1 .. MaxIndex
    MaxMoves,               \* bound: address changes of each node on each path
    Worlds                  \* the circumstances to consider

\* Circumstances: the paths there are, the nodes that start with the others as
\* targets, the nodes whose addresses may change, bounds (on indexes in use at
\* the same time, reboots, repeated datagrams, lost or damaged ones, failing
\* send_to calls, and endpoints offered at run time), and whether a datagram
\* arrives before the next timer.
World ==
    [paths : SUBSET Paths, probers : SUBSET Nodes, movers : SUBSET Nodes,
     indexes : 1 .. MaxIndex, reboots : Nat, dups : Nat, losses : Nat,
     errors : Nat, offers : Nat, timely : BOOLEAN]

ASSUME DataplaneAssumption ==
    /\ IsFiniteSet(Nodes) /\ Nodes # {} /\ IsFiniteSet(Paths) /\ Paths # {}
    /\ MAX_TUNNELS \in Nat \ {0} /\ MAX_HS_RETRIES \in Nat
    /\ PENDING_TIMEOUT_TICKS \in Nat /\ MAX_STRIKES \in Nat \ {0}
    /\ MaxIndex \in Nat /\ MaxMoves \in Nat
    /\ Worlds \subseteq World

\* The addresses a node has on a path, one after the other.
Addrs == Nodes \X Paths \X (0 .. MaxMoves)

Places == [Nodes -> [Paths -> 0 .. MaxMoves]]

Indexes == 1 .. MaxIndex

\* struct TunnelEntry, with the wg::Tunnel in it
TunnelEntry == [idx : Indexes, their : Indexes, initiator : BOOLEAN,
                peer : Nodes, addr : Addrs]

\* struct Pending
Pending == [idx : Indexes, addr : Addrs,
            age : 0 .. PENDING_TIMEOUT_TICKS + 1, retries : 0 .. MAX_HS_RETRIES]

Types == {"ping", "pong", "init", "resp", "data"}

\* A datagram; idx is the sender's index, recv the receiver's (0: none).  A
\* response without the sender's index is a damaged one.
Packet == [type : Types, from : Nodes, src : Addrs, dst : Addrs,
           idx : 0 .. MaxIndex, recv : 0 .. MaxIndex]

VARIABLES
    loop,       \* per node: "periodic" or "recv"
    targets,    \* per node: the endpoints of all its targets
    pending,    \* per node: State.pending, a partial map from peers
    tunnels,    \* per node: the values of State.tunnels (keyed by their idx)
    strikes,    \* per node and endpoint: consecutive send errors
    place,      \* per node and path: which of its addresses it has now
    net,        \* datagrams on their way
    world       \* the circumstances, with what is left of the bounds

dpVars == <<loop, targets, pending, tunnels, strikes, place, net, world>>

Here(n, k) == <<n, k, place[n][k]>>

\* Target.endpoints
Endpoints(T, p) == {a \in T : a[1] = p}

NewPacket(n, type, dst, idx, recv) ==
    [type |-> type, from |-> n, src |-> Here(n, dst[2]), dst |-> dst,
     idx |-> idx, recv |-> recv]

\* What is sent to an address that nobody has any more is lost.
Reaching(S) == {m \in S : m.dst = Here(m.dst[1], m.dst[2])}

HaveTunnelTo(n, a) == \E e \in tunnels[n] : e.addr = a

Keepalive(n, e, dst) == NewPacket(n, "data", dst, e.idx, e.their)

\* Indexes some node or datagram still refers to.
InUse ==
    (UNION {{e.idx, e.their} : e \in UNION {tunnels[n] : n \in Nodes}})
      \cup (UNION {{pending[n][k].idx : k \in DOMAIN pending[n]} : n \in Nodes})
      \cup (UNION {{m.idx, m.recv} : m \in net})

\* fn random_index: a value nobody refers to; which one makes no difference
RandomIndex ==
    LET Free == (1 .. world.indexes) \ InUse
    IN  {i \in Free : \A j \in Free : i <= j}

-----------------------------------------------------------------------------
(* fn run_periodic *)

TimedOut(p) == p.age > PENDING_TIMEOUT_TICKS

\* "Per-peer handshake retry": the slots that are given up.
GivenUp(n) ==
    {k \in DOMAIN pending[n] :
       LET p == pending[n][k]
       IN  HaveTunnelTo(n, p.addr) \/ (TimedOut(p) /\ p.retries >= MAX_HS_RETRIES)}

Retried(n) == {k \in DOMAIN pending[n] \ GivenUp(n) : TimedOut(pending[n][k])}

AfterRetryUncounted(n) ==
    [k \in DOMAIN pending[n] \ GivenUp(n) |->
       IF k \in Retried(n) THEN [pending[n][k] EXCEPT !.age = 0]
       ELSE pending[n][k]]

AfterRetry(n) ==
    [k \in DOMAIN pending[n] \ GivenUp(n) |->
       IF k \in Retried(n)
       THEN [pending[n][k] EXCEPT !.age = 0, !.retries = @ + 1]
       ELSE pending[n][k]]

ResentInits(n) ==
    {NewPacket(n, "init", pending[n][k].addr, pending[n][k].idx, 0) : k \in Retried(n)}

ProbedUntilFirstError(n, T) ==
    {a \in T : /\ strikes[n][a] = 0
               /\ \A ep \in Endpoints(T, a[1]) : ~HaveTunnelTo(n, ep)}

\* "disco-probe each endpoint" of the targets T, unless there is a tunnel to one
\* of the peer's endpoints or the endpoint has struck out
ProbedEndpoints(n, T) ==
    {a \in T : /\ strikes[n][a] < MAX_STRIKES
               /\ \A ep \in Endpoints(T, a[1]) : ~HaveTunnelTo(n, ep)}

Pings(n, S) == {NewPacket(n, "ping", a, 0, 0) : a \in S}

Keepalives(n) == {Keepalive(n, e, e.addr) : e \in tunnels[n]}

\* Endpoints a peer has, or has had, as far as the bound allows: what the DERP
\* thread hands over of its own list and of the peer's CALL_ME_MAYBE.
Offers(n) ==
    {S \in SUBSET {<<p, k, i>> : p \in Nodes \ {n}, k \in world.paths, i \in 0 .. MaxMoves} :
       /\ Cardinality(S) <= world.offers
       /\ \A a \in S : a[3] <= place[a[1]][a[2]]}

\* The probes and keepalives.  The sends to the endpoints in `failed' return an
\* error.
Probe(n, T, failed) ==
    /\ Cardinality(failed) <= world.errors
    /\ strikes' = [strikes EXCEPT ![n] =
         [a \in Addrs |-> IF a \in failed THEN @[a] + 1
                          ELSE IF a \in ProbedEndpoints(n, T) THEN 0 ELSE @[a]]]
    /\ net' = net \cup Reaching(ResentInits(n) \cup Keepalives(n)
                                \cup Pings(n, ProbedEndpoints(n, T) \ failed))

\* One call; `due' says whether the two seconds since the last probe are over.
Periodic(n, due) ==
    /\ loop[n] = "periodic"
    /\ due /\ world.timely => \A m \in net : m.type = "ping"
    /\ pending' = [pending EXCEPT ![n] = AfterRetry(n)]
    /\ \E offered \in Offers(n) :
         LET T == targets[n] \cup offered
         IN  /\ targets' = [targets EXCEPT ![n] = T]
             /\ \E failed \in SUBSET ProbedEndpoints(n, T) :
                  /\ world' = [world EXCEPT !.offers = @ - Cardinality(offered),
                                            !.errors = @ - Cardinality(failed)]
                  /\ IF due THEN Probe(n, T, failed)
                     ELSE /\ failed = {}
                          /\ net' = net \cup Reaching(ResentInits(n))
                          /\ UNCHANGED strikes
    /\ loop' = [loop EXCEPT ![n] = "recv"]
    /\ UNCHANGED <<tunnels, place>>

-----------------------------------------------------------------------------
(* fn handle_packet and the handlers it calls.  Each operator gives the     *)
(* node's next pending and tunnels and what it sends; Recv takes the packet *)
(* out of the network and closes the iteration (tick + 1).                  *)

Aged(P) ==
    [k \in DOMAIN P |->
       [P[k] EXCEPT !.age = IF @ > PENDING_TIMEOUT_TICKS THEN @ ELSE @ + 1]]

\* (Faulty variants, which show that a property can fail, stand before the
\* definition they alter.)
WithoutNone(P, k) == P

Without(P, k) == [j \in DOMAIN P \ {k} |-> P[j]]

\* fn insert_tunnel
InsertTunnel(n, e) == {x \in tunnels[n] : x.addr # e.addr} \cup {e}

\* The end of an iteration: node n has handled m (it may arrive again), its
\* slots are P, its tunnels T, and it has sent S.
Handled(n, m, P, T, S) ==
    /\ pending' = [pending EXCEPT ![n] = Aged(P)]
    /\ tunnels' = [tunnels EXCEPT ![n] = T]
    /\ loop' = [loop EXCEPT ![n] = "periodic"]
    /\ UNCHANGED <<targets, strikes, place>>
    /\ \/ net' = (net \ {m}) \cup Reaching(S) /\ UNCHANGED world
       \/ /\ world.dups > 0
          /\ net' = net \cup Reaching(S)
          /\ world' = [world EXCEPT !.dups = @ - 1]

HandlePing(n, m) ==
    /\ m.type = "ping"
    /\ Handled(n, m, pending[n], tunnels[n], {NewPacket(n, "pong", m.src, 0, 0)})

\* fn maybe_start_handshake: the early returns
MayStart(n, p, src) ==
    /\ Endpoints(targets[n], p) # {}
    /\ p \notin DOMAIN pending[n]
    /\ ~HaveTunnelTo(n, src)
    /\ Cardinality(tunnels[n]) + Cardinality(DOMAIN pending[n]) < MAX_TUNNELS

\* (A failing send_to leaves everything as if the pong had been lost.)
StartHandshake(n, m) ==
    \E i \in RandomIndex :
      LET p == [idx |-> i, addr |-> m.src, age |-> 0, retries |-> 0]
          P == [k \in DOMAIN pending[n] \cup {m.from} |->
                  IF k = m.from THEN p ELSE pending[n][k]]
      IN  Handled(n, m, P, tunnels[n], {NewPacket(n, "init", m.src, i, 0)})

HandlePong(n, m) ==
    /\ m.type = "pong"
    /\ IF MayStart(n, m.from, m.src)
       THEN StartHandshake(n, m)
       ELSE Handled(n, m, pending[n], tunnels[n], {})

\* fn handle_wg_init, consume_initiation
HandleWgInit(n, m) ==
    /\ m.type = "init"
    /\ \E i \in RandomIndex :
         LET e == [idx |-> i, their |-> m.idx, initiator |-> FALSE,
                   peer |-> m.from, addr |-> m.src]
         IN  Handled(n, m, pending[n], InsertTunnel(n, e),
                     {NewPacket(n, "resp", m.src, i, m.idx)})

\* "Find the pending handshake whose index this response targets"
AnsweredBySource(n, m) == {k \in DOMAIN pending[n] : k = m.from}

Answered(n, m) == {k \in DOMAIN pending[n] : pending[n][k].idx = m.recv}

\* fn handle_wg_response, consume_response: a response that answers nothing, one
\* that does not authenticate ("pending dropped"), and one that completes the
\* handshake.
HandleWgResponse(n, m) ==
    /\ m.type = "resp"
    /\ \/ /\ Answered(n, m) = {}
          /\ Handled(n, m, pending[n], tunnels[n], {})
       \/ \E k \in Answered(n, m) :
            /\ m.idx = 0
            /\ Handled(n, m, Without(pending[n], k), tunnels[n], {})
       \/ \E k \in Answered(n, m) :
            LET e == [idx |-> pending[n][k].idx, their |-> m.idx,
                      initiator |-> TRUE, peer |-> k, addr |-> m.src]
            IN  /\ m.idx # 0
                /\ Handled(n, m, Without(pending[n], k), InsertTunnel(n, e),
                           {Keepalive(n, e, m.src)})

\* Does the packet decrypt at tunnel e?
Opens(e, m) == e.idx = m.recv /\ e.their = m.idx

RoamedNowhere(n, m) == tunnels[n]

\* "Track peer roaming"
Roamed(n, m) ==
    {IF Opens(e, m) THEN [e EXCEPT !.addr = m.src] ELSE e : e \in tunnels[n]}

\* fn handle_wg_transport, handle_decrypted
HandleWgTransport(n, m) ==
    /\ m.type = "data"
    /\ Handled(n, m, pending[n], Roamed(n, m), {})

HandlePacket(n, m) ==
    \/ HandlePing(n, m) \/ HandlePong(n, m) \/ HandleWgInit(n, m)
    \/ HandleWgResponse(n, m) \/ HandleWgTransport(n, m)

Recv(n, type) ==
    /\ loop[n] = "recv"
    /\ \E m \in net : m.type = type /\ m.dst[1] = n /\ HandlePacket(n, m)

\* recv_from returns WouldBlock or TimedOut.
RecvTimeout(n) ==
    /\ loop[n] = "recv"
    /\ world.timely => net = {}
    /\ pending' = [pending EXCEPT ![n] = Aged(pending[n])]
    /\ loop' = [loop EXCEPT ![n] = "periodic"]
    /\ UNCHANGED <<targets, tunnels, strikes, place, net, world>>

-----------------------------------------------------------------------------
(* The network and the world *)

\* A datagram is lost, or a response damaged.  (What else is damaged is ignored
\* by whoever gets it.)
Lose ==
    /\ world.losses > 0
    /\ world' = [world EXCEPT !.losses = @ - 1]
    /\ \E m \in net :
         \/ net' = net \ {m}
         \/ m.type = "resp" /\ net' = (net \ {m}) \cup {[m EXCEPT !.idx = 0]}
    /\ UNCHANGED <<loop, targets, pending, tunnels, strikes, place>>

\* A node gets other addresses on the paths K; what was on its way to the old
\* ones is lost.
Moves(n, K) ==
    /\ \A k \in K : place[n][k] < MaxMoves
    /\ place' = [place EXCEPT ![n] = [k \in Paths |-> IF k \in K THEN @[k] + 1 ELSE @[k]]]
    /\ net' = {m \in net : m.dst[1] = n => m.dst[2] \notin K}

Move(n) ==
    /\ n \in world.movers
    /\ \E k \in world.paths : Moves(n, {k})
    /\ UNCHANGED <<loop, targets, pending, tunnels, strikes, world>>

EmptyMap == [k \in {} |-> 0]

\* fn build_lan_targets: of the netmap, in which the nodes have the places `at'.
LanTargets(n, at) ==
    IF n \in world.probers
    THEN {<<p, k, at[p][k]>> : p \in Nodes \ {n}, k \in world.paths} ELSE {}

NoPlaces == [n \in Nodes |-> [k \in Paths |-> 0]]

\* A reboot: run() starts over with an empty State and a new UDP port.  The
\* netmap may still have the first addresses of the others.
Reboot(n) ==
    /\ world.reboots > 0 /\ n \in world.movers
    /\ world' = [world EXCEPT !.reboots = @ - 1]
    /\ Moves(n, Paths)
    /\ \E at \in {NoPlaces, place} : targets' = [targets EXCEPT ![n] = LanTargets(n, at)]
    /\ loop' = [loop EXCEPT ![n] = "periodic"]
    /\ pending' = [pending EXCEPT ![n] = EmptyMap]
    /\ tunnels' = [tunnels EXCEPT ![n] = {}]
    /\ strikes' = [strikes EXCEPT ![n] = [a \in Addrs |-> 0]]

-----------------------------------------------------------------------------
Init ==
    /\ world \in Worlds
    /\ loop = [n \in Nodes |-> "periodic"]
    /\ targets = [n \in Nodes |-> LanTargets(n, NoPlaces)]
    /\ pending = [n \in Nodes |-> EmptyMap]
    /\ tunnels = [n \in Nodes |-> {}]
    /\ strikes = [n \in Nodes |-> [a \in Addrs |-> 0]]
    /\ place = NoPlaces
    /\ net = {}

LoopStep(n) ==
    \/ \E due \in BOOLEAN : Periodic(n, due)
    \/ \E t \in Types : Recv(n, t)
    \/ RecvTimeout(n)

Next ==
    \/ \E n \in Nodes : LoopStep(n) \/ Move(n) \/ Reboot(n)
    \/ Lose

Spec == Init /\ [][Next]_dpVars

-----------------------------------------------------------------------------
(* Properties *)

\* Types of the loop's state (struct State, Pending, TunnelEntry).
TypeOK ==
    /\ loop \in [Nodes -> {"periodic", "recv"}]
    /\ targets \in [Nodes -> SUBSET Addrs]
    /\ \A n \in Nodes : /\ DOMAIN pending[n] \subseteq Nodes \ {n}
                        /\ \A k \in DOMAIN pending[n] : pending[n][k] \in Pending
    /\ tunnels \in [Nodes -> SUBSET TunnelEntry]
    /\ strikes \in [Nodes -> [Addrs -> 0 .. MAX_STRIKES]]
    /\ place \in Places
    /\ net \subseteq Packet
    /\ world \in World

\* The other end of tunnel e of node n.
Matches(n, e, f) == f.peer = n /\ f.idx = e.their /\ f.their = e.idx

Matched(n, e) == \E f \in tunnels[e.peer] : Matches(n, e, f)

\* Packets can pass between n and p.
Linked(n, p) == \E e \in tunnels[n] : e.peer = p /\ Matched(n, e)

\* State.tunnels is "keyed by our receiver index" and a slot of pending becomes
\* the tunnel of its index: an index names one thing at one node, also after
\* duplicated responses and superseded attempts.
IndexNamesOne ==
    \A n \in Nodes :
      /\ \A e, f \in tunnels[n] : e.idx = f.idx => e = f
      /\ \A k \in DOMAIN pending[n] :
           /\ \A e \in tunnels[n] : e.idx # pending[n][k].idx
           /\ \A j \in DOMAIN pending[n] :
                pending[n][j].idx = pending[n][k].idx => j = k

\* insert_tunnel: "dropping any existing tunnel to the same peer address so a
\* re-handshake replaces rather than duplicates": there is one tunnel per
\* address as long as its owner has not moved there, however many handshakes
\* crossed or were repeated and however the tunnels roamed.  (Not one per peer:
\* a peer with two endpoints may get a tunnel for each, see the README.)
OnePerAddress ==
    \A n \in Nodes : \A e, f \in tunnels[n] :
      e.addr = f.addr /\ place[e.peer][e.addr[2]] = 0 => e = f

\* The tunnels and the slots of the handshakes keep their types and are told
\* apart, by index and by address, after any repeated, late or crossing
\* handshake, over whichever of the peer's endpoints.
TunnelsDistinct == TypeOK /\ IndexNamesOne /\ OnePerAddress

\* Both ends of a tunnel mean the same handshake: a response is never taken for
\* another attempt than the one it answers ("ignore late responses from
\* superseded attempts").
KeysAgree ==
    \A n \in Nodes : \A e \in tunnels[n] : \A q \in Nodes : \A f \in tunnels[q] :
      e.initiator /\ f.idx = e.their
        => f.their = e.idx /\ ~f.initiator /\ q = e.peer /\ f.peer = n

-----------------------------------------------------------------------------
(* Fairness: the loop of every node goes round, the two seconds between     *)
(* probes pass again and again (wall clock), and of the packets a peer      *)
(* sends through a tunnel again and again some arrive (losses are bounded). *)

Fairness ==
    \A n \in Nodes :
      /\ WF_dpVars(LoopStep(n))
      /\ SF_dpVars(Periodic(n, TRUE))
      /\ SF_dpVars(Recv(n, "data"))

FairSpec == Spec /\ Fairness

\* MAX_HS_RETRIES: "give up + free the slot": every started handshake ends,
\* with a tunnel or without.
SlotFreed ==
    \A n \in Nodes : \A k \in Nodes \ {n} :
      k \in DOMAIN pending[n] ~> k \notin DOMAIN pending[n]

\* The dongle that probes gets through, in spite of lost datagrams and failing
\* sends: two nodes that keep their addresses, on a network that is fast for the
\* timers, end up for good with tunnels that fit each other.
Connects ==
    world.timely /\ world.movers = {} =>
      \A n \in Nodes : \A p \in Nodes \ {n} :
        <>[](n \in world.probers => Linked(n, p))

\* "keepalives keep those paths alive": probing a peer stops when there is a
\* tunnel to it, so a tunnel must be, or become, one the peer has too.
TunnelUsable ==
    \A n \in Nodes : \A p \in Nodes \ {n} :
      (\E e \in tunnels[n] : e.peer = p) ~> Linked(n, p)

\* "Track peer roaming": packets of a peer that has moved end up going to where
\* it is now.
RoamingFollowed ==
    \A n \in Nodes : \A p \in Nodes \ {n} :
      <>[](\A e \in tunnels[n] : e.peer = p /\ Matched(n, e) => e.addr = Here(p, e.addr[2]))
=============================================================================
