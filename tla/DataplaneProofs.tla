--------------------------- MODULE DataplaneProofs ---------------------------
(***************************************************************************)
(* Proofs about Dataplane, for any number of nodes, indexes, tunnels,      *)
(* retries and strikes, and for every mix of lost, repeated and late       *)
(* datagrams, address changes and reboots.                                 *)
(*                                                                         *)
(* Each safety property compares two places that refer to an index: two    *)
(* tunnels, a tunnel and a slot.  What makes them hold is that everything  *)
(* that refers to an index, datagrams included, agrees on what it stands   *)
(* for.  The invariant says so with an assignment of meanings to indexes;  *)
(* a fresh index is one whose meaning nobody relies on.                    *)
(***************************************************************************)
EXTENDS Dataplane, FiniteSetTheorems, TLAPS

\* What an index stands for: the attempt of `node' to reach `peer' on a path, or
\* the answer of `node' to the attempt `answers' of `peer' there.
Meaning == [attempt : BOOLEAN, node : Nodes, peer : Nodes, path : Paths,
            answers : 0 .. MaxIndex]

Attempt(n, p, k) ==
    [attempt |-> TRUE, node |-> n, peer |-> p, path |-> k, answers |-> 0]

Answer(n, p, k, i) ==
    [attempt |-> FALSE, node |-> n, peer |-> p, path |-> k, answers |-> i]

\* An address node p has or has had.
AddrOf(a, p) == a \in Addrs /\ a[1] = p /\ a[3] <= place[p][a[2]]

SlotMeans(M, n, k, p) ==
    /\ k \in Nodes \ {n} /\ p \in Pending
    /\ AddrOf(p.addr, k)
    /\ M[p.idx] = Attempt(n, k, p.addr[2])

TunnelMeans(M, n, e) ==
    /\ e \in TunnelEntry /\ e.peer # n
    /\ AddrOf(e.addr, e.peer)
    /\ IF e.initiator
       THEN /\ M[e.idx] = Attempt(n, e.peer, e.addr[2])
            /\ M[e.their] = Answer(e.peer, n, e.addr[2], e.idx)
       ELSE /\ M[e.idx] = Answer(n, e.peer, e.addr[2], e.their)
            /\ M[e.their] = Attempt(e.peer, n, e.addr[2])

PacketMeans(M, m) ==
    /\ m \in Packet /\ m.dst[1] # m.from
    /\ AddrOf(m.src, m.from)
    /\ m.type = "init" =>
         m.idx \in Indexes /\ M[m.idx] = Attempt(m.from, m.dst[1], m.src[2])
    /\ m.type = "resp" /\ m.idx # 0 =>
         /\ m.idx \in Indexes /\ m.recv \in Indexes
         /\ M[m.idx] = Answer(m.from, m.dst[1], m.src[2], m.recv)
         /\ M[m.recv] = Attempt(m.dst[1], m.from, m.src[2])
    /\ m.type = "data" =>
         /\ m.recv \in Indexes
         /\ M[m.recv].peer = m.from /\ M[m.recv].path = m.src[2]

\* All slots, tunnels and datagrams agree with M.
Agreed(M) ==
    /\ \A n \in Nodes : \A k \in DOMAIN pending[n] : SlotMeans(M, n, k, pending[n][k])
    /\ \A n \in Nodes : \A e \in tunnels[n] : TunnelMeans(M, n, e)
    /\ \A m \in net : PacketMeans(M, m)

\* The parts of the state that are functions, are.
Shape ==
    /\ loop \in [Nodes -> {"periodic", "recv"}]
    /\ targets \in [Nodes -> SUBSET Addrs]
    /\ \A n \in Nodes : \A a \in targets[n] : a[1] # n
    /\ pending = [n \in Nodes |-> pending[n]]
    /\ \A n \in Nodes : pending[n] = [k \in DOMAIN pending[n] |-> pending[n][k]]
    /\ tunnels \in [Nodes -> SUBSET TunnelEntry]
    /\ strikes \in [Nodes -> [Addrs -> 0 .. MAX_STRIKES]]
    /\ place \in Places
    /\ world \in World

\* IndexNamesOne for the slots P and the tunnels T of a node.
NamesOne(P, T) ==
    /\ \A e, f \in T : e.idx = f.idx => e = f
    /\ \A k \in DOMAIN P :
         /\ \A e \in T : e.idx # P[k].idx
         /\ \A j \in DOMAIN P : P[j].idx = P[k].idx => j = k

\* OnePerAddress for the tunnels T of a node.
PerAddress(T) ==
    \A e, f \in T : e.addr = f.addr /\ place[e.peer][e.addr[2]] = 0 => e = f

IInv ==
    /\ Shape
    /\ \E M \in [Indexes -> Meaning] : Agreed(M)
    /\ \A n \in Nodes : NamesOne(pending[n], tunnels[n]) /\ PerAddress(tunnels[n])

-----------------------------------------------------------------------------
(* The pieces *)

LEMMA AttemptType ==
    ASSUME NEW n \in Nodes, NEW p \in Nodes, NEW k \in Paths
    PROVE  Attempt(n, p, k) \in Meaning
  BY DataplaneAssumption DEF Attempt, Meaning

LEMMA AnswerType ==
    ASSUME NEW n \in Nodes, NEW p \in Nodes, NEW k \in Paths, NEW i \in Indexes
    PROVE  Answer(n, p, k, i) \in Meaning
  BY DataplaneAssumption DEF Answer, Meaning, Indexes

\* The bounds of the circumstances are counted down.
LEMMA WorldType ==
    ASSUME NEW w \in World, NEW c \in Nat
    PROVE  /\ [w EXCEPT !.dups = c] \in World
           /\ [w EXCEPT !.losses = c] \in World
           /\ [w EXCEPT !.errors = c] \in World
           /\ [w EXCEPT !.offers = c] \in World
           /\ [w EXCEPT !.reboots = c] \in World
  BY DEF World

LEMMA HereAddr ==
    ASSUME place \in Places, NEW n \in Nodes, NEW k \in Paths
    PROVE  AddrOf(Here(n, k), n) /\ Here(n, k)[2] = k
<1>1. place[n][k] \in 0 .. MaxMoves
  BY DEF Places
<1> QED  BY <1>1, DataplaneAssumption DEF AddrOf, Here, Addrs

\* fn random_index: an index nobody refers to.
LEMMA RandomIndexFresh ==
    ASSUME Shape, NEW i \in RandomIndex
    PROVE  i \in Indexes /\ i \notin InUse
<1>1. i \in 1 .. world.indexes /\ i \notin InUse
  BY DEF RandomIndex
<1>2. world.indexes \in 1 .. MaxIndex
  BY DEF Shape, World
<1> QED  BY <1>1, <1>2, DataplaneAssumption DEF Indexes

\* What slots, tunnels and datagrams refer to is in use.
LEMMA SlotInUse ==
    ASSUME NEW n \in Nodes, NEW k \in DOMAIN pending[n]
    PROVE  pending[n][k].idx \in InUse
<1>1. pending[n][k].idx \in {pending[n][j].idx : j \in DOMAIN pending[n]}
  OBVIOUS
<1>2. pending[n][k].idx \in UNION {{pending[q][j].idx : j \in DOMAIN pending[q]} : q \in Nodes}
  BY <1>1, Zenon
<1> QED  BY <1>2, Zenon DEF InUse

LEMMA TunnelInUse ==
    ASSUME NEW n \in Nodes, NEW e \in tunnels[n]
    PROVE  e.idx \in InUse /\ e.their \in InUse
<1>1. e \in UNION {tunnels[q] : q \in Nodes}
  BY Zenon
<1>2. {e.idx, e.their} \in {{f.idx, f.their} : f \in UNION {tunnels[q] : q \in Nodes}}
  BY <1>1, Zenon
<1>3. /\ e.idx \in UNION {{f.idx, f.their} : f \in UNION {tunnels[q] : q \in Nodes}}
      /\ e.their \in UNION {{f.idx, f.their} : f \in UNION {tunnels[q] : q \in Nodes}}
  BY <1>2, Zenon
<1> QED  BY <1>3, Zenon DEF InUse

LEMMA PacketInUse ==
    ASSUME NEW m \in net
    PROVE  m.idx \in InUse /\ m.recv \in InUse
<1>1. {m.idx, m.recv} \in {{x.idx, x.recv} : x \in net}
  BY Zenon
<1>2. /\ m.idx \in UNION {{x.idx, x.recv} : x \in net}
      /\ m.recv \in UNION {{x.idx, x.recv} : x \in net}
  BY <1>1, Zenon
<1> QED  BY <1>2, Zenon DEF InUse

\* What nobody refers to can be given a new meaning.
LEMMA FreshMeaning ==
    ASSUME Shape, NEW M \in [Indexes -> Meaning], Agreed(M),
           NEW i \in Indexes, i \notin InUse, NEW x \in Meaning
    PROVE  /\ [M EXCEPT ![i] = x] \in [Indexes -> Meaning]
           /\ Agreed([M EXCEPT ![i] = x])
<1> DEFINE N == [M EXCEPT ![i] = x]
<1>1. N \in [Indexes -> Meaning]
  OBVIOUS
<1>2. \A j \in Indexes : j # i => N[j] = M[j]
  OBVIOUS
<1> HIDE DEF N
<1>3. ASSUME NEW n \in Nodes, NEW k \in DOMAIN pending[n]
      PROVE  SlotMeans(N, n, k, pending[n][k])
  <2>1. SlotMeans(M, n, k, pending[n][k])
    BY DEF Agreed
  <2>2. k \in Nodes /\ pending[n][k].idx \in Indexes
    BY <2>1 DEF SlotMeans, Pending
  <2>3. pending[n][k].idx \in InUse
    BY SlotInUse
  <2> QED  BY <1>2, <2>1, <2>2, <2>3 DEF SlotMeans
<1>4. ASSUME NEW n \in Nodes, NEW e \in tunnels[n]
      PROVE  TunnelMeans(N, n, e)
  <2>1. TunnelMeans(M, n, e)
    BY DEF Agreed
  <2>2. e.idx \in Indexes /\ e.their \in Indexes
    BY <2>1 DEF TunnelMeans, TunnelEntry
  <2>3. e.idx \in InUse /\ e.their \in InUse
    BY TunnelInUse
  <2> QED  BY <1>2, <2>1, <2>2, <2>3 DEF TunnelMeans
<1>5. ASSUME NEW m \in net
      PROVE  PacketMeans(N, m)
  <2>1. PacketMeans(M, m)
    BY DEF Agreed
  <2>2. m.idx \in InUse /\ m.recv \in InUse
    BY PacketInUse
  <2> QED  BY <1>2, <2>1, <2>2 DEF PacketMeans
<1>6. Agreed(N)
  BY <1>3, <1>4, <1>5 DEF Agreed
<1> QED  BY <1>1, <1>6 DEF N

\* What a node sends comes from its own address on the path of the destination.
LEMMA NewPacketMeans ==
    ASSUME place \in Places, NEW n \in Nodes, NEW a \in Addrs, NEW t \in Types,
           NEW i \in 0 .. MaxIndex, NEW j \in 0 .. MaxIndex
    PROVE  LET m == NewPacket(n, t, a, i, j)
           IN  /\ m \in Packet /\ m.type = t /\ m.from = n /\ m.dst = a
               /\ m.idx = i /\ m.recv = j
               /\ AddrOf(m.src, n) /\ m.src[2] = a[2]
<1>1. a[2] \in Paths
  BY DEF Addrs
<1>2. AddrOf(Here(n, a[2]), n) /\ Here(n, a[2])[2] = a[2] /\ Here(n, a[2]) \in Addrs
  BY <1>1, HereAddr DEF AddrOf
<1> QED  BY <1>2 DEF NewPacket, Packet

\* A datagram of node n that carries no index.
LEMMA PlainPacket ==
    ASSUME place \in Places, NEW n \in Nodes, NEW M,
           NEW a \in Addrs, a[1] # n, NEW t \in {"ping", "pong"}
    PROVE  PacketMeans(M, NewPacket(n, t, a, 0, 0))
<1> DEFINE m == NewPacket(n, t, a, 0, 0)
<1>1. /\ m \in Packet /\ m.type = t /\ m.from = n /\ m.dst = a
      /\ AddrOf(m.src, n)
  BY NewPacketMeans, DataplaneAssumption DEF Types
<1> HIDE DEF m
<1>2. PacketMeans(M, m)
  BY <1>1 DEF PacketMeans
<1> QED  BY <1>2 DEF m

\* What a node sends through a tunnel is from the peer of the other end.
LEMMA KeepaliveMeans ==
    ASSUME place \in Places, NEW n \in Nodes, NEW M, NEW e,
           TunnelMeans(M, n, e), NEW a \in Addrs, a[1] # n, a[2] = e.addr[2]
    PROVE  PacketMeans(M, Keepalive(n, e, a))
<1> DEFINE m == Keepalive(n, e, a)
<1>1. e.idx \in Indexes /\ e.their \in Indexes
  BY DEF TunnelMeans, TunnelEntry
<1>2. M[e.their].peer = n /\ M[e.their].path = a[2]
  BY DEF TunnelMeans, Attempt, Answer
<1>3. /\ m \in Packet /\ m.type = "data" /\ m.from = n /\ m.dst = a
      /\ m.recv = e.their /\ AddrOf(m.src, n) /\ m.src[2] = a[2]
  <2>1. e.idx \in 0 .. MaxIndex /\ e.their \in 0 .. MaxIndex /\ "data" \in Types
    BY <1>1, DataplaneAssumption DEF Indexes, Types
  <2> QED  BY <2>1, NewPacketMeans DEF Keepalive
<1> HIDE DEF m
<1>4. PacketMeans(M, m)
  BY <1>1, <1>2, <1>3 DEF PacketMeans
<1> QED  BY <1>4 DEF m

\* An initiation sent to an address of the peer of the attempt.
LEMMA InitiationMeans ==
    ASSUME place \in Places, NEW n \in Nodes, NEW M,
           NEW k \in Nodes \ {n}, NEW a, AddrOf(a, k),
           NEW i \in Indexes, M[i] = Attempt(n, k, a[2])
    PROVE  PacketMeans(M, NewPacket(n, "init", a, i, 0))
<1> DEFINE m == NewPacket(n, "init", a, i, 0)
<1>1. a \in Addrs /\ a[1] = k
  BY DEF AddrOf
<1>2. /\ m \in Packet /\ m.type = "init" /\ m.from = n /\ m.dst = a
      /\ m.idx = i /\ AddrOf(m.src, n) /\ m.src[2] = a[2]
  <2>1. i \in 0 .. MaxIndex /\ 0 \in 0 .. MaxIndex /\ "init" \in Types
    BY DataplaneAssumption DEF Indexes, Types
  <2> QED  BY <1>1, <2>1, NewPacketMeans
<1> HIDE DEF m
<1>3. PacketMeans(M, m)
  BY <1>1, <1>2 DEF PacketMeans
<1> QED  BY <1>3 DEF m

-----------------------------------------------------------------------------
(* Steps of a node *)

\* Meanings depend on the addresses a node has had, which only grow.
LEMMA PlaceGrows ==
    ASSUME place \in Places, place' \in Places,
           \A q \in Nodes : \A k \in Paths : place[q][k] <= place'[q][k], NEW M
    PROVE  /\ \A n, k, p : SlotMeans(M, n, k, p) => SlotMeans(M, n, k, p)'
           /\ \A n \in Nodes : \A e : TunnelMeans(M, n, e) => TunnelMeans(M, n, e)'
           /\ \A m : PacketMeans(M, m) => PacketMeans(M, m)'
<1>1. ASSUME NEW a, NEW p \in Nodes, AddrOf(a, p)
      PROVE  AddrOf(a, p)'
  <2>1. a \in Addrs /\ a[1] = p /\ a[2] \in Paths /\ a[3] \in 0 .. MaxMoves
    BY <1>1 DEF AddrOf, Addrs
  <2>2. /\ place[p][a[2]] \in 0 .. MaxMoves /\ place'[p][a[2]] \in 0 .. MaxMoves
        /\ a[3] <= place[p][a[2]] /\ place[p][a[2]] <= place'[p][a[2]]
    BY <1>1, <2>1 DEF AddrOf, Places
  <2>3. a[3] <= place'[p][a[2]]
    BY <2>1, <2>2, DataplaneAssumption
  <2> QED  BY <2>1, <2>3 DEF AddrOf
<1>2. \A n, k, p : SlotMeans(M, n, k, p) => SlotMeans(M, n, k, p)'
  BY <1>1 DEF SlotMeans
<1>3. \A n \in Nodes : \A e : TunnelMeans(M, n, e) => TunnelMeans(M, n, e)'
  BY <1>1 DEF TunnelMeans, TunnelEntry
<1>4. \A m : PacketMeans(M, m) => PacketMeans(M, m)'
  BY <1>1 DEF PacketMeans, Packet
<1> QED  BY <1>2, <1>3, <1>4

\* tick + 1
LEMMA AgedMeans ==
    ASSUME NEW P, P = [k \in DOMAIN P |-> P[k]], NEW M, NEW n \in Nodes,
           \A k \in DOMAIN P : SlotMeans(M, n, k, P[k])
    PROVE  /\ Aged(P) = [k \in DOMAIN Aged(P) |-> Aged(P)[k]]
           /\ DOMAIN Aged(P) = DOMAIN P
           /\ \A k \in DOMAIN P : /\ Aged(P)[k].idx = P[k].idx
                                  /\ SlotMeans(M, n, k, Aged(P)[k])
<1>1. DOMAIN Aged(P) = DOMAIN P /\ Aged(P) = [k \in DOMAIN Aged(P) |-> Aged(P)[k]]
  BY DEF Aged
<1>2. ASSUME NEW k \in DOMAIN P
      PROVE  Aged(P)[k].idx = P[k].idx /\ SlotMeans(M, n, k, Aged(P)[k])
  <2>1. SlotMeans(M, n, k, P[k]) /\ P[k] \in Pending
    BY DEF SlotMeans
  <2>2. Aged(P)[k] = [P[k] EXCEPT !.age = IF @ > PENDING_TIMEOUT_TICKS THEN @ ELSE @ + 1]
    BY DEF Aged
  <2>3. /\ Aged(P)[k].idx = P[k].idx /\ Aged(P)[k].addr = P[k].addr
        /\ Aged(P)[k] \in Pending
    BY <2>1, <2>2, DataplaneAssumption DEF Pending
  <2> QED  BY <2>1, <2>3 DEF SlotMeans
<1> QED  BY <1>1, <1>2

\* A step of a node that stays where it is: if its new slots and tunnels and
\* what it sends agree with the meanings, so does everything.
LEMMA NodeStep ==
    ASSUME IInv, NEW M \in [Indexes -> Meaning], Agreed(M),
           NEW n \in Nodes, NEW Q, NEW T,
           Q = [k \in DOMAIN Q |-> Q[k]],
           \A k \in DOMAIN Q : SlotMeans(M, n, k, Q[k]),
           \A e \in T : TunnelMeans(M, n, e),
           NamesOne(Q, T), PerAddress(T),
           pending' = [pending EXCEPT ![n] = Q],
           tunnels' = [tunnels EXCEPT ![n] = T],
           loop' \in [Nodes -> {"periodic", "recv"}],
           strikes' \in [Nodes -> [Addrs -> 0 .. MAX_STRIKES]],
           targets' \in [Nodes -> SUBSET Addrs],
           \A q \in Nodes : \A a \in targets'[q] : a[1] # q,
           place' = place,
           world' \in World,
           \A x \in net' : x \in net \/ PacketMeans(M, x)
    PROVE  IInv'
<1>1. Shape
  BY DEF IInv
<1>2. Shape'
  <2>1. T \subseteq TunnelEntry
    BY DEF TunnelMeans
  <2>2. tunnels' \in [Nodes -> SUBSET TunnelEntry]
    BY <1>1, <2>1 DEF Shape
  <2>3. pending' = [q \in Nodes |-> pending'[q]]
    BY <1>1 DEF Shape
  <2>4. \A q \in Nodes : pending'[q] = [k \in DOMAIN pending'[q] |-> pending'[q][k]]
    <3> TAKE q \in Nodes
    <3>1. CASE q = n
      BY <1>1, <3>1 DEF Shape
    <3>2. CASE q # n
      BY <1>1, <3>2 DEF Shape
    <3> QED  BY <3>1, <3>2
  <2> QED  BY <1>1, <2>2, <2>3, <2>4 DEF Shape
<1>3. /\ pending'[n] = Q /\ tunnels'[n] = T
      /\ \A q \in Nodes \ {n} : pending'[q] = pending[q] /\ tunnels'[q] = tunnels[q]
  BY <1>1 DEF Shape
<1>4. /\ \A q, k, p : SlotMeans(M, q, k, p) => SlotMeans(M, q, k, p)'
      /\ \A q \in Nodes : \A e : TunnelMeans(M, q, e) => TunnelMeans(M, q, e)'
      /\ \A x : PacketMeans(M, x) => PacketMeans(M, x)'
  <2>1. \A q \in Nodes : \A k \in Paths : place[q][k] <= place'[q][k]
    BY <1>1, DataplaneAssumption DEF Shape, Places
  <2> QED  BY <1>1, <1>2, <2>1, PlaceGrows DEF Shape
<1>5. Agreed(M)'
  <2>1. ASSUME NEW q \in Nodes, NEW k \in DOMAIN pending'[q]
        PROVE  SlotMeans(M, q, k, pending[q][k])'
    <3>1. SlotMeans(M, q, k, pending'[q][k])
      BY <1>3 DEF Agreed
    <3> QED  BY <1>4, <3>1 DEF SlotMeans, AddrOf
  <2>2. ASSUME NEW q \in Nodes, NEW e \in tunnels'[q]
        PROVE  TunnelMeans(M, q, e)'
    BY <1>3, <1>4 DEF Agreed
  <2>3. ASSUME NEW x \in net'
        PROVE  PacketMeans(M, x)'
    BY <1>4 DEF Agreed
  <2> QED  BY <2>1, <2>2, <2>3 DEF Agreed
<1>6. ASSUME NEW q \in Nodes
      PROVE  (NamesOne(pending[q], tunnels[q]) /\ PerAddress(tunnels[q]))'
  <2>1. CASE q = n
    BY <1>3, <2>1 DEF NamesOne, PerAddress
  <2>2. CASE q # n
    BY <1>3, <2>2 DEF IInv, NamesOne, PerAddress
  <2> QED  BY <2>1, <2>2
<1> QED  BY <1>2, <1>5, <1>6 DEF IInv

\* The end of an iteration.
LEMMA HandledInv ==
    ASSUME IInv, NEW M \in [Indexes -> Meaning], Agreed(M),
           NEW n \in Nodes, NEW m, NEW P, NEW T, NEW S,
           P = [k \in DOMAIN P |-> P[k]],
           \A k \in DOMAIN P : SlotMeans(M, n, k, P[k]),
           \A e \in T : TunnelMeans(M, n, e),
           \A x \in S : PacketMeans(M, x),
           NamesOne(P, T), PerAddress(T),
           Handled(n, m, P, T, S)
    PROVE  IInv'
<1> DEFINE Q == Aged(P)
<1>1. /\ Q = [k \in DOMAIN Q |-> Q[k]] /\ DOMAIN Q = DOMAIN P
      /\ \A k \in DOMAIN P : Q[k].idx = P[k].idx /\ SlotMeans(M, n, k, Q[k])
  BY AgedMeans
<1>2. /\ pending' = [pending EXCEPT ![n] = Q]
      /\ tunnels' = [tunnels EXCEPT ![n] = T]
      /\ loop' = [loop EXCEPT ![n] = "periodic"]
      /\ strikes' = strikes /\ place' = place /\ targets' = targets
      /\ \A x \in net' : x \in net \/ x \in S
      /\ world' = world \/ (world.dups > 0 /\ world' = [world EXCEPT !.dups = @ - 1])
  BY DEF Handled, Reaching
<1> HIDE DEF Q
<1>3. world' \in World
  <2>1. CASE world' = world
    BY <2>1 DEF IInv, Shape
  <2>2. CASE world.dups > 0 /\ world' = [world EXCEPT !.dups = @ - 1]
    <3>1. world \in World /\ world.dups \in Nat
      BY DEF IInv, Shape, World
    <3>2. world.dups - 1 \in Nat
      BY <2>2, <3>1
    <3> QED  BY <2>2, <3>1, <3>2, WorldType
  <2> QED  BY <1>2, <2>1, <2>2
<1>4. /\ loop' \in [Nodes -> {"periodic", "recv"}]
      /\ strikes' \in [Nodes -> [Addrs -> 0 .. MAX_STRIKES]]
      /\ targets' \in [Nodes -> SUBSET Addrs]
      /\ \A q \in Nodes : \A a \in targets'[q] : a[1] # q
  BY <1>2 DEF IInv, Shape
<1>5. NamesOne(Q, T)
  BY <1>1 DEF NamesOne
<1>6. \A k \in DOMAIN Q : SlotMeans(M, n, k, Q[k])
  BY <1>1
<1>7. \A x \in net' : x \in net \/ PacketMeans(M, x)
  BY <1>2
<1> QED  BY <1>1, <1>2, <1>3, <1>4, <1>5, <1>6, <1>7, NodeStep

\* What the handlers start from: the datagram at hand and the node's own state
\* agree with some meanings.
LEMMA Arrives ==
    ASSUME NEW n \in Nodes, NEW m \in net, m.dst[1] = n, NEW M, Agreed(M)
    PROVE  /\ PacketMeans(M, m) /\ m.from \in Nodes \ {n}
           /\ m.src \in Addrs /\ m.src[1] = m.from /\ m.src[2] \in Paths
           /\ AddrOf(m.src, m.from)
<1>1. PacketMeans(M, m)
  BY DEF Agreed
<1> QED  BY <1>1 DEF PacketMeans, Packet, AddrOf, Addrs

LEMMA OwnState ==
    ASSUME IInv, NEW n \in Nodes, NEW M, Agreed(M)
    PROVE  /\ pending[n] = [k \in DOMAIN pending[n] |-> pending[n][k]]
           /\ \A k \in DOMAIN pending[n] : SlotMeans(M, n, k, pending[n][k])
           /\ \A e \in tunnels[n] : TunnelMeans(M, n, e)
           /\ NamesOne(pending[n], tunnels[n]) /\ PerAddress(tunnels[n])
           /\ place \in Places
  BY DEF IInv, Shape, Agreed

LEMMA PingInv ==
    ASSUME IInv, NEW n \in Nodes, NEW m \in net, m.dst[1] = n, HandlePing(n, m)
    PROVE  IInv'
<1> PICK M \in [Indexes -> Meaning] : Agreed(M)
  BY DEF IInv
<1>0. /\ pending[n] = [k \in DOMAIN pending[n] |-> pending[n][k]]
      /\ \A k \in DOMAIN pending[n] : SlotMeans(M, n, k, pending[n][k])
      /\ \A e \in tunnels[n] : TunnelMeans(M, n, e)
      /\ NamesOne(pending[n], tunnels[n]) /\ PerAddress(tunnels[n])
      /\ place \in Places
  BY OwnState
<1>1. \A x \in {NewPacket(n, "pong", m.src, 0, 0)} : PacketMeans(M, x)
  <2>1. m.src \in Addrs /\ m.src[1] = m.from /\ m.from \in Nodes \ {n}
    BY Arrives, Zenon
  <2> QED  BY <1>0, <2>1, PlainPacket
<1>2. Handled(n, m, pending[n], tunnels[n], {NewPacket(n, "pong", m.src, 0, 0)})
  BY DEF HandlePing
<1> QED  BY <1>0, <1>1, <1>2, HandledInv

LEMMA StartInv ==
    ASSUME IInv, NEW n \in Nodes, NEW m \in net, m.dst[1] = n,
           MayStart(n, m.from, m.src), StartHandshake(n, m)
    PROVE  IInv'
<1> PICK M \in [Indexes -> Meaning] : Agreed(M)
  BY DEF IInv
<1> DEFINE k0 == m.from
           Slot(i) == [idx |-> i, addr |-> m.src, age |-> 0, retries |-> 0]
           Slots(i) == [k \in DOMAIN pending[n] \cup {k0} |->
                          IF k = k0 THEN Slot(i) ELSE pending[n][k]]
<1>1. PICK i \in RandomIndex :
        Handled(n, m, Slots(i), tunnels[n], {NewPacket(n, "init", m.src, i, 0)})
  BY DEF StartHandshake
<1>2. i \in Indexes /\ i \notin InUse
  BY RandomIndexFresh DEF IInv
<1> DEFINE N == [M EXCEPT ![i] = Attempt(n, k0, m.src[2])]
<1>3. k0 \in Nodes \ {n} /\ AddrOf(m.src, k0) /\ m.src \in Addrs /\ m.src[2] \in Paths
  BY Arrives, Zenon
<1>4. N \in [Indexes -> Meaning] /\ Agreed(N)
  BY <1>2, <1>3, AttemptType, FreshMeaning DEF IInv
<1>5. N[i] = Attempt(n, k0, m.src[2])
  BY <1>2
<1> HIDE DEF N
<1>6. SlotMeans(N, n, k0, Slot(i))
  BY <1>2, <1>3, <1>5, DataplaneAssumption DEF SlotMeans, Pending
<1>7. k0 \notin DOMAIN pending[n]
  BY DEF MayStart
<1>8. /\ DOMAIN Slots(i) = DOMAIN pending[n] \cup {k0}
      /\ Slots(i) = [k \in DOMAIN Slots(i) |-> Slots(i)[k]]
      /\ Slots(i)[k0] = Slot(i)
      /\ \A k \in DOMAIN pending[n] : Slots(i)[k] = pending[n][k]
  BY <1>7
<1>9. \A x \in {NewPacket(n, "init", m.src, i, 0)} : PacketMeans(N, x)
  <2>1. place \in Places
    BY DEF IInv, Shape
  <2> QED  BY <1>2, <1>3, <1>5, <2>1, InitiationMeans
<1>10. /\ \A k \in DOMAIN pending[n] : SlotMeans(N, n, k, pending[n][k])
       /\ \A e \in tunnels[n] : TunnelMeans(N, n, e)
       /\ NamesOne(pending[n], tunnels[n]) /\ PerAddress(tunnels[n])
  BY <1>4, OwnState
<1>11. Slot(i).idx = i
  OBVIOUS
<1>12. /\ \A k \in DOMAIN pending[n] : pending[n][k].idx # i
       /\ \A e \in tunnels[n] : e.idx # i
  BY <1>2, SlotInUse, TunnelInUse
<1> HIDE DEF Slots, Slot
<1>13. \A k \in DOMAIN Slots(i) : SlotMeans(N, n, k, Slots(i)[k])
  BY <1>6, <1>8, <1>10
<1>14. NamesOne(Slots(i), tunnels[n])
  BY <1>7, <1>8, <1>10, <1>11, <1>12 DEF NamesOne
<1> QED  BY <1>1, <1>4, <1>8, <1>9, <1>10, <1>13, <1>14, HandledInv

LEMMA PongInv ==
    ASSUME IInv, NEW n \in Nodes, NEW m \in net, m.dst[1] = n, HandlePong(n, m)
    PROVE  IInv'
<1>1. CASE MayStart(n, m.from, m.src)
  BY <1>1, StartInv DEF HandlePong
<1>2. CASE ~MayStart(n, m.from, m.src)
  <2> PICK M \in [Indexes -> Meaning] : Agreed(M)
    BY DEF IInv
  <2>1. Handled(n, m, pending[n], tunnels[n], {})
    BY <1>2 DEF HandlePong
  <2>2. \A x \in {} : PacketMeans(M, x)
    OBVIOUS
  <2>3. /\ pending[n] = [k \in DOMAIN pending[n] |-> pending[n][k]]
        /\ \A k \in DOMAIN pending[n] : SlotMeans(M, n, k, pending[n][k])
        /\ \A e \in tunnels[n] : TunnelMeans(M, n, e)
        /\ NamesOne(pending[n], tunnels[n]) /\ PerAddress(tunnels[n])
        /\ place \in Places
    BY OwnState
  <2> QED  BY <2>1, <2>2, <2>3, HandledInv
<1> QED  BY <1>1, <1>2

\* insert_tunnel drops the tunnel to the same address.
LEMMA InsertPerAddress ==
    ASSUME NEW n \in Nodes, NEW e, PerAddress(tunnels[n])
    PROVE  PerAddress(InsertTunnel(n, e))
<1>1. \A f \in InsertTunnel(n, e) : f = e \/ (f \in tunnels[n] /\ f.addr # e.addr)
  BY DEF InsertTunnel
<1> QED  BY <1>1 DEF PerAddress

LEMMA InitInv ==
    ASSUME IInv, NEW n \in Nodes, NEW m \in net, m.dst[1] = n, HandleWgInit(n, m)
    PROVE  IInv'
<1> PICK M \in [Indexes -> Meaning] : Agreed(M)
  BY DEF IInv
<1> DEFINE E(i) == [idx |-> i, their |-> m.idx, initiator |-> FALSE,
                    peer |-> m.from, addr |-> m.src]
           R(i) == NewPacket(n, "resp", m.src, i, m.idx)
<1>1. PICK i \in RandomIndex : Handled(n, m, pending[n], InsertTunnel(n, E(i)), {R(i)})
  BY DEF HandleWgInit
<1>2. i \in Indexes /\ i \notin InUse
  BY RandomIndexFresh DEF IInv
<1>3. /\ m.from \in Nodes \ {n} /\ AddrOf(m.src, m.from) /\ m.src \in Addrs
      /\ m.src[1] = m.from /\ m.src[2] \in Paths
  BY Arrives, Zenon
<1>4. m.idx \in Indexes
  <2>1. PacketMeans(M, m) /\ m.type = "init"
    BY Arrives DEF HandleWgInit
  <2> QED  BY <2>1 DEF PacketMeans
<1> DEFINE N == [M EXCEPT ![i] = Answer(n, m.from, m.src[2], m.idx)]
<1>5. N \in [Indexes -> Meaning] /\ Agreed(N)
  BY <1>2, <1>3, <1>4, AnswerType, FreshMeaning DEF IInv
<1>6. N[i] = Answer(n, m.from, m.src[2], m.idx)
  BY <1>2
<1> HIDE DEF N
<1>7. N[m.idx] = Attempt(m.from, n, m.src[2])
  <2>1. PacketMeans(N, m) /\ m.type = "init" /\ m.dst[1] = n
    BY <1>5, Arrives DEF HandleWgInit
  <2> QED  BY <2>1 DEF PacketMeans
<1>8. TunnelMeans(N, n, E(i))
  BY <1>2, <1>3, <1>4, <1>6, <1>7 DEF TunnelMeans, TunnelEntry
<1>9. \A x \in {R(i)} : PacketMeans(N, x)
  <2>1. /\ R(i) \in Packet /\ R(i).type = "resp" /\ R(i).from = n /\ R(i).dst = m.src
        /\ R(i).idx = i /\ R(i).recv = m.idx
        /\ AddrOf(R(i).src, n) /\ R(i).src[2] = m.src[2]
    <3>1. i \in 0 .. MaxIndex /\ m.idx \in 0 .. MaxIndex /\ "resp" \in Types
      BY <1>2, <1>4, DataplaneAssumption DEF Indexes, Types
    <3>2. place \in Places
      BY DEF IInv, Shape
    <3> QED  BY <1>3, <3>1, <3>2, NewPacketMeans
  <2> HIDE DEF R
  <2>2. PacketMeans(N, R(i))
    BY <1>2, <1>3, <1>4, <1>6, <1>7, <2>1 DEF PacketMeans
  <2> QED  BY <2>2
<1>10. /\ \A k \in DOMAIN pending[n] : SlotMeans(N, n, k, pending[n][k])
       /\ \A f \in tunnels[n] : TunnelMeans(N, n, f)
       /\ NamesOne(pending[n], tunnels[n]) /\ PerAddress(tunnels[n])
       /\ pending[n] = [k \in DOMAIN pending[n] |-> pending[n][k]]
  BY <1>5, OwnState
<1>11. E(i).idx = i
  OBVIOUS
<1>12. /\ \A k \in DOMAIN pending[n] : pending[n][k].idx # i
       /\ \A f \in tunnels[n] : f.idx # i
  BY <1>2, SlotInUse, TunnelInUse
<1> HIDE DEF E, R
<1>13. \A f \in InsertTunnel(n, E(i)) : f \in tunnels[n] \/ f = E(i)
  BY DEF InsertTunnel
<1>14. \A f \in InsertTunnel(n, E(i)) : TunnelMeans(N, n, f)
  BY <1>8, <1>10, <1>13
<1>15. NamesOne(pending[n], InsertTunnel(n, E(i)))
  BY <1>10, <1>11, <1>12, <1>13 DEF NamesOne
<1>16. PerAddress(InsertTunnel(n, E(i)))
  BY <1>10, InsertPerAddress
<1> QED  BY <1>1, <1>5, <1>9, <1>10, <1>14, <1>15, <1>16, HandledInv

LEMMA ResponseInv ==
    ASSUME IInv, NEW n \in Nodes, NEW m \in net, m.dst[1] = n, HandleWgResponse(n, m)
    PROVE  IInv'
<1> PICK M \in [Indexes -> Meaning] : Agreed(M)
  BY DEF IInv
<1>0. /\ pending[n] = [k \in DOMAIN pending[n] |-> pending[n][k]]
      /\ \A k \in DOMAIN pending[n] : SlotMeans(M, n, k, pending[n][k])
      /\ \A e \in tunnels[n] : TunnelMeans(M, n, e)
      /\ NamesOne(pending[n], tunnels[n]) /\ PerAddress(tunnels[n])
      /\ place \in Places
  BY OwnState
<1>1. CASE Handled(n, m, pending[n], tunnels[n], {})
  <2>1. \A x \in {} : PacketMeans(M, x)
    OBVIOUS
  <2> QED  BY <1>0, <1>1, <2>1, HandledInv
<1>2. ASSUME NEW k \in Answered(n, m),
             Handled(n, m, Without(pending[n], k), tunnels[n], {})
      PROVE  IInv'
  <2> DEFINE P == Without(pending[n], k)
  <2>1. /\ DOMAIN P = DOMAIN pending[n] \ {k} /\ P = [j \in DOMAIN P |-> P[j]]
        /\ \A j \in DOMAIN P : P[j] = pending[n][j]
    BY DEF Without
  <2>2. Handled(n, m, P, tunnels[n], {})
    BY <1>2
  <2> HIDE DEF P
  <2>3. /\ NamesOne(P, tunnels[n]) /\ \A j \in DOMAIN P : SlotMeans(M, n, j, P[j])
        /\ \A x \in {} : PacketMeans(M, x)
    BY <1>0, <2>1 DEF NamesOne
  <2> QED  BY <1>0, <2>1, <2>2, <2>3, HandledInv
<1>3. ASSUME NEW k \in Answered(n, m), m.idx # 0,
             LET e == [idx |-> pending[n][k].idx, their |-> m.idx,
                       initiator |-> TRUE, peer |-> k, addr |-> m.src]
             IN  Handled(n, m, Without(pending[n], k), InsertTunnel(n, e),
                         {Keepalive(n, e, m.src)})
      PROVE  IInv'
  <2> DEFINE e == [idx |-> pending[n][k].idx, their |-> m.idx,
                   initiator |-> TRUE, peer |-> k, addr |-> m.src]
             P == Without(pending[n], k)
  <2>1. Handled(n, m, P, InsertTunnel(n, e), {Keepalive(n, e, m.src)})
    BY <1>3
  <2>2. k \in DOMAIN pending[n] /\ pending[n][k].idx = m.recv
    BY DEF Answered
  <2>3. /\ PacketMeans(M, m) /\ m.from \in Nodes \ {n}
        /\ m.src \in Addrs /\ m.src[1] = m.from /\ AddrOf(m.src, m.from)
    BY Arrives, Zenon
  <2>4. /\ m.idx \in Indexes /\ m.recv \in Indexes
        /\ M[m.idx] = Answer(m.from, n, m.src[2], m.recv)
        /\ M[m.recv] = Attempt(n, m.from, m.src[2])
    BY <1>3, <2>3 DEF PacketMeans, HandleWgResponse
  <2>5. k = m.from
    <3>1. M[m.recv] = Attempt(n, k, pending[n][k].addr[2])
      BY <1>0, <2>2 DEF SlotMeans
    <3> QED  BY <2>4, <3>1 DEF Attempt
  <2>6. TunnelMeans(M, n, e)
    BY <2>2, <2>3, <2>4, <2>5 DEF TunnelMeans, TunnelEntry
  <2>7. e.idx = pending[n][k].idx /\ e.addr = m.src
    OBVIOUS
  <2>8. /\ DOMAIN P = DOMAIN pending[n] \ {k} /\ P = [j \in DOMAIN P |-> P[j]]
        /\ \A j \in DOMAIN P : P[j] = pending[n][j]
    BY DEF Without
  <2> HIDE DEF e, P
  <2>9. \A x \in {Keepalive(n, e, m.src)} : PacketMeans(M, x)
    <3>1. m.src[1] # n /\ m.src[2] = e.addr[2]
      BY <2>3, <2>7
    <3> QED  BY <1>0, <2>3, <2>6, <3>1, KeepaliveMeans
  <2>10. \A f \in InsertTunnel(n, e) : f \in tunnels[n] \/ f = e
    BY DEF InsertTunnel
  <2>11. \A f \in InsertTunnel(n, e) : TunnelMeans(M, n, f)
    BY <1>0, <2>6, <2>10
  <2>12. PerAddress(InsertTunnel(n, e))
    BY <1>0, InsertPerAddress
  <2>13. NamesOne(P, InsertTunnel(n, e))
    <3>1. \A f \in tunnels[n] : f.idx # e.idx
      BY <1>0, <2>2, <2>7 DEF NamesOne
    <3>2. \A j \in DOMAIN P : P[j].idx # e.idx
      BY <1>0, <2>2, <2>7, <2>8 DEF NamesOne
    <3> QED  BY <1>0, <2>8, <2>10, <3>1, <3>2 DEF NamesOne
  <2>14. \A j \in DOMAIN P : SlotMeans(M, n, j, P[j])
    BY <1>0, <2>8
  <2> QED  BY <2>1, <2>8, <2>9, <2>11, <2>12, <2>13, <2>14, HandledInv
<1> QED  BY <1>1, <1>2, <1>3 DEF HandleWgResponse

\* Whoever has not moved on a path has one address there.
LEMMA OneAddress ==
    ASSUME NEW M, NEW n \in Nodes, NEW e, NEW f, TunnelMeans(M, n, e), TunnelMeans(M, n, f),
           e.peer = f.peer, e.addr[2] = f.addr[2], place[e.peer][e.addr[2]] = 0
    PROVE  e.addr = f.addr
<1>1. /\ e.addr \in Addrs /\ e.addr[1] = e.peer /\ e.addr[3] <= 0
      /\ f.addr \in Addrs /\ f.addr[1] = f.peer /\ f.addr[3] <= 0
  BY DEF TunnelMeans, AddrOf
<1>2. e.addr[3] = 0 /\ f.addr[3] = 0
  BY <1>1, DataplaneAssumption DEF Addrs
<1> QED  BY <1>1, <1>2 DEF Addrs

LEMMA TransportInv ==
    ASSUME IInv, NEW n \in Nodes, NEW m \in net, m.dst[1] = n, HandleWgTransport(n, m)
    PROVE  IInv'
<1> PICK M \in [Indexes -> Meaning] : Agreed(M)
  BY DEF IInv
<1>0. /\ pending[n] = [k \in DOMAIN pending[n] |-> pending[n][k]]
      /\ \A k \in DOMAIN pending[n] : SlotMeans(M, n, k, pending[n][k])
      /\ \A e \in tunnels[n] : TunnelMeans(M, n, e)
      /\ NamesOne(pending[n], tunnels[n]) /\ PerAddress(tunnels[n])
      /\ place \in Places
  BY OwnState
<1> DEFINE To(e) == IF Opens(e, m) THEN [e EXCEPT !.addr = m.src] ELSE e
<1>1. Handled(n, m, pending[n], Roamed(n, m), {})
  BY DEF HandleWgTransport
<1>2. Roamed(n, m) = {To(e) : e \in tunnels[n]}
  BY DEF Roamed
<1>3. /\ PacketMeans(M, m) /\ m.src \in Addrs /\ AddrOf(m.src, m.from)
  BY Arrives, Zenon
<1>4. m.recv \in Indexes /\ M[m.recv].peer = m.from /\ M[m.recv].path = m.src[2]
  BY <1>3 DEF PacketMeans, HandleWgTransport
<1>5. ASSUME NEW e \in tunnels[n]
      PROVE  /\ TunnelMeans(M, n, To(e))
             /\ To(e).idx = e.idx /\ To(e).peer = e.peer /\ To(e).addr[2] = e.addr[2]
  <2>1. TunnelMeans(M, n, e) /\ e \in TunnelEntry
    BY <1>0 DEF TunnelMeans
  <2>2. CASE Opens(e, m)
    <3>1. M[e.idx].peer = e.peer /\ M[e.idx].path = e.addr[2]
      BY <2>1 DEF TunnelMeans, Attempt, Answer
    <3>2. e.peer = m.from /\ e.addr[2] = m.src[2]
      BY <1>4, <2>2, <3>1 DEF Opens
    <3>3. /\ To(e) \in TunnelEntry /\ To(e).idx = e.idx /\ To(e).their = e.their
          /\ To(e).peer = e.peer /\ To(e).initiator = e.initiator /\ To(e).addr = m.src
      BY <1>3, <2>1, <2>2 DEF TunnelEntry
    <3> QED  BY <1>3, <2>1, <3>2, <3>3 DEF TunnelMeans
  <2>3. CASE ~Opens(e, m)
    BY <2>1, <2>3
  <2> QED  BY <2>2, <2>3
<1> HIDE DEF To
<1>6. \A f \in Roamed(n, m) : TunnelMeans(M, n, f)
  BY <1>2, <1>5
<1>7. NamesOne(pending[n], Roamed(n, m))
  BY <1>0, <1>2, <1>5 DEF NamesOne
<1>8. PerAddress(Roamed(n, m))
  <2> SUFFICES ASSUME NEW e \in tunnels[n], NEW f \in tunnels[n],
                      To(e).addr = To(f).addr, place[To(e).peer][To(e).addr[2]] = 0
               PROVE  To(e) = To(f)
    BY <1>2 DEF PerAddress
  <2>1. /\ TunnelMeans(M, n, e) /\ TunnelMeans(M, n, To(e))
        /\ TunnelMeans(M, n, f) /\ TunnelMeans(M, n, To(f))
        /\ To(e).peer = e.peer /\ To(f).peer = f.peer
        /\ To(e).addr[2] = e.addr[2] /\ To(f).addr[2] = f.addr[2]
    BY <1>0, <1>5
  <2>2. e.addr = To(e).addr
    BY <2>1, OneAddress
  <2>3. f.peer = e.peer
    BY <2>1 DEF TunnelMeans, AddrOf
  <2>4. f.addr = To(f).addr
    BY <2>1, <2>3, OneAddress
  <2> QED  BY <1>0, <2>1, <2>2, <2>4 DEF PerAddress
<1>9. \A x \in {} : PacketMeans(M, x)
  OBVIOUS
<1> QED  BY <1>0, <1>1, <1>6, <1>7, <1>8, <1>9, HandledInv

LEMMA RecvInv ==
    ASSUME IInv, NEW n \in Nodes, NEW t \in Types, Recv(n, t)
    PROVE  IInv'
<1>1. PICK m \in net : m.dst[1] = n /\ HandlePacket(n, m)
  BY DEF Recv
<1> QED  BY <1>1, PingInv, PongInv, InitInv, ResponseInv, TransportInv DEF HandlePacket

LEMMA RecvTimeoutInv ==
    ASSUME IInv, NEW n \in Nodes, RecvTimeout(n)
    PROVE  IInv'
<1> PICK M \in [Indexes -> Meaning] : Agreed(M)
  BY DEF IInv
<1>0. /\ pending[n] = [k \in DOMAIN pending[n] |-> pending[n][k]]
      /\ \A k \in DOMAIN pending[n] : SlotMeans(M, n, k, pending[n][k])
      /\ \A e \in tunnels[n] : TunnelMeans(M, n, e)
      /\ NamesOne(pending[n], tunnels[n]) /\ PerAddress(tunnels[n])
  BY OwnState
<1> DEFINE Q == Aged(pending[n])
<1>1. /\ Q = [k \in DOMAIN Q |-> Q[k]] /\ DOMAIN Q = DOMAIN pending[n]
      /\ \A k \in DOMAIN Q : Q[k].idx = pending[n][k].idx /\ SlotMeans(M, n, k, Q[k])
  BY <1>0, AgedMeans
<1>2. /\ pending' = [pending EXCEPT ![n] = Q]
      /\ loop' = [loop EXCEPT ![n] = "periodic"]
      /\ UNCHANGED <<targets, tunnels, strikes, place, net, world>>
  BY DEF RecvTimeout
<1> HIDE DEF Q
<1>3. /\ loop' \in [Nodes -> {"periodic", "recv"}]
      /\ strikes' \in [Nodes -> [Addrs -> 0 .. MAX_STRIKES]]
      /\ targets' \in [Nodes -> SUBSET Addrs]
      /\ \A q \in Nodes : \A a \in targets'[q] : a[1] # q
      /\ world' \in World
      /\ tunnels' = [tunnels EXCEPT ![n] = tunnels[n]]
  BY <1>2 DEF IInv, Shape
<1>4. NamesOne(Q, tunnels[n])
  BY <1>0, <1>1 DEF NamesOne
<1> QED  BY <1>0, <1>1, <1>2, <1>3, <1>4, NodeStep

\* run_periodic: the slots that stay keep their index and address, and a
\* retried slot has retries left.
LEMMA AfterRetryMeans ==
    ASSUME NEW M, NEW n \in Nodes,
           \A k \in DOMAIN pending[n] : SlotMeans(M, n, k, pending[n][k])
    PROVE  /\ AfterRetry(n) = [k \in DOMAIN AfterRetry(n) |-> AfterRetry(n)[k]]
           /\ DOMAIN AfterRetry(n) \subseteq DOMAIN pending[n]
           /\ \A k \in DOMAIN AfterRetry(n) :
                /\ AfterRetry(n)[k].idx = pending[n][k].idx
                /\ SlotMeans(M, n, k, AfterRetry(n)[k])
<1>1. /\ DOMAIN AfterRetry(n) = DOMAIN pending[n] \ GivenUp(n)
      /\ AfterRetry(n) = [k \in DOMAIN AfterRetry(n) |-> AfterRetry(n)[k]]
  BY DEF AfterRetry
<1>2. ASSUME NEW k \in DOMAIN AfterRetry(n)
      PROVE  /\ AfterRetry(n)[k].idx = pending[n][k].idx
             /\ SlotMeans(M, n, k, AfterRetry(n)[k])
  <2>1. k \in DOMAIN pending[n] \ GivenUp(n)
    BY <1>1
  <2>2. SlotMeans(M, n, k, pending[n][k]) /\ pending[n][k] \in Pending
    BY <2>1 DEF SlotMeans
  <2>3. CASE k \in Retried(n)
    <3>1. AfterRetry(n)[k] = [pending[n][k] EXCEPT !.age = 0, !.retries = @ + 1]
      BY <2>1, <2>3 DEF AfterRetry
    <3>2. ~(pending[n][k].retries >= MAX_HS_RETRIES)
      BY <2>1, <2>3 DEF Retried, GivenUp
    <3>3. /\ AfterRetry(n)[k] \in Pending /\ AfterRetry(n)[k].idx = pending[n][k].idx
          /\ AfterRetry(n)[k].addr = pending[n][k].addr
      <4>1. ASSUME NEW p \in Pending, ~(p.retries >= MAX_HS_RETRIES)
            PROVE  LET r == [p EXCEPT !.age = 0, !.retries = @ + 1]
                   IN  r \in Pending /\ r.idx = p.idx /\ r.addr = p.addr
        <5>1. p.retries + 1 \in 0 .. MAX_HS_RETRIES /\ 0 \in 0 .. PENDING_TIMEOUT_TICKS + 1
          BY <4>1, DataplaneAssumption DEF Pending
        <5> QED  BY <5>1 DEF Pending
      <4> QED  BY <2>2, <3>1, <3>2, <4>1
    <3> QED  BY <2>2, <3>3 DEF SlotMeans
  <2>4. CASE k \notin Retried(n)
    <3>1. AfterRetry(n)[k] = pending[n][k]
      BY <2>1, <2>4 DEF AfterRetry
    <3> QED  BY <2>2, <3>1
  <2> QED  BY <2>3, <2>4
<1> QED  BY <1>1, <1>2

LEMMA AddrsFinite == IsFiniteSet(Addrs)
<1> DEFINE T == 0 .. MaxMoves
           S == (Nodes \X Paths) \X T
           f == [x \in S |-> <<x[1][1], x[1][2], x[2]>>]
<1>1. IsFiniteSet(T)
  BY FS_Interval, DataplaneAssumption
<1>2. IsFiniteSet(Nodes \X Paths)
  BY FS_Product, DataplaneAssumption
<1>3. IsFiniteSet(S)
  BY <1>1, <1>2, FS_Product
<1>4. f \in Surjection(S, Addrs)
  <2>1. f \in [S -> Addrs]
    BY DEF Addrs
  <2>2. ASSUME NEW a \in Addrs PROVE \E x \in S : f[x] = a
    <3>1. <<<<a[1], a[2]>>, a[3]>> \in S /\ a = <<a[1], a[2], a[3]>>
      BY DEF Addrs
    <3>2. f[<<<<a[1], a[2]>>, a[3]>>] = <<a[1], a[2], a[3]>>
      BY <3>1
    <3> QED  BY <3>1, <3>2
  <2> QED  BY <2>1, <2>2 DEF Surjection
<1> HIDE DEF S, f
<1> QED  BY <1>3, <1>4, FS_Surjection

\* The endpoints offered, and so those to probe, are addresses of other nodes.
LEMMA OfferedAddr ==
    ASSUME IInv, NEW n \in Nodes, NEW offered \in Offers(n)
    PROVE  /\ Cardinality(offered) \in Nat /\ Cardinality(offered) <= world.offers
           /\ targets[n] \cup offered \subseteq Addrs
           /\ \A a \in targets[n] \cup offered : a[1] # n
<1>1. /\ offered \subseteq {<<p, k, i>> : p \in Nodes \ {n}, k \in world.paths, i \in 0 .. MaxMoves}
      /\ Cardinality(offered) <= world.offers
  BY DEF Offers
<1>2. world.paths \subseteq Paths /\ targets[n] \subseteq Addrs /\ \A a \in targets[n] : a[1] # n
  BY DEF IInv, Shape, World
<1>3. offered \subseteq Addrs /\ \A a \in offered : a[1] # n
  BY <1>1, <1>2 DEF Addrs
<1>4. Cardinality(offered) \in Nat
  BY <1>3, AddrsFinite, FS_Subset, FS_CardinalityType
<1> QED  BY <1>1, <1>2, <1>3, <1>4

\* What run_periodic sends agrees with the meanings.
LEMMA PeriodicSends ==
    ASSUME IInv, NEW M \in [Indexes -> Meaning], Agreed(M), NEW n \in Nodes,
           NEW T \in SUBSET Addrs, \A a \in T : a[1] # n
    PROVE  /\ \A x \in ResentInits(n) : PacketMeans(M, x)
           /\ \A x \in Keepalives(n) : PacketMeans(M, x)
           /\ \A S \in SUBSET ProbedEndpoints(n, T) : \A x \in Pings(n, S) : PacketMeans(M, x)
<1>0. /\ \A k \in DOMAIN pending[n] : SlotMeans(M, n, k, pending[n][k])
      /\ \A e \in tunnels[n] : TunnelMeans(M, n, e)
      /\ place \in Places
  BY OwnState
<1>1. ASSUME NEW x \in ResentInits(n)
      PROVE  PacketMeans(M, x)
  <2>1. PICK k \in DOMAIN pending[n] :
          x = NewPacket(n, "init", pending[n][k].addr, pending[n][k].idx, 0)
    BY DEF ResentInits, Retried
  <2>2. /\ k \in Nodes \ {n} /\ AddrOf(pending[n][k].addr, k)
        /\ pending[n][k].idx \in Indexes
        /\ M[pending[n][k].idx] = Attempt(n, k, pending[n][k].addr[2])
    BY <1>0 DEF SlotMeans, Pending
  <2> QED  BY <1>0, <2>1, <2>2, InitiationMeans
<1>2. ASSUME NEW x \in Keepalives(n)
      PROVE  PacketMeans(M, x)
  <2>1. PICK e \in tunnels[n] : x = Keepalive(n, e, e.addr)
    BY DEF Keepalives
  <2>2. TunnelMeans(M, n, e) /\ e.addr \in Addrs /\ e.addr[1] # n
    BY <1>0 DEF TunnelMeans, AddrOf
  <2> QED  BY <1>0, <2>1, <2>2, KeepaliveMeans
<1>3. ASSUME NEW S \in SUBSET ProbedEndpoints(n, T), NEW x \in Pings(n, S)
      PROVE  PacketMeans(M, x)
  <2>1. PICK a \in ProbedEndpoints(n, T) : x = NewPacket(n, "ping", a, 0, 0)
    BY DEF Pings
  <2>2. a \in Addrs /\ a[1] # n
    BY DEF ProbedEndpoints
  <2> QED  BY <1>0, <2>1, <2>2, PlainPacket
<1> QED  BY <1>1, <1>2, <1>3

\* The probes keep the counts of errors in their ranges.
LEMMA ProbeInv ==
    ASSUME IInv, NEW M \in [Indexes -> Meaning], Agreed(M), NEW n \in Nodes,
           NEW T \in SUBSET Addrs, \A a \in T : a[1] # n,
           NEW failed \in SUBSET ProbedEndpoints(n, T), Probe(n, T, failed)
    PROVE  /\ strikes' \in [Nodes -> [Addrs -> 0 .. MAX_STRIKES]]
           /\ Cardinality(failed) \in Nat /\ Cardinality(failed) <= world.errors
           /\ \A x \in net' : x \in net \/ PacketMeans(M, x)
<1>1. /\ Cardinality(failed) <= world.errors
      /\ strikes' = [strikes EXCEPT ![n] =
           [a \in Addrs |-> IF a \in failed THEN @[a] + 1
                            ELSE IF a \in ProbedEndpoints(n, T) THEN 0 ELSE @[a]]]
      /\ net' = net \cup Reaching(ResentInits(n) \cup Keepalives(n)
                                  \cup Pings(n, ProbedEndpoints(n, T) \ failed))
  BY DEF Probe
<1>2. Cardinality(failed) \in Nat
  <2>1. failed \in SUBSET Addrs
    BY DEF ProbedEndpoints
  <2> QED  BY <2>1, AddrsFinite, FS_Subset, FS_CardinalityType
<1>3. \A a \in Addrs : a \in failed => strikes[n][a] < MAX_STRIKES
  BY DEF ProbedEndpoints
<1>4. strikes \in [Nodes -> [Addrs -> 0 .. MAX_STRIKES]]
  BY DEF IInv, Shape
<1>5. [a \in Addrs |-> IF a \in failed THEN strikes[n][a] + 1
                       ELSE IF a \in ProbedEndpoints(n, T) THEN 0
                       ELSE strikes[n][a]] \in [Addrs -> 0 .. MAX_STRIKES]
  BY <1>3, <1>4, DataplaneAssumption
<1>6. strikes' \in [Nodes -> [Addrs -> 0 .. MAX_STRIKES]]
  BY <1>1, <1>4, <1>5
<1>7. \A x \in Pings(n, ProbedEndpoints(n, T) \ failed) : PacketMeans(M, x)
  <2>1. ProbedEndpoints(n, T) \ failed \in SUBSET ProbedEndpoints(n, T)
    OBVIOUS
  <2> QED  BY <2>1, PeriodicSends
<1>8. /\ \A x \in ResentInits(n) : PacketMeans(M, x)
      /\ \A x \in Keepalives(n) : PacketMeans(M, x)
  BY PeriodicSends
<1> QED  BY <1>1, <1>2, <1>6, <1>7, <1>8 DEF Reaching

LEMMA PeriodicInv ==
    ASSUME IInv, NEW n \in Nodes, NEW due \in BOOLEAN, Periodic(n, due)
    PROVE  IInv'
<1> PICK M \in [Indexes -> Meaning] : Agreed(M)
  BY DEF IInv
<1>0. /\ \A k \in DOMAIN pending[n] : SlotMeans(M, n, k, pending[n][k])
      /\ \A e \in tunnels[n] : TunnelMeans(M, n, e)
      /\ NamesOne(pending[n], tunnels[n]) /\ PerAddress(tunnels[n])
  BY OwnState
<1> DEFINE Q == AfterRetry(n)
<1>1. /\ Q = [k \in DOMAIN Q |-> Q[k]]
      /\ DOMAIN Q \subseteq DOMAIN pending[n]
      /\ \A k \in DOMAIN Q : Q[k].idx = pending[n][k].idx /\ SlotMeans(M, n, k, Q[k])
  BY <1>0, AfterRetryMeans
<1>2. /\ pending' = [pending EXCEPT ![n] = Q]
      /\ loop' = [loop EXCEPT ![n] = "recv"]
      /\ tunnels' = tunnels /\ place' = place
  BY DEF Periodic
<1> HIDE DEF Q
<1>3. /\ loop' \in [Nodes -> {"periodic", "recv"}]
      /\ tunnels' = [tunnels EXCEPT ![n] = tunnels[n]]
  BY <1>2 DEF IInv, Shape
<1>4. NamesOne(Q, tunnels[n])
  BY <1>0, <1>1 DEF NamesOne
<1>5. PICK offered \in Offers(n) :
        LET T == targets[n] \cup offered
        IN  /\ targets' = [targets EXCEPT ![n] = T]
            /\ \E failed \in SUBSET ProbedEndpoints(n, T) :
                 /\ world' = [world EXCEPT !.offers = @ - Cardinality(offered),
                                           !.errors = @ - Cardinality(failed)]
                 /\ IF due THEN Probe(n, T, failed)
                    ELSE /\ failed = {}
                         /\ net' = net \cup Reaching(ResentInits(n))
                         /\ UNCHANGED strikes
  BY DEF Periodic
<1> DEFINE T == targets[n] \cup offered
<1>6. PICK failed \in SUBSET ProbedEndpoints(n, T) :
        /\ world' = [world EXCEPT !.offers = @ - Cardinality(offered),
                                  !.errors = @ - Cardinality(failed)]
        /\ IF due THEN Probe(n, T, failed)
           ELSE /\ failed = {}
                /\ net' = net \cup Reaching(ResentInits(n))
                /\ UNCHANGED strikes
  BY <1>5
<1>7. /\ Cardinality(offered) \in Nat /\ Cardinality(offered) <= world.offers
      /\ T \in SUBSET Addrs /\ \A a \in T : a[1] # n
  BY OfferedAddr
<1>8. targets' = [targets EXCEPT ![n] = T]
  BY <1>5
<1> HIDE DEF T
<1>9. /\ targets' \in [Nodes -> SUBSET Addrs]
      /\ \A q \in Nodes : \A a \in targets'[q] : a[1] # q
  <2>1. /\ targets \in [Nodes -> SUBSET Addrs]
        /\ \A q \in Nodes : \A a \in targets[q] : a[1] # q
    BY DEF IInv, Shape
  <2> QED  BY <1>7, <1>8, <2>1
<1>10. /\ strikes' \in [Nodes -> [Addrs -> 0 .. MAX_STRIKES]]
       /\ Cardinality(failed) \in Nat /\ Cardinality(failed) <= world.errors
       /\ \A x \in net' : x \in net \/ PacketMeans(M, x)
  <2>1. CASE due
    BY <1>6, <1>7, <2>1, ProbeInv
  <2>2. CASE ~due
    <3>1. failed = {} /\ net' = net \cup Reaching(ResentInits(n)) /\ strikes' = strikes
      BY <1>6, <2>2
    <3>2. Cardinality(failed) = 0 /\ world.errors \in Nat
      BY <3>1, FS_EmptySet DEF IInv, Shape, World
    <3>3. \A x \in ResentInits(n) : PacketMeans(M, x)
      BY <1>7, PeriodicSends
    <3> QED  BY <3>1, <3>2, <3>3 DEF Reaching, IInv, Shape
  <2> QED  BY <2>1, <2>2
<1>11. world' \in World
  <2>1. world \in World /\ world.offers \in Nat /\ world.errors \in Nat
    BY DEF IInv, Shape, World
  <2>2. world.offers - Cardinality(offered) \in Nat /\ world.errors - Cardinality(failed) \in Nat
    BY <1>7, <1>10, <2>1
  <2> DEFINE w == [world EXCEPT !.offers = @ - Cardinality(offered)]
  <2>3. w \in World
    BY <2>1, <2>2, WorldType
  <2>4. world' = [w EXCEPT !.errors = world.errors - Cardinality(failed)]
    BY <1>6, <2>1 DEF World
  <2> HIDE DEF w
  <2> QED  BY <2>2, <2>3, <2>4, WorldType
<1> QED  BY <1>0, <1>1, <1>2, <1>3, <1>4, <1>9, <1>10, <1>11, NodeStep

-----------------------------------------------------------------------------
(* The network and the world *)

LEMMA LoseInv ==
    ASSUME IInv, Lose
    PROVE  IInv'
<1> PICK M \in [Indexes -> Meaning] : Agreed(M)
  BY DEF IInv
<1>1. /\ UNCHANGED <<loop, targets, pending, tunnels, strikes, place>>
      /\ world.losses > 0 /\ world' = [world EXCEPT !.losses = @ - 1]
  BY DEF Lose
<1>2. world' \in World
  <2>1. world \in World /\ world.losses \in Nat
    BY DEF IInv, Shape, World
  <2>2. world.losses - 1 \in Nat
    BY <1>1, <2>1
  <2> QED  BY <1>1, <2>1, <2>2, WorldType
<1>3. Shape'
  BY <1>1, <1>2 DEF IInv, Shape
<1>4. \A x \in net' : PacketMeans(M, x)
  <2>1. PICK m \in net :
          \/ net' = net \ {m}
          \/ m.type = "resp" /\ net' = (net \ {m}) \cup {[m EXCEPT !.idx = 0]}
    BY DEF Lose
  <2>2. \A x \in net : PacketMeans(M, x)
    BY DEF Agreed
  <2>3. CASE net' = net \ {m}
    BY <2>2, <2>3
  <2>4. CASE m.type = "resp" /\ net' = (net \ {m}) \cup {[m EXCEPT !.idx = 0]}
    <3> DEFINE d == [m EXCEPT !.idx = 0]
    <3>1. PacketMeans(M, m) /\ m \in Packet
      BY <2>2 DEF PacketMeans
    <3>2. /\ d \in Packet /\ d.type = "resp" /\ d.idx = 0
          /\ d.from = m.from /\ d.src = m.src /\ d.dst = m.dst
      BY <2>4, <3>1, DataplaneAssumption DEF Packet
    <3> HIDE DEF d
    <3>3. PacketMeans(M, d)
      BY <3>1, <3>2 DEF PacketMeans
    <3> QED  BY <2>2, <2>4, <3>3 DEF d
  <2> QED  BY <2>1, <2>3, <2>4
<1>5. Agreed(M)'
  BY <1>1, <1>4 DEF Agreed, SlotMeans, TunnelMeans, PacketMeans, AddrOf
<1> QED  BY <1>1, <1>3, <1>5 DEF IInv, NamesOne, PerAddress

\* A node that moves: its former addresses stay addresses of it.
LEMMA MovesInv ==
    ASSUME IInv, NEW n \in Nodes, NEW K, Moves(n, K),
           NEW M \in [Indexes -> Meaning], Agreed(M)
    PROVE  /\ place' \in Places
           /\ \A q \in Nodes : \A k \in Paths : place[q][k] <= place'[q][k]
           /\ \A q, k, p : SlotMeans(M, q, k, p) => SlotMeans(M, q, k, p)'
           /\ \A q \in Nodes : \A e : TunnelMeans(M, q, e) => TunnelMeans(M, q, e)'
           /\ \A m \in net' : PacketMeans(M, m)'
<1>1. place \in Places
  BY DEF IInv, Shape
<1>2. /\ \A k \in K : place[n][k] < MaxMoves
      /\ place' = [place EXCEPT ![n] = [k \in Paths |-> IF k \in K THEN @[k] + 1 ELSE @[k]]]
      /\ net' \subseteq net
  BY DEF Moves
<1>3. place' \in Places /\ \A q \in Nodes : \A k \in Paths : place[q][k] <= place'[q][k]
  <2> DEFINE P == [k \in Paths |-> IF k \in K THEN place[n][k] + 1 ELSE place[n][k]]
  <2>1. \A q \in Nodes : \A k \in Paths : place[q][k] \in 0 .. MaxMoves
    BY <1>1 DEF Places
  <2>2. P \in [Paths -> 0 .. MaxMoves] /\ \A k \in Paths : place[n][k] <= P[k]
    BY <1>2, <2>1, DataplaneAssumption
  <2>3. place' = [place EXCEPT ![n] = P]
    BY <1>2
  <2> HIDE DEF P
  <2>4. \A q \in Nodes : \A k \in Paths : place[q][k] <= place'[q][k]
    BY <1>1, <2>1, <2>2, <2>3, DataplaneAssumption DEF Places
  <2> QED  BY <1>1, <2>2, <2>3, <2>4 DEF Places
<1>4. /\ \A q, k, p : SlotMeans(M, q, k, p) => SlotMeans(M, q, k, p)'
      /\ \A q \in Nodes : \A e : TunnelMeans(M, q, e) => TunnelMeans(M, q, e)'
      /\ \A m : PacketMeans(M, m) => PacketMeans(M, m)'
  BY <1>1, <1>3, PlaceGrows
<1> QED  BY <1>2, <1>3, <1>4 DEF Agreed

\* Tunnels stay apart by address, whoever moves.
LEMMA MovesPerAddress ==
    ASSUME NEW T \in SUBSET TunnelEntry, PerAddress(T),
           place \in Places, place' \in Places,
           \A q \in Nodes : \A k \in Paths : place[q][k] <= place'[q][k]
    PROVE  PerAddress(T)'
<1> SUFFICES ASSUME NEW e \in T, NEW f \in T, e.addr = f.addr,
                    place'[e.peer][e.addr[2]] = 0
             PROVE  e = f
  BY DEF PerAddress
<1>1. e.peer \in Nodes /\ e.addr[2] \in Paths
  BY DEF TunnelEntry, Addrs
<1>2. place[e.peer][e.addr[2]] \in 0 .. MaxMoves /\ place[e.peer][e.addr[2]] <= 0
  BY <1>1 DEF Places
<1>3. place[e.peer][e.addr[2]] = 0
  BY <1>2, DataplaneAssumption
<1> QED  BY <1>3 DEF PerAddress

LEMMA MoveInv ==
    ASSUME IInv, NEW n \in Nodes, Move(n)
    PROVE  IInv'
<1> PICK M \in [Indexes -> Meaning] : Agreed(M)
  BY DEF IInv
<1>1. UNCHANGED <<loop, targets, pending, tunnels, strikes, world>>
  BY DEF Move
<1>2. /\ place' \in Places
      /\ \A q \in Nodes : \A k \in Paths : place[q][k] <= place'[q][k]
      /\ \A q, k, p : SlotMeans(M, q, k, p) => SlotMeans(M, q, k, p)'
      /\ \A q \in Nodes : \A e : TunnelMeans(M, q, e) => TunnelMeans(M, q, e)'
      /\ \A m \in net' : PacketMeans(M, m)'
  BY MovesInv DEF Move
<1>3. Shape'
  BY <1>1, <1>2 DEF IInv, Shape
<1>4. Agreed(M)'
  <2>1. ASSUME NEW q \in Nodes, NEW k \in DOMAIN pending'[q]
        PROVE  SlotMeans(M, q, k, pending[q][k])'
    <3>1. SlotMeans(M, q, k, pending'[q][k])
      BY <1>1 DEF Agreed
    <3> QED  BY <1>2, <3>1 DEF SlotMeans, AddrOf
  <2>2. \A q \in Nodes : \A e \in tunnels'[q] : TunnelMeans(M, q, e)'
    BY <1>1, <1>2 DEF Agreed
  <2> QED  BY <1>2, <2>1, <2>2 DEF Agreed
<1>5. ASSUME NEW q \in Nodes
      PROVE  (NamesOne(pending[q], tunnels[q]) /\ PerAddress(tunnels[q]))'
  <2>1. NamesOne(pending[q], tunnels[q])'
    BY <1>1 DEF IInv, NamesOne
  <2>2. tunnels[q] \in SUBSET TunnelEntry /\ PerAddress(tunnels[q])
    BY DEF IInv, Shape
  <2>3. PerAddress(tunnels[q])'
    BY <1>1, <1>2, <2>2, MovesPerAddress DEF IInv, Shape, PerAddress
  <2> QED  BY <2>1, <2>3
<1> QED  BY <1>3, <1>4, <1>5 DEF IInv

LEMMA NoPlacesType == NoPlaces \in Places
  BY DataplaneAssumption DEF NoPlaces, Places

LEMMA LanTargetsAddr ==
    ASSUME NEW n \in Nodes, NEW at \in Places, world \in World
    PROVE  LanTargets(n, at) \in SUBSET Addrs /\ \A a \in LanTargets(n, at) : a[1] # n
<1>1. \A p \in Nodes, k \in Paths : at[p][k] \in 0 .. MaxMoves
  BY DEF Places
<1>2. world.paths \subseteq Paths
  BY DEF World
<1> QED  BY <1>1, <1>2 DEF LanTargets, Addrs

LEMMA RebootInv ==
    ASSUME IInv, NEW n \in Nodes, Reboot(n)
    PROVE  IInv'
<1> PICK M \in [Indexes -> Meaning] : Agreed(M)
  BY DEF IInv
<1>1. /\ Moves(n, Paths)
      /\ world.reboots > 0 /\ world' = [world EXCEPT !.reboots = @ - 1]
      /\ loop' = [loop EXCEPT ![n] = "periodic"]
      /\ pending' = [pending EXCEPT ![n] = EmptyMap]
      /\ tunnels' = [tunnels EXCEPT ![n] = {}]
      /\ strikes' = [strikes EXCEPT ![n] = [a \in Addrs |-> 0]]
  BY DEF Reboot
<1>2. /\ place' \in Places
      /\ \A q \in Nodes : \A k \in Paths : place[q][k] <= place'[q][k]
      /\ \A q, k, p : SlotMeans(M, q, k, p) => SlotMeans(M, q, k, p)'
      /\ \A q \in Nodes : \A e : TunnelMeans(M, q, e) => TunnelMeans(M, q, e)'
      /\ \A m \in net' : PacketMeans(M, m)'
  BY <1>1, MovesInv
<1>3. DOMAIN EmptyMap = {} /\ EmptyMap = [k \in DOMAIN EmptyMap |-> EmptyMap[k]]
  BY DEF EmptyMap
<1>4. /\ pending'[n] = EmptyMap /\ tunnels'[n] = {}
      /\ \A q \in Nodes \ {n} : pending'[q] = pending[q] /\ tunnels'[q] = tunnels[q]
  BY <1>1 DEF IInv, Shape
<1>5. Shape'
  <2>1. world' \in World
    <3>1. world \in World /\ world.reboots \in Nat
      BY DEF IInv, Shape, World
    <3>2. world.reboots - 1 \in Nat
      BY <1>1, <3>1
    <3> QED  BY <1>1, <3>1, <3>2, WorldType
  <2>0. /\ targets' \in [Nodes -> SUBSET Addrs]
        /\ \A q \in Nodes : \A a \in targets'[q] : a[1] # q
    <3>1. PICK at \in {NoPlaces, place} : targets' = [targets EXCEPT ![n] = LanTargets(n, at)]
      BY DEF Reboot
    <3>2. LanTargets(n, at) \in SUBSET Addrs /\ \A a \in LanTargets(n, at) : a[1] # n
      BY <3>1, LanTargetsAddr, NoPlacesType DEF IInv, Shape
    <3> QED  BY <3>1, <3>2 DEF IInv, Shape
  <2>2. /\ loop' \in [Nodes -> {"periodic", "recv"}]
        /\ tunnels' \in [Nodes -> SUBSET TunnelEntry]
        /\ strikes' \in [Nodes -> [Addrs -> 0 .. MAX_STRIKES]]
    BY <1>1, DataplaneAssumption DEF IInv, Shape
  <2>3. pending' = [q \in Nodes |-> pending'[q]]
    BY <1>1 DEF IInv, Shape
  <2>4. \A q \in Nodes : pending'[q] = [k \in DOMAIN pending'[q] |-> pending'[q][k]]
    <3> TAKE q \in Nodes
    <3>1. CASE q = n
      BY <1>3, <1>4, <3>1
    <3>2. CASE q # n
      BY <1>4, <3>2 DEF IInv, Shape
    <3> QED  BY <3>1, <3>2
  <2> QED  BY <1>2, <2>0, <2>1, <2>2, <2>3, <2>4 DEF Shape
<1>6. Agreed(M)'
  <2>1. ASSUME NEW q \in Nodes, NEW k \in DOMAIN pending'[q]
        PROVE  SlotMeans(M, q, k, pending[q][k])'
    <3>1. SlotMeans(M, q, k, pending'[q][k])
      BY <1>3, <1>4 DEF Agreed
    <3> QED  BY <1>2, <3>1 DEF SlotMeans, AddrOf
  <2>2. \A q \in Nodes : \A e \in tunnels'[q] : TunnelMeans(M, q, e)'
    BY <1>2, <1>4 DEF Agreed
  <2> QED  BY <1>2, <2>1, <2>2 DEF Agreed
<1>7. ASSUME NEW q \in Nodes
      PROVE  (NamesOne(pending[q], tunnels[q]) /\ PerAddress(tunnels[q]))'
  <2>1. CASE q = n
    BY <1>3, <1>4, <2>1 DEF NamesOne, PerAddress
  <2>2. CASE q # n
    <3>1. NamesOne(pending[q], tunnels[q])'
      BY <1>4, <2>2 DEF IInv, NamesOne
    <3>2. tunnels[q] \in SUBSET TunnelEntry /\ PerAddress(tunnels[q])
      BY DEF IInv, Shape
    <3>3. PerAddress(tunnels[q])'
      BY <1>2, <1>4, <2>2, <3>2, MovesPerAddress DEF IInv, Shape, PerAddress
    <3> QED  BY <3>1, <3>3
  <2> QED  BY <2>1, <2>2
<1> QED  BY <1>5, <1>6, <1>7 DEF IInv

-----------------------------------------------------------------------------
(* The theorems *)

LEMMA InitIInv == Init => IInv
<1> SUFFICES ASSUME Init PROVE IInv
  OBVIOUS
<1>1. DOMAIN EmptyMap = {} /\ EmptyMap = [k \in DOMAIN EmptyMap |-> EmptyMap[k]]
  BY DEF EmptyMap
<1>2. Shape
  <2>1. world \in World /\ place \in Places
    BY NoPlacesType, DataplaneAssumption DEF Init
  <2>2. \A n \in Nodes : /\ LanTargets(n, NoPlaces) \in SUBSET Addrs
                         /\ \A a \in LanTargets(n, NoPlaces) : a[1] # n
    BY <2>1, LanTargetsAddr, NoPlacesType
  <2> QED  BY <1>1, <2>1, <2>2, DataplaneAssumption DEF Init, Shape
<1>3. \E M \in [Indexes -> Meaning] : Agreed(M)
  <2> DEFINE M == [i \in Indexes |-> CHOOSE x \in Meaning : TRUE]
  <2>1. M \in [Indexes -> Meaning]
    <3>1. PICK n \in Nodes, k \in Paths : TRUE
      BY DataplaneAssumption
    <3>2. Meaning # {}
      BY AttemptType
    <3> QED  BY <3>2
  <2> HIDE DEF M
  <2>2. Agreed(M)
    BY <1>1 DEF Init, Agreed
  <2> QED  BY <2>1, <2>2
<1>4. \A n \in Nodes : NamesOne(pending[n], tunnels[n]) /\ PerAddress(tunnels[n])
  BY <1>1 DEF Init, NamesOne, PerAddress
<1> QED  BY <1>2, <1>3, <1>4 DEF IInv

LEMMA NextIInv == IInv /\ [Next]_dpVars => IInv'
<1> SUFFICES ASSUME IInv, [Next]_dpVars PROVE IInv'
  OBVIOUS
<1>1. ASSUME NEW n \in Nodes, LoopStep(n) PROVE IInv'
  BY <1>1, PeriodicInv, RecvInv, RecvTimeoutInv DEF LoopStep
<1>2. ASSUME NEW n \in Nodes, Move(n) PROVE IInv'
  BY <1>2, MoveInv
<1>3. ASSUME NEW n \in Nodes, Reboot(n) PROVE IInv'
  BY <1>3, RebootInv
<1>4. CASE Lose
  BY <1>4, LoseInv
<1>5. CASE UNCHANGED dpVars
  BY <1>5 DEF dpVars, IInv, Shape, Agreed, SlotMeans, TunnelMeans, PacketMeans, AddrOf,
              NamesOne, PerAddress
<1> QED  BY <1>1, <1>2, <1>3, <1>4, <1>5 DEF Next

\* The inductive invariant: everything that refers to an index, at a node or on
\* its way, agrees on the handshake it stands for.
THEOREM Meanings == Spec => []IInv
  BY InitIInv, NextIInv, PTL DEF Spec

\* State.tunnels and State.pending keep their types, an index names one of
\* them, and there is one tunnel per address whose owner has not moved there.
THEOREM TunnelsStayDistinct == Spec => []TunnelsDistinct
<1>1. IInv => TunnelsDistinct
  <2> SUFFICES ASSUME IInv PROVE TunnelsDistinct
    OBVIOUS
  <2> PICK M \in [Indexes -> Meaning] : Agreed(M)
    BY DEF IInv
  <2>1. TypeOK
    BY DEF IInv, Shape, TypeOK, Agreed, SlotMeans, PacketMeans
  <2>2. IndexNamesOne
    BY DEF IInv, NamesOne, IndexNamesOne
  <2>3. OnePerAddress
    BY DEF IInv, PerAddress, OnePerAddress
  <2> QED  BY <2>1, <2>2, <2>3 DEF TunnelsDistinct
<1> QED  BY <1>1, Meanings, PTL

\* consume_response: the two ends of a tunnel hold the keys of the same
\* handshake, each with the other as its peer.
THEOREM EndsAgree == Spec => []KeysAgree
<1>1. IInv => KeysAgree
  <2> SUFFICES ASSUME IInv, NEW n \in Nodes, NEW e \in tunnels[n],
                      NEW q \in Nodes, NEW f \in tunnels[q],
                      e.initiator, f.idx = e.their
               PROVE  f.their = e.idx /\ ~f.initiator /\ q = e.peer /\ f.peer = n
    BY DEF KeysAgree
  <2> PICK M \in [Indexes -> Meaning] : Agreed(M)
    BY DEF IInv
  <2>1. TunnelMeans(M, n, e) /\ TunnelMeans(M, q, f)
    BY DEF Agreed
  <2>2. M[f.idx] = Answer(e.peer, n, e.addr[2], e.idx)
    BY <2>1 DEF TunnelMeans
  <2>3. ~M[f.idx].attempt
    BY <2>2 DEF Answer
  <2>4. ~f.initiator
    BY <2>1, <2>3 DEF TunnelMeans, Attempt
  <2>5. M[f.idx] = Answer(q, f.peer, f.addr[2], f.their)
    BY <2>1, <2>4 DEF TunnelMeans
  <2> QED  BY <2>2, <2>4, <2>5 DEF Answer
<1> QED  BY <1>1, Meanings, PTL
=============================================================================
