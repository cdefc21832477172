--------------------------- MODULE TcpTransferProofs ---------------------------
(***************************************************************************)
(* What TcpServer's clients get, for any number of clients, any ring size, *)
(* window, segment size, response lengths and timer values, however many   *)
(* segments the tunnel loses, repeats and reorders, however often clients  *)
(* retransmit or abort, and however often a SYN makes the server start     *)
(* over: each reads a prefix of the response, its stream keeps the promise *)
(* of ByteStream, and the server frees a response only when its client has *)
(* all of it.                                                              *)
(*                                                                         *)
(* The server and a client need not agree about the connection: a repeated *)
(* SYN gives the server another initial number than the one the client     *)
(* counts from (Base), and segments of both are on their way.  By IssApart *)
(* neither end takes anything of the other connection: the client accepts  *)
(* no byte and the server no ACK.  When the numbers agree, every request   *)
(* has acknowledged the SYN, and so nothing is sent in the SYN's place.    *)
(*                                                                         *)
(* The last part is about the repository's own client: what TcpClient      *)
(* collects (OutboundFetch) is a prefix of the page.  There every payload  *)
(* segment on its way carries bytes of the first response at the place its *)
(* sequence number gives them, counted from the initial sequence number of *)
(* SOME connection, and the client's rcv_nxt counts from the one it was    *)
(* opened with.  FetchIssApart makes equal numbers mean equal places.      *)
(***************************************************************************)
EXTENDS TcpTransfer, OutboundFetch, TcpServerProofs

\* Sequence numbers a client has taken, its SYN-ACK and FIN included.
Received(k) == Len(k.stream) + (IF Finished(k) THEN 2 ELSE 1)

\* A client's side of its connection.
Peer ==
    [state : {"closed", "syn_sent", "open", "finished", "closing", "aborted", "reset"},
     rcv_nxt : SeqNums, unread : Nat, stream : Seq(Byte)]

\* rcv_nxt counts from the initial number of SOME connection of the server.
PeerOK(c, L) ==
    /\ cl[c].unread <= env.buffer
    /\ Based(c) => /\ Base(cl[c]) \in Iss /\ Len(cl[c].stream) <= L
                   /\ Finished(cl[c]) => Len(cl[c].stream) = L
    /\ ~Based(c) => cl[c].stream = <<>>
    /\ \A i \in 1 .. Len(cl[c].stream) : cl[c].stream[i] = [rid |-> 1, off |-> i - 1]

\* Payload is sent to a client that counts, and sits in its place after some
\* initial number, or in the place of the SYN of another connection than the
\* one the client counts from.  Only the last segment carries the FIN.
Placed(m, i) ==
    m.seq = WAdd(i, m.off + 1) \/ (m.seq = i /\ m.off = 0 /\ i # Base(cl[m.client]))

WireOK(m, L) ==
    /\ m.len > 0 => /\ Based(m.client)
                    /\ m.rid = 1 /\ m.off + m.len <= L
                    /\ "FIN" \in m.flags => m.off + m.len = L
                    /\ \E i \in Iss : Placed(m, i)
    /\ "SYN" \in m.flags => m.seq \in Iss

\* Before it is answered a client has only sent its SYN; then what it
\* acknowledges is what it has taken, and it asks with an acknowledgement.
AckOK(m) ==
    /\ ~Based(m.client) => m.flags = {"SYN"} /\ m.len = 0
    /\ m.len > 0 => "ACK" \in m.flags
    /\ Based(m.client) /\ "ACK" \in m.flags =>
         WSub(m.ack, Base(cl[m.client])) \in 1 .. Received(cl[m.client])

\* Nothing of the response to the present request has reached its client.
Untouched ==
    /\ Received(cl[conn.client]) = 1
    /\ \A m \in s2c : m.client = conn.client /\ m.len > 0
         => m.seq # WAdd(conn.iss, m.off + 1)

\* The connection as the server and as its client see it.
Match(L) ==
    conn.active =>
      /\ ~Based(conn.client) =>
           conn.resp = NoResp /\ routed = 0 /\ conn.snd_una = conn.iss
      /\ Based(conn.client) /\ conn.iss # Base(cl[conn.client]) =>
           conn.snd_una = conn.iss
      /\ Based(conn.client) /\ conn.iss = Base(cl[conn.client]) =>
           /\ routed > 0 => conn.snd_una # conn.iss
           /\ routed = 0 => Untouched
           /\ conn.resp.fin_sent => Off(conn.snd_nxt) = L + 2

EnvOK(L) ==
    env \in Environment /\ env.length = L /\ 0 .. env.buffer \subseteq Windows

PeersInv(L) ==
    cl \in [Clients -> Peer] /\ \A c \in Clients : PeerOK(c, L)

SegmentsInv(L) ==
    /\ c2s \subseteq ClientSegment
    /\ \A m \in c2s : AckOK(m)
    /\ \A m \in s2c : WireOK(m, L)

LengthInv(L) ==
    IInv /\ SpentInv(L) /\ EnvOK(L) /\ PeersInv(L) /\ SegmentsInv(L) /\ Match(L)

TransferInv == \E L \in Totals : LengthInv(L)

-----------------------------------------------------------------------------
(* The ring *)

\* Initial numbers of two connections are further apart than either is long,
\* seen from both.
LEMMA Apart ==
    ASSUME NEW L \in Totals, NEW i \in Iss, NEW j \in Iss, i # j
    PROVE  /\ i \in SeqNums /\ j \in SeqNums
           /\ WSub(i, j) \in Nat /\ WSub(i, j) > L + 2
           /\ WSub(i, j) < SeqMod - (L + 2)
<1>1. i \in SeqNums /\ j \in SeqNums
  BY TcpAssumption
<1>2. WSub(i, j) > L + 2 /\ WSub(j, i) > L + 2
  BY IssApart
<1>3. WSub(i, j) \in Nat
  BY <1>1, WrapType
<1>4. WSub(j, i) = SeqMod - WSub(i, j)
  BY <1>1, SeqHalfAssumption DEF WSub, SeqNums, SeqMod
<1>5. L \in Nat /\ SeqMod \in Nat
  BY LengthType, SeqHalfAssumption DEF SeqMod
<1>6. \A d \in Nat : SeqMod - d > L + 2 => d < SeqMod - (L + 2)
  BY <1>5
<1> QED  BY <1>1, <1>2, <1>3, <1>4, <1>6

\* The number n places after b, and its distance from any other number.
LEMMA PlaceType ==
    ASSUME NEW L \in Totals, NEW b \in SeqNums, NEW n \in 0 .. L + 2
    PROVE  /\ WAdd(b, n) \in SeqNums /\ WSub(WAdd(b, n), b) = n
           /\ WSub(WAdd(b, n), n) = b
<1>1. n \in SeqNums /\ n < SeqMod
  BY LengthType, SeqHalfAssumption DEF SeqNums, SeqMod
<1>2. WAdd(b, n) \in SeqNums
  BY <1>1, WrapType
<1>3. WSub(WAdd(b, n), b) = n /\ WSub(WAdd(b, n), n) = b
  BY <1>1, SeqHalfAssumption DEF WAdd, WSub, SeqNums, SeqMod
<1> QED  BY <1>2, <1>3

\* Distances add up while they stay on the ring.
LEMMA Chain ==
    ASSUME NEW a \in SeqNums, NEW b \in SeqNums, NEW i \in SeqNums,
           WSub(a, b) + WSub(b, i) < SeqMod
    PROVE  WSub(a, i) = WSub(a, b) + WSub(b, i)
  BY SeqHalfAssumption DEF WSub, SeqNums, SeqMod

\* Steps forward on the ring, and back.
LEMMA AddSub ==
    ASSUME NEW a \in SeqNums, NEW m \in Nat, NEW n \in Nat, m + n < SeqMod
    PROVE  WSub(WAdd(a, n), m + n) = WSub(a, m)
  BY SeqHalfAssumption DEF WAdd, WSub, SeqNums, SeqMod

\* What a client that counts from b and has n bytes accepts of a payload
\* segment in its place after some number i: i is b, and the rest of the
\* segment starts at byte n.
LEMMA Accepts ==
    ASSUME NEW L \in Totals, NEW b \in Iss, NEW i \in Iss, NEW n \in 0 .. L,
           NEW off \in Nat, NEW len \in Nat, off + len <= L,
           NEW r \in SeqNums, WSub(r, b) = n + 1, NEW seq,
           seq = WAdd(i, off + 1) \/ (seq = i /\ off = 0 /\ i # b),
           WSub(r, seq) <= len
    PROVE  i = b /\ seq = WAdd(b, off + 1) /\ off + WSub(r, seq) = n
<1>1. /\ b \in SeqNums /\ i \in SeqNums /\ L \in Nat /\ n \in Nat
      /\ off + 1 \in 0 .. L + 2
  BY LengthType, TcpAssumption
<1>2. /\ WAdd(i, off + 1) \in SeqNums /\ WSub(WAdd(i, off + 1), i) = off + 1
      /\ WSub(i, i) = 0
  <2>1. WSub(i, i) = 0
    BY <1>1 DEF WSub, SeqNums
  <2> QED  BY <1>1, <2>1, PlaceType
<1>3. seq \in SeqNums
  BY <1>1, <1>2
<1>4. CASE i = b
  <2>1. seq = WAdd(b, off + 1) /\ WSub(seq, b) = off + 1
    BY <1>2, <1>4
  <2>2. CASE off + 1 <= n + 1
    <3>1. WSub(r, seq) = WSub(r, b) - WSub(seq, b)
      BY <1>1, <1>3, <2>1, <2>2, Distance
    <3> QED  BY <1>1, <1>4, <2>1, <3>1
  <2>3. CASE off + 1 > n + 1
    <3>1. WSub(seq, r) = off - n
      <4>1. WSub(r, b) <= WSub(seq, b)
        BY <1>1, <2>1, <2>3
      <4>2. WSub(seq, r) = WSub(seq, b) - WSub(r, b)
        BY <1>1, <1>3, <4>1, Distance
      <4> QED  BY <1>1, <2>1, <4>2
    <3>2. WSub(r, seq) = SeqMod - (off - n)
      <4>1. seq # r
        BY <1>1, <2>1, <2>3
      <4>2. WSub(r, seq) = SeqMod - WSub(seq, r)
        BY <1>3, <4>1, SeqHalfAssumption DEF WSub, SeqNums, SeqMod
      <4> QED  BY <3>1, <4>2
    <3>3. off + len <= L /\ L + 2 < SeqMod /\ SeqMod \in Nat
      BY LengthType, SeqHalfAssumption DEF SeqMod
    <3> QED  BY <1>1, <2>3, <3>2, <3>3
  <2> QED  BY <1>1, <2>2, <2>3
<1>5. CASE i # b
  <2>1. /\ WSub(b, i) \in Nat /\ WSub(b, i) > L + 2
        /\ WSub(b, i) < SeqMod - (L + 2)
    BY <1>5, Apart
  <2>2. WSub(r, i) = n + 1 + WSub(b, i)
    <3>1. WSub(r, b) + WSub(b, i) < SeqMod
      <4>1. SeqMod \in Nat
        BY SeqHalfAssumption DEF SeqMod
      <4> QED  BY <1>1, <2>1, <4>1
    <3> QED  BY <1>1, <3>1, Chain
  <2>3. seq = WAdd(i, off + 1) => WSub(r, seq) = n + WSub(b, i) - off
    <3> SUFFICES ASSUME seq = WAdd(i, off + 1)
                 PROVE  WSub(r, seq) = n + WSub(b, i) - off
      OBVIOUS
    <3>1. WSub(seq, i) = off + 1
      BY <1>2
    <3>2. WSub(seq, i) <= WSub(r, i)
      BY <1>1, <2>1, <2>2, <3>1
    <3>3. WSub(r, seq) = WSub(r, i) - WSub(seq, i)
      BY <1>1, <1>3, <3>2, Distance
    <3> QED  BY <1>1, <2>1, <2>2, <3>1, <3>3
  <2> QED  BY <1>1, <2>1, <2>2, <2>3
<1> QED  BY <1>4, <1>5

\* An ACK number that a client counting from b sends lies outside every
\* connection with another initial number.
LEMMA ForeignAck ==
    ASSUME NEW L \in Totals, NEW b \in Iss, NEW i \in Iss, i # b,
           NEW ack \in SeqNums, WSub(ack, b) \in 1 .. L + 2
    PROVE  WSub(ack, i) > L + 2
<1>1. /\ b \in SeqNums /\ i \in SeqNums /\ WSub(b, i) \in Nat
      /\ WSub(b, i) > L + 2 /\ WSub(b, i) < SeqMod - (L + 2)
  BY Apart
<1>2. L \in Nat /\ SeqMod \in Nat
  BY LengthType, SeqHalfAssumption DEF SeqMod
<1>3. WSub(ack, b) + WSub(b, i) < SeqMod
  BY <1>1, <1>2
<1>4. WSub(ack, i) = WSub(ack, b) + WSub(b, i)
  BY <1>1, <1>3, Chain
<1> QED  BY <1>1, <1>2, <1>4

-----------------------------------------------------------------------------
(* A client *)

LEMMA StepBack ==
    ASSUME NEW a \in SeqNums, NEW n \in SeqNums
    PROVE  WSub(a, n) \in SeqNums /\ WSub(a, WSub(a, n)) = n
  BY SeqHalfAssumption DEF WSub, SeqNums, SeqMod

LEMMA ReceivedType ==
    ASSUME NEW k \in Peer
    PROVE  /\ Received(k) \in Nat
           /\ Received(k) = Len(k.stream) + 1 \/ Received(k) = Len(k.stream) + 2
           /\ Len(k.stream) \in Nat
<1>1. Len(k.stream) \in Nat
  BY LenProperties DEF Peer
<1>2. Received(k) = Len(k.stream) + 1 \/ Received(k) = Len(k.stream) + 2
  BY DEF Received
<1> QED  BY <1>1, <1>2

LEMMA BaseFacts ==
    ASSUME NEW L \in Totals, NEW k \in Peer, Len(k.stream) <= L
    PROVE  /\ Received(k) \in 1 .. L + 2
           /\ Base(k) = WSub(k.rcv_nxt, Received(k)) /\ Base(k) \in SeqNums
           /\ WSub(k.rcv_nxt, Base(k)) = Received(k)
<1>1. k.rcv_nxt \in SeqNums /\ Len(k.stream) \in Nat /\ L \in Nat
  BY LengthType, LenProperties DEF Peer
<1>2. Received(k) \in 1 .. L + 2
  BY <1>1, ReceivedType
<1>3. Base(k) = WSub(k.rcv_nxt, Received(k))
  BY DEF Base, Received
<1>4. Received(k) \in SeqNums
  BY <1>2, LengthType, SeqHalfAssumption DEF SeqNums, SeqMod
<1> QED  BY <1>1, <1>2, <1>3, <1>4, StepBack

\* What a client that is still reading takes of a payload segment continues
\* its stream, and the end of the response is taken with its last byte.
LEMMA ReceiveOK ==
    ASSUME NEW L \in Totals, LengthInv(L), NEW m \in s2c, m.len > 0,
           cl[m.client].state = "open", Acceptable(cl[m.client], m)
    PROVE  LET k == cl[m.client]
               t == Receive(k, m)
           IN  /\ t \in Peer /\ t.state \in {"open", "finished"}
               /\ t.unread \in 0 .. env.buffer
               /\ Base(t) = Base(k) /\ Received(k) <= Received(t)
               /\ Len(k.stream) <= Len(t.stream) /\ Len(t.stream) <= L
               /\ Finished(t) => Len(t.stream) = L
               /\ \A i \in 1 .. Len(t.stream) : t.stream[i] = [rid |-> 1, off |-> i - 1]
               /\ m.seq = WAdd(Base(k), m.off + 1)
<1> DEFINE c    == m.client
           k    == cl[m.client]
           t    == Receive(k, m)
           skip == Skip(k, m)
           n    == Len(k.stream)
           w    == Taken(k, m)
           fin  == FinTaken(k, m)
           f    == IF fin THEN 1 ELSE 0
<1>1. /\ m.client \in Clients /\ m.seq \in SeqNums /\ m.off \in Nat /\ m.len \in Nat
  BY DEF LengthInv, IInv, TypeOK, ServerSegment
<1>2. k \in Peer /\ PeerOK(c, L) /\ Based(c) /\ ~Finished(k)
  BY <1>1 DEF LengthInv, PeersInv, Based, Finished
<1>3. /\ k.unread \in Nat /\ k.unread <= env.buffer /\ env.buffer \in Nat
      /\ k.stream \in Seq(Byte) /\ n \in 0 .. L /\ L \in Nat
      /\ k.rcv_nxt \in SeqNums /\ Base(k) \in Iss /\ k.state = "open"
      /\ \A i \in 1 .. Len(k.stream) : k.stream[i] = [rid |-> 1, off |-> i - 1]
  <2>1. env.buffer \in Nat
    BY DEF LengthInv, EnvOK, Environment
  <2>2. k.stream \in Seq(Byte) /\ n \in Nat /\ k.unread \in Nat /\ k.rcv_nxt \in SeqNums
    BY <1>2, LenProperties DEF Peer
  <2> QED  BY <1>2, <2>1, <2>2, LengthType DEF PeerOK
<1>4. Received(k) = n + 1 /\ WSub(k.rcv_nxt, Base(k)) = n + 1
      /\ Base(k) = WSub(k.rcv_nxt, n + 1)
  <2>1. Received(k) = n + 1
    BY <1>2 DEF Received
  <2> QED  BY <1>2, <1>3, <2>1, BaseFacts
<1>5. /\ m.rid = 1 /\ m.off + m.len <= L /\ ("FIN" \in m.flags => m.off + m.len = L)
      /\ \E i \in Iss : Placed(m, i)
  BY DEF LengthInv, SegmentsInv, WireOK
<1>6. PICK i \in Iss : m.seq = WAdd(i, m.off + 1) \/ (m.seq = i /\ m.off = 0 /\ i # Base(k))
  BY <1>5 DEF Placed
<1>7. skip = WSub(k.rcv_nxt, m.seq) /\ skip <= m.len /\ skip \in Nat
  BY <1>1, <1>3, WrapType DEF Skip, Acceptable
<1> HIDE DEF skip, n
<1>8. m.seq = WAdd(Base(k), m.off + 1) /\ m.off + skip = n
  <2>1. /\ Base(k) \in Iss /\ n \in 0 .. L /\ k.rcv_nxt \in SeqNums
        /\ WSub(k.rcv_nxt, Base(k)) = n + 1
    BY <1>3, <1>4
  <2>2. m.off \in Nat /\ m.len \in Nat /\ m.off + m.len <= L
    BY <1>1, <1>5
  <2>3. WSub(k.rcv_nxt, m.seq) <= m.len
    BY <1>7
  <2>4. m.seq = WAdd(Base(k), m.off + 1) /\ m.off + WSub(k.rcv_nxt, m.seq) = n
    BY <1>6, <2>1, <2>2, <2>3, Accepts
  <2> QED  BY <1>7, <2>4
<1>9. /\ w \in Nat /\ w <= m.len - skip /\ w <= env.buffer - k.unread
      /\ fin = ("FIN" \in m.flags /\ w = m.len - skip)
  <2>1. w = MinOf(m.len - skip, env.buffer - k.unread)
    BY DEF Taken, skip
  <2>2. m.len - skip \in Nat /\ env.buffer - k.unread \in Nat
    BY <1>1, <1>3, <1>7
  <2>3. fin = ("FIN" \in m.flags /\ w = m.len - skip)
    BY DEF FinTaken, skip
  <2> QED  BY <2>1, <2>2, <2>3 DEF MinOf
<1> DEFINE p == [j \in 1 .. w |-> [rid |-> 1, off |-> n + j - 1]]
<1>10. /\ t.state = (IF fin THEN "finished" ELSE "open")
       /\ t.rcv_nxt = WAdd(k.rcv_nxt, w + f)
       /\ t.unread = k.unread + w
       /\ t.stream = k.stream \o p
       /\ t = [state |-> t.state, rcv_nxt |-> t.rcv_nxt, unread |-> t.unread,
               stream |-> t.stream]
  <2> DEFINE q == [j \in 1 .. w |-> [rid |-> m.rid, off |-> m.off + skip + j - 1]]
  <2>1. q = p
    BY <1>5, <1>8
  <2>2. t = [k EXCEPT !.state = IF fin THEN "finished" ELSE @,
                      !.rcv_nxt = WAdd(@, w + f), !.unread = @ + w,
                      !.stream = @ \o q]
    BY DEF Receive, skip
  <2> HIDE DEF t, q, p, w, fin, f
  <2> QED  BY <1>2, <1>3, <2>1, <2>2 DEF Peer
<1> HIDE DEF t, w, fin, p
<1>11. /\ t.stream \in Seq(Byte) /\ Len(t.stream) = n + w
       /\ \A j \in 1 .. Len(t.stream) : t.stream[j] = [rid |-> 1, off |-> j - 1]
  <2>1. LET pp == [j \in 1 .. w |-> [rid |-> 1, off |-> Len(k.stream) + j - 1]]
            tt == k.stream \o pp
        IN  /\ tt \in Seq(Byte) /\ Len(tt) = Len(k.stream) + w
            /\ \A j \in 1 .. Len(tt) : tt[j] = [rid |-> 1, off |-> j - 1]
    BY <1>3, <1>9, ExtendPrefix, Zenon
  <2> QED  BY <1>10, <2>1 DEF n, p
<1>b. /\ fin \in BOOLEAN /\ f \in {0, 1} /\ (fin => f = 1) /\ (~fin => f = 0)
      /\ (fin => "FIN" \in m.flags /\ w = m.len - skip)
  <2>1. fin \in BOOLEAN /\ (fin => "FIN" \in m.flags /\ w = m.len - skip)
    BY <1>9
  <2> QED  BY <2>1
<1> HIDE DEF f
<1>12. /\ n + w <= L /\ (fin => n + w = L) /\ w + f \in Nat
       /\ n + 1 + (w + f) <= L + 2
  <2>1. n + w <= L
    BY <1>1, <1>3, <1>5, <1>7, <1>8, <1>9
  <2>2. fin => n + w = L
    BY <1>1, <1>3, <1>5, <1>7, <1>8, <1>9, <1>b
  <2> QED  BY <1>3, <1>9, <1>b, <2>1, <2>2
<1>13. w + f \in SeqNums /\ n + 1 + (w + f) < SeqMod
  <2>1. n \in Nat /\ L + 2 < SeqMod /\ SeqMod \in Nat /\ L \in Nat
    BY <1>3, LengthType, SeqHalfAssumption DEF SeqMod
  <2>2. \A a \in Nat : n + 1 + a <= L + 2 => a \in 0 .. SeqMod - 1 /\ n + 1 + a < SeqMod
    BY <2>1
  <2> QED  BY <1>12, <2>2 DEF SeqNums
<1>14. t.unread \in 0 .. env.buffer
  <2>1. k.unread \in Nat /\ env.buffer \in Nat
    BY <1>3
  <2>2. k.unread + w \in 0 .. env.buffer
    BY <1>9, <2>1
  <2> QED  BY <1>10, <2>2
<1>15. t \in Peer
  <2>1. t.rcv_nxt \in SeqNums
    BY <1>3, <1>10, <1>13, WrapType
  <2>2. t.unread \in Nat
    BY <1>14
  <2> QED  BY <1>10, <1>11, <2>1, <2>2 DEF Peer
<1>16. (Finished(t) <=> fin) /\ Received(t) = n + 1 + (w + f)
  <2>1. CASE fin
    <3>1. Finished(t) /\ f = 1
      BY <1>10, <1>b, <2>1 DEF Finished
    <3>2. Received(t) = Len(t.stream) + 2
      BY <3>1 DEF Received
    <3>3. Received(t) = n + 1 + (w + f)
      BY <1>3, <1>9, <1>11, <3>1, <3>2
    <3> QED  BY <2>1, <3>1, <3>3
  <2>2. CASE ~fin
    <3>1. ~Finished(t) /\ f = 0
      BY <1>10, <1>b, <2>2 DEF Finished
    <3>2. Received(t) = Len(t.stream) + 1
      BY <3>1 DEF Received
    <3>3. Received(t) = n + 1 + (w + f)
      BY <1>3, <1>9, <1>11, <3>1, <3>2
    <3> QED  BY <2>2, <3>1, <3>3
  <2> QED  BY <2>1, <2>2
<1>17. Base(t) = Base(k)
  <2>1. Base(t) = WSub(t.rcv_nxt, Received(t))
    BY DEF Base, Received
  <2>2. WSub(WAdd(k.rcv_nxt, w + f), n + 1 + (w + f)) = WSub(k.rcv_nxt, n + 1)
    <3>1. \A x, y \in Nat : x + y < SeqMod
            => WSub(WAdd(k.rcv_nxt, y), x + y) = WSub(k.rcv_nxt, x)
      BY <1>3, AddSub
    <3>2. n + 1 \in Nat
      BY <1>3
    <3> QED  BY <1>12, <1>13, <3>1, <3>2
  <2> QED  BY <1>4, <1>10, <1>16, <2>1, <2>2
<1>18. Received(k) <= Received(t) /\ n <= Len(t.stream) /\ Len(t.stream) <= L
       /\ (Finished(t) => Len(t.stream) = L)
  BY <1>3, <1>4, <1>9, <1>11, <1>12, <1>16
<1>19. t.state \in {"open", "finished"}
  BY <1>10
<1> QED
  BY <1>8, <1>11, <1>14, <1>15, <1>17, <1>18, <1>19 DEF t, n

-----------------------------------------------------------------------------
(* Steps of the clients and of the network *)

\* What LengthInv says of the server does not depend on what the network and
\* the clients do.
LEMMA ServerKeeps ==
    ASSUME NEW L \in Totals, IInv, SpentInv(L),
           UNCHANGED <<conn, pump, routed>>, s2c' \subseteq s2c
    PROVE  IInv' /\ SpentInv(L)'
<1>1. IInv'
  BY DEF IInv, TypeOK, SendInv, Off
<1>2. SpentInv(L)'
  BY DEF SpentInv, Off
<1> QED  BY <1>1, <1>2

\* A step in which clients keep the number they count from, take more of the
\* stream, or nothing, and send segments that acknowledge what they have.
LEMMA GrowStep ==
    ASSUME NEW L \in Totals, LengthInv(L),
           UNCHANGED <<conn, pump, routed>>, s2c' \subseteq s2c,
           EnvOK(L)', PeersInv(L)', c2s' \subseteq ClientSegment,
           \A x \in c2s' \ c2s : AckOK(x)',
           \A c \in Clients :
             /\ Based(c)' <=> Based(c)
             /\ Based(c) => /\ Base(cl'[c]) = Base(cl[c])
                            /\ Received(cl[c]) <= Received(cl'[c]),
           conn.active /\ routed = 0 /\ Based(conn.client)
             /\ conn.iss = Base(cl[conn.client])
               => Received(cl'[conn.client]) = Received(cl[conn.client])
    PROVE  LengthInv(L)'
<1>1. IInv' /\ SpentInv(L)'
  BY ServerKeeps DEF LengthInv
<1>2. \A m \in c2s : m.client \in Clients
  BY DEF LengthInv, SegmentsInv, ClientSegment
<1>3. \A m \in s2c : m.client \in Clients
  BY DEF LengthInv, IInv, TypeOK, ServerSegment
<1>4. ASSUME NEW m \in s2c' PROVE WireOK(m, L)'
  <2>1. m \in s2c /\ WireOK(m, L) /\ m.client \in Clients
    BY <1>3 DEF LengthInv, SegmentsInv
  <2>2. CASE m.len > 0
    <3>1. Based(m.client) /\ Based(m.client)' /\ Base(cl'[m.client]) = Base(cl[m.client])
      BY <2>1, <2>2 DEF WireOK
    <3>2. PICK i \in Iss : Placed(m, i)
      BY <2>1, <2>2 DEF WireOK
    <3>3. Placed(m, i)'
      BY <3>1, <3>2 DEF Placed
    <3> QED  BY <2>1, <3>1, <3>3 DEF WireOK
  <2>3. CASE ~(m.len > 0)
    BY <2>1, <2>3 DEF WireOK
  <2> QED  BY <2>2, <2>3
<1>5. ASSUME NEW m \in c2s' PROVE AckOK(m)'
  <2>1. CASE m \notin c2s
    BY <2>1
  <2>2. CASE m \in c2s
    <3>1. AckOK(m) /\ m.client \in Clients
      BY <1>2, <2>2 DEF LengthInv, SegmentsInv
    <3>2. ASSUME Based(m.client), "ACK" \in m.flags
          PROVE  WSub(m.ack, Base(cl'[m.client])) \in 1 .. Received(cl'[m.client])
      <4>1. /\ WSub(m.ack, Base(cl[m.client])) \in 1 .. Received(cl[m.client])
            /\ Base(cl'[m.client]) = Base(cl[m.client])
            /\ Received(cl[m.client]) <= Received(cl'[m.client])
        BY <3>1, <3>2 DEF AckOK
      <4>2. Received(cl[m.client]) \in Nat /\ Received(cl'[m.client]) \in Nat
        <5>1. cl[m.client] \in Peer /\ cl'[m.client] \in Peer
          BY <3>1 DEF LengthInv, PeersInv
        <5> QED  BY <5>1, ReceivedType
      <4> QED  BY <4>1, <4>2
    <3> QED  BY <3>1, <3>2 DEF AckOK
  <2> QED  BY <2>1, <2>2
<1>6. SegmentsInv(L)'
  BY <1>4, <1>5 DEF SegmentsInv
<1>7. Match(L)'
  <2> SUFFICES ASSUME conn.active
               PROVE  Match(L)'
    BY DEF Match
  <2>1. conn.client \in Clients /\ Match(L)
    BY DEF LengthInv, IInv, SendInv
  <2>2. CASE ~Based(conn.client)
    BY <2>1, <2>2 DEF Match
  <2>3. CASE Based(conn.client) /\ conn.iss # Base(cl[conn.client])
    BY <2>1, <2>3 DEF Match
  <2>4. CASE Based(conn.client) /\ conn.iss = Base(cl[conn.client])
    <3>1. Based(conn.client)' /\ Base(cl'[conn.client]) = conn.iss
      BY <2>1, <2>4
    <3>2. routed = 0 => Untouched'
      <4> SUFFICES ASSUME routed = 0 PROVE Untouched'
        OBVIOUS
      <4>1. Untouched /\ Received(cl'[conn.client]) = Received(cl[conn.client])
        BY <2>1, <2>4 DEF Match
      <4> QED  BY <4>1 DEF Untouched
    <3> QED  BY <2>1, <2>4, <3>1, <3>2 DEF Match, Off
  <2> QED  BY <2>2, <2>3, <2>4
<1> QED  BY <1>1, <1>6, <1>7 DEF LengthInv

\* Segments of a client are well formed: the window it announces is the room
\* in its buffer.
LEMMA FromClientType ==
    ASSUME NEW L \in Totals, EnvOK(L), NEW c \in Clients, NEW k \in Peer,
           k.unread <= env.buffer, NEW f \in SUBSET Flags,
           NEW seq \in {0, 1, 2}, NEW len \in {0, 1}
    PROVE  LET x == FromClient(c, f, seq, k, len)
           IN  /\ x \in ClientSegment /\ x.client = c /\ x.flags = f
               /\ x.ack = k.rcv_nxt /\ x.len = len
<1>1. /\ k.rcv_nxt \in SeqNums /\ k.unread \in Nat /\ env.buffer \in Nat
      /\ 0 .. env.buffer \subseteq Windows /\ seq \in SeqNums /\ len \in Lens
  BY TransferAssumption, TcpAssumption DEF EnvOK, Environment, Peer
<1>2. env.buffer - k.unread \in Windows
  BY <1>1
<1> QED  BY <1>1, <1>2 DEF FromClient, ClientSegment

\* A client acknowledges what it has taken.
LEMMA AcksItself ==
    ASSUME NEW L \in Totals, NEW x, cl'[x.client] \in Peer, PeerOK(x.client, L)',
           Based(x.client)', x.ack = cl'[x.client].rcv_nxt,
           x.len > 0 => "ACK" \in x.flags
    PROVE  AckOK(x)'
<1> DEFINE k == cl'[x.client]
<1>1. k \in Peer /\ Len(k.stream) <= L
  BY DEF PeerOK
<1>2. /\ Received(k) \in 1 .. L + 2 /\ WSub(k.rcv_nxt, Base(k)) = Received(k)
  BY <1>1, BaseFacts
<1>3. Received(k) \in 1 .. Received(k)
  BY <1>2, LengthType
<1> QED  BY <1>2, <1>3 DEF AckOK

\* One client changes.
LEMMA Replace ==
    ASSUME NEW c \in Clients, NEW k \in Peer, cl \in [Clients -> Peer],
           cl' = [cl EXCEPT ![c] = k]
    PROVE  /\ cl' \in [Clients -> Peer] /\ cl'[c] = k
           /\ \A d \in Clients \ {c} : cl'[d] = cl[d]
  OBVIOUS

\* A step of one client that takes nothing from the network.
LEMMA QuietStep ==
    ASSUME NEW L \in Totals, LengthInv(L),
           UNCHANGED <<conn, pump, routed>>, s2c' \subseteq s2c,
           EnvOK(L)', env'.buffer = env.buffer,
           NEW c \in Clients, NEW k \in Peer, cl' = [cl EXCEPT ![c] = k],
           k.rcv_nxt = cl[c].rcv_nxt, k.stream = cl[c].stream,
           Finished(k) <=> Finished(cl[c]), k.unread <= env.buffer,
           Based(c)' <=> Based(c),
           \A x \in c2s' \ c2s : /\ x \in ClientSegment /\ x.client = c
                                 /\ x.ack = k.rcv_nxt
                                 /\ x.len > 0 => "ACK" \in x.flags
                                 /\ ~Based(c)' => x.flags = {"SYN"} /\ x.len = 0
    PROVE  LengthInv(L)'
<1>1. /\ cl \in [Clients -> Peer] /\ \A d \in Clients : PeerOK(d, L)
  BY DEF LengthInv, PeersInv
<1>2. /\ cl' \in [Clients -> Peer] /\ cl'[c] = k
      /\ \A d \in Clients \ {c} : cl'[d] = cl[d]
  BY <1>1, Replace
<1>3. Base(k) = Base(cl[c]) /\ Received(k) = Received(cl[c])
  BY DEF Base, Received
<1>4. ASSUME NEW d \in Clients PROVE PeerOK(d, L)'
  <2>1. CASE d = c
    BY <1>1, <1>2, <1>3, <2>1 DEF PeerOK
  <2>2. CASE d # c
    BY <1>1, <1>2, <2>2 DEF PeerOK, Based
  <2> QED  BY <2>1, <2>2
<1>5. PeersInv(L)'
  BY <1>2, <1>4 DEF PeersInv
<1>6. \A d \in Clients : Received(cl[d]) \in Nat
  BY <1>1, ReceivedType
<1>7. ASSUME NEW d \in Clients
      PROVE  /\ Based(d)' <=> Based(d)
             /\ Base(cl'[d]) = Base(cl[d])
             /\ Received(cl[d]) = Received(cl'[d])
  <2>1. CASE d = c
    BY <1>2, <1>3, <2>1
  <2>2. CASE d # c
    BY <1>2, <2>2 DEF Based
  <2> QED  BY <2>1, <2>2
<1>8. ASSUME NEW x \in c2s' \ c2s PROVE AckOK(x)'
  <2>1. CASE Based(c)'
    BY <1>2, <1>4, <2>1, AcksItself
  <2>2. CASE ~Based(c)'
    BY <2>2 DEF AckOK
  <2> QED  BY <2>1, <2>2
<1>9. c2s' \subseteq ClientSegment
  BY DEF LengthInv, SegmentsInv
<1>10. conn.active => conn.client \in Clients
  BY DEF LengthInv, IInv, SendInv
<1> QED  BY <1>5, <1>6, <1>7, <1>8, <1>9, <1>10, GrowStep

\* The bounds that a step uses up are no part of the argument.
LEMMA EnvKeeps ==
    ASSUME NEW L, EnvOK(L),
           \/ env' = env
           \/ env.resends > 0 /\ env' = [env EXCEPT !.resends = @ - 1]
           \/ env.aborts > 0  /\ env' = [env EXCEPT !.aborts = @ - 1]
           \/ env.dups > 0    /\ env' = [env EXCEPT !.dups = @ - 1]
           \/ env.losses > 0  /\ env' = [env EXCEPT !.losses = @ - 1]
           \/ env.badReads > 0 /\ env' = [env EXCEPT !.badReads = @ - 1]
    PROVE  EnvOK(L)' /\ env'.buffer = env.buffer
<1>1. env \in Environment
  BY DEF EnvOK
<1>2. CASE env' = env
  BY <1>2 DEF EnvOK
<1>3. CASE env.resends > 0 /\ env' = [env EXCEPT !.resends = @ - 1]
  BY <1>1, <1>3 DEF EnvOK, Environment
<1>4. CASE env.aborts > 0 /\ env' = [env EXCEPT !.aborts = @ - 1]
  BY <1>1, <1>4 DEF EnvOK, Environment
<1>5. CASE env.dups > 0 /\ env' = [env EXCEPT !.dups = @ - 1]
  BY <1>1, <1>5 DEF EnvOK, Environment
<1>6. CASE env.losses > 0 /\ env' = [env EXCEPT !.losses = @ - 1]
  BY <1>1, <1>6 DEF EnvOK, Environment
<1>7. CASE env.badReads > 0 /\ env' = [env EXCEPT !.badReads = @ - 1]
  BY <1>1, <1>7 DEF EnvOK, Environment
<1> QED  BY <1>2, <1>3, <1>4, <1>5, <1>6, <1>7

\* A client in a state: its record and what it may send.
LEMMA ClientFacts ==
    ASSUME NEW L \in Totals, LengthInv(L), NEW c \in Clients
    PROVE  /\ cl[c] \in Peer /\ cl[c].unread \in Nat /\ cl[c].unread <= env.buffer
           /\ EnvOK(L) /\ env.buffer \in Nat
           /\ \A s \in {"closed", "syn_sent", "open", "finished", "closing",
                        "aborted", "reset"} :
                [cl[c] EXCEPT !.state = s] \in Peer
           /\ [cl[c] EXCEPT !.unread = 0] \in Peer
<1>1. cl[c] \in Peer /\ PeerOK(c, L) /\ EnvOK(L)
  BY DEF LengthInv, PeersInv
<1>2. env.buffer \in Nat
  BY <1>1 DEF EnvOK, Environment
<1> QED  BY <1>1, <1>2 DEF PeerOK, Peer

LEMMA OpenStep ==
    ASSUME NEW L \in Totals, LengthInv(L), NEW c \in Clients, Open(c)
    PROVE  LengthInv(L)'
<1> DEFINE k == [cl[c] EXCEPT !.state = "syn_sent"]
           x == SynOf(c)
<1>1. /\ cl[c].state = "closed" /\ cl' = [cl EXCEPT ![c] = k] /\ c2s' = c2s \cup {x}
      /\ UNCHANGED <<conn, pump, routed, s2c, env>>
  BY DEF Open, ClientSends, ServerUnchanged
<1>2. cl[c] \in Peer /\ k \in Peer /\ cl[c].unread <= env.buffer /\ EnvOK(L)
  BY ClientFacts
<1>3. /\ k.rcv_nxt = cl[c].rcv_nxt /\ k.stream = cl[c].stream
      /\ k.unread = cl[c].unread /\ k.state = "syn_sent"
  BY <1>2 DEF Peer
<1>4. /\ x \in ClientSegment /\ x.client = c /\ x.flags = {"SYN"}
      /\ x.ack = cl[c].rcv_nxt /\ x.len = 0
  BY <1>2, FromClientType DEF SynOf, Flags
<1>5. cl'[c] = k
  BY <1>1, <1>2, Replace DEF LengthInv, PeersInv
<1> HIDE DEF k, x
<1>6. EnvOK(L)' /\ s2c' \subseteq s2c
  BY <1>1, <1>2 DEF EnvOK
<1>7. (Finished(k) <=> Finished(cl[c])) /\ (Based(c)' <=> Based(c))
  BY <1>1, <1>3, <1>5 DEF Finished, Based
<1>8. \A y \in c2s' \ c2s :
        /\ y \in ClientSegment /\ y.client = c
        /\ y.ack = k.rcv_nxt
        /\ y.len > 0 => "ACK" \in y.flags
        /\ ~Based(c)' => y.flags = {"SYN"} /\ y.len = 0
  BY <1>1, <1>3, <1>4
<1>9. /\ UNCHANGED <<conn, pump, routed>> /\ env'.buffer = env.buffer
      /\ cl' = [cl EXCEPT ![c] = k] /\ k \in Peer /\ k.unread <= env.buffer
      /\ k.rcv_nxt = cl[c].rcv_nxt /\ k.stream = cl[c].stream
  BY <1>1, <1>2, <1>3
<1> QED  BY <1>6, <1>7, <1>8, <1>9, QuietStep

LEMMA ResendStep ==
    ASSUME NEW L \in Totals, LengthInv(L), NEW c \in Clients, Resend(c)
    PROVE  LengthInv(L)'
<1>1. /\ env.resends > 0 /\ env' = [env EXCEPT !.resends = @ - 1]
      /\ UNCHANGED <<conn, pump, routed, s2c, cl>>
      /\ \/ cl[c].state = "syn_sent" /\ c2s' = c2s \cup {SynOf(c)}
         \/ cl[c].state = "open"     /\ c2s' = c2s \cup {RequestOf(c, cl[c])}
         \/ cl[c].state = "closing"  /\ c2s' = c2s \cup {FinOf(c, cl[c])}
  BY DEF Resend, ClientSends, ServerUnchanged
<1>2. cl[c] \in Peer /\ cl[c].unread <= env.buffer /\ EnvOK(L)
  BY ClientFacts
<1>3. EnvOK(L)' /\ env'.buffer = env.buffer /\ s2c' \subseteq s2c
  BY <1>1, <1>2, EnvKeeps
<1>4. cl' = [cl EXCEPT ![c] = cl[c]]
  BY <1>1 DEF LengthInv, PeersInv
<1>5. Based(c)' <=> Based(c)
  BY <1>1 DEF Based
<1>6. /\ SynOf(c) \in ClientSegment /\ SynOf(c).client = c
      /\ SynOf(c).flags = {"SYN"} /\ SynOf(c).ack = cl[c].rcv_nxt /\ SynOf(c).len = 0
  BY <1>2, FromClientType DEF SynOf, Flags
<1>7. LET x == RequestOf(c, cl[c])
      IN  x \in ClientSegment /\ x.client = c /\ x.flags = {"ACK"} /\ x.ack = cl[c].rcv_nxt
  BY <1>2, FromClientType DEF RequestOf, Flags
<1>8. LET x == FinOf(c, cl[c])
      IN  /\ x \in ClientSegment /\ x.client = c /\ x.flags = {"ACK", "FIN"}
          /\ x.ack = cl[c].rcv_nxt
  BY <1>2, FromClientType DEF FinOf, Flags
<1>9. ASSUME NEW x \in c2s' \ c2s
      PROVE  /\ x \in ClientSegment /\ x.client = c
             /\ x.ack = cl[c].rcv_nxt
             /\ x.len > 0 => "ACK" \in x.flags
             /\ ~Based(c)' => x.flags = {"SYN"} /\ x.len = 0
  <2>1. CASE cl[c].state = "syn_sent" /\ x = SynOf(c)
    BY <1>6, <2>1
  <2>2. CASE cl[c].state = "open" /\ x = RequestOf(c, cl[c])
    BY <1>5, <1>7, <2>2 DEF Based
  <2>3. CASE cl[c].state = "closing" /\ x = FinOf(c, cl[c])
    BY <1>5, <1>8, <2>3 DEF Based
  <2> QED  BY <1>1, <2>1, <2>2, <2>3
<1> QED  BY <1>1, <1>2, <1>3, <1>4, <1>5, <1>9, QuietStep

LEMMA AppReadStep ==
    ASSUME NEW L \in Totals, LengthInv(L), NEW c \in Clients, AppRead(c)
    PROVE  LengthInv(L)'
<1> DEFINE k == [cl[c] EXCEPT !.unread = 0]
           x == AckOf(c, k)
<1>1. /\ cl[c].state = "open" /\ cl' = [cl EXCEPT ![c] = k]
      /\ c2s' = c2s \cup {AckOf(c, cl'[c])}
      /\ UNCHANGED <<conn, pump, routed, s2c, env>>
  BY DEF AppRead, ClientSends, ServerUnchanged
<1>2. cl[c] \in Peer /\ k \in Peer /\ env.buffer \in Nat /\ EnvOK(L)
  BY ClientFacts
<1>3. /\ k.rcv_nxt = cl[c].rcv_nxt /\ k.stream = cl[c].stream
      /\ k.unread = 0 /\ k.state = "open" /\ k.unread <= env.buffer
  BY <1>1, <1>2 DEF Peer
<1>4. cl'[c] = k
  BY <1>1, <1>2, Replace DEF LengthInv, PeersInv
<1>5. c2s' = c2s \cup {x}
  BY <1>1, <1>4
<1> HIDE DEF k
<1>6. /\ x \in ClientSegment /\ x.client = c /\ x.flags = {"ACK"}
      /\ x.ack = k.rcv_nxt /\ x.len = 0
  BY <1>2, <1>3, FromClientType DEF AckOf, Flags
<1> HIDE DEF x
<1>7. EnvOK(L)' /\ s2c' \subseteq s2c
  BY <1>1, <1>2 DEF EnvOK
<1>8. (Finished(k) <=> Finished(cl[c])) /\ (Based(c)' <=> Based(c)) /\ Based(c)'
  BY <1>1, <1>3, <1>4 DEF Finished, Based
<1>9. \A y \in c2s' \ c2s :
        /\ y \in ClientSegment /\ y.client = c
        /\ y.ack = k.rcv_nxt
        /\ y.len > 0 => "ACK" \in y.flags
        /\ ~Based(c)' => y.flags = {"SYN"} /\ y.len = 0
  BY <1>5, <1>6, <1>8
<1>10. /\ UNCHANGED <<conn, pump, routed>> /\ env'.buffer = env.buffer
       /\ cl' = [cl EXCEPT ![c] = k] /\ k \in Peer /\ k.unread <= env.buffer
       /\ k.rcv_nxt = cl[c].rcv_nxt /\ k.stream = cl[c].stream
  BY <1>1, <1>2, <1>3
<1> QED  BY <1>7, <1>8, <1>9, <1>10, QuietStep

LEMMA CloseStep ==
    ASSUME NEW L \in Totals, LengthInv(L), NEW c \in Clients, Close(c)
    PROVE  LengthInv(L)'
<1> DEFINE k == [cl[c] EXCEPT !.state = "closing"]
           x == FinOf(c, cl[c])
<1>1. /\ cl[c].state = "finished" /\ cl' = [cl EXCEPT ![c] = k]
      /\ c2s' = c2s \cup {x}
      /\ UNCHANGED <<conn, pump, routed, s2c, env>>
  BY DEF Close, ClientSends, ServerUnchanged
<1>2. cl[c] \in Peer /\ k \in Peer /\ cl[c].unread <= env.buffer /\ EnvOK(L)
  BY ClientFacts
<1>3. /\ k.rcv_nxt = cl[c].rcv_nxt /\ k.stream = cl[c].stream
      /\ k.unread = cl[c].unread /\ k.state = "closing"
  BY <1>2 DEF Peer
<1>4. /\ x \in ClientSegment /\ x.client = c /\ x.flags = {"ACK", "FIN"}
      /\ x.ack = cl[c].rcv_nxt /\ x.len = 0
  BY <1>2, FromClientType DEF FinOf, Flags
<1>5. cl'[c] = k
  BY <1>1, <1>2, Replace DEF LengthInv, PeersInv
<1> HIDE DEF k, x
<1>6. EnvOK(L)' /\ s2c' \subseteq s2c
  BY <1>1, <1>2 DEF EnvOK
<1>7. (Finished(k) <=> Finished(cl[c])) /\ (Based(c)' <=> Based(c)) /\ Based(c)'
  BY <1>1, <1>3, <1>5 DEF Finished, Based
<1>8. \A y \in c2s' \ c2s :
        /\ y \in ClientSegment /\ y.client = c
        /\ y.ack = k.rcv_nxt
        /\ y.len > 0 => "ACK" \in y.flags
        /\ ~Based(c)' => y.flags = {"SYN"} /\ y.len = 0
  BY <1>1, <1>3, <1>4, <1>7
<1>9. /\ UNCHANGED <<conn, pump, routed>> /\ env'.buffer = env.buffer
      /\ cl' = [cl EXCEPT ![c] = k] /\ k \in Peer /\ k.unread <= env.buffer
      /\ k.rcv_nxt = cl[c].rcv_nxt /\ k.stream = cl[c].stream
  BY <1>1, <1>2, <1>3
<1> QED  BY <1>6, <1>7, <1>8, <1>9, QuietStep

LEMMA AbortStep ==
    ASSUME NEW L \in Totals, LengthInv(L), NEW c \in Clients, Abort(c)
    PROVE  LengthInv(L)'
<1> DEFINE k == [cl[c] EXCEPT !.state = "aborted"]
           x == FromClient(c, {"RST"}, 2, cl[c], 0)
<1>1. /\ cl[c].state = "open" /\ cl' = [cl EXCEPT ![c] = k]
      /\ c2s' = c2s \cup {x}
      /\ env.aborts > 0 /\ env' = [env EXCEPT !.aborts = @ - 1]
      /\ UNCHANGED <<conn, pump, routed, s2c>>
  BY DEF Abort, ClientSends, ServerUnchanged
<1>2. cl[c] \in Peer /\ k \in Peer /\ cl[c].unread <= env.buffer /\ EnvOK(L)
  BY ClientFacts
<1>3. /\ k.rcv_nxt = cl[c].rcv_nxt /\ k.stream = cl[c].stream
      /\ k.unread = cl[c].unread /\ k.state = "aborted"
  BY <1>2 DEF Peer
<1>4. /\ x \in ClientSegment /\ x.client = c
      /\ x.ack = cl[c].rcv_nxt /\ x.len = 0
  BY <1>2, FromClientType DEF Flags
<1>5. cl'[c] = k
  BY <1>1, <1>2, Replace DEF LengthInv, PeersInv
<1> HIDE DEF k, x
<1>6. EnvOK(L)' /\ env'.buffer = env.buffer /\ s2c' \subseteq s2c
  BY <1>1, <1>2, EnvKeeps
<1>7. (Finished(k) <=> Finished(cl[c])) /\ (Based(c)' <=> Based(c)) /\ Based(c)'
  BY <1>1, <1>3, <1>5 DEF Finished, Based
<1>8. \A y \in c2s' \ c2s :
        /\ y \in ClientSegment /\ y.client = c
        /\ y.ack = k.rcv_nxt
        /\ y.len > 0 => "ACK" \in y.flags
        /\ ~Based(c)' => y.flags = {"SYN"} /\ y.len = 0
  BY <1>1, <1>3, <1>4, <1>7
<1>9. /\ UNCHANGED <<conn, pump, routed>> /\ env'.buffer = env.buffer
      /\ cl' = [cl EXCEPT ![c] = k] /\ k \in Peer /\ k.unread <= env.buffer
      /\ k.rcv_nxt = cl[c].rcv_nxt /\ k.stream = cl[c].stream
  BY <1>1, <1>2, <1>3, <1>6
<1> QED  BY <1>6, <1>7, <1>8, <1>9, QuietStep

\* The SYN-ACK: from here on the client counts from its number.
LEMMA SynAckStep ==
    ASSUME NEW L \in Totals, LengthInv(L), NEW m \in s2c,
           UNCHANGED <<conn, pump, routed>>, s2c' \subseteq s2c,
           EnvOK(L)', env'.buffer = env.buffer,
           cl[m.client].state = "syn_sent", m.flags = {"SYN", "ACK"},
           cl' = [cl EXCEPT ![m.client].state = "open",
                            ![m.client].rcv_nxt = WAdd(m.seq, 1)],
           c2s' = c2s \cup {AckOf(m.client, cl'[m.client]),
                            RequestOf(m.client, cl'[m.client])}
    PROVE  LengthInv(L)'
<1> DEFINE c == m.client
           k == [cl[c] EXCEPT !.state = "open", !.rcv_nxt = WAdd(m.seq, 1)]
<1>1. /\ c \in Clients /\ m.seq \in SeqNums /\ m.seq \in Iss
      /\ \A x \in s2c : x.client \in Clients
      /\ \A x \in c2s : x.client \in Clients /\ AckOK(x) /\ x \in ClientSegment
      /\ \A x \in s2c : WireOK(x, L)
  BY DEF LengthInv, IInv, TypeOK, ServerSegment, SegmentsInv, ClientSegment, WireOK
<1>2. /\ cl \in [Clients -> Peer] /\ cl[c] \in Peer /\ EnvOK(L)
      /\ \A d \in Clients : PeerOK(d, L)
  BY <1>1 DEF LengthInv, PeersInv
<1>3. ~Based(c) /\ cl[c].stream = <<>> /\ cl[c].unread <= env.buffer
  BY <1>1, <1>2 DEF Based, PeerOK
<1>4. WAdd(m.seq, 1) \in SeqNums /\ WSub(WAdd(m.seq, 1), 1) = m.seq
  <2>1. 1 \in 0 .. L + 2
    BY LengthType
  <2> QED  BY <1>1, <2>1, PlaceType
<1>5. cl' = [cl EXCEPT ![c] = k]
  BY <1>1, <1>2
<1>6. /\ k \in Peer /\ k.state = "open" /\ k.rcv_nxt = WAdd(m.seq, 1)
      /\ k.stream = <<>> /\ k.unread = cl[c].unread
  <2>1. PICK q \in SeqNums : q = WAdd(m.seq, 1)
    BY <1>4
  <2>2. k = [cl[c] EXCEPT !.state = "open", !.rcv_nxt = q]
    BY <2>1
  <2>3. /\ k \in Peer /\ k.state = "open" /\ k.rcv_nxt = q
        /\ k.stream = cl[c].stream /\ k.unread = cl[c].unread
    <3> HIDE DEF k
    <3> QED  BY <1>2, <2>2 DEF Peer
  <2> QED  BY <1>3, <2>1, <2>3
<1> HIDE DEF k
<1>7. /\ cl' \in [Clients -> Peer] /\ cl'[c] = k
      /\ \A d \in Clients \ {c} : cl'[d] = cl[d]
  <2>1. c \in Clients /\ k \in Peer /\ cl \in [Clients -> Peer]
    BY <1>1, <1>2, <1>6
  <2> QED  BY <1>5, <2>1, Replace
<1>8. /\ Based(c)' /\ ~Finished(k) /\ Received(k) = 1 /\ Base(k) = m.seq
      /\ Len(k.stream) = 0
  <2>1. Based(c)' /\ ~Finished(k) /\ Len(k.stream) = 0
    BY <1>6, <1>7 DEF Based, Finished
  <2>2. Received(k) = 1
    BY <2>1 DEF Received
  <2> QED  BY <1>4, <1>6, <2>1, <2>2 DEF Base, Received
<1>9. ASSUME NEW d \in Clients PROVE PeerOK(d, L)'
  <2>1. CASE d = c
    <3>1. L \in Nat
      BY LengthType
    <3> QED  BY <1>1, <1>3, <1>6, <1>7, <1>8, <2>1, <3>1 DEF PeerOK
  <2>2. CASE d # c
    BY <1>2, <1>7, <2>2 DEF PeerOK, Based
  <2> QED  BY <2>1, <2>2
<1>10. PeersInv(L)'
  BY <1>7, <1>9 DEF PeersInv
<1>11. ASSUME NEW x \in s2c' PROVE WireOK(x, L)'
  <2>1. CASE x.client = c
    BY <1>1, <1>3, <2>1 DEF WireOK
  <2>2. CASE x.client # c
    <3>1. cl'[x.client] = cl[x.client] /\ WireOK(x, L)
      BY <1>1, <1>7, <2>2
    <3> QED  BY <3>1 DEF WireOK, Placed, Based
  <2> QED  BY <2>1, <2>2
<1>12. /\ AckOf(c, k) \in ClientSegment /\ AckOf(c, k).client = c
       /\ AckOf(c, k).flags = {"ACK"} /\ AckOf(c, k).ack = k.rcv_nxt
       /\ RequestOf(c, k) \in ClientSegment /\ RequestOf(c, k).client = c
       /\ RequestOf(c, k).flags = {"ACK"} /\ RequestOf(c, k).ack = k.rcv_nxt
  <2>1. {"ACK"} \in SUBSET Flags /\ k.unread <= env.buffer
    BY <1>3, <1>6 DEF Flags
  <2> QED  BY <1>1, <1>2, <1>6, <2>1, FromClientType DEF AckOf, RequestOf
<1>13. ASSUME NEW x \in c2s' PROVE x \in ClientSegment /\ AckOK(x)'
  <2>1. CASE x \in c2s /\ x.client = c
    BY <1>1, <1>3, <1>8, <2>1 DEF AckOK
  <2>2. CASE x \in c2s /\ x.client # c
    <3>1. cl'[x.client] = cl[x.client]
      BY <1>1, <1>7, <2>2
    <3> QED  BY <1>1, <2>2, <3>1 DEF AckOK, Based
  <2>3. CASE x \in {AckOf(c, k), RequestOf(c, k)}
    <3>1. /\ x \in ClientSegment /\ x.client = c /\ x.flags = {"ACK"}
          /\ x.ack = k.rcv_nxt
      BY <1>12, <2>3
    <3> QED  BY <1>1, <1>6, <1>7, <1>8, <1>9, <3>1, AcksItself
  <2> QED  BY <1>7, <2>1, <2>2, <2>3
<1>14. SegmentsInv(L)'
  BY <1>11, <1>13 DEF SegmentsInv
<1>15. Match(L)'
  <2> SUFFICES ASSUME conn.active PROVE Match(L)'
    BY DEF Match
  <2>1. conn.client \in Clients /\ Match(L)
    BY DEF LengthInv, IInv, SendInv
  <2>2. CASE conn.client = c
    <3>1. conn.resp = NoResp /\ routed = 0 /\ conn.snd_una = conn.iss
      BY <1>3, <2>1, <2>2 DEF Match
    <3>2. Untouched'
      BY <1>1, <1>3, <1>7, <1>8, <2>2 DEF Untouched, WireOK
    <3> QED  BY <1>8, <2>2, <3>1, <3>2 DEF Match, NoResp
  <2>3. CASE conn.client # c
    <3>1. cl'[conn.client] = cl[conn.client]
      BY <1>7, <2>1, <2>3
    <3>2. Untouched => Untouched'
      BY <3>1 DEF Untouched
    <3> QED  BY <2>1, <3>1, <3>2 DEF Match, Off, Based
  <2> QED  BY <2>2, <2>3
<1>16. IInv' /\ SpentInv(L)'
  BY ServerKeeps DEF LengthInv
<1> QED  BY <1>10, <1>14, <1>15, <1>16 DEF LengthInv

\* A client that keeps what it has, and acknowledges it, or says nothing.
LEMMA StayStep ==
    ASSUME NEW L \in Totals, LengthInv(L), NEW c \in Clients,
           UNCHANGED <<conn, pump, routed, cl>>, s2c' \subseteq s2c,
           EnvOK(L)', env'.buffer = env.buffer,
           \/ c2s' \subseteq c2s
           \/ Based(c) /\ c2s' = c2s \cup {AckOf(c, cl[c])}
    PROVE  LengthInv(L)'
<1>1. cl[c] \in Peer /\ cl[c].unread <= env.buffer /\ EnvOK(L)
  BY ClientFacts
<1>2. LET x == AckOf(c, cl[c])
      IN  x \in ClientSegment /\ x.client = c /\ x.flags = {"ACK"} /\ x.ack = cl[c].rcv_nxt
  BY <1>1, FromClientType DEF AckOf, Flags
<1>3. cl' = [cl EXCEPT ![c] = cl[c]]
  BY DEF LengthInv, PeersInv
<1>4. Based(c)' <=> Based(c)
  BY DEF Based
<1>5. \A x \in c2s' \ c2s :
        /\ x \in ClientSegment /\ x.client = c
        /\ x.ack = cl[c].rcv_nxt
        /\ x.len > 0 => "ACK" \in x.flags
        /\ ~Based(c)' => x.flags = {"SYN"} /\ x.len = 0
  BY <1>2, <1>4
<1> QED  BY <1>1, <1>3, <1>4, <1>5, QuietStep

\* Payload that the client accepts.  It comes from the connection the client
\* counts from, which therefore has been asked.
LEMMA PayloadStep ==
    ASSUME NEW L \in Totals, LengthInv(L), NEW m \in s2c,
           UNCHANGED <<conn, pump, routed>>, s2c' \subseteq s2c,
           EnvOK(L)', env'.buffer = env.buffer,
           cl[m.client].state = "open", m.len > 0, Acceptable(cl[m.client], m),
           cl' = [cl EXCEPT ![m.client] = Receive(cl[m.client], m)],
           c2s' = c2s \cup {AckOf(m.client, cl'[m.client])}
    PROVE  LengthInv(L)'
<1> DEFINE c == m.client
           k == cl[c]
           t == Receive(k, m)
<1>1. /\ c \in Clients /\ cl \in [Clients -> Peer] /\ EnvOK(L)
      /\ \A d \in Clients : PeerOK(d, L)
  BY DEF LengthInv, IInv, TypeOK, ServerSegment, PeersInv
<1>2. /\ t \in Peer /\ t.state \in {"open", "finished"}
      /\ t.unread \in 0 .. env.buffer
      /\ Base(t) = Base(k) /\ Received(k) <= Received(t)
      /\ Len(k.stream) <= Len(t.stream) /\ Len(t.stream) <= L
      /\ Finished(t) => Len(t.stream) = L
      /\ \A i \in 1 .. Len(t.stream) : t.stream[i] = [rid |-> 1, off |-> i - 1]
      /\ m.seq = WAdd(Base(k), m.off + 1)
  BY ReceiveOK
<1> HIDE DEF t
<1>3. cl' = [cl EXCEPT ![c] = t]
  BY DEF t
<1>4. /\ cl' \in [Clients -> Peer] /\ cl'[c] = t
      /\ \A d \in Clients \ {c} : cl'[d] = cl[d]
  BY <1>1, <1>2, <1>3, Replace
<1>5. Based(c) /\ Based(c)'
  BY <1>2, <1>4 DEF Based
<1>6. ASSUME NEW d \in Clients PROVE PeerOK(d, L)'
  <2>1. CASE d = c
    <3>1. Base(t) \in Iss
      BY <1>1, <1>2, <1>5 DEF PeerOK
    <3>2. t.unread <= env.buffer
      BY <1>2
    <3> QED  BY <1>2, <1>4, <1>5, <2>1, <3>1, <3>2 DEF PeerOK
  <2>2. CASE d # c
    BY <1>1, <1>4, <2>2 DEF PeerOK, Based
  <2> QED  BY <2>1, <2>2
<1>7. PeersInv(L)'
  BY <1>4, <1>6 DEF PeersInv
<1>8. /\ AckOf(c, t) \in ClientSegment /\ AckOf(c, t).client = c
      /\ AckOf(c, t).flags = {"ACK"} /\ AckOf(c, t).ack = t.rcv_nxt
  <2>1. {"ACK"} \in SUBSET Flags /\ t.unread <= env.buffer
    BY <1>2 DEF Flags
  <2> QED  BY <1>1, <1>2, <2>1, FromClientType DEF AckOf
<1>9. ASSUME NEW x \in c2s' \ c2s PROVE x \in ClientSegment /\ AckOK(x)'
  <2>1. x = AckOf(c, t)
    BY <1>4
  <2>2. /\ x \in ClientSegment /\ x.client = c /\ x.flags = {"ACK"}
        /\ x.ack = t.rcv_nxt
    BY <1>8, <2>1
  <2> QED  BY <1>1, <1>2, <1>4, <1>5, <1>6, <2>2, AcksItself
<1>10. c2s' \subseteq ClientSegment
  BY <1>9 DEF LengthInv, SegmentsInv
<1>11. \A d \in Clients : Received(cl[d]) \in Nat
  BY <1>1, ReceivedType
<1>12. ASSUME NEW d \in Clients
       PROVE  /\ Based(d)' <=> Based(d)
              /\ Based(d) => /\ Base(cl'[d]) = Base(cl[d])
                             /\ Received(cl[d]) <= Received(cl'[d])
  <2>1. CASE d = c
    BY <1>2, <1>4, <1>5, <2>1
  <2>2. CASE d # c
    BY <1>4, <1>11, <2>2 DEF Based
  <2> QED  BY <2>1, <2>2
<1>13. conn.active /\ routed = 0 /\ Based(conn.client)
          /\ conn.iss = Base(cl[conn.client])
            => Received(cl'[conn.client]) = Received(cl[conn.client])
  <2> SUFFICES ASSUME conn.active, routed = 0, Based(conn.client),
                      conn.iss = Base(cl[conn.client])
               PROVE  conn.client \in Clients \ {c}
    BY <1>4
  <2>1. conn.client \in Clients /\ Untouched
    BY DEF LengthInv, IInv, SendInv, Match
  <2>2. conn.client # c
    BY <1>2, <2>1 DEF Untouched
  <2> QED  BY <2>1, <2>2
<1>14. \A x \in c2s' \ c2s : AckOK(x)'
  BY <1>9
<1> QED  BY <1>7, <1>10, <1>12, <1>13, <1>14, GrowStep

LEMMA ToClientStep ==
    ASSUME NEW L \in Totals, LengthInv(L), DeliverToClient
    PROVE  LengthInv(L)'
<1>1. PICK m \in s2c : ClientRecv(m) /\ Delivered(s2c, m, s2c', env') /\ ServerUnchanged
  BY DEF DeliverToClient
<1> DEFINE c == m.client
<1>2. c \in Clients
  BY DEF LengthInv, IInv, TypeOK, ServerSegment
<1>3. cl[c] \in Peer /\ cl[c].unread <= env.buffer /\ EnvOK(L)
      /\ [cl[c] EXCEPT !.state = "reset"] \in Peer
  BY <1>2, ClientFacts
<1>4. /\ UNCHANGED <<conn, pump, routed>> /\ s2c' \subseteq s2c
      /\ env' = env \/ (env.dups > 0 /\ env' = [env EXCEPT !.dups = @ - 1])
  BY <1>1 DEF ServerUnchanged, Delivered
<1>5. EnvOK(L)' /\ env'.buffer = env.buffer
  BY <1>3, <1>4, EnvKeeps
<1>6. CASE /\ cl[c].state = "syn_sent" /\ m.flags = {"SYN", "ACK"}
           /\ cl' = [cl EXCEPT ![c].state = "open", ![c].rcv_nxt = WAdd(m.seq, 1)]
           /\ ClientSends({AckOf(c, cl'[c]), RequestOf(c, cl'[c])})
  BY <1>4, <1>5, <1>6, SynAckStep DEF ClientSends
<1>7. CASE /\ cl[c].state = "open" /\ cl' = [cl EXCEPT ![c].state = "reset"]
           /\ UNCHANGED c2s
  <2> DEFINE k == [cl[c] EXCEPT !.state = "reset"]
  <2>1. cl' = [cl EXCEPT ![c] = k] /\ k \in Peer
    BY <1>3, <1>7
  <2>2. /\ k.rcv_nxt = cl[c].rcv_nxt /\ k.stream = cl[c].stream
        /\ k.unread = cl[c].unread /\ k.state = "reset"
    BY <1>3 DEF Peer
  <2>3. cl'[c] = k
    BY <1>2, <2>1, Replace DEF LengthInv, PeersInv
  <2> HIDE DEF k
  <2>4. (Finished(k) <=> Finished(cl[c])) /\ (Based(c)' <=> Based(c))
    BY <1>7, <2>2, <2>3 DEF Finished, Based
  <2>5. \A x \in c2s' \ c2s :
          /\ x \in ClientSegment /\ x.client = c
          /\ x.ack = k.rcv_nxt
          /\ x.len > 0 => "ACK" \in x.flags
          /\ ~Based(c)' => x.flags = {"SYN"} /\ x.len = 0
    BY <1>7
  <2>6. k.unread <= env.buffer
    BY <1>3, <2>2
  <2> QED  BY <1>2, <1>4, <1>5, <2>1, <2>2, <2>4, <2>5, <2>6, QuietStep
<1>8. CASE /\ cl[c].state = "open" /\ m.len > 0
           /\ cl' = IF Acceptable(cl[c], m) THEN [cl EXCEPT ![c] = Receive(cl[c], m)]
                    ELSE cl
           /\ ClientSends({AckOf(c, cl'[c])})
  <2>1. CASE Acceptable(cl[c], m)
    BY <1>4, <1>5, <1>8, <2>1, PayloadStep DEF ClientSends
  <2>2. CASE ~Acceptable(cl[c], m)
    <3>1. Based(c) /\ cl' = cl /\ c2s' = c2s \cup {AckOf(c, cl[c])}
      BY <1>8, <2>2 DEF ClientSends, Based
    <3> QED  BY <1>2, <1>4, <1>5, <3>1, StayStep
  <2> QED  BY <2>1, <2>2
<1>9. CASE /\ cl[c].state \in {"finished", "closing"}
           /\ ClientSends({AckOf(c, cl[c])}) /\ UNCHANGED cl
  <2>1. Based(c) /\ c2s' = c2s \cup {AckOf(c, cl[c])}
    BY <1>9 DEF ClientSends, Based
  <2> QED  BY <1>2, <1>4, <1>5, <1>9, <2>1, StayStep
<1>10. CASE UNCHANGED <<cl, c2s>>
  BY <1>2, <1>4, <1>5, <1>10, StayStep
<1> QED  BY <1>1, <1>6, <1>7, <1>8, <1>9, <1>10 DEF ClientRecv

LEMMA LoseStep ==
    ASSUME NEW L \in Totals, LengthInv(L), Lose
    PROVE  LengthInv(L)'
<1>1. /\ UNCHANGED <<conn, pump, routed, cl>> /\ s2c' \subseteq s2c /\ c2s' \subseteq c2s
      /\ env.losses > 0 /\ env' = [env EXCEPT !.losses = @ - 1]
  BY DEF Lose, ServerUnchanged
<1>2. EnvOK(L)' /\ env'.buffer = env.buffer
  BY <1>1, EnvKeeps DEF LengthInv
<1>3. PeersInv(L)'
  BY <1>1, <1>2 DEF LengthInv, PeersInv, PeerOK, Based
<1>4. \A c \in Clients : Received(cl[c]) \in Nat /\ (Based(c)' <=> Based(c))
  BY <1>1, ReceivedType DEF LengthInv, PeersInv, Based
<1>5. c2s' \subseteq ClientSegment
  BY <1>1 DEF LengthInv, SegmentsInv
<1>6. \A c \in Clients :
        /\ Based(c)' <=> Based(c)
        /\ Based(c) => Base(cl'[c]) = Base(cl[c]) /\ Received(cl[c]) <= Received(cl'[c])
  BY <1>1, <1>4
<1> QED  BY <1>1, <1>2, <1>3, <1>5, <1>6, GrowStep

-----------------------------------------------------------------------------
(* Steps of the server *)

\* What remains to be shown of a step in which no client changes.
LEMMA ServerSide ==
    ASSUME NEW L \in Totals, LengthInv(L), UNCHANGED cl, c2s' \subseteq c2s,
           EnvOK(L)', env'.buffer = env.buffer, IInv', SpentInv(L)', Match(L)',
           \A x \in s2c' \ s2c : WireOK(x, L)
    PROVE  LengthInv(L)'
<1>1. \A c : (Based(c)' <=> Based(c)) /\ Base(cl'[c]) = Base(cl[c])
  BY DEF Based
<1>2. ASSUME NEW x \in s2c' PROVE WireOK(x, L)'
  <2>1. WireOK(x, L)
    BY DEF LengthInv, SegmentsInv
  <2> QED  BY <1>1, <2>1 DEF WireOK, Placed
<1>3. ASSUME NEW x \in c2s' PROVE x \in ClientSegment /\ AckOK(x)'
  <2>1. x \in ClientSegment /\ AckOK(x)
    BY DEF LengthInv, SegmentsInv
  <2> QED  BY <1>1, <2>1 DEF AckOK
<1>4. SegmentsInv(L)'
  BY <1>2, <1>3 DEF SegmentsInv
<1>5. PeersInv(L)'
  BY <1>1 DEF LengthInv, PeersInv, PeerOK
<1> QED  BY <1>4, <1>5 DEF LengthInv

\* Neither end moves when the other counts from another number; when they
\* agree, a request acknowledges the SYN.
LEMMA AckMatch ==
    ASSUME NEW L \in Totals, LengthInv(L), NEW m \in c2s, Accepted(m)
    PROVE  LET d == AckField(conn, m)
               b == Base(cl[conn.client])
           IN  /\ m.client = conn.client /\ Based(conn.client)
               /\ conn.iss # b => d.snd_una = conn.iss
               /\ conn.iss = b /\ (routed > 0 \/ m.len > 0) => d.snd_una # conn.iss
<1> DEFINE d == AckField(conn, m)
           b == Base(cl[conn.client])
<1>1. /\ m \in ClientSegment /\ AckOK(m) /\ conn.active /\ m.client = conn.client
      /\ "SYN" \notin m.flags /\ conn.client \in Clients /\ conn \in Conn
      /\ m.ack \in SeqNums /\ routed \in Nat
  BY TcpAssumption
     DEF LengthInv, SegmentsInv, Accepted, FromPeer, ClientSegment, IInv, TypeOK
<1>2. Based(conn.client)
  BY <1>1 DEF AckOK
<1>3. /\ b \in Iss /\ Received(cl[conn.client]) \in 1 .. L + 2
      /\ cl[conn.client] \in Peer
  <2>1. /\ cl[conn.client] \in Peer /\ b \in Iss
        /\ Len(cl[conn.client].stream) <= L
    BY <1>1, <1>2 DEF LengthInv, PeersInv, PeerOK
  <2> QED  BY <2>1, BaseFacts
<1>4. /\ conn.iss \in Iss /\ conn.iss \in SeqNums
      /\ conn.snd_una \in SeqNums /\ conn.snd_nxt \in SeqNums
      /\ WSub(conn.snd_una, conn.iss) \in Nat /\ WSub(conn.snd_nxt, conn.iss) \in Nat
      /\ WSub(conn.snd_una, conn.iss) <= WSub(conn.snd_nxt, conn.iss)
      /\ WSub(conn.snd_nxt, conn.iss) < SeqHalf
      /\ WSub(conn.snd_nxt, conn.iss) <= L + 2
  <2>1. conn.iss \in Iss /\ conn.iss \in SeqNums
        /\ conn.snd_una \in SeqNums /\ conn.snd_nxt \in SeqNums
    BY <1>1 DEF LengthInv, SpentInv, Conn
  <2> QED  BY <1>1, <2>1, WrapType DEF LengthInv, IInv, SendInv, SpentInv, Off
<1>5. /\ d.snd_una \in SeqNums
      /\ WSub(d.snd_una, conn.iss) \in Nat
      /\ WSub(conn.snd_una, conn.iss) <= WSub(d.snd_una, conn.iss)
  BY <1>1, AckSpent DEF Conn, LengthInv
<1>6. /\ "ACK" \notin m.flags => d.snd_una = conn.snd_una
      /\ "ACK" \in m.flags /\ ~InRange(conn, m.ack) => d.snd_una = conn.snd_una
      /\ "ACK" \in m.flags /\ InRange(conn, m.ack) => d.snd_una = m.ack
  BY <1>1 DEF AckField, Conn
<1>7. \A a \in SeqNums : WSub(a, conn.iss) = 0 <=> a = conn.iss
  BY <1>4, SeqHalfAssumption DEF WSub, SeqNums, SeqMod
<1>8. "ACK" \in m.flags => WSub(m.ack, b) \in 1 .. Received(cl[conn.client])
  BY <1>1, <1>2 DEF AckOK
<1> HIDE DEF d, b
<1>9. ASSUME conn.iss # b PROVE d.snd_una = conn.iss
  <2>1. conn.snd_una = conn.iss
    BY <1>1, <1>2, <1>9 DEF LengthInv, Match, b
  <2>2. ASSUME "ACK" \in m.flags, InRange(conn, m.ack) PROVE FALSE
    <3>1. WSub(m.ack, conn.iss) <= WSub(conn.snd_nxt, conn.iss)
      BY <1>1, <1>4, <2>2, AckWindow DEF InRange
    <3>2. WSub(m.ack, b) \in 1 .. L + 2
      BY <1>3, <1>8, <2>2, LengthType
    <3>3. WSub(m.ack, conn.iss) > L + 2
      BY <1>1, <1>3, <1>4, <1>9, <3>2, ForeignAck
    <3>4. WSub(m.ack, conn.iss) \in Nat
      BY <1>1, <1>4, WrapType
    <3> QED  BY <1>4, <3>1, <3>3, <3>4, LengthType
  <2> QED  BY <1>6, <2>1, <2>2
<1>10. ASSUME conn.iss = b, conn.snd_una # conn.iss PROVE d.snd_una # conn.iss
  <2>1. WSub(conn.snd_una, conn.iss) # 0
    BY <1>4, <1>7, <1>10
  <2>2. WSub(d.snd_una, conn.iss) # 0
    BY <1>4, <1>5, <2>1
  <2> QED  BY <1>5, <1>7, <2>2
<1>11. ASSUME conn.iss = b, conn.snd_una = conn.iss, routed = 0, m.len > 0
       PROVE  d.snd_una # conn.iss
  <2>1. Received(cl[conn.client]) = 1 /\ "ACK" \in m.flags
    BY <1>1, <1>2, <1>11 DEF LengthInv, Match, Untouched, AckOK, b
  <2>2. WSub(m.ack, conn.iss) = 1
    BY <1>8, <1>11, <2>1
  <2>3. WSub(conn.snd_nxt, conn.iss) = 1
    BY <1>1, <1>11 DEF LengthInv, SpentInv, Off
  <2>4. m.ack = conn.snd_nxt
    BY <1>1, <1>4, <2>2, <2>3, Recover
  <2>5. InRange(conn, m.ack)
    <3>1. ~SeqLt(conn.snd_nxt, m.ack)
      BY <1>4, <2>4, SeqHalfAssumption DEF SeqLt, AsSigned, WSub, SeqNums, SeqMod
    <3>2. SeqLt(conn.snd_una, m.ack)
      BY <1>1, <1>4, <1>11, <2>2, TcpAssumption, SeqHalfAssumption
         DEF SeqLt, AsSigned, WSub, SeqNums, SeqMod
    <3> QED  BY <3>1, <3>2 DEF InRange
  <2>6. d.snd_una = m.ack
    BY <1>6, <2>1, <2>5
  <2> QED  BY <1>4, <1>7, <2>2, <2>6, <1>1
<1>12. conn.iss = b /\ routed > 0 => conn.snd_una # conn.iss
  BY <1>1, <1>2 DEF LengthInv, Match, b
<1> QED
  BY <1>1, <1>2, <1>9, <1>10, <1>11, <1>12 DEF d, b

\* A closed connection is nobody's.
LEMMA MatchClosed ==
    ASSUME NEW L, conn' = NoConn
    PROVE  Match(L)'
  BY DEF Match, NoConn

\* New segments without payload leave a client as it is.
LEMMA UntouchedKeeps ==
    ASSUME Untouched, UNCHANGED cl, conn'.client = conn.client, conn'.iss = conn.iss,
           \A x \in s2c' \ s2c : x.len = 0
    PROVE  Untouched'
  BY DEF Untouched

\* A SYN: the new number is neither end's.
LEMMA MatchSyn ==
    ASSUME NEW L \in Totals, LengthInv(L), NEW m \in c2s, RecvSyn(m), FreshIss(m),
           UNCHANGED cl
    PROVE  Match(L)'
<1>1. m \in ClientSegment
  BY DEF LengthInv, SegmentsInv
<1>2. /\ conn'.active /\ conn'.client = m.client /\ conn'.resp = NoResp
      /\ conn'.snd_una = conn'.iss /\ routed' = 0 /\ "SYN" \in m.flags
  BY <1>1, SynConn
<1>3. (Based(m.client)' <=> Based(m.client)) /\ Base(cl'[m.client]) = Base(cl[m.client])
  BY DEF Based
<1>4. Based(m.client) => conn'.iss # Base(cl[m.client])
  BY <1>2 DEF FreshIss
<1> QED  BY <1>2, <1>3, <1>4 DEF Match

LEMMA MatchAck ==
    ASSUME NEW L \in Totals, LengthInv(L), NEW m \in c2s, RecvAck(m), UNCHANGED cl
    PROVE  Match(L)'
<1> DEFINE d == AckField(conn, m)
           b == Base(cl[conn.client])
<1>1. /\ Accepted(m) /\ conn' = d /\ routed' = routed /\ s2c' = s2c
  BY DEF RecvAck
<1>2. /\ Based(conn.client)
      /\ conn.iss # b => d.snd_una = conn.iss
      /\ conn.iss = b /\ routed > 0 => d.snd_una # conn.iss
  BY <1>1, AckMatch
<1>3. m \in ClientSegment
  BY DEF LengthInv, SegmentsInv
<1>4. /\ d.iss = conn.iss /\ d.client = conn.client /\ d.snd_nxt = conn.snd_nxt
      /\ d.resp \in {conn.resp, NoResp}
  BY <1>1, <1>3, AcceptedAck DEF LengthInv
<1> HIDE DEF d
<1>5. conn.active /\ conn' = d /\ conn'.client = conn.client
  BY <1>1, <1>4 DEF Accepted, FromPeer
<1>6. Based(conn.client)' /\ Base(cl[conn.client])' = b
  BY <1>2, <1>5 DEF Based
<1>7. conn.iss = b => (routed = 0 => Untouched')
  <2> SUFFICES ASSUME conn.iss = b, routed = 0 PROVE Untouched'
    OBVIOUS
  <2>1. Untouched
    BY <1>2, <1>5 DEF LengthInv, Match
  <2> QED  BY <1>1, <1>4, <2>1, UntouchedKeeps
<1>8. conn.iss = b => (conn'.resp.fin_sent => WSub(conn'.snd_nxt, conn'.iss) = L + 2)
  <2> SUFFICES ASSUME conn.iss = b, d.resp.fin_sent
               PROVE  WSub(conn.snd_nxt, conn.iss) = L + 2
    BY <1>4, <1>5
  <2>1. d.resp = conn.resp
    BY <1>4 DEF NoResp
  <2> QED  BY <1>2, <1>5, <2>1 DEF LengthInv, Match, Off
<1> QED  BY <1>1, <1>2, <1>4, <1>5, <1>6, <1>7, <1>8 DEF Match, Off

LEMMA MatchData ==
    ASSUME NEW L \in Totals, LengthInv(L), NEW m \in c2s, RecvData(m), UNCHANGED cl
    PROVE  Match(L)'
<1> DEFINE d == AckField(conn, m)
           b == Base(cl[conn.client])
           c == [d EXCEPT !.rcv_nxt = WAdd(m.seq, m.len)]
<1>1. Accepted(m) /\ m.len > 0 /\ conn.active
  BY DEF RecvData, Accepted, FromPeer
<1>2. /\ Based(conn.client)
      /\ conn.iss # b => d.snd_una = conn.iss
      /\ conn.iss = b => d.snd_una # conn.iss
  BY <1>1, AckMatch
<1>3. m \in ClientSegment /\ routed \in Nat
  BY TcpAssumption DEF LengthInv, SegmentsInv, IInv, TypeOK
<1>4. /\ d \in Conn /\ d.iss = conn.iss /\ d.client = conn.client
      /\ d.snd_nxt = conn.snd_nxt /\ d.resp \in {conn.resp, NoResp}
  BY <1>1, <1>3, AcceptedAck DEF LengthInv
<1>5. \/ /\ c.resp = NoResp /\ routed' = routed + 1
         /\ \E total \in Totals :
              conn' = [c EXCEPT !.resp = [rid |-> routed + 1, total |-> total,
                                          fin_sent |-> FALSE]]
      \/ c.resp # NoResp /\ conn' = c /\ routed' = routed
  BY DEF RecvData
<1> HIDE DEF d
<1>6. /\ c.client = conn.client /\ c.iss = conn.iss /\ c.snd_nxt = conn.snd_nxt
      /\ c.snd_una = d.snd_una /\ c.resp = d.resp
      /\ \A r : LET e == [c EXCEPT !.resp = r]
                IN  /\ e.client = conn.client /\ e.iss = conn.iss
                    /\ e.snd_una = d.snd_una /\ e.resp = r
  BY <1>4 DEF Conn
<1> HIDE DEF c
<1>7. /\ conn'.client = conn.client /\ conn'.iss = conn.iss
      /\ conn'.snd_una = d.snd_una /\ routed' > 0
      /\ conn.iss = b /\ conn'.resp.fin_sent => WSub(conn'.snd_nxt, conn'.iss) = L + 2
  <2>1. CASE c.resp # NoResp /\ conn' = c /\ routed' = routed
    <3>1. conn.resp # NoResp /\ d.resp = conn.resp
      BY <1>4, <1>6, <2>1
    <3>2. routed > 0
      BY <1>3, <3>1 DEF LengthInv, SpentInv
    <3>3. conn.iss = b /\ conn.resp.fin_sent => WSub(conn.snd_nxt, conn.iss) = L + 2
      BY <1>1, <1>2 DEF LengthInv, Match, Off
    <3> QED  BY <1>6, <2>1, <3>1, <3>2, <3>3
  <2>2. CASE /\ c.resp = NoResp /\ routed' = routed + 1
             /\ \E total \in Totals :
                  conn' = [c EXCEPT !.resp = [rid |-> routed + 1, total |-> total,
                                              fin_sent |-> FALSE]]
    <3>1. PICK total \in Totals :
            conn' = [c EXCEPT !.resp = [rid |-> routed + 1, total |-> total,
                                        fin_sent |-> FALSE]]
      BY <2>2
    <3>2. routed' > 0
      BY <1>3, <2>2
    <3>3. /\ conn'.client = conn.client /\ conn'.iss = conn.iss
          /\ conn'.snd_una = d.snd_una
          /\ conn'.resp = [rid |-> routed + 1, total |-> total, fin_sent |-> FALSE]
      BY <1>6, <3>1
    <3>4. ~conn'.resp.fin_sent
      BY <3>3
    <3> QED  BY <3>2, <3>3, <3>4
  <2> QED  BY <1>5, <2>1, <2>2
<1>8. routed' # 0 /\ Based(conn.client)' /\ Base(cl[conn.client])' = b
  BY <1>2, <1>7 DEF Based
<1> QED  BY <1>2, <1>7, <1>8 DEF Match, Off

LEMMA ToServerStep ==
    ASSUME NEW L \in Totals, LengthInv(L), DeliverToServer
    PROVE  LengthInv(L)'
<1>1. PICK m \in c2s : /\ Process(m) /\ FreshIss(m)
                       /\ conn'.resp = NoResp \/ conn'.resp.total = env.length
                       /\ Delivered(c2s, m, c2s', env')
                       /\ UNCHANGED cl
  BY DEF DeliverToServer
<1>2. /\ m \in ClientSegment /\ c2s' \subseteq c2s /\ env.length = L /\ EnvOK(L)
      /\ env' = env \/ (env.dups > 0 /\ env' = [env EXCEPT !.dups = @ - 1])
  BY <1>1 DEF LengthInv, SegmentsInv, Delivered, EnvOK
<1>3. EnvOK(L)' /\ env'.buffer = env.buffer
  BY <1>2, EnvKeeps
<1>4. IInv'
  BY <1>1, <1>2, NextIInv DEF LengthInv, Next
<1>5. SpentInv(L)'
  BY <1>1, <1>2, SpentProcess DEF LengthInv
<1>6. \A x \in s2c' \ s2c : WireOK(x, L)
  <2> SUFFICES ASSUME NEW x \in s2c' \ s2c PROVE WireOK(x, L)
    OBVIOUS
  <2>1. x.len = 0 /\ ("SYN" \in x.flags => x.seq \in Iss)
    BY <1>1, <1>2, ProcessSends
  <2> QED  BY <2>1 DEF WireOK
<1>7. Match(L)'
  <2>1. CASE RecvIgnored(m)
    <3>1. UNCHANGED <<conn, pump, routed, s2c, cl>>
      BY <1>1, <2>1 DEF RecvIgnored, tcpVars
    <3> QED  BY <3>1 DEF LengthInv, Match, Untouched, Off, Based
  <2>2. CASE RecvRst(m) \/ RecvFin(m)
    BY <2>2, MatchClosed DEF RecvRst, RecvFin
  <2> QED
    BY <1>1, <2>1, <2>2, MatchSyn, MatchData, MatchAck DEF Process
<1> QED  BY <1>1, <1>2, <1>3, <1>4, <1>5, <1>6, <1>7, ServerSide

LEMMA PumpRunsStep ==
    ASSUME NEW L \in Totals, LengthInv(L), PumpRuns
    PROVE  LengthInv(L)'
<1>1. UNCHANGED <<cl, c2s, env>> /\ EnvOK(L)' /\ env'.buffer = env.buffer
  BY DEF PumpRuns, LengthInv, EnvOK
<1>2. IInv'
  BY NextIInv DEF PumpRuns, LengthInv, Next, ServerStep
<1>3. CASE PumpSegment
  <2> DEFINE b == Base(cl[conn.client])
  <2>1. /\ SpentInv(L)' /\ routed = 1 /\ routed' = 1
        /\ conn.active /\ conn.resp # NoResp /\ conn'.active
        /\ conn'.client = conn.client /\ conn'.iss = conn.iss
        /\ conn'.snd_una = conn.snd_una
        /\ conn'.resp.fin_sent /\ Off(conn.snd_nxt) # 0
             => Off(conn.snd_nxt)' = L + 2
    BY <1>3, SpentPump DEF LengthInv
  <2>2. /\ Based(conn.client) /\ conn.client \in Clients
        /\ conn.iss # b => conn.snd_una = conn.iss
        /\ conn.iss = b => conn.snd_una # conn.iss
    BY <2>1 DEF LengthInv, Match, IInv, SendInv
  <2>3. conn.iss = b => Off(conn.snd_nxt) # 0 /\ conn.snd_nxt # conn.iss
    <3>1. /\ conn.snd_una \in SeqNums /\ conn.snd_nxt \in SeqNums
          /\ conn.iss \in SeqNums /\ Off(conn.snd_una) <= Off(conn.snd_nxt)
      BY <2>1 DEF LengthInv, IInv, TypeOK, SendInv, Conn
    <3>2. Off(conn.snd_una) \in Nat /\ Off(conn.snd_nxt) \in Nat
      BY <3>1, WrapType DEF Off
    <3>3. \A a \in SeqNums : Off(a) = 0 <=> a = conn.iss
      BY <3>1, SeqHalfAssumption DEF Off, WSub, SeqNums, SeqMod
    <3> QED  BY <2>2, <3>1, <3>2, <3>3
  <2>4. \A x \in s2c' \ s2c : WireOK(x, L)
    <3> SUFFICES ASSUME NEW x \in s2c' \ s2c PROVE WireOK(x, L)
      OBVIOUS
    <3>1. /\ x.rid = 1 /\ x.off + x.len <= L
          /\ conn.iss \in Iss /\ InPlace(x, conn.iss)
          /\ x.client = conn.client /\ x.seq = conn.snd_nxt
          /\ "FIN" \in x.flags => x.off + x.len = L
          /\ "SYN" \notin x.flags
      BY <1>3, PumpSends DEF LengthInv
    <3>2. Placed(x, conn.iss)
      BY <2>3, <3>1 DEF InPlace, Placed
    <3> QED  BY <2>2, <3>1, <3>2 DEF WireOK
  <2>5. Based(conn.client)' /\ Base(cl[conn.client])' = b
    BY <1>1, <2>1, <2>2 DEF Based
  <2>6. Match(L)'
    BY <2>1, <2>2, <2>3, <2>5 DEF Match
  <2> QED  BY <1>1, <1>2, <2>1, <2>4, <2>6, ServerSide
<1>4. CASE PumpDone
  <2>1. UNCHANGED <<conn, routed, s2c>>
    BY <1>4 DEF PumpDone
  <2>2. SpentInv(L)' /\ Match(L)'
    BY <1>1, <2>1 DEF LengthInv, SpentInv, Match, Untouched, Off, Based
  <2> QED  BY <1>1, <1>2, <2>1, <2>2, ServerSide
<1> QED  BY <1>3, <1>4 DEF PumpRuns

LEMMA ReadFailsStep ==
    ASSUME NEW L \in Totals, LengthInv(L), ReadFails
    PROVE  LengthInv(L)'
<1>1. /\ UNCHANGED <<conn, routed, s2c, cl, c2s>> /\ PumpFails
      /\ env.badReads > 0 /\ env' = [env EXCEPT !.badReads = @ - 1]
  BY DEF ReadFails, PumpFails
<1>2. EnvOK(L)' /\ env'.buffer = env.buffer
  BY <1>1, EnvKeeps DEF LengthInv
<1>3. IInv'
  BY <1>1, NextIInv DEF LengthInv, Next, ServerStep
<1>4. SpentInv(L)' /\ Match(L)'
  BY <1>1 DEF LengthInv, SpentInv, Match, Untouched, Off, Based
<1> QED  BY <1>1, <1>2, <1>3, <1>4, ServerSide

LEMMA TickRunsStep ==
    ASSUME NEW L \in Totals, LengthInv(L), TickRuns
    PROVE  LengthInv(L)'
<1>1. /\ Tick /\ UNCHANGED <<cl, c2s, env>> /\ EnvOK(L)' /\ env'.buffer = env.buffer
  BY DEF TickRuns, LengthInv, EnvOK
<1>2. IInv'
  BY <1>1, NextIInv DEF LengthInv, Next, ServerStep
<1>3. SpentInv(L)'
  BY <1>1, SpentTick DEF LengthInv
<1>4. \A x \in s2c' \ s2c : WireOK(x, L)
  BY <1>1, TickSends DEF WireOK
<1>5. Match(L)'
  <2>1. CASE TickWatchdog \/ TickGiveUp
    BY <2>1, MatchClosed DEF TickWatchdog, TickGiveUp, ResetWithRst
  <2>2. CASE TickRetransmit
    <3> DEFINE r == [conn.resp EXCEPT !.fin_sent = FALSE]
    <3>1. conn \in Conn /\ conn.resp # NoResp /\ conn.active /\ routed > 0
      BY <2>2, TcpAssumption
         DEF TickRetransmit, RtoFired, Outstanding, LengthInv, IInv, TypeOK, SpentInv
    <3>2. conn' = [conn EXCEPT !.rto_attempts = @ + 1, !.rto_ms = MinOf(2 * @, RTO_MAX_MS),
                               !.snd_nxt = conn.snd_una, !.resp = r]
      BY <2>2, <3>1 DEF TickRetransmit, Conn
    <3>3. ~r.fin_sent
      BY <3>1 DEF Conn
    <3> HIDE DEF r
    <3>4. /\ conn'.client = conn.client /\ conn'.iss = conn.iss
          /\ conn'.snd_una = conn.snd_una /\ conn'.resp = r /\ routed' = routed
      BY <2>2, <3>1, <3>2 DEF Conn, TickRetransmit
    <3>5. Match(L) /\ routed # 0
      BY <3>1 DEF LengthInv
    <3> QED  BY <1>1, <3>1, <3>3, <3>4, <3>5 DEF Match, Based
  <2> QED  BY <1>1, <2>1, <2>2 DEF Tick
<1> QED  BY <1>1, <1>2, <1>3, <1>4, <1>5, ServerSide

LEMMA TimePassesStep ==
    ASSUME NEW L \in Totals, LengthInv(L), TimePasses
    PROVE  LengthInv(L)'
<1>1. /\ Elapse /\ UNCHANGED <<cl, c2s, env>> /\ EnvOK(L)' /\ env'.buffer = env.buffer
  BY DEF TimePasses, LengthInv, EnvOK
<1>2. IInv'
  BY <1>1, NextIInv DEF LengthInv, Next, ServerStep
<1>3. SpentInv(L)'
  BY <1>1, SpentElapse DEF LengthInv
<1>4. /\ conn'.active = conn.active /\ conn'.iss = conn.iss /\ conn'.resp = conn.resp
      /\ conn'.client = conn.client /\ conn'.snd_una = conn.snd_una
      /\ conn'.snd_nxt = conn.snd_nxt /\ routed' = routed /\ s2c' = s2c
  BY <1>1 DEF Elapse, LengthInv, IInv, TypeOK, Conn
<1>5. Untouched => Untouched'
  BY <1>1, <1>4 DEF Untouched
<1>6. Match(L)'
  BY <1>1, <1>4, <1>5 DEF LengthInv, Match, Off, Based
<1> QED  BY <1>1, <1>2, <1>3, <1>4, <1>6, ServerSide

-----------------------------------------------------------------------------
(* The inductive invariant *)

LEMMA TransferStart == TransferInit => TransferInv
<1> SUFFICES ASSUME TransferInit PROVE TransferInv
  OBVIOUS
<1> DEFINE L == env.length
<1>1. /\ env \in Environment /\ L \in Totals /\ EnvOK(L)
      /\ 0 \in SeqNums /\ env.buffer \in Nat
  BY TransferAssumption DEF TransferInit, Environment, EnvOK
<1>2. conn = NoConn /\ routed = 0 /\ s2c = {} /\ c2s = {}
  BY DEF TransferInit, Init
<1>3. IInv
  BY InitIInv DEF TransferInit
<1>4. SpentInv(L) /\ Match(L) /\ SegmentsInv(L)
  BY <1>2 DEF SpentInv, Match, SegmentsInv, NoConn, NoResp
<1>5. <<>> \in Seq(Byte) /\ Len(<<>>) = 0
  BY EmptySeq
<1>6. cl \in [Clients -> Peer]
  BY <1>1, <1>5 DEF TransferInit, Peer
<1>7. ASSUME NEW c \in Clients PROVE PeerOK(c, L)
  <2>1. cl[c].state = "closed" /\ cl[c].unread = 0 /\ cl[c].stream = <<>>
    BY DEF TransferInit
  <2> QED  BY <1>1, <1>5, <2>1 DEF PeerOK, Based
<1>8. LengthInv(L)
  BY <1>1, <1>3, <1>4, <1>6, <1>7 DEF LengthInv, PeersInv
<1> QED  BY <1>1, <1>8 DEF TransferInv

LEMMA LengthStep ==
    ASSUME NEW L \in Totals, LengthInv(L), [TransferNext]_vars
    PROVE  LengthInv(L)'
<1>1. CASE UNCHANGED vars
  <2>1. UNCHANGED <<conn, pump, routed, s2c, cl, c2s, env>>
    BY <1>1 DEF vars
  <2>2. EnvOK(L)' /\ s2c' \subseteq s2c
    BY <2>1 DEF LengthInv, EnvOK
  <2>3. conn.active => conn.client \in Clients
    BY DEF LengthInv, IInv, SendInv
  <2>4. PeersInv(L)'
    BY <2>1 DEF LengthInv, PeersInv, PeerOK, Based
  <2>5. c2s' \subseteq ClientSegment /\ \A x \in c2s' \ c2s : AckOK(x)'
    BY <2>1 DEF LengthInv, SegmentsInv
  <2>6. \A c \in Clients : /\ Based(c)' <=> Based(c)
                          /\ Base(cl'[c]) = Base(cl[c])
                          /\ Received(cl[c]) = Received(cl'[c])
                          /\ Received(cl[c]) \in Nat
    BY <2>1, ReceivedType DEF LengthInv, PeersInv, Based
  <2>7. \A c \in Clients :
          /\ Based(c)' <=> Based(c)
          /\ Based(c) => Base(cl'[c]) = Base(cl[c]) /\ Received(cl[c]) <= Received(cl'[c])
    BY <2>6
  <2>8. UNCHANGED <<conn, pump, routed>>
    BY <2>1
  <2> QED  BY <2>2, <2>3, <2>4, <2>5, <2>6, <2>7, <2>8, GrowStep
<1>2. CASE ClientActs
  BY <1>2, OpenStep, ResendStep, AppReadStep, CloseStep, AbortStep DEF ClientActs
<1> QED
  BY <1>1, <1>2, ToServerStep, ToClientStep, LoseStep, PumpRunsStep, ReadFailsStep,
     TickRunsStep, TimePassesStep DEF TransferNext

LEMMA TransferStep == TransferInv /\ [TransferNext]_vars => TransferInv'
<1> SUFFICES ASSUME NEW L \in Totals, LengthInv(L), [TransferNext]_vars
             PROVE  \E l \in Totals : LengthInv(l)'
  BY DEF TransferInv
<1> QED  BY LengthStep

LEMMA TransferInvariance == TransferSpec => []TransferInv
<1> QED  BY TransferStart, TransferStep, PTL DEF TransferSpec

-----------------------------------------------------------------------------
(* Theorems *)

\* Whatever the tunnel does to the segments and however often tick() rewinds,
\* byte i of what a client reads is byte i of the response to its request.
THEOREM StreamIntegrityHolds == TransferSpec => []StreamIntegrity
<1>1. TransferInv => StreamIntegrity
  BY DEF TransferInv, LengthInv, PeersInv, PeerOK, StreamIntegrity
<1> QED  BY <1>1, TransferInvariance, PTL

\* The server among conforming clients is the server in any environment: what
\* is proved of process(), pump() and tick() there holds here.
THEOREM ServerRefined == TransferSpec => Spec
<1>1. TransferInit => Init
  BY DEF TransferInit
<1>2. TransferInv /\ [TransferNext]_vars => [Next]_tcpVars
  <2> SUFFICES ASSUME TransferInv, TransferNext PROVE [Next]_tcpVars
    BY DEF vars, tcpVars
  <2>1. c2s \subseteq ClientSegment
    BY DEF TransferInv, LengthInv, SegmentsInv
  <2>2. CASE DeliverToServer
    BY <2>1, <2>2 DEF DeliverToServer, Next
  <2>3. CASE DeliverToClient \/ Lose
    <3>1. UNCHANGED <<conn, pump, routed>> /\ s2c' \subseteq s2c
      BY <2>3 DEF DeliverToClient, Lose, Delivered, ServerUnchanged
    <3> QED  BY <3>1 DEF Next, NetworkDrops
  <2>4. CASE PumpRuns \/ ReadFails \/ TickRuns \/ TimePasses
    BY <2>4 DEF PumpRuns, ReadFails, TickRuns, TimePasses, Next, ServerStep
  <2>5. CASE ClientActs
    BY <2>5 DEF ClientActs, Open, Resend, AppRead, Close, Abort, ServerUnchanged, tcpVars
  <2> QED  BY <2>2, <2>3, <2>4, <2>5 DEF TransferNext
<1> QED  BY <1>1, <1>2, TransferInvariance, PTL DEF TransferSpec, Spec

\* The response is only freed by the ACK of all that was sent.
LEMMA FreedByAck ==
    ASSUME NEW L \in Totals, LengthInv(L), NEW m \in c2s, RecvAck(m),
           conn.resp # NoResp, conn'.resp = NoResp
    PROVE  Finished(cl[conn.client])
<1> DEFINE d == AckField(conn, m)
           b == Base(cl[conn.client])
           k == cl[conn.client]
<1>1. Accepted(m) /\ conn' = d
  BY DEF RecvAck
<1>2. m \in ClientSegment /\ AckOK(m) /\ conn.active /\ m.client = conn.client
      /\ conn.client \in Clients /\ conn \in Conn
  BY <1>1 DEF LengthInv, SegmentsInv, Accepted, FromPeer, IInv, TypeOK, SendInv
<1>3. /\ "ACK" \in m.flags /\ conn.resp.fin_sent /\ m.ack = conn.snd_nxt
      /\ d.snd_una = conn.snd_nxt
  BY <1>1, <1>2 DEF AckField, FullyAcked, Conn
<1>4. Off(conn.snd_nxt) >= L + 1 /\ conn.iss \in SeqNums /\ L \in Nat
  BY <1>2, <1>3, LengthType DEF LengthInv, SpentInv, Conn
<1>5. d.snd_una # conn.iss
  <2>1. WSub(conn.iss, conn.iss) = 0
    BY <1>4, SeqHalfAssumption DEF WSub, SeqNums, SeqMod
  <2> QED  BY <1>3, <1>4, <2>1 DEF Off
<1>6. Based(conn.client) /\ conn.iss = b
  BY <1>1, <1>5, AckMatch
<1>7. WSub(conn.snd_nxt, b) = L + 2
  BY <1>2, <1>3, <1>6 DEF LengthInv, Match, Off
<1>8. WSub(conn.snd_nxt, b) \in 1 .. Received(k)
  BY <1>2, <1>3, <1>6 DEF AckOK
<1>9. k \in Peer /\ Len(k.stream) <= L
  BY <1>2, <1>6 DEF LengthInv, PeersInv, PeerOK
<1> HIDE DEF b, k
<1>10. Len(k.stream) \in Nat /\ Received(k) \in Nat
  BY <1>9, ReceivedType
<1>11. Received(k) # Len(k.stream) + 1
  BY <1>4, <1>7, <1>8, <1>9, <1>10
<1> QED  BY <1>11 DEF Received, k

\* No other step frees it.
LEMMA KeptOtherwise ==
    ASSUME NEW L \in Totals, LengthInv(L), [TransferNext]_vars,
           conn.resp # NoResp, conn'.resp = NoResp, conn'.active,
           conn'.snd_una = conn.snd_nxt
    PROVE  \E m \in c2s : RecvAck(m)
<1>1. /\ conn.active /\ conn \in Conn /\ conn.resp.rid = routed /\ routed \in Nat \ {0}
      /\ conn.iss \in Iss /\ Off(conn.snd_nxt) <= L + 2 /\ NoResp.rid = 0
  BY TcpAssumption DEF LengthInv, IInv, TypeOK, SendInv, SpentInv, NoResp
<1>2. conn'.resp.rid = 0 /\ conn' # NoConn /\ conn'.resp # conn.resp
  BY <1>1 DEF NoConn
<1>3. ~UNCHANGED conn
  BY <1>2
<1>4. ASSUME NEW m \in c2s, Process(m), FreshIss(m) PROVE RecvAck(m)
  <2>1. m \in ClientSegment
    BY DEF LengthInv, SegmentsInv
  <2>2. ~RecvSyn(m)
    <3> SUFFICES ASSUME RecvSyn(m) PROVE FALSE
      OBVIOUS
    <3>1. conn'.iss \in Iss /\ conn'.snd_una = conn'.iss /\ "SYN" \in m.flags
      BY <2>1, SynConn
    <3>2. conn'.iss # conn.iss
      BY <1>1, <1>4, <3>1 DEF FreshIss
    <3>3. WSub(conn'.iss, conn.iss) \in Nat /\ WSub(conn'.iss, conn.iss) > L + 2
      BY <1>1, <3>1, <3>2, Apart
    <3> QED  BY <1>1, <3>1, <3>3, LengthType DEF Off
  <2>3. ~RecvIgnored(m) /\ ~RecvRst(m) /\ ~RecvFin(m)
    BY <1>2, <1>3 DEF RecvIgnored, tcpVars, RecvRst, RecvFin
  <2>4. ~RecvData(m)
    <3> SUFFICES ASSUME RecvData(m) PROVE FALSE
      OBVIOUS
    <3> DEFINE c == [AckField(conn, m) EXCEPT !.rcv_nxt = WAdd(m.seq, m.len)]
    <3>1. \/ c.resp # NoResp /\ conn' = c
          \/ \E total \in Totals :
               conn' = [c EXCEPT !.resp = [rid |-> routed + 1, total |-> total,
                                           fin_sent |-> FALSE]]
      BY DEF RecvData
    <3>2. AckField(conn, m) \in Conn
      BY <2>1, AcceptedAck DEF RecvData, LengthInv
    <3>3. ASSUME NEW r PROVE [c EXCEPT !.resp = r].resp = r
      BY <3>2 DEF Conn
    <3> HIDE DEF c
    <3>4. CASE c.resp # NoResp /\ conn' = c
      BY <3>4
    <3>5. CASE \E total \in Totals :
                 conn' = [c EXCEPT !.resp = [rid |-> routed + 1, total |-> total,
                                             fin_sent |-> FALSE]]
      <4>1. conn'.resp.rid = routed + 1
        BY <3>3, <3>5
      <4> QED  BY <1>1, <1>2, <4>1
    <3> QED  BY <3>1, <3>4, <3>5
  <2> QED  BY <1>4, <2>2, <2>3, <2>4 DEF Process
<1>5. ~PumpRuns
  <2>1. ASSUME PumpSegment PROVE FALSE
    <3>1. PICK n, g : conn' = [conn EXCEPT !.snd_nxt = n, !.sendAge = 0, !.resp.fin_sent = g]
      BY <2>1 DEF PumpSegment
    <3>2. conn'.resp.rid = conn.resp.rid
      BY <1>1, <3>1 DEF Conn
    <3> QED  BY <1>1, <1>2, <3>2
  <2> QED  BY <1>3, <2>1 DEF PumpRuns, PumpDone
<1>6. ~TickRuns
  <2>1. ASSUME TickRetransmit PROVE FALSE
    <3>1. PICK a, r, n : conn' = [conn EXCEPT !.rto_attempts = a, !.rto_ms = r, !.snd_nxt = n,
                                              !.resp.fin_sent = FALSE]
      BY <2>1 DEF TickRetransmit
    <3>2. conn'.resp.rid = conn.resp.rid
      BY <1>1, <3>1 DEF Conn
    <3> QED  BY <1>1, <1>2, <3>2
  <2> QED  BY <1>2, <2>1 DEF TickRuns, Tick, TickWatchdog, TickGiveUp, ResetWithRst
<1>7. ~TimePasses
  <2>1. ASSUME Elapse PROVE conn'.resp = conn.resp
    BY <1>1, <2>1 DEF Elapse, Conn
  <2> QED  BY <1>2, <2>1 DEF TimePasses
<1>8. ~DeliverToClient /\ ~Lose /\ ~ReadFails /\ ~ClientActs /\ ~UNCHANGED vars
  BY <1>3 DEF DeliverToClient, Lose, ReadFails, PumpFails, ClientActs, Open, Resend, AppRead, Close, Abort,
              ServerUnchanged, vars
<1> QED  BY <1>4, <1>5, <1>6, <1>7, <1>8 DEF TransferNext, DeliverToServer

\* "Fully acked (incl. FIN): free the body" (process()): when a response is
\* freed on an acknowledgement, the client it was for has all of it, and the
\* acknowledgement is of this connection.
THEOREM FreedOnlyWhenDeliveredHolds == TransferSpec => FreedOnlyWhenDelivered
<1>1. TransferInv /\ [TransferNext]_vars
        => [conn.resp # NoResp /\ conn'.resp = NoResp /\ conn'.active
              /\ conn'.client = conn.client /\ conn'.snd_una = conn.snd_nxt
            => Finished(cl[conn.client])]_vars
  <2> SUFFICES ASSUME TransferInv, [TransferNext]_vars,
                      conn.resp # NoResp, conn'.resp = NoResp, conn'.active,
                      conn'.snd_una = conn.snd_nxt
               PROVE  Finished(cl[conn.client])
    OBVIOUS
  <2>1. PICK L \in Totals : LengthInv(L)
    BY DEF TransferInv
  <2>2. PICK m \in c2s : RecvAck(m)
    BY <2>1, KeptOtherwise
  <2> QED  BY <2>1, <2>2, FreedByAck
<1> QED  BY <1>1, TransferInvariance, PTL DEF TransferSpec, FreedOnlyWhenDelivered

-----------------------------------------------------------------------------
(* The promise of ByteStream *)

\* Three ways in which a client may go on reading.
LEMMA ReaderMoves ==
    ASSUME NEW c, env'.length = env.length,
           \/ /\ cl'[c].stream = cl[c].stream
              /\ Finished(cl'[c]) <=> Finished(cl[c])
              /\ cl'[c].state \in {"reset", "aborted"} <=> cl[c].state \in {"reset", "aborted"}
           \/ /\ cl'[c].stream = cl[c].stream
              /\ cl[c].state = "open" /\ cl'[c].state \in {"reset", "aborted"}
           \/ /\ cl[c].state = "open" /\ cl'[c].state \in {"open", "finished"}
              /\ Len(cl'[c].stream) \in Len(cl[c].stream) .. env.length
              /\ Finished(cl'[c]) => Len(cl'[c].stream) = env.length
    PROVE  [Reader(c)!StreamNext]_(Reader(c)!streamVars)
  BY DEF Reader!StreamNext, Reader!Arrive, Reader!Cut, Reader!streamVars,
         StreamStatus, Finished

LEMMA ReaderStep ==
    ASSUME NEW L \in Totals, LengthInv(L), [TransferNext]_vars, NEW c \in Clients
    PROVE  [Reader(c)!StreamNext]_(Reader(c)!streamVars)
<1>1. env.length = L /\ env'.length = env.length
  BY LengthStep DEF LengthInv, EnvOK
<1>2. cl \in [Clients -> Peer] /\ \A d \in Clients : cl[d] \in Peer
  BY DEF LengthInv, PeersInv
<1>3. CASE cl'[c] = cl[c]
  BY <1>1, <1>3, ReaderMoves
<1>4. CASE \E d \in Clients, s \in {"syn_sent", "closing", "aborted", "reset"} :
             /\ cl' = [cl EXCEPT ![d].state = s]
             /\ s = "syn_sent" => cl[d].state = "closed"
             /\ s = "closing" => cl[d].state = "finished"
             /\ s \in {"aborted", "reset"} => cl[d].state = "open"
  <2>1. CASE cl'[c] # cl[c]
    <3>1. PICK s \in {"syn_sent", "closing", "aborted", "reset"} :
            /\ cl' = [cl EXCEPT ![c].state = s]
            /\ s = "syn_sent" => cl[c].state = "closed"
            /\ s = "closing" => cl[c].state = "finished"
            /\ s \in {"aborted", "reset"} => cl[c].state = "open"
      BY <1>2, <1>4, <2>1
    <3>2. cl'[c].state = s /\ cl'[c].stream = cl[c].stream
      BY <1>2, <3>1 DEF Peer
    <3> QED  BY <1>1, <3>1, <3>2, ReaderMoves DEF Finished
  <2> QED  BY <1>3, <2>1
<1>5. CASE \E d \in Clients : cl' = [cl EXCEPT ![d].unread = 0]
  <2>1. cl'[c].state = cl[c].state /\ cl'[c].stream = cl[c].stream
    BY <1>2, <1>5 DEF Peer
  <2> QED  BY <1>1, <2>1, ReaderMoves DEF Finished
<1>6. CASE DeliverToClient
  <2>1. PICK m \in s2c : ClientRecv(m)
    BY <1>6 DEF DeliverToClient
  <2>2. m.client \in Clients
    BY DEF LengthInv, IInv, TypeOK, ServerSegment
  <2>3. CASE m.client # c
    <3>1. cl'[c] = cl[c]
      BY <1>2, <2>1, <2>2, <2>3 DEF ClientRecv
    <3> QED  BY <1>3, <3>1
  <2>4. CASE m.client = c
    <3>1. CASE /\ cl[c].state = "syn_sent"
               /\ cl' = [cl EXCEPT ![c].state = "open", ![c].rcv_nxt = WAdd(m.seq, 1)]
      <4>1. cl'[c].state = "open" /\ cl'[c].stream = cl[c].stream
        BY <1>2, <3>1 DEF Peer
      <4> QED  BY <1>1, <3>1, <4>1, ReaderMoves DEF Finished
    <3>2. CASE cl[c].state = "open" /\ cl' = [cl EXCEPT ![c].state = "reset"]
      BY <1>4, <3>2
    <3>3. CASE /\ cl[c].state = "open" /\ m.len > 0 /\ Acceptable(cl[c], m)
               /\ cl' = [cl EXCEPT ![c] = Receive(cl[c], m)]
      <4> DEFINE t == Receive(cl[c], m)
      <4>1. /\ t \in Peer /\ t.state \in {"open", "finished"}
            /\ Len(cl[c].stream) <= Len(t.stream) /\ Len(t.stream) <= L
            /\ Finished(t) => Len(t.stream) = L
        BY <2>4, <3>3, ReceiveOK
      <4>2. cl'[c] = t
        BY <1>2, <3>3
      <4> HIDE DEF t
      <4>3. Len(t.stream) \in Nat /\ Len(cl[c].stream) \in Nat /\ L \in Nat
        BY <1>2, <4>1, ReceivedType, LengthType
      <4> QED  BY <1>1, <3>3, <4>1, <4>2, <4>3, ReaderMoves
    <3>4. CASE UNCHANGED cl
      BY <1>3, <3>4
    <3> QED  BY <2>1, <2>4, <3>1, <3>2, <3>3, <3>4 DEF ClientRecv
  <2> QED  BY <2>3, <2>4
<1>7. CASE ClientActs
  <2>1. PICK d \in Clients : Open(d) \/ Resend(d) \/ AppRead(d) \/ Close(d) \/ Abort(d)
    BY <1>7 DEF ClientActs
  <2> QED  BY <1>3, <1>4, <1>5, <2>1 DEF Open, Resend, AppRead, Close, Abort
<1>8. CASE ~DeliverToClient /\ ~ClientActs
  <2>1. UNCHANGED cl
    BY <1>8 DEF TransferNext, DeliverToServer, Lose, PumpRuns, ReadFails, TickRuns, TimePasses, vars
  <2> QED  BY <1>3, <2>1
<1> QED  BY <1>6, <1>7, <1>8

\* The server and its pump, seen by each client, implement ByteStream: the
\* stream only grows, ends only with the last byte of the response, and does
\* not end after a reset.
THEOREM DeliversByteStreamHolds == TransferSpec => DeliversByteStream
<1>1. TransferInit => \A c \in Clients : Reader(c)!StreamInit
  <2> SUFFICES ASSUME TransferInit, NEW c \in Clients PROVE Reader(c)!StreamInit
    OBVIOUS
  <2>1. env.length \in Nat \ {0}
    BY TransferAssumption, TcpAssumption DEF TransferInit, Environment
  <2>2. cl[c].state = "closed" /\ Len(cl[c].stream) = 0
    BY EmptySeq DEF TransferInit
  <2> QED  BY <2>1, <2>2 DEF Reader!StreamInit, StreamStatus, Finished
<1>2. TransferInv /\ [TransferNext]_vars
        => [\A c \in Clients : [Reader(c)!StreamNext]_(Reader(c)!streamVars)]_vars
  BY ReaderStep DEF TransferInv
<1> QED  BY <1>1, <1>2, TransferInvariance, PTL DEF TransferSpec, DeliversByteStream

-----------------------------------------------------------------------------
(* What TcpClient collects *)

FetchSegmentsInv ==
    \A m \in s2c :
      /\ m.len > 0 => /\ m.rid = 1 /\ m.off + m.len <= PageLen
                      /\ \E i \in Iss : InPlace(m, i)
      /\ {"SYN", "ACK"} \subseteq m.flags => m.seq \in Iss

\* The client asks after it has been answered, never before.
RequestInv ==
    ~tc.established =>
       /\ \A m \in sent : m.len = 0
       /\ \A m \in s2c : m.len = 0
       /\ conn.resp = NoResp
       /\ tc.response = <<>>

\* struct TcpClient
Client ==
    [started : BOOLEAN, snd_nxt : SeqNums, rcv_nxt : SeqNums,
     established : BOOLEAN, done : BOOLEAN, response : Seq(Byte)]

\* rcv_nxt counts the bytes received from the initial number of the connection
\* the client was opened with.
ClientInv ==
    /\ tc \in Client
    /\ sent \subseteq ClientSegment
    /\ tc.established /\ ~tc.done =>
         /\ Len(tc.response) <= PageLen
         /\ \E i \in Iss : tc.rcv_nxt = WAdd(i, Len(tc.response) + 1)

FetchInv ==
    IInv /\ SpentInv(PageLen) /\ FetchSegmentsInv /\ RequestInv /\ ClientInv /\ ResponseIsPrefix

-----------------------------------------------------------------------------
(* The page and the ring *)

LEMMA Page ==
    PageLen \in Totals /\ PageLen \in Nat \ {0} /\ PageLen + 2 < SeqHalf
  BY FetchAssumption, TcpAssumption

LEMMA UsIsClient == Us \in Clients
  BY FetchAssumption DEF Us

\* Places of two connections are equal only if the connections are, and then
\* the offsets are.
LEMMA SamePlace ==
    ASSUME NEW i \in Iss, NEW j \in Iss, NEW k \in Nat, NEW x \in Nat,
           k <= PageLen, x < PageLen
    PROVE  /\ WAdd(i, k + 1) = WAdd(j, x + 1) => i = j /\ k = x
           /\ WAdd(i, k + 1) # j
<1>1. /\ i \in SeqNums /\ j \in SeqNums
      /\ PageLen \in Nat /\ PageLen + 2 < SeqHalf
      /\ i # j => WSub(i, j) > PageLen + 1 /\ WSub(j, i) > PageLen + 1
  BY Page, FetchIssApart, TcpAssumption
<1>2. WAdd(i, k + 1) = WAdd(j, x + 1) => i = j /\ k = x
  BY <1>1, SeqHalfAssumption DEF WAdd, WSub, SeqNums, SeqMod
<1>3. WAdd(i, k + 1) # j
  BY <1>1, SeqHalfAssumption DEF WAdd, WSub, SeqNums, SeqMod
<1> QED  BY <1>2, <1>3

LEMMA AdvancePlace ==
    ASSUME NEW i \in SeqNums, NEW k \in Nat, NEW n \in Nat, k + n <= PageLen
    PROVE  WAdd(WAdd(i, k + 1), n) = WAdd(i, k + n + 1)
  BY Page, SeqHalfAssumption DEF WAdd, SeqNums, SeqMod

-----------------------------------------------------------------------------
(* The segments of the server *)

\* Segments that are new or were there before.
LEMMA SegmentsStep ==
    ASSUME FetchSegmentsInv,
           \A x \in s2c' \ s2c :
             /\ x.len > 0 => /\ x.rid = 1 /\ x.off + x.len <= PageLen
                             /\ \E i \in Iss : InPlace(x, i)
             /\ "SYN" \in x.flags => x.seq \in Iss
    PROVE  FetchSegmentsInv'
<1> SUFFICES ASSUME NEW x \in s2c'
             PROVE  /\ x.len > 0 => /\ x.rid = 1 /\ x.off + x.len <= PageLen
                                    /\ \E i \in Iss : InPlace(x, i)
                    /\ {"SYN", "ACK"} \subseteq x.flags => x.seq \in Iss
  BY DEF FetchSegmentsInv, InPlace
<1>1. CASE x \in s2c
  BY <1>1 DEF FetchSegmentsInv
<1>2. CASE x \notin s2c
  BY <1>2
<1> QED  BY <1>1, <1>2

-----------------------------------------------------------------------------
(* The client *)

LEMMA ClientSegType ==
    ASSUME NEW t \in Client, NEW f \in SUBSET Flags, NEW n \in {0, 1}
    PROVE  ClientSeg(t, f, n) \in ClientSegment /\ ClientSeg(t, f, n).len = n
  BY UsIsClient, FetchAssumption, TcpAssumption DEF ClientSeg, ClientSegment, Client

\* "accept in-order": what a payload segment does to the client.
LEMMA AcceptInv ==
    ASSUME FetchInv, tc.established, ~tc.done, NEW m \in s2c
    PROVE  LET t == AcceptPayload(tc, m)
           IN  /\ t \in Client
               /\ t.established /\ ~t.done /\ t.started = tc.started
               /\ Len(t.response) <= PageLen
               /\ \A i \in 1 .. Len(t.response) :
                    t.response[i] = [rid |-> 1, off |-> i - 1]
               /\ \E i \in Iss : t.rcv_nxt = WAdd(i, Len(t.response) + 1)
<1>1. /\ tc \in Client /\ Len(tc.response) <= PageLen
      /\ \E i \in Iss : tc.rcv_nxt = WAdd(i, Len(tc.response) + 1)
      /\ \A i \in 1 .. Len(tc.response) : tc.response[i] = [rid |-> 1, off |-> i - 1]
  BY DEF FetchInv, ClientInv, ResponseIsPrefix, Client, Byte
<1>2. CASE ~(m.len > 0 /\ m.seq = tc.rcv_nxt)
  BY <1>1, <1>2 DEF AcceptPayload
<1>3. CASE m.len > 0 /\ m.seq = tc.rcv_nxt
  <2> DEFINE s == tc.response
             p == [k \in 1 .. m.len |-> [rid |-> m.rid, off |-> m.off + k - 1]]
  <2>1. PICK i \in Iss : tc.rcv_nxt = WAdd(i, Len(s) + 1)
    BY <1>1
  <2>2. PICK j \in Iss : InPlace(m, j)
    BY <1>3 DEF FetchInv, FetchSegmentsInv
  <2>3. /\ m.rid = 1 /\ m.off + m.len <= PageLen /\ m.off \in Nat /\ m.len \in Nat
        /\ Len(s) \in Nat /\ s \in Seq(Byte) /\ PageLen \in Nat
    BY <1>1, <1>3, Page DEF FetchInv, FetchSegmentsInv, IInv, TypeOK, ServerSegment, Client
  <2>4. m.off < PageLen
    BY <1>3, <2>3
  <2>5. m.off = Len(s) /\ i = j
    <3>1. Len(s) <= PageLen
      BY <1>1
    <3> HIDE DEF s
    <3>2. WAdd(i, Len(s) + 1) # j
      BY <2>3, <2>4, <3>1, SamePlace
    <3>3. WAdd(i, Len(s) + 1) = WAdd(j, m.off + 1)
      BY <1>3, <2>1, <2>2, <3>2 DEF InPlace
    <3> QED  BY <2>3, <2>4, <3>1, <3>3, SamePlace
  <2>6. AcceptPayload(tc, m) = [tc EXCEPT !.rcv_nxt = WAdd(@, m.len), !.response = @ \o p]
    BY <1>3 DEF AcceptPayload
  <2>7. p = [k \in 1 .. m.len |-> [rid |-> 1, off |-> Len(s) + k - 1]]
    BY <2>3, <2>5
  <2>8. /\ s \o p \in Seq(Byte) /\ Len(s \o p) = Len(s) + m.len
        /\ \A k \in 1 .. Len(s \o p) : (s \o p)[k] = [rid |-> 1, off |-> k - 1]
    <3>1. \A k \in 1 .. Len(s) : s[k] = [rid |-> 1, off |-> k - 1]
      BY <1>1
    <3> HIDE DEF s, p
    <3> QED  BY <2>3, <2>7, <3>1, ExtendPrefix, Zenon
  <2>9. i \in SeqNums /\ m.len \in SeqNums
    BY <2>3, Page, TcpAssumption, SeqHalfAssumption DEF SeqNums, SeqMod
  <2>10. WAdd(tc.rcv_nxt, m.len) = WAdd(i, Len(s) + m.len + 1)
    BY <2>1, <2>3, <2>5, <2>9, AdvancePlace
  <2>11. WAdd(tc.rcv_nxt, m.len) \in SeqNums
    BY <1>1, <2>9, WrapType DEF Client
  <2> HIDE DEF p, s
  <2>12. LET t == AcceptPayload(tc, m)
         IN  /\ t \in Client /\ t.established /\ ~t.done /\ t.started = tc.started
             /\ t.response = s \o p /\ t.rcv_nxt = WAdd(tc.rcv_nxt, m.len)
    BY <1>1, <2>6, <2>8, <2>11 DEF Client, s
  <2> QED  BY <2>3, <2>5, <2>8, <2>10, <2>12
<1> QED  BY <1>2, <1>3

\* A segment arrives at the client.
LEMMA OnInnerInv ==
    ASSUME FetchInv, NEW m \in s2c, OnInner(m), s2c' \subseteq s2c,
           UNCHANGED <<conn, pump, routed>>
    PROVE  RequestInv' /\ ClientInv' /\ ResponseIsPrefix'
<1>0. /\ tc \in Client /\ sent \subseteq ClientSegment
      /\ \A i \in 1 .. Len(tc.response) : tc.response[i] = [rid |-> 1, off |-> i - 1]
  BY DEF FetchInv, ClientInv, ResponseIsPrefix
<1>1. CASE OnNothing(m)
  BY <1>1 DEF OnNothing, FetchInv, RequestInv, ClientInv, ResponseIsPrefix
<1>2. CASE OnSynAck(m)
  <2> DEFINE t == [tc EXCEPT !.rcv_nxt = WAdd(m.seq, 1), !.established = TRUE]
  <2>1. /\ sent' = sent \cup {ClientSeg(t, {"ACK"}, 0), ClientSeg(t, {"ACK"}, 1)}
        /\ tc' = [t EXCEPT !.snd_nxt = WAdd(@, 1)]
        /\ ~tc.established /\ {"SYN", "ACK"} \subseteq m.flags
    BY <1>2 DEF OnSynAck, IsSynAck
  <2>2. m.seq \in Iss /\ m.seq \in SeqNums /\ tc.response = <<>> /\ 1 \in SeqNums
    BY <2>1, TcpAssumption, SeqHalfAssumption
       DEF FetchInv, FetchSegmentsInv, RequestInv, SeqNums, SeqMod
  <2>3. WAdd(m.seq, 1) \in SeqNums /\ WAdd(tc.snd_nxt, 1) \in SeqNums
    BY <1>0, <2>2, WrapType DEF Client
  <2>4. t \in Client /\ t.snd_nxt = tc.snd_nxt
    BY <1>0, <2>3 DEF Client
  <2>5. sent' \subseteq ClientSegment
    BY <1>0, <2>1, <2>4, ClientSegType DEF Flags
  <2>6. /\ tc' \in Client /\ tc'.established /\ tc'.rcv_nxt = WAdd(m.seq, 1)
        /\ tc'.response = tc.response
    BY <1>0, <2>1, <2>3, <2>4 DEF Client
  <2>7. Len(tc'.response) = 0
    BY <2>2, <2>6
  <2>8. ClientInv'
    BY <2>2, <2>5, <2>6, <2>7, Page DEF ClientInv, Client, Byte
  <2> QED  BY <2>6, <2>7, <2>8 DEF RequestInv, ResponseIsPrefix
<1>3. CASE OnSegment(m)
  <2> DEFINE t   == AcceptPayload(tc, m)
             u   == [t EXCEPT !.rcv_nxt = WAdd(@, 1)]
             ack == IF m.len > 0 THEN {ClientSeg(t, {"ACK"}, 0)} ELSE {}
  <2>1. /\ ~tc.done
        /\ IF "FIN" \in m.flags
           THEN /\ sent' = sent \cup ack \cup {ClientSeg(u, {"ACK"}, 0),
                                             ClientSeg(u, {"FIN", "ACK"}, 0)}
                /\ tc' = [u EXCEPT !.done = TRUE]
           ELSE sent' = sent \cup ack /\ tc' = t
    BY <1>3 DEF OnSegment
  <2>2. /\ t \in Client /\ t.established = tc.established /\ ~t.done
        /\ \A i \in 1 .. Len(t.response) : t.response[i] = [rid |-> 1, off |-> i - 1]
        /\ t.established => /\ Len(t.response) <= PageLen
                            /\ \E i \in Iss : t.rcv_nxt = WAdd(i, Len(t.response) + 1)
        /\ ~t.established => t.response = tc.response
    <3>1. CASE tc.established
      BY <2>1, <3>1, AcceptInv
    <3>2. CASE ~tc.established
      <4>1. t = tc
        BY <3>2 DEF AcceptPayload, FetchInv, RequestInv
      <4> QED  BY <1>0, <2>1, <3>2, <4>1
    <3> QED  BY <3>1, <3>2
  <2> HIDE DEF t
  <2>3. 1 \in SeqNums
    BY TcpAssumption, SeqHalfAssumption DEF SeqNums, SeqMod
  <2>4. u \in Client /\ u.established = t.established /\ u.response = t.response
    BY <2>2, <2>3, WrapType DEF Client
  <2>5. /\ \A x \in ack : x \in ClientSegment /\ x.len = 0
        /\ ClientSeg(u, {"ACK"}, 0) \in ClientSegment
        /\ ClientSeg(u, {"ACK"}, 0).len = 0
        /\ ClientSeg(u, {"FIN", "ACK"}, 0) \in ClientSegment
        /\ ClientSeg(u, {"FIN", "ACK"}, 0).len = 0
    BY <2>2, <2>4, ClientSegType DEF Flags
  <2> HIDE DEF u, ack
  <2>6. /\ \A x \in sent' : x \in ClientSegment /\ (x \in sent \/ x.len = 0)
    BY <1>0, <2>1, <2>5
  <2>7. /\ tc' \in Client /\ tc'.established = tc.established
        /\ tc'.response = t.response /\ (~tc'.done => tc' = t)
    <3>1. CASE "FIN" \in m.flags
      BY <2>1, <2>2, <2>4, <3>1 DEF Client
    <3>2. CASE "FIN" \notin m.flags
      BY <2>1, <2>2, <3>2
    <3> QED  BY <3>1, <3>2
  <2>8. ClientInv'
    BY <2>2, <2>6, <2>7 DEF ClientInv, Client, Byte
  <2>9. RequestInv'
    BY <2>2, <2>6, <2>7 DEF FetchInv, RequestInv
  <2>10. ResponseIsPrefix'
    BY <2>2, <2>7 DEF ResponseIsPrefix
  <2> QED  BY <2>8, <2>9, <2>10
<1> QED  BY <1>1, <1>2, <1>3 DEF OnInner

-----------------------------------------------------------------------------
(* The steps *)

LEMMA StartStep ==
    ASSUME FetchInv, Start
    PROVE  FetchInv'
<1>1. /\ UNCHANGED <<conn, pump, routed, s2c>>
      /\ tc' = [tc EXCEPT !.started = TRUE, !.snd_nxt = WAdd(@, 1)]
      /\ sent' = sent \cup {ClientSeg(tc, {"SYN"}, 0)}
  BY DEF Start
<1>2. tc \in Client /\ 1 \in SeqNums
  BY TcpAssumption, SeqHalfAssumption
     DEF FetchInv, ClientInv, Client, Byte, SeqNums, SeqMod
<1>3. /\ tc' \in Client /\ tc'.rcv_nxt = tc.rcv_nxt /\ tc'.established = tc.established
      /\ tc'.done = tc.done /\ tc'.response = tc.response
  BY <1>1, <1>2, WrapType DEF Client
<1>4. ClientSeg(tc, {"SYN"}, 0) \in ClientSegment /\ ClientSeg(tc, {"SYN"}, 0).len = 0
  BY <1>2, ClientSegType DEF Flags
<1>5. IInv' /\ SpentInv(PageLen)' /\ FetchSegmentsInv'
  BY <1>1 DEF FetchInv, IInv, TypeOK, SendInv, Off, SpentInv, FetchSegmentsInv, InPlace
<1>6. RequestInv'
  BY <1>1, <1>3, <1>4 DEF FetchInv, RequestInv
<1>7. ClientInv' /\ ResponseIsPrefix'
  BY <1>1, <1>3, <1>4 DEF FetchInv, ClientInv, ResponseIsPrefix, Client, Byte
<1> QED  BY <1>5, <1>6, <1>7 DEF FetchInv

LEMMA FetchToClientStep ==
    ASSUME FetchInv, ToClient
    PROVE  FetchInv'
<1>1. PICK m \in s2c : OnInner(m) /\ Carried(s2c, m, s2c', path')
                       /\ UNCHANGED <<conn, pump, routed>>
  BY DEF ToClient
<1>2. s2c' \subseteq s2c
  BY <1>1 DEF Carried
<1>3. RequestInv' /\ ClientInv' /\ ResponseIsPrefix'
  BY <1>1, <1>2, OnInnerInv
<1>4. IInv' /\ SpentInv(PageLen)' /\ FetchSegmentsInv'
  BY <1>1, <1>2 DEF FetchInv, IInv, TypeOK, SendInv, Off, SpentInv, FetchSegmentsInv, InPlace
<1> QED  BY <1>3, <1>4 DEF FetchInv

LEMMA DropStep ==
    ASSUME FetchInv, Drop
    PROVE  FetchInv'
<1>1. /\ UNCHANGED <<conn, pump, routed, tc>>
      /\ sent' \subseteq sent /\ s2c' \subseteq s2c
  BY DEF Drop
<1>2. IInv' /\ SpentInv(PageLen)' /\ FetchSegmentsInv'
  BY <1>1 DEF FetchInv, IInv, TypeOK, SendInv, Off, SpentInv, FetchSegmentsInv, InPlace
<1> QED
  BY <1>1, <1>2 DEF FetchInv, RequestInv, ClientInv, ResponseIsPrefix

LEMMA FetchToServerStep ==
    ASSUME FetchInv, ToServer
    PROVE  FetchInv'
<1>1. PICK m \in sent :
        /\ Process(m) /\ Carried(sent, m, sent', path') /\ tc' = tc
        /\ conn'.resp = NoResp \/ conn'.resp.total = PageLen
  BY DEF ToServer
<1>2. m \in ClientSegment /\ sent' \subseteq sent
  BY <1>1 DEF FetchInv, ClientInv, Carried
<1>3. IInv'
  BY <1>1, <1>2, NextIInv DEF FetchInv, Next
<1>4. SpentInv(PageLen)'
  BY <1>1, <1>2, SpentProcess, Page DEF FetchInv
<1>5. \A x \in s2c' \ s2c : x.len = 0 /\ ("SYN" \in x.flags => x.seq \in Iss)
  BY <1>1, <1>2, ProcessSends
<1>6. FetchSegmentsInv'
  BY <1>5, SegmentsStep DEF FetchInv
<1>7. ASSUME ~tc.established
      PROVE  conn'.resp = NoResp
  <2>1. conn.resp = NoResp /\ m.len = 0
    BY <1>7 DEF FetchInv, RequestInv
  <2>2. CASE RecvSyn(m)
    BY <2>2 DEF RecvSyn, NoConn
  <2>3. CASE RecvRst(m) \/ RecvFin(m)
    BY <2>3 DEF RecvRst, RecvFin, NoConn
  <2>4. CASE RecvAck(m)
    <3>1. AckField(conn, m).resp \in {conn.resp, NoResp}
      BY <1>2, <2>4, AcceptedAck DEF FetchInv, RecvAck
    <3> QED  BY <2>1, <2>4, <3>1 DEF RecvAck
  <2>5. CASE RecvIgnored(m)
    BY <2>1, <2>5 DEF RecvIgnored, tcpVars
  <2>6. ~RecvData(m)
    BY <2>1 DEF RecvData
  <2> QED  BY <1>1, <2>3, <2>2, <2>4, <2>5, <2>6 DEF Process
<1>8. RequestInv'
  BY <1>1, <1>2, <1>5, <1>7 DEF FetchInv, RequestInv
<1>9. ClientInv' /\ ResponseIsPrefix'
  BY <1>1, <1>2 DEF FetchInv, ClientInv, ResponseIsPrefix
<1> QED  BY <1>3, <1>4, <1>6, <1>8, <1>9 DEF FetchInv

LEMMA ServerStepInv ==
    ASSUME FetchInv, ServerRuns
    PROVE  FetchInv'
<1>1. (PumpSegment \/ PumpDone \/ Tick \/ Elapse) /\ tc' = tc /\ sent' = sent
  BY DEF ServerRuns
<1>2. IInv'
  BY <1>1, NextIInv DEF FetchInv, Next, ServerStep
<1>3. SpentInv(PageLen)' /\ FetchSegmentsInv' /\ RequestInv'
  <2>1. CASE PumpSegment
    <3>1. SpentInv(PageLen)' /\ conn.resp # NoResp
      BY <2>1, SpentPump, Page DEF FetchInv, PumpSegment
    <3>2. FetchSegmentsInv'
      <4>1. \A x \in s2c' \ s2c : /\ x.rid = 1 /\ x.off + x.len <= PageLen
                                  /\ \E i \in Iss : InPlace(x, i)
                                  /\ "SYN" \notin x.flags
        BY <2>1, PumpSends, Page DEF FetchInv
      <4> QED  BY <4>1, SegmentsStep DEF FetchInv
    <3> QED  BY <1>1, <3>1, <3>2 DEF FetchInv, RequestInv
  <2>2. CASE PumpDone
    BY <1>1, <2>2
       DEF PumpDone, FetchInv, SpentInv, FetchSegmentsInv, RequestInv, InPlace, Off
  <2>3. CASE Tick
    <3>1. SpentInv(PageLen)'
      BY <2>3, SpentTick, Page DEF FetchInv
    <3>2. \A x \in s2c' \ s2c : x.len = 0 /\ "SYN" \notin x.flags
      BY <2>3, TickSends
    <3>3. FetchSegmentsInv'
      BY <3>2, SegmentsStep DEF FetchInv
    <3>4. conn.resp = NoResp => conn'.resp = NoResp
      BY <2>3 DEF Tick, TickWatchdog, TickGiveUp, TickRetransmit, ResetWithRst,
                  RtoFired, Outstanding, NoConn
    <3> QED  BY <1>1, <3>1, <3>2, <3>3, <3>4 DEF FetchInv, RequestInv
  <2>4. CASE Elapse
    <3>1. SpentInv(PageLen)'
      BY <2>4, SpentElapse, Page DEF FetchInv
    <3>2. conn'.resp = conn.resp /\ s2c' = s2c
      BY <2>4 DEF Elapse, FetchInv, IInv, TypeOK, Conn
    <3> QED  BY <1>1, <3>1, <3>2 DEF FetchInv, FetchSegmentsInv, RequestInv, InPlace
  <2> QED  BY <1>1, <2>1, <2>2, <2>3, <2>4
<1>4. ClientInv' /\ ResponseIsPrefix'
  BY <1>1 DEF FetchInv, ClientInv, ResponseIsPrefix
<1> QED  BY <1>2, <1>3, <1>4 DEF FetchInv

LEMMA FetchInitInv == FetchInit => FetchInv
<1> SUFFICES ASSUME FetchInit PROVE FetchInv
  OBVIOUS
<1>1. IInv
  BY InitIInv DEF FetchInit
<1>2. SpentInv(PageLen) /\ FetchSegmentsInv
  BY DEF FetchInit, Init, SpentInv, FetchSegmentsInv, NoConn, NoResp
<1>3. 0 \in SeqNums /\ <<>> \in Seq(Byte)
  BY TcpAssumption, SeqHalfAssumption DEF SeqNums, SeqMod
<1>4. RequestInv /\ ClientInv /\ ResponseIsPrefix
  BY <1>3, FetchAssumption
     DEF FetchInit, Init, NewClient, RequestInv, ClientInv, ResponseIsPrefix, Client, NoConn
<1> QED  BY <1>1, <1>2, <1>4 DEF FetchInv

LEMMA FetchNextInv == FetchInv /\ [FetchNext]_fetchVars => FetchInv'
<1> SUFFICES ASSUME FetchInv, [FetchNext]_fetchVars PROVE FetchInv'
  OBVIOUS
<1>1. CASE UNCHANGED fetchVars
  <2>1. IInv' /\ SpentInv(PageLen)' /\ FetchSegmentsInv'
    BY <1>1 DEF fetchVars, FetchInv, IInv, TypeOK, SendInv, Off, SpentInv, FetchSegmentsInv,
                InPlace
  <2> QED  BY <1>1, <2>1 DEF fetchVars, FetchInv, RequestInv, ClientInv, ResponseIsPrefix
<1> QED
  BY <1>1, StartStep, FetchToClientStep, FetchToServerStep, DropStep, ServerStepInv DEF FetchNext

\* Whatever the tunnel loses, repeats or reorders, what TcpClient has collected
\* is a prefix of the page: on_inner takes no byte twice and skips none.
THEOREM FetchedIsPrefix == FetchSpec => []ResponseIsPrefix
<1>1. FetchInv => ResponseIsPrefix
  BY DEF FetchInv
<1>2. FetchSpec => []FetchInv
  BY FetchInitInv, FetchNextInv, PTL DEF FetchSpec
<1> QED  BY <1>1, <1>2, PTL
=============================================================================
